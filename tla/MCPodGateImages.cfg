SPECIFICATION Spec
CONSTANTS
    Namespaces = {"n", "s"}
    Digests = {"d1", "d3"}
    Images = {"a", "b"}
    Repos = {"a", "b"}
    RepoOf <- OwnRepo
    Pods = {p1, p2}
    PodNamespace <- OneNamespace
    AquaGate = aquaGate
    OtherGates = {}
    PodImages <- AllImages
    Replicas = {r}
    NoNamespace = NoNamespace
    ScanNamespace = "s"
    IncludedNamespaces = {"n"}
    ExcludedNamespaces = {"n"}
    PinnedImages = {"b"}
    DigestsOf <- DistinctDigests
    ScanSteps = {"Registered", "Error"}
    MaxPodVersions = 2
    MaxScanVersions = 1
    MaxTagMoves = 0
    MaxRestarts = 1
INVARIANTS
    TypeOK
    ReleaseJustified
    NoLostWakeup
CHECK_DEADLOCK FALSE
SYMMETRY PodSymmetry
