SPECIFICATION Spec
CONSTANTS
    Namespaces = {"n"}
    Digests = {"d1"}
    Images = {"a", "b"}
    Repos = {"a", "b"}
    RepoOf <- OwnRepo
    Pods = {p1, p2}
    PodNamespace <- OneNamespace
    AquaGate = aquaGate
    OtherGates = {}
    PodImages <- SingleImages
    Replicas = {r}
    NoNamespace = NoNamespace
    ScanNamespace = NoNamespace
    IncludedNamespaces = {}
    ExcludedNamespaces = {}
    PinnedImages = {}
    DigestsOf <- SharedDigest
    ScanSteps = {"Registered"}
    MaxPodVersions = 2
    MaxScanVersions = 1
    MaxTagMoves = 0
    MaxRestarts = 0
INVARIANTS
    NoLostWakeup
CHECK_DEADLOCK FALSE
