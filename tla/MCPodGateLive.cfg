SPECIFICATION FairSpec
CONSTANTS
    Namespaces = {"n"}
    Digests = {"d1", "d2"}
    Images = {"a"}
    Repos = {"a"}
    RepoOf <- OwnRepo
    Pods = {p}
    PodNamespace <- OneNamespace
    AquaGate = aquaGate
    OtherGates = {}
    PodImages <- SingleImages
    Replicas = {r}
    NoNamespace = NoNamespace
    ScanNamespace = NoNamespace
    IncludedNamespaces = {}
    ExcludedNamespaces = {}
    PinnedImages = {}
    DigestsOf <- DistinctDigests
    ScanSteps = {"Registered"}
    MaxPodVersions = 3
    MaxScanVersions = 3
    MaxTagMoves = 2
    MaxRestarts = 0
INVARIANTS
    NoLostWakeup
PROPERTIES
    PassedPodsReleased
    ImplementsContract
CHECK_DEADLOCK FALSE
