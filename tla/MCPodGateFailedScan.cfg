SPECIFICATION FairSpec
CONSTANTS
    Namespaces = {"n"}
    Digests = {"d1"}
    Images = {"a"}
    Repos = {"a"}
    RepoOf <- OwnRepo
    Pods = {p}
    PodNamespace <- OneNamespace
    AquaGate = aquaGate
    OtherGates = {}
    PodImages <- SingleImages
    Replicas = {r}
    NoNamespace = NoNamespace
    ScanNamespace = NoNamespace
    IncludedNamespaces = {}
    ExcludedNamespaces = {}
    PinnedImages = {}
    DigestsOf <- DistinctDigests
    ScanSteps = {"Error"}
    MaxPodVersions = 2
    MaxScanVersions = 1
    MaxTagMoves = 0
    MaxRestarts = 0
PROPERTIES
    FailedPodsReleased
CHECK_DEADLOCK FALSE
