SPECIFICATION FairSpec
CONSTANTS
    Namespaces = {"n"}
    Digests = {"d1"}
    Images = {"a"}
    Repos = {"a"}
    RepoOf <- OwnRepo
    Pods = {p}
    PodNamespace <- OneNamespace
    AquaGate = aquaGate
    OtherGates = {}
    PodImages <- SingleImages
    Replicas = {r}
    NoNamespace = NoNamespace
    ScanNamespace = NoNamespace
    IncludedNamespaces = {}
    ExcludedNamespaces = {}
    PinnedImages = {}
    DigestsOf <- DistinctDigests
    MaxPodVersions = 3
    MaxScanVersions = 1
    MaxTagMoves = 0
    MaxRestarts = 1
    AquaForgets = FALSE
    WebhookMayFail = FALSE
    ExcludedImages = {}
INVARIANTS
    NoUnvettedStart
PROPERTIES
    ImplementsVetting
    EveryPodDecided
CHECK_DEADLOCK FALSE
