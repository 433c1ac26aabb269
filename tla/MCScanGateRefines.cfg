SPECIFICATION Spec
CONSTANTS
    Namespaces = {"n"}
    Digests = {"d1"}
    Images = {"a", "b"}
    Repos = {"a", "b"}
    RepoOf <- OwnRepo
    Pods = {p}
    PodNamespace <- OneNamespace
    AquaGate = aquaGate
    OtherGates = {}
    PodImages <- SingleImages
    Replicas = {r}
    NoNamespace = NoNamespace
    ScanNamespace = NoNamespace
    IncludedNamespaces = {}
    ExcludedNamespaces = {}
    PinnedImages = {}
    DigestsOf <- SharedDigest
    MaxPodVersions = 2
    MaxScanVersions = 3
    MaxTagMoves = 0
    MaxRestarts = 0
    AquaForgets = TRUE
    WebhookMayFail = TRUE
    ExcludedImages = {"b"}
PROPERTIES
    GateSpec
    ScannerSpec
INVARIANTS
    NoUnvettedStart
CHECK_DEADLOCK FALSE
