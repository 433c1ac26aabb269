SPECIFICATION Spec
CONSTANTS
    Namespaces = {"n"}
    Images = {"a", "b"}
    Repos = {"a", "b"}
    Digests = {"d"}
    RepoOf <- MCRepoOf
    Replicas = {r1, r2}
    MaxScanVersions = 3
    MaxRestarts = 0
    AquaForgets = FALSE
SYMMETRY ReplicaSymmetry
INVARIANTS
    TypeOK
    RegisteredImpliesFound
    ErrorCountedOnce
    NoForgottenScan
PROPERTIES
    NoVerdictLost
    ImplementsLifecycle
CHECK_DEADLOCK FALSE
