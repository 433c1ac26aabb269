SPECIFICATION FairSpec
CONSTANTS
    Namespaces = {"n"}
    Images = {"a"}
    Repos = {"a"}
    Digests = {"d"}
    RepoOf <- MCRepoOf
    Replicas = {r1, r2}
    MaxScanVersions = 2
    MaxRestarts = 1
    AquaForgets = TRUE
INVARIANTS
    NoForgottenScan
PROPERTIES
    EveryScanDecided
CHECK_DEADLOCK FALSE
