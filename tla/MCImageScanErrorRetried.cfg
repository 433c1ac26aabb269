SPECIFICATION FairSpec
CONSTANTS
    Namespaces = {"n"}
    Images = {"a"}
    Repos = {"a"}
    Digests = {"d"}
    RepoOf <- MCRepoOf
    Replicas = {r1}
    MaxScanVersions = 3
    MaxRestarts = 0
    AquaForgets = FALSE
PROPERTIES
    ErrorIsRetried
CHECK_DEADLOCK FALSE
