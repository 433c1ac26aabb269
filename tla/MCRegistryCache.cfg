SPECIFICATION Spec
CONSTANTS
    m = m
    t = t
    manager = manager
    trigger = trigger
    Callers = {m, t}
    Clients = {manager, trigger}
    ClientOf <- Owner
    Registries <- Looked
    Lists <- Configurations
    Names = {"hub", "gcr"}
    FileCacheEnabled = TRUE
    CacheTTL = 2
    LocalDelay = 0
    MaxTime = 5
SYMMETRY ProcessSymmetry
INVARIANTS
    TypeOK
PROPERTIES
    ImplementsContract
    MemoryNeverGoesBack
CHECK_DEADLOCK FALSE
