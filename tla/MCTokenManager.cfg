SPECIFICATION FairSpec
CONSTANTS
    Callers = {c1, c2, c3}
    TokenValidity = 2
    MaxTime = 7
INVARIANTS
    TypeOK
    TokenNeverUsedExpired
    OneFetchPerExpiry
PROPERTIES
    ImplementsContract
    EveryCallReturns
CHECK_DEADLOCK FALSE
