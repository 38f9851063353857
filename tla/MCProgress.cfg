SPECIFICATION FairSpec

CONSTANTS
    Jobs = {j1}
    Workers = {w1, w2}
    Clients = {c1}
    MaxAttempts = 1
    NULL = NULL
    HandlersFitLease = TRUE

INVARIANTS
    OwnerExecutes

PROPERTIES
    WorkersLoseNoUpdate
    EveryJobSettles
    RecoveryIsNotStarved
