SPECIFICATION Spec

CONSTANTS
    Jobs = {j1}
    Workers = {w1}
    Clients = {c1}
    MaxAttempts = 1
    NULL = NULL
    HandlersFitLease = TRUE

PROPERTIES
    CancelsOnlyPending
