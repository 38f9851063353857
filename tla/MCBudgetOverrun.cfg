SPECIFICATION Spec

CONSTANTS
    Jobs = {j1}
    Workers = {w1, w2}
    Clients = {}
    MaxAttempts = 1
    NULL = NULL
    HandlersFitLease = TRUE

INVARIANTS
    AttemptsWithinMax
