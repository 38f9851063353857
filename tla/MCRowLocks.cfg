SPECIFICATION Spec

CONSTANTS
    Jobs = {j1, j2}
    Workers = {w1, w2, w3}
    Clients = {c1}
    NULL = NULL
    ScansFitLease = TRUE

SYMMETRY Symmetry

INVARIANTS
    TypeOK
    NoDeadlock
    ScansClearDifferentWorkers
