SPECIFICATION AuditSpec

CONSTANTS
    Jobs = {j1}
    Workers = {w1}
    Clients = {c1, c2}
    MaxAttempts = 2
    NULL = NULL
    HandlersFitLease = FALSE

SYMMETRY Symmetry

INVARIANTS
    TypeOK
    RunningIsRecoverable
    FinishedIsUnlocked
    ColumnsMoveTogether
    TimelineAgrees
    DuplicateOnlyAfterRetry
