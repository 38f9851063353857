SPECIFICATION Spec

CONSTANTS
    Jobs = {j1, j2}
    Workers = {w1, w2}
    Clients = {}
    MaxAttempts = 2
    NULL = NULL
    HandlersFitLease = FALSE

SYMMETRY Symmetry

INVARIANTS
    PointerIsOwner
    BudgetOnlyBrokenByRecovery

PROPERTIES
    FollowsLifecycle
