SPECIFICATION Spec

CONSTANTS
    Workers = {w1, w2}
    NumJobs = 2
    MaxAttempts = 3
    NULL = NULL
    PollInterval = 1
    LeaseSeconds = 1
    RecoveryInterval = 2
    MaxHandler = 2
    BaseDelay = 2
    MaxDelay = 3
    StaleSeconds = 3

SYMMETRY Symmetry

INVARIANTS
    TypeOK
    RecoveredInTime
    IdleWorkerTakesDueJobs
    PriorityKept
    BackoffWithinBounds
    StaleMeansDown

PROPERTIES
    FollowsLifecycle
