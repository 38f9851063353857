SPECIFICATION Spec

CONSTANTS
    BatchSize = 2
    Limit = 1
    MaxOthers = 1

INVARIANTS
    TypeOK
    NothingMissed
    ReportsEndedBatch
    NoFalseTimeout

\* The script ends.
CHECK_DEADLOCK FALSE
