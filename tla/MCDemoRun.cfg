SPECIFICATION Spec

CONSTANTS
    Sleep = {}
    FailOnce = {f1}
    FailAlways = {a1}
    RandomFail = {}
    MaxOverwritten = 1

INVARIANTS
    TypeOK
    ExpectedMix
    MetricsFitTogether

\* The script ends, the workers may find nothing more to do.
CHECK_DEADLOCK FALSE
