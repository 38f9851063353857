SPECIFICATION FairSpec

CONSTANTS
    Requests = {r1, r2, r3}
    Keys = {k1}
    Bodies = {b1, b2}
    NULL = NULL

INVARIANTS
    TypeOK
    OneJobPerKey
    RejectedFindsWinner

PROPERTIES
    ActsAtomically
    EveryRequestAnswered

\* Finitely many requests: all of them end.
CHECK_DEADLOCK FALSE
