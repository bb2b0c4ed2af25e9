SPECIFICATION Spec
CONSTANTS
    Threads = {t1, t2, t3}
    First = t1
    MaxConns = 2
SYMMETRY Symmetric
CHECK_DEADLOCK FALSE
INVARIANTS
    TypeOK
    NoFalsePass
    NoUseAfterShutdown
    RefusedAfterFailure
