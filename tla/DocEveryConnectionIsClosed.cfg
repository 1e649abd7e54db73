\* A connection dropped by a failed call outlives close().
CONSTANTS
    Callers = {c1}
    FailFastAfter = 2
    InitialDelay = 4
    MaxDelay = 5
    FactorNum = 6
    FactorDen = 5
    MaxGeneration = 2
    MaxTime = 0
SPECIFICATION Spec
CHECK_DEADLOCK FALSE
INVARIANTS
    EveryConnectionIsClosed
