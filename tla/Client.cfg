\* Two callers, dials that fail, drops, resets and shutdown.
CONSTANTS
    Callers = {c1, c2}
    FailFastAfter = 2
    InitialDelay = 4
    MaxDelay = 5
    FactorNum = 6
    FactorDen = 5
    MaxGeneration = 3
    MaxTime = 2
SPECIFICATION Spec
CHECK_DEADLOCK FALSE
INVARIANTS
    TypeOK
    SingleDial
    AdoptedIsCurrent
    NoOrphans
    ConnectingMeansDialling
PROPERTIES
    FailFastHolds
    LateLossIsIgnored
    ShutdownIsFinal
    CallsAreAnswered
    ShutdownCompletes
