SPECIFICATION FairSpec
CONSTANTS
    Thread = {t1, t2}
    ChipSize = 3
    Pins <- Ring
    Moves = 1
    StepLimits <- AllLimits
    ConvergedAt = 1
    ATOMIC_NULL = ATOMIC_NULL
INVARIANTS CheckedOutByOne SameTemperature
PROPERTIES ImplementsPlacement RunEnds
\* without NSTEPS the threads may stop for good in pthread_barrier_wait (RunEnds)
CHECK_DEADLOCK FALSE
