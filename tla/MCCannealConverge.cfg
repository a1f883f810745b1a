SPECIFICATION FairSpec
CONSTANTS
    Thread = {t1, t2}
    ChipSize = 3
    Pins <- Ring
    Moves = 1
    StepLimits <- NoLimit
    ConvergedAt = 1
    ATOMIC_NULL = ATOMIC_NULL
PROPERTY RunsUntilConverged
\* the counterexample ends where the program does not move any more
CHECK_DEADLOCK FALSE
