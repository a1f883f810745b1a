SPECIFICATION FairSpec
CONSTANTS
    NumTasks = 4
    MaxPoolSize = 3
    CpuCount = 2
INVARIANTS
    CountersAgree
    FinishedIsQuiet
    Gated
PROPERTY EndsUnlessRaised
\* A job ends, or waits for ever once a task has raised.
CHECK_DEADLOCK FALSE
