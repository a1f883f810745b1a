SPECIFICATION FairSpec
CONSTANTS
    NumTasks = 2
    MaxPoolSize = 2
    CpuCount = 2
PROPERTY LoopEnds
\* A job ends, or waits for ever once a task has raised.
CHECK_DEADLOCK FALSE
