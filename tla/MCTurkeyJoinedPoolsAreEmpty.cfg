CONSTANTS
    Client = {c1, c2}
    Resources = 3
    NumPools = 1
    DefaultThreads = 1
SPECIFICATION Spec
INVARIANT JoinedPoolsAreEmpty
\* The clients end and the server waits for ever.
CHECK_DEADLOCK FALSE
