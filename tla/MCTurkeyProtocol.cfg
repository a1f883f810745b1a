CONSTANTS
    Client = {c1, c2}
    Resources = 3
    NumPools = 2
    DefaultThreads = 1
SPECIFICATION FairSpec
INVARIANTS
    LastWordIsCurrent
    StopIsLastWord
    StartReplyIsSwallowed
    GhostsNeverSentStop
    Lifecycle
PROPERTIES ImplementsShareAllocation
    StopReleasesResources
    StopExitsOrIsDiscarded
\* The clients end and the server waits for ever.
CHECK_DEADLOCK FALSE
