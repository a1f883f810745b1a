CONSTANTS
    x = x
    y = y
    None = None
    Inputs <- Files
    InitialAnchors = 4
    NThreads = 3
    MAX_THREADS_PER_QUEUE = 2
    QUEUE_SIZE = 2
    MAX_PER_FETCH = 1
    ITEM_PER_FETCH = 2
    ITEM_PER_INSERT = 3
SPECIFICATION FairSpec
INVARIANTS
    TypeOK
    WrittenInOrder
    DataBeforeFingerprint
    EnqueueToOpenQueue
    NothingIsLeftBehind
    ReferencesCounted
PROPERTIES
    ImplementsFlow
    EncodeReturns
\* The threads end, or wait for each other as EncodeReturns says.
CHECK_DEADLOCK FALSE
