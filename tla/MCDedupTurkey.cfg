CONSTANTS
    x = x
    y = y
    None = None
    Inputs <- Files
    InitialAnchors = 2
    Fragment = Fragment
    Reorder = Reorder
    Refiners = {r1, r2}
    Deduplicators = {d1, d2}
    Compressors = {c1}
    QUEUE_SIZE = 2
    MAX_PER_FETCH = 2
    ITEM_PER_FETCH = 2
    ITEM_PER_INSERT = 2
    MaxRecords = 4
SPECIFICATION FairSpec
INVARIANTS
    TypeOK
    DataBeforeFingerprint
    OneOwner
    ReferencesCounted
PROPERTIES
    
    ImplementsFlow
\* The tasks end, or an assertion does.
CHECK_DEADLOCK FALSE
