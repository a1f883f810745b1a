CONSTANTS
    x = x
    y = y
    None = None
    Inputs <- Unique
    InitialAnchors = 2
    Fragment = Fragment
    Reorder = Reorder
    Refiners = {r1}
    Deduplicators = {d1}
    Compressors = {c1}
    QUEUE_SIZE = 8
    MAX_PER_FETCH = 2
    ITEM_PER_FETCH = 2
    ITEM_PER_INSERT = 1
    MaxRecords = 4
SPECIFICATION Spec
INVARIANT OutputIsComplete
\* The tasks end, or an assertion does.
CHECK_DEADLOCK FALSE
