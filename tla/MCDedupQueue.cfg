CONSTANTS
    Producer = {p1, p2}
    Consumer = {c1, c2, c3}
    NoThread = NoThread
    NoItem = NoItem
    Size = 2
    Limit = 2
    PerProducer = 4
    MaxSpurious = 1
SPECIFICATION FairSpec
INVARIANTS
    FirstInFirstOut
PROPERTIES ImplementsBatchChannel EveryItemIsDelivered
\* The threads end.
CHECK_DEADLOCK FALSE
