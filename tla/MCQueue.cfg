CONSTANTS
    p1 = p1
    p2 = p2
    c1 = c1
    c2 = c2
    c3 = c3
    d1 = d1
    d2 = d2
    d3 = d3
    shut = shut
    Producers = {p1, p2}
    Consumers = {c1, c2, c3}
    Closer = shut
    Data = {d1, d2, d3}
    NoThread = NoThread
    NoData = NoData
SPECIFICATION Spec
INVARIANTS
    SizeMatchesList
    NoLostWakeup
    ClosedLeavesNoSleeper
    NullMeansDrained
PROPERTIES
    ShutdownReleasesConsumers
    EveryPushDelivered
    ImplementsFifoQueue
