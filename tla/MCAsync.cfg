SPECIFICATION FairAsyncSpec
CONSTANTS
    Producers = {p1, p2, task}
    Task = task
    Consumer = consumer
    Nodes = {n1, n2}
    Stub = stub
    Null = null
INVARIANTS
    NoWriteToReleasedNode
    NoLostWakeup
PROPERTIES
    RefinesFifo
    TerminateDrains
    EveryNodeHandled
CHECK_DEADLOCK FALSE
