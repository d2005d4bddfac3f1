SPECIFICATION FairSpec
CONSTANTS
    c1 = c1
    c2 = c2
    a = a
    b = b
    NoConn = NoConn
    Consumers <- MCConsumers
    Conns <- MCConns
    Types <- MCTypes
    RemovedType = "TASK"
    MaxItems = 3
    WaitMayFail = TRUE
INVARIANTS
    TypeOK
    NodesRecycled
    Delivered
    NobodyLeftAsleep
PROPERTY
    EventuallyServed
    Implements
CHECK_DEADLOCK FALSE
