SPECIFICATION Spec
CONSTANTS
    c1 = c1
    c2 = c2
    a = a
    b = b
    NoConn = NoConn
    Consumers <- MCConsumers
    Conns <- MCConns
    Types <- MCTypes
    RemovedType = "TASK"
    MaxItems = 3
    WaitMayFail = FALSE
PROPERTY
    DequeueFailsOnlyWhenEmpty
