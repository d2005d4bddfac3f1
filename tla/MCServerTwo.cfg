SPECIFICATION Spec
CONSTANTS
    a = a
    b = b
    NoConn = NoConn
    NoThread = NoThread
    Conns <- TwoConns
    Reactions = {}
    MaxData = 0
    PipeSize = 1
    OtherTraffic = FALSE
INVARIANTS
    NoLostReaderWakeUp
    LoadExact
CHECK_DEADLOCK FALSE
