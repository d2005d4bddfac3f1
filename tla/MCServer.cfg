SPECIFICATION FairSpec
CONSTANTS
    a = a
    b = b
    NoConn = NoConn
    NoThread = NoThread
    Conns <- OneConn
    Reactions <- EveryReaction
    MaxData = 1
    PipeSize = 2
    OtherTraffic = TRUE
INVARIANTS
    TypeOK
    NoLostReaderWakeUp
    LoadExact
    ToldOnce
    ConnectedWhenHandled
    GoneLast
PROPERTIES
    ShutdownCompletes
    EventuallyFreed
CHECK_DEADLOCK FALSE
