SPECIFICATION Spec
CONSTANTS
    a = a
    b = b
    NoConn = NoConn
    NoThread = NoThread
    Conns <- OneConn
    Reactions <- EveryReaction
    MaxData = 1
    PipeSize = 2
    OtherTraffic = FALSE
INVARIANT
    NotUsedOnceFreed
CHECK_DEADLOCK FALSE
