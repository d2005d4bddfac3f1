SPECIFICATION Spec
CONSTANTS
    a = a
    b = b
    NoConn = NoConn
    NoThread = NoThread
    Conns <- OneConn
    Reactions <- EveryReaction
    MaxData = 1
    PipeSize = 2
    OtherTraffic = TRUE
PROPERTY
    ConnectedWhenAccepted
CHECK_DEADLOCK FALSE
