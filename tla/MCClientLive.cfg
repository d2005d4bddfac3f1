SPECIFICATION FairSpec
CONSTANTS
    NoThread = NoThread
    MaxConns = 2
    Retries = 1
    EarlyHangUps = {1}
    Closings = {}
PROPERTIES
    ExitingEnds
    LostIsNoticed
CHECK_DEADLOCK FALSE
