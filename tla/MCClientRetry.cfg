SPECIFICATION Spec
CONSTANTS
    NoThread = NoThread
    MaxConns = 2
    Retries = 1
    EarlyHangUps = {}
    Closings = {}
PROPERTIES
    RetriesLostOnly
CHECK_DEADLOCK FALSE
