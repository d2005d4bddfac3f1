SPECIFICATION Spec
CONSTANTS
    NoThread = NoThread
    MaxConns = 3
    Retries = 1
    EarlyHangUps = {1}
    Closings = {}
INVARIANTS
    RetriesBounded
CHECK_DEADLOCK FALSE
