SPECIFICATION Spec
CONSTANTS
    NoThread = NoThread
    MaxConns = 2
    Retries = 1
    EarlyHangUps = {1}
    Closings <- EitherWay
INVARIANTS
    TypeOK
    RetriesCounted
    OnlyEarlyBreaks
CHECK_DEADLOCK FALSE
