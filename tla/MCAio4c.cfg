SPECIFICATION FairSpec
CONSTANTS
    Users <- MCUsers
    Threads <- MCThreads
    MaxThreads = 3
    MaxLogs = 3
    MaxFailures = 1
INVARIANTS
    PrintedOnceInOrder
    NothingQueuedAtEnd
    LateLogIsSafe
PROPERTIES
    EndReturns
CHECK_DEADLOCK FALSE
