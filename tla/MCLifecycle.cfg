SPECIFICATION FairSpec
CONSTANTS
    Threads <- MCThreads
    MaxThreads = 9
    NbPipes = 2
    MaxFailures = 1
INVARIANTS
    TypeOK
    JoinFreesEnded
    MemoryKept
    ChildrenEndFirst
    TableFits
PROPERTIES
    ThreadSpec
    ShutdownEnds
CHECK_DEADLOCK FALSE
