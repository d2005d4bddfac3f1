SPECIFICATION Spec
CONSTANTS
    Threads <- MCThreads
    MaxThreads = 9
    NbPipes = 2
    MaxFailures = 1
INVARIANT
    LinkedMeansInitialized
CHECK_DEADLOCK FALSE
