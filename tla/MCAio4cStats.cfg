SPECIFICATION Spec
CONSTANTS
    Users <- MCUsers
    Threads <- MCThreads
    MaxThreads = 3
    MaxLogs = 0
    MaxFailures = 0
INVARIANT StatsReachStderr
CHECK_DEADLOCK FALSE
