SPECIFICATION FairSpec
CONSTANTS
    Users <- MCUsers
    Threads <- MCThreads
    MaxThreads = 3
    MaxLogs = 0
    MaxFailures = 0
PROPERTY StopObeyed
CHECK_DEADLOCK FALSE
