SPECIFICATION Spec
CONSTANTS
    k1 = k1
    k2 = k2
    k3 = k3
    s1 = s1
    s2 = s2
    s3 = s3
    NoKey = NoKey
    NoFd = NoFd
    Keys <- MCKeys
    Fds <- MCFds
    MaxCount = 2
    PipeSize = 1
    MidSweep = FALSE
INVARIANT
    LockGivenBack
