SPECIFICATION FairSpec
CONSTANTS
    Thr = {t1, t2}
    Sock = {s1, s2}
    NoSock = NoSock
    NoThr = NoThr
    MaxJobs = 1
INVARIANTS
    ClosedOnce
    FreshStart
    StopInTimeHasSocket
PROPERTIES
    WindsDown
    PortSpec
    StoppedEnds
CHECK_DEADLOCK FALSE
