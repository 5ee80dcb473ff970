CONSTANTS
    t1 = t1
    t2 = t2
    t3 = t3
    t4 = t4
    r1 = r1
    r2 = r2
    s1 = s1
    NONE = NONE
    Threads <- TwoThreads
    Routers <- OneRouter
    Stoppers <- OneStopper
    MAX_PROC_CONCURRENT = 1
    LOOP_GUARD = 2
SPECIFICATION FairSpec
PROPERTY StopReturns
CHECK_DEADLOCK FALSE
