CONSTANTS
    t1 = t1
    t2 = t2
    r1 = r1
    r2 = r2
    s1 = s1
    NONE = NONE
    ORPHANED = ORPHANED
    Tasks <- TwoTasks
    Routers <- TwoRouters
    Stoppers <- OneStopper
    MAX_PROC_CONCURRENT = 1
    LOOP_GUARD = 2
SPECIFICATION FairSpec
INVARIANTS
    TypeOK
    TableExact
    ResourcesLive
PROPERTY RequestAnswered
\* everything stops when the port halts
CHECK_DEADLOCK FALSE
