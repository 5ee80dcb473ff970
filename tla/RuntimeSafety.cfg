CONSTANTS
    t1 = t1
    t2 = t2
    t3 = t3
    t4 = t4
    r1 = r1
    r2 = r2
    s1 = s1
    NONE = NONE
    Threads <- FourThreads
    Routers <- TwoRouters
    Stoppers <- OneStopper
    MAX_PROC_CONCURRENT = 2
    LOOP_GUARD = 2
SPECIFICATION Spec
INVARIANTS
    TypeOK
    TableBound
    TableExact
    ResourcesLive
PROPERTIES
    OnlyOwnEntryRemoved
SYMMETRY Symmetry
\* the process may die in StopPickNull or stop for ever in a join
CHECK_DEADLOCK FALSE
