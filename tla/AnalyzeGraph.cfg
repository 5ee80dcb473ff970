CONSTANTS
    Slots <- ThreeSlots
    Programs <- CallGraphs
    Root = 0
    MaxCalls = 2
SPECIFICATION FairSpec
INVARIANTS
    TypeOK
    AnalyzedOnce
    CallsResolve
    FreedExactly
PROPERTY Terminates
\* the thread goes on to free the procedure
CHECK_DEADLOCK FALSE
