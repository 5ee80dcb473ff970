CONSTANTS
    Slots <- RootAndSlots
    Programs <- ShortPrograms
    Root = 0
    RootLength = 2
    CalleeLength = 3
    MAX_PROC_RECURSION_DEPTH = 1
    MaxKey = 2
SPECIFICATION FairSpec
INVARIANTS
    TypeOK
    DepthCountsFrames
    OwnKeyBoundsDepth
    LastCallsNeverNest
PROPERTIES
    ImplementsSemantics
    Terminates
\* a procedure ends
CHECK_DEADLOCK FALSE
