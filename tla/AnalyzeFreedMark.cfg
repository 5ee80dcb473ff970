CONSTANTS
    Slots <- ThreeSlots
    Programs <- CallGraphs
    Root = 0
    MaxCalls = 2
SPECIFICATION Spec
INVARIANT NoFreedMarkRead
\* the thread goes on to free the procedure
CHECK_DEADLOCK FALSE
