CONSTANTS
    c1 = c1
    c2 = c2
    r1 = r1
    r2 = r2
    s1 = s1
    p1 = p1
    p2 = p2
    EMPTY = EMPTY
    MALFORMED = MALFORMED
    TORN = TORN
    NOTHING = NOTHING
    Clients <- TwoClients
    Routers <- OneRouter
    Slots <- OneSlot
    Procs <- TwoProcs
    Oversized <- NoneOversized
    MaxCalls = 2
SPECIFICATION Spec
PROPERTY ImplementsSlotStore
\* the clients stop after MaxCalls calls
CHECK_DEADLOCK FALSE
