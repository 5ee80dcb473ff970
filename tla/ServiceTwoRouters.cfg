CONSTANTS
    c1 = c1
    c2 = c2
    r1 = r1
    r2 = r2
    s1 = s1
    p1 = p1
    p2 = p2
    EMPTY = EMPTY
    MALFORMED = MALFORMED
    TORN = TORN
    NOTHING = NOTHING
    Clients <- TwoClients
    Routers <- TwoRouters
    Slots <- OneSlot
    Procs <- TwoProcs
    Oversized <- OneOversized
    MaxCalls = 2
SPECIFICATION Spec
INVARIANTS
    TypeOK
    AtMostOnce
PROPERTIES
    OnlyDeleteRemoves
    FittingPushStored
\* the clients stop after MaxCalls calls
CHECK_DEADLOCK FALSE
