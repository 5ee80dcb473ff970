CONSTANTS
    r1 = r1
    r2 = r2
    t1 = t1
    s1 = s1
    NOTHING = NOTHING
    Length <- StringLength
    CSP_BUFFER_SIZE = 22
    Routers <- TwoRouters
    Threads <- OneThread
    Slots <- OneSlot
    Procedures <- SomeProcedures
    MaxPushes = 2
SPECIFICATION Spec
INVARIANTS
    TypeOK
    SoleOwner
    NoStringLost
    ArrivesAsSent
    SizeIsExact
SYMMETRY Symmetry
\* undefined behaviour ends a run of the model
CHECK_DEADLOCK FALSE
