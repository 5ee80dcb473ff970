CONSTANTS
    t1 = t1
    t2 = t2
    NONE = NONE
    Bits <- FewBits
    OperandBits = 4
    Threads <- TwoThreads
    Parameters <- SomeParameters
    OwnAddress = 2
    Initial <- InitialValue
    Instructions <- SomeInstructions
    TIMEOUT = 2
    MaxInstructions = 1
    MaxChanges = 1
SPECIFICATION FairSpec
INVARIANT TypeOK
PROPERTIES
    StoredIsResult
    BlockWaits
    InstructionEnds
\* the instructions are bounded, and undefined behaviour ends a run of the model
CHECK_DEADLOCK FALSE
