CONSTANTS
    NONE = NONE
    Length <- StringLength
    CSP_BUFFER_SIZE = 256
    Lines <- SomeLines
    Means <- SomeMeanings
    Stored <- SomeStored
    Indexes <- SomeIndexes
    MAX_INSTRUCTIONS = 3
    BYTE = 4
    MaxCommands = 5
SPECIFICATION Spec
INVARIANTS
    TypeOK
    SoleOwner
PROPERTIES
    OnlyPopsAndRefusalsLose
    ImplementsEditor
\* the commands are bounded, and undefined behaviour ends a run of the model
CHECK_DEADLOCK FALSE
