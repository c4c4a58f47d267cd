SPECIFICATION FairSpec
CONSTANTS
    Gas = {0, 4, 8}
    CodeSize = {0, 9}
    InputSize = {0, 2}
    Op <- Instructions
    MaxPush = 2
    PushValue = {0, 6, 10}
    HostWord = {1}
    OutputSize = {0, 4}
    OptionValue <- MCOptionValue
    StackLimit = 7
    MemoryLimit = 4
    WordSize = 2
    U32 = 8
CHECK_DEADLOCK FALSE
INVARIANTS
    TypeOK
    StackSafe
    OverreadIsHarmless
    MemoryFaultOnlyByWrap
PROPERTIES
    ImplementsContract
    Terminates
