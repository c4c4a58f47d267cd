SPECIFICATION Spec
CONSTANTS
    Gas = {9}
    CodeSize = {12}
    InputSize = {0}
    Op <- MCSimple
    MaxPush = 2
    PushValue = {0, 3, 7, 10}
    HostWord = {1}
    OutputSize = {0}
    OptionValue <- MCOptionValue
    StackLimit = 8
    MemoryLimit = 4
    WordSize = 2
    U32 = 8
CHECK_DEADLOCK FALSE
INVARIANT
    MemorySafe
