SPECIFICATION Spec
CONSTANTS
    Base = 2
    W = 2
    Addr <- MCAddr
    Key <- MCKey
    Value <- MCValue
    Balance <- MCBalance
    Code <- MCCode
    Offset = {0, 1, 2, 3}
    Size = {0, 1, 3}
    BlockNumber <- MCBlockNumber
    Gas = {0, 2}
    Input = {0, 1}
    CurrentBlock = 3
    BlockWindow = 2
    BlockHash <- one
    Recipient <- a1
    StorageKey <- k1
    MaxHostCalls = 3
CHECK_DEADLOCK FALSE
INVARIANTS
    MapsFindTheirEntries
    EverythingReleased
    PrintsWhatWasWritten
PROPERTY
    ImplementsHost
