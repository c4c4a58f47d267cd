SPECIFICATION GasSpec
CONSTANTS
    a1 = a1
    k1 = k1
    k2 = k2
    X = X
    Y = Y
    Z = Z
    O = O
    Addr <- MCAddr
    Key <- MCKey
    Value <- MCValue
    Zero = O
    Gwarmaccess = 100
    Gsset = 20000
    Gsreset = 2900
    Rsclear = 15000
    Precompile = {}
    Profile = {}
    CodeOffset = {}
    BufferSize = {}
    SizeMod = 16
    Input = {}
    Inline = {}
    NoInput = "none"
    Block = {1}
    Log = {"log"}
    MaxRecordedAccesses = 1
    MaxRecordedCalls = 1
    MaxBlockhashes = 1
    MaxLogs = 1
    MaxClears = 0
    MaxWrites = 5
INVARIANTS
    ChargeIsPathIndependent
    RefundNeverNegative
    StatusAsDocumented
PROPERTY
    WarmSlotStaysWarm
