SPECIFICATION Spec
CONSTANTS
    a1 = a1
    p1 = p1
    k1 = k1
    X = X
    O = O
    short = short
    long = long
    noinput = noinput
    Addr <- MCAccounts
    Precompile <- MCPrecompile
    Key <- MCNone
    Value <- MCValue
    Zero = O
    Gwarmaccess = 100
    Gsset = 20000
    Gsreset = 2900
    Rsclear = 15000
    Profile <- MCNone
    CodeOffset = {}
    BufferSize = {}
    SizeMod = 16
    Input <- MCNone
    Inline <- MCNone
    NoInput = noinput
    Block = {}
    Log = {}
    MaxRecordedAccesses = 2
    MaxRecordedCalls = 1
    MaxBlockhashes = 0
    MaxLogs = 0
    MaxClears = 0
INVARIANT
    AccessStatusAsDocumented
