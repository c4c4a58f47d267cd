SPECIFICATION Spec
CONSTANTS
    a1 = a1
    p1 = p1
    k1 = k1
    X = X
    O = O
    short = short
    long = long
    noinput = noinput
    Addr <- MCAccounts
    Precompile <- MCPrecompile
    Key <- MCKey
    Value <- MCValue
    Zero = O
    Gwarmaccess = 100
    Gsset = 20000
    Gsreset = 2900
    Rsclear = 15000
    Profile <- MCProfile
    CodeOffset = {0, 2, 3, 15}
    BufferSize = {0, 1, 15}
    SizeMod = 16
    Input <- MCInput
    Inline <- MCInline
    NoInput = noinput
    Block = {}
    Log = {}
    MaxRecordedAccesses = 2
    MaxRecordedCalls = 2
    MaxBlockhashes = 0
    MaxLogs = 0
    MaxClears = 1
INVARIANTS
    TypeOK
    AccessStatusBelowCap
    CallInputsValidUnlessOutgrown
    CopyCodeConsistent
