SPECIFICATION Spec
CONSTANTS
    Char = {"0", "b", "F", "x", " ", "Q"}
    MaxLength = 5
    Prefix <- MCPrefix
    ArraySize = 1
INVARIANTS
    AcceptsExactly
    EncodeInverts
    OutputFits
