SPECIFICATION Spec
CONSTANTS
    Char = {"0", "b", "x", "Q"}
    MaxLength = 5
    Prefix <- MCPrefix
    ArraySize = 2
INVARIANT PaddedOnTheLeft
