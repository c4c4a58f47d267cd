SPECIFICATION Spec
CONSTANTS
    Gas = {0, 14, 15, 17, 18, 21}
    InputSize = {0, 1, 32, 33}
    Byte = {0, 1, 4, 5, 8, 9}
PROPERTY ImplementsContract
