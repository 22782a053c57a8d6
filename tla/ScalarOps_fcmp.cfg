\* fcmp as an instruction.
CONSTANTS
    Widths = {1, 2, 4}
    PtrWidth = 3
    SingleBits = 2
    DoubleBits = 3
    MaxFloat = 16
    NaN = NaN
    Floats <- MCFloats
    Pointers <- MCPointers
SPECIFICATION FullSpec
INVARIANT FCmpAcceptsLegalPredicates
CHECK_DEADLOCK FALSE
