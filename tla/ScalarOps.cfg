\* Chains of operators on integers, numbers and pointers.
CONSTANTS
    Widths = {1, 2, 4}
    PtrWidth = 3
    SingleBits = 2
    DoubleBits = 3
    MaxFloat = 16
    NaN = NaN
    Floats <- MCFloats
    Pointers <- MCPointers
SPECIFICATION Spec
INVARIANTS TypeOK NumbersAsDefined PointersAsDefined StopsOnlyIfUndefined
CHECK_DEADLOCK FALSE
