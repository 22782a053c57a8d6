\* A value assigned over another one of the same type.
CONSTANTS
    Variables = {x, y}
    Blocks = {1, 2}
    MaxLost = 0
    Inline <- MCInline
    WideInts = {2}
    Lengths = {1}
    Offsets = {0}
SPECIFICATION Spec
INVARIANTS NothingLost
CHECK_DEADLOCK FALSE
