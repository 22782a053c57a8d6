\* Values copied, moved, put into aggregates and destroyed in every order.
CONSTANTS
    Variables = {x, y, z}
    Blocks = {1, 2, 3, 4}
    MaxLost = 0
    Inline <- MCInline
    WideInts = {2}
    Lengths = {1}
    Offsets = {0, 1}
SPECIFICATION Spec
INVARIANTS TypeOK OwnedOnce
PROPERTIES HoldsValues
SYMMETRY Symmetry
CHECK_DEADLOCK FALSE
