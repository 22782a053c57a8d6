\* A store of a pointer that was loaded; at least one allocation.
CONSTANTS
    Widths = {1, 2}
    RetWidth = 2
    NumAllocs = {1}
    NumOps = 1
    MaxDepth = 2
SPECIFICATION Spec
INVARIANT NeverAborts
CHECK_DEADLOCK FALSE
