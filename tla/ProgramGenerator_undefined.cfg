\* An operation without a result, on integers of one and two bits.
CONSTANTS
    Widths = {1, 2}
    RetWidth = 2
    NumAllocs = {0, 1}
    NumOps = 2
    MaxDepth = 1
SPECIFICATION Spec
INVARIANT OperationsDefined
CHECK_DEADLOCK FALSE
