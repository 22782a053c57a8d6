\* Functions of up to two allocations and three operations.
CONSTANTS
    Widths = {1, 2}
    RetWidth = 2
    NumAllocs = {0, 1, 2}
    NumOps = 3
    MaxDepth = 2
SPECIFICATION Spec
INVARIANTS EnvironmentConsistent PointersInitialised AlwaysAValue OperandsLegitimate
CHECK_DEADLOCK FALSE
