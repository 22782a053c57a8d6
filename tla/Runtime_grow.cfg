\* A section that runs out: the heap is asked for more than the default size.
CONSTANTS
    DEFAULT_SIZE = 6
    UINT_MOD = 8
    Byte = {"garbage"}
    Garbage = "garbage"
    Id = {1, 2, 3, 4}
    GlobalSizes = {1}
    AllocaSizes = {0, 1}
    AllocaElems = {0, 1, 2}
    MallocSizes = {0, 2}
    AccessSizes = {}
    Externals = {}
    MaxDepth = 3
SPECIFICATION Spec
INVARIANT GrowsWhenFull
CHECK_DEADLOCK FALSE
