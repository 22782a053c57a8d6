\* Every operation on the three sections, up to the end of a section: calls, allocas,
\* mallocs and frees in any order, and reads, writes, fills and copies between them.
CONSTANTS
    DEFAULT_SIZE = 4
    UINT_MOD = 8
    Byte = {"garbage", "b"}
    Garbage = "garbage"
    Id = {1, 2, 3}
    GlobalSizes = {1}
    AllocaSizes = {1}
    AllocaElems = {0, 2}
    MallocSizes = {1, 2}
    AccessSizes = {1, 2}
    Externals = {"memcpy"}
    MaxDepth = 3
SPECIFICATION Spec
INVARIANTS TypeOK FrameAccounting NoOverlap ObjectsLegal StackTiling ContentsAsWritten
PROPERTIES PopRestores Isolation ImplementsStore
CHECK_DEADLOCK FALSE
