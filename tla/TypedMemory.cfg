\* Objects of every kind of type, stored, loaded and extracted whole and in parts.
CONSTANTS
    ByteBits = 2
    WordBytes = 4
    PointerSize = 4
    Types <- MCTypes
    IntValues <- MCIntValues
    Pointers <- MCPointers
SPECIFICATION Spec
INVARIANTS MemoryAgrees RegisterAgrees
PROPERTIES StoresStayInside
CHECK_DEADLOCK FALSE
