\* From the command line to main, and the pointers and strings that main finds there.
CONSTANTS
    DEFAULT_SIZE = 40
    UINT_MOD = 64
    Byte <- MCByte
    Garbage <- MCGarbage
    PtrSize = 2
    Ints <- MCInts
    IntMod = 4
    Programs <- MCPrograms
SPECIFICATION Spec
INVARIANTS TypeOK ObjectsApart ContentsAsDeclared CallsReachNamed PrintsAsC
PROPERTIES ReachesMain
CHECK_DEADLOCK FALSE
