\* The programs end, and so does the interpreter.
SPECIFICATION FairSpec
CHECK_DEADLOCK FALSE
CONSTANTS
    IntMod = 8
    Programs <- MCPrograms
    MainArgs <- MCMainArgs
    ExternalResults <- MCExternalResults
INVARIANTS
    TypeOK
    CallChain
    FramesOwned
PROPERTIES
    Implements
    Terminates
