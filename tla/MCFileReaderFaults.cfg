SPECIFICATION Spec
CONSTANTS
    Char = {"a", "nl"}
    NL = "nl"
    Files <- MCLongFiles
    BufSize = 3
    ChunkSize = 2
    LineCap = 4
    UnsetReads = {"continue", "stop"}
    Faults = TRUE
INVARIANTS
    SuccessIsComplete
PROPERTIES
    GivesLines
    Terminates
