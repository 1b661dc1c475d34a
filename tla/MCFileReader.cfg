SPECIFICATION Spec
CONSTANTS
    Char = {"a", "b", "nl"}
    NL = "nl"
    Files <- MCFiles
    BufSize = 4
    ChunkSize = 2
    LineCap = 4
    UnsetReads = {"continue"}
    Faults = FALSE
INVARIANTS
    TypeOK
    Conserved
    OverrunOnlyByLongLine
    SuccessIsComplete
PROPERTIES
    GivesLines
    StopIsFinal
    Terminates
