SPECIFICATION Spec
CONSTANTS
    Char <- MCChar
    NL = "nl"
    Files <- MCFiles
    Written <- MCWritten
    BufSize = 16
    ChunkSize = 8
    LineCap = 16
    NameCap = 2
    SpecCap = 2
    ULongMax = 15
    UnsetReads = {"continue", "stop"}
    InitSize = 3
    MaxSymbols = 6
    Block = {"b1", "b2"}
    NULL = NULL
    Junk = Junk
    Addr = {1, 7, 8}
    ReadFaults = TRUE
    MallocFaults = TRUE
INVARIANTS
    HoldsWhatWasWritten
    CompleteUnlessErr
    FaultMeansSwallowedError
PROPERTIES
    StopsAtError
