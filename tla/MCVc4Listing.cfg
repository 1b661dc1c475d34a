SPECIFICATION Spec
CONSTANTS
    Images <- MCImages
    Stale <- MCStale
    BaseAddr = 24
    PcModulus = 536870912
    DataStart = 9437184
    Faults = TRUE
    Unset = {0, 1000}
INVARIANTS
    TypeOK
    TargetsRelative
    TellsApart
    NamesWithinTables
    InRegisterFile
    SecondWordTold
