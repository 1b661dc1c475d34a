SPECIFICATION Spec
CONSTANTS
    Images <- MCImages
    Stale <- MCStale
    BaseAddr = 4
    PcModulus = 12
    Faults = FALSE
INVARIANTS
    TypeOK
    KeepsItsPlace
    RowAddresses
    ShownWords
    EntryOfWords
PROPERTIES
    SweepsTheFile
