SPECIFICATION Spec
CONSTANTS
    Images <- MCFewImages
    Stale <- MCStale
    BaseAddr = 4
    PcModulus = 12
    Faults = TRUE
PROPERTIES
    SweepsTheFile
    Terminates
