SPECIFICATION Spec
CONSTANTS
    Name = {"start", "halt", "long"}
    LongName = {"long"}
    Addr = {1, 2}
    InitSize = 3
    MaxSymbols = 5
    Block = {"b1", "b2", "b3"}
    NULL = NULL
    Junk = Junk
    Faults = TRUE
INVARIANTS
    TypeOK
    FieldsAgree
    FaultOnlyWithoutArray
    FoundStays
PROPERTIES
    KeepsSymbols
