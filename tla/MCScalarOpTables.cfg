SPECIFICATION Spec
CONSTANTS
    Orders <- MCOrders
    Used = {"mov", "cmp"}
    None = None
    Broken = Broken
INVARIANTS
    TypeOK
    RerunRepairs
    NothingHalfBuilt
    OnlyNumbersAreStale
    BuildRecovers
