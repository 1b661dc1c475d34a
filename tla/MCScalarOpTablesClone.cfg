SPECIFICATION Spec
CONSTANTS
    Orders <- MCOrders
    Used = {"mov", "cmp"}
    None = None
    Broken = Broken
INVARIANT
    CloneBuilds
