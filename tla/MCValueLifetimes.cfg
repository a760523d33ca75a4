SPECIFICATION SpecScoped
CONSTANTS
    Families = {a, b}
    Sizes = {"many", "empty"}
    Leaves = {"one", "many", "empty"}
    MaxStorages = 3
    MaxRequests = 2
    CopiesProjections = FALSE
SYMMETRY Symmetry
INVARIANTS
    RefsAreOwners
    ValuesSurvive
    CacheIsCurrent
CHECK_DEADLOCK FALSE
