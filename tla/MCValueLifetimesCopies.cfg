SPECIFICATION SpecScoped
CONSTANTS
    Families = {a, b}
    Sizes = {"many"}
    Leaves = {"one", "many"}
    MaxStorages = 3
    MaxRequests = 2
    CopiesProjections = TRUE
SYMMETRY Symmetry
INVARIANTS
    RefsAreOwners
CHECK_DEADLOCK FALSE
