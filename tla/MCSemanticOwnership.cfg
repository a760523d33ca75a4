CONSTANTS
    Ids = {x, y, z}
    Optimizers = {o}
    MaxHandles = 1
    MaxMembers = 1
    MaxDepth = 1
SPECIFICATION Spec
SYMMETRY Symmetry
CHECK_DEADLOCK FALSE
INVARIANT OwnershipIsCounted
INVARIANT AliveIsReachable
