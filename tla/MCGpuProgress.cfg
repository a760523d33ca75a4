SPECIFICATION Spec
CONSTANTS
    MaxRequests = 2
    Width = 2
    Identities = 4
    Spent = {1, 3}
    MayEnd = TRUE
INVARIANTS
    NewsIsFound
    IndexFollowsLive
CHECK_DEADLOCK FALSE
