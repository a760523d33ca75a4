SPECIFICATION Spec
CONSTANTS
    Tensors = {a, b}
    MaxRequests = 3
    MaxValues = 4
    PendingCopies = 2
SYMMETRY Symmetry
INVARIANTS
    CapturedWritersPublished
    SuccessIsHonest
    OneFailureRules
    FailureIsReported
    CompleteJoinsEarlierWrites
    LedgerIsBalanced
CHECK_DEADLOCK FALSE
