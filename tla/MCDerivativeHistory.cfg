CONSTANTS
    Leaves = 2
    MaxNodes = 4
    MaxEvents = 1
    MaxTraversals = 2
    Recipes = {"pass", "mul", "copy"}
SPECIFICATION Spec
CHECK_DEADLOCK FALSE
INVARIANT GradientsAreWhole
INVARIANT ReleasedExactlyOnce
INVARIANT SavedValuesAreCurrent
