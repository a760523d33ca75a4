CONSTANTS
    Bindings = {a, b, c}
    MaxCommands = 1
    Faults = FALSE
SPECIFICATION SpecPython
CHECK_DEADLOCK FALSE
INVARIANT AttachmentsDoNotOverlap
