SPECIFICATION FairEither
CONSTANTS
    MaxRequests = 2
    MaxSteps = 2
    Bindings = {a}
    MaxCommands = 3
    Faults = TRUE
INVARIANTS
    QueueIsSound
    ReportsAreTrue
    ScriptsRunOnOpenSession
PROPERTIES
    ImplementsOrderedExecution
    AcceptedWorkSettles
    CallsSettle
CHECK_DEADLOCK FALSE
