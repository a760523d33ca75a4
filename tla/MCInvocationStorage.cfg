SPECIFICATION SpecEither
CONSTANTS
    Allocations = {1, 2, 3, 4}
    Sizes = {1, 3, 6}
    Alignment = 2
    ArenaBase = 3
    PageBytes = 4
    MaximumPages = 5
    MaximumAddress = 19
    Devices = {"cpu", "webgpu", "memory"}
    ProgramSizes = {0, 6}
    MaxBindings = 2
    MaxValues = 3
    MaxBuffers = 3
    MaxFlights = 2
    MaxFaults = 1
    Kinds = {"add", "sum"}
    MaxRequests = 2
    MaxDefects = 2
INVARIANTS
    NeededValuesAreIntact
    NothingLeaks
    MemoryIsPartitioned
    PreparationIsSound
    DeviceHasOneOwner
PROPERTIES
    BuffersOutliveTheirWork
    ImplementsFirstFit
CHECK_DEADLOCK FALSE
