SPECIFICATION Spec
CONSTANTS
    MaxRequests = 2
    MaxFaults = 1
INVARIANTS
    TypeOK
    ValueIsDrained
    PinsOutliveDeviceWork
    CleanEndIsHonest
CHECK_DEADLOCK FALSE
