SPECIFICATION FairSpec
CONSTANTS
    MaxRequests = 1
    MaxFaults = 1
PROPERTIES
    EverythingSettles
CHECK_DEADLOCK FALSE
