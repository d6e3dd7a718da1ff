SPECIFICATION FairSpec
CONSTANTS
    b1 = b1
    b2 = b2
    d1 = d1
    d2 = d2
    NoOne = NoOne
    Browser <- TwoBrowsers
    Device <- TwoDevices
    Scopes <- SomeScopes
    Commands <- SomeCommands
    MaxRun = 1
    MaxQueue = 2
    MaxFaults = 1
INVARIANTS
    TypeOK
    StartsTogether
    RunIsRecorded
PROPERTY WaitsEnd
\* The process may have ended.
CHECK_DEADLOCK FALSE
