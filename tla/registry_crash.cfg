SPECIFICATION FairSpec
CONSTANTS
    d1 = d1
    d2 = d2
    d3 = d3
    Nobody = Nobody
    Device <- ThreeDevices
    MaxIndex = 3
    Crash = TRUE
    Restart = FALSE
    GracefulExit = FALSE
    Controller = FALSE
    Stall = FALSE
    RedisFails = FALSE
INVARIANTS
    TypeOK
    UniqueIds
    IndexStaysOwned
PROPERTIES
    TakesSmallestIndex
    EverybodyRegisters
\* Every process may have crashed.
CHECK_DEADLOCK FALSE
