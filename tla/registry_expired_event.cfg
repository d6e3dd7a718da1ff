SPECIFICATION Spec
CONSTANTS
    d1 = d1
    d2 = d2
    d3 = d3
    Nobody = Nobody
    Device <- ThreeDevices
    MaxIndex = 3
    Crash = TRUE
    Restart = FALSE
    GracefulExit = FALSE
    Controller = TRUE
    Stall = FALSE
    RedisFails = FALSE
SYMMETRY Symmetry
INVARIANT UniqueIds
\* Every process may have crashed.
CHECK_DEADLOCK FALSE
