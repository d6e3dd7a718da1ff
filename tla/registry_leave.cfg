SPECIFICATION Spec
CONSTANTS
    d1 = d1
    d2 = d2
    d3 = d3
    Nobody = Nobody
    Device <- ThreeDevices
    MaxIndex = 3
    Crash = FALSE
    Restart = FALSE
    GracefulExit = TRUE
    Controller = FALSE
    Stall = FALSE
    RedisFails = FALSE
SYMMETRY Symmetry
INVARIANT UniqueIds
