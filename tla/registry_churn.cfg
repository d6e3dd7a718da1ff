SPECIFICATION Spec
CONSTANTS
    d1 = d1
    d2 = d2
    d3 = d3
    Nobody = Nobody
    Device <- TwoDevices
    MaxIndex = 1
    Crash = FALSE
    Restart = TRUE
    GracefulExit = TRUE
    Controller = TRUE
    Stall = FALSE
    RedisFails = TRUE
SYMMETRY Symmetry
INVARIANTS
    OneIndexPerUuid
