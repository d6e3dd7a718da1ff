SPECIFICATION Spec
CONSTANTS
    d1 = d1
    d2 = d2
    d3 = d3
    Nobody = Nobody
    Device <- TwoDevices
    MaxIndex = 3
    Crash = TRUE
    Restart = TRUE
    GracefulExit = FALSE
    Controller = FALSE
    Stall = FALSE
    RedisFails = FALSE
PROPERTY ReusesIndex
