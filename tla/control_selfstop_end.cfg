SPECIFICATION FairSpec
CONSTANTS
    StartupStates <- FromIdle
    Commands <- RunThenEnd
    MaxInbox = 1
    PeersAppear = TRUE
    SelfStop = TRUE
    DeviceFails = FALSE
    BadMessages = FALSE
    RegistryFails = FALSE
    ConsumeTimeout = FALSE
PROPERTY EndExits
\* The control thread may wait for ever: that is the violation.
CHECK_DEADLOCK FALSE
