SPECIFICATION FairSpec
CONSTANTS
    StartupStates <- FromIdle
    Commands <- ConnectThenEnd
    MaxInbox = 1
    PeersAppear = FALSE
    SelfStop = FALSE
    DeviceFails = FALSE
    BadMessages = FALSE
    RegistryFails = FALSE
    ConsumeTimeout = FALSE
PROPERTY EndExits
\* The control thread may wait for ever: that is the violation.
CHECK_DEADLOCK FALSE
