SPECIFICATION FairSpec
CONSTANTS
    StartupStates <- FromIdle
    Commands <- RunThenEnd
    MaxInbox = 1
    PeersAppear = TRUE
    SelfStop = FALSE
    DeviceFails = TRUE
    BadMessages = FALSE
    RegistryFails = FALSE
    ConsumeTimeout = TRUE
PROPERTY ErrorAlwaysReleases
\* The control thread may wait for ever: that is the violation.
CHECK_DEADLOCK FALSE
