SPECIFICATION FairSpec
CONSTANTS
    StartupStates <- EveryStartup
    Commands <- EveryCommand
    MaxInbox = 1
    PeersAppear = TRUE
    SelfStop = FALSE
    DeviceFails = FALSE
    BadMessages = TRUE
    RegistryFails = FALSE
    ConsumeTimeout = FALSE
INVARIANTS
    CommandKeepsPromise
    RunRecordMatches
PROPERTY EndExits
