SPECIFICATION FairSpec
CONSTANTS
    StartupStates <- EveryStartup
    Commands <- EveryCommand
    MaxInbox = 1
    PeersAppear = TRUE
    SelfStop = TRUE
    DeviceFails = TRUE
    BadMessages = FALSE
    RegistryFails = FALSE
    ConsumeTimeout = FALSE
INVARIANT ConnectOnlyAfterHandshake
PROPERTIES
    ErrorReleases
    WaitsEnd
\* A device that leaves Running or fails while the plugin shuts down leaves the
\* control thread waiting for ever (control_selfstop_end).
CHECK_DEADLOCK FALSE
