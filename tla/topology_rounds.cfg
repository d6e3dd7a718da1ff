SPECIFICATION FairSpec
CONSTANTS
    Device <- MCDevice
    Channel <- MCChannel
    Topologies <- AllTopologies
    Base = 2
INVARIANTS
    TypeOK
    PairedByIndex
    OnePeerPerSubSocket
PROPERTIES
    FindsAddresses
    ConnectsToCurrent
    HandshakeEnds
\* Devices may wait for ever for one that has not found their addresses.
CHECK_DEADLOCK FALSE
