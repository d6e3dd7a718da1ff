SPECIFICATION Spec
CONSTANTS
    Device <- ThreeSinks
    Channel <- MCChannel
    Topologies <- ToThree
    Base = 2
INVARIANTS
    DifferentAddresses
