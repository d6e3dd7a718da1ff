SPECIFICATION Spec
CONSTANTS
    Device <- MCDevice
    Channel <- MCChannel
    Topologies <- NToOneAtOnce
    Base = 10
INVARIANTS
    AssertionsHold
