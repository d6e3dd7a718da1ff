SPECIFICATION Spec
CONSTANTS
    Device <- MCDevice
    Channel <- MCChannel
    Topologies <- NToOneReset
    Base = 10
INVARIANTS
    AssertionsHold
\* The operator has no more commands.
CHECK_DEADLOCK FALSE
