\* A queue of the length the code gives it, filled and refilled.
CONSTANTS
    Limit = 8
    MaxRequests = 10
SPECIFICATION Spec
CHECK_DEADLOCK FALSE
INVARIANTS
    PipelineSafe
    NothingStalls
PROPERTY ImplementsStream
