SPECIFICATION Spec
CONSTANTS
    Field = {"rate", "mode", "shm-segment-id"}
    Reserved = {"rate", "shm-segment-id"}
    Unhandled = {"shm-segment-id"}
    Scalar = {1, 2}
    List = {3}
    Malformed = {4}
    MaxWrites = 3
    None = 0
INVARIANTS
    FollowsDeletions
\* The thread may have ended.
CHECK_DEADLOCK FALSE
