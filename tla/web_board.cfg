SPECIFICATION FairSpec
CONSTANTS
    Page = {p1, p2}
    i1 = i1
    i2 = i2
    j1 = j1
    Instance = {i1, i2, j1}
    ServiceOf <- TwoServices
    MaxChanges = 4
    None = None
INVARIANTS
    TypeOK
    ListsAreCurrent
PROPERTY NewPageIsServed
CHECK_DEADLOCK FALSE
