SPECIFICATION Spec
CONSTANTS
    w1 = w1
    w2 = w2
    Writers = {w1, w2}
    Instances = {i1, i2}
    Profiles <- MCProfiles
    MaxDepth = 2
SYMMETRY Symmetry
INVARIANTS
    TypeOK
    StoredIsNotified
    AllOrNothing
    BufferLimitKept
    NothingWithheld
CHECK_DEADLOCK FALSE
