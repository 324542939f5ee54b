SPECIFICATION FairSpec
CONSTANTS
    Threads = {1, 2}
    Readers = {1, 2}
    Instances = {i1, i2}
    Profiles <- MCProfiles
    MaxSeq = 3
INVARIANTS
    LimitsKept
    AckedIsPurged
PROPERTIES
    NothingUnackedRemoved
    WriteReturns
    AcksArrive
CHECK_DEADLOCK FALSE
