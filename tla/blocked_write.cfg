SPECIFICATION FairSpec
CONSTANTS
    Threads = {1, 2}
    Readers = {1, 2}
    Instances = {i1, i2}
    Profiles <- PatientPurger
    MaxSeq = 3
PROPERTY WriteReturns
CHECK_DEADLOCK FALSE
