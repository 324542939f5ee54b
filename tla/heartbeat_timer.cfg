SPECIFICATION FairSpec
CONSTANTS
    MaxSN = 3
    MaxDue = 2
INVARIANTS
    TimerKept
PROPERTIES
    OwedIsAcked
CHECK_DEADLOCK FALSE
