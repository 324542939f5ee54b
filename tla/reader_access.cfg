SPECIFICATION Spec
CONSTANTS
    Threads = {t1, t2}
    Depth = 2
    Profiles <- MCProfiles
    MaxArrivals = 3
SYMMETRY Swap
INVARIANTS
    HistoriesAgree
    NoneOverlooked
    HandedOutOnce
    TriggerFollows
PROPERTY SerialPruning
CHECK_DEADLOCK FALSE
