SPECIFICATION Spec
CONSTANTS
    MaxSN = 2
    InOrderBuffer = 3
    Readers = {r1, r2}
    VolatileReaders = {r1, r2}
    Threads = {t1}
    Keys = {k1}
    Depth = 0
    PurgeAcked = TRUE
    Piggyback = TRUE
    InlineAcknack = TRUE
    StopInterrupted = TRUE
    Duplication = TRUE
    MaxQueuedAcknacks = 1
    MaxMessages = 4
    k1 = k1
    r1 = r1
    r2 = r2
    t1 = t1
CONSTRAINT MessageBound
INVARIANTS
    AckedIsReceived
    NothingSkipped
    PurgedIsReceived
CHECK_DEADLOCK FALSE
