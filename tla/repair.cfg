SPECIFICATION RepairSpec
CONSTANTS
    MaxSN = 2
    InOrderBuffer = 3
    Readers = {r1}
    VolatileReaders = {}
    Threads = {t1}
    Keys = {k1}
    Depth = 0
    PurgeAcked = FALSE
    Piggyback = TRUE
    InlineAcknack = FALSE
    StopInterrupted = FALSE
    Duplication = FALSE
    MaxQueuedAcknacks = 1
    MaxMessages = 100
    k1 = k1
    r1 = r1
    t1 = t1
PROPERTIES
    EventuallyDelivered
    HeartbeatStops
CHECK_DEADLOCK FALSE
