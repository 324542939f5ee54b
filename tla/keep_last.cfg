SPECIFICATION Spec
CONSTANTS
    MaxSN = 3
    InOrderBuffer = 2
    Readers = {r1}
    VolatileReaders = {}
    Threads = {t1, t2}
    Keys = {k1, k2}
    Depth = 1
    PurgeAcked = FALSE
    Piggyback = FALSE
    InlineAcknack = FALSE
    StopInterrupted = TRUE
    Duplication = TRUE
    MaxQueuedAcknacks = 1
    MaxMessages = 3
    k1 = k1
    k2 = k2
    r1 = r1
    t1 = t1
    t2 = t2
SYMMETRY Symmetric
CONSTRAINT MessageBound
INVARIANTS
    CursorSeparates
    LostAtMostOnce
    BufferBounded
PROPERTIES
    ImplementsChannel
CHECK_DEADLOCK FALSE
