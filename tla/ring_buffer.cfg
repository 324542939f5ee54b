SPECIFICATION FairSpec
CONSTANTS
    Writers = {w1, w2}
    Readers = {r1}
    Size = 10
    Lengths = {2, 4}
    MaxMessage = 4
    MaxRetries = 2
    MaxWrites = 3
INVARIANTS
    TypeOK
    CommittedIsWritten
    IntactReads
    NothingMissed
PROPERTY
    WriteReturns
CHECK_DEADLOCK FALSE
