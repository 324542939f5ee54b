SPECIFICATION FairSpec
CONSTANTS
    Writers = {1, 2}
    Strong = {2}
    Instances = {1, 2}
    Kinds = {"alive", "dispose", "unregister", "both"}
    Profiles <- MCProfiles
    MaxArrivals = 3
INVARIANTS
    TypeOK
    LimitsKept
    AliveHasWriter
    SeparationKept
    NotifiedIsWriterless
PROPERTY HeldIsDelivered
CHECK_DEADLOCK FALSE
