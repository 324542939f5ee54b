SPECIFICATION FairSpec
CONSTANTS
    Waiters = {w1, w2}
    Timed = {w2}
    Notifiers = {n1, n2}
    Maskers = {n1}
    Attachers = {}
    MaskApart = TRUE
    Conditions = {c1}
    Statuses = {s1}
    FirstAttached = {c1}
    None = None
    c1 = c1
    n1 = n1
    n2 = n2
    s1 = s1
    w1 = w1
    w2 = w2
INVARIANTS
    NoLostWakeup
PROPERTIES
    WaitReturns
