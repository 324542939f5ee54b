SPECIFICATION Spec
CONSTANTS
    Waiters = {w1}
    Timed = {w1}
    Notifiers = {n1}
    Maskers = {}
    Attachers = {a1, a2}
    MaskApart = TRUE
    Conditions = {c1, c2}
    Statuses = {s1}
    FirstAttached = {}
    None = None
    a1 = a1
    a2 = a2
    c1 = c1
    c2 = c2
    n1 = n1
    s1 = s1
    w1 = w1
SYMMETRY Symmetric
INVARIANTS
    CallbackIffAttached
