SPECIFICATION Spec
CONSTANTS
    Threads = {t1, t2}
    Keys = {k1, k2}
    Window = 2
    Expiry = 2
    MaxClock = 6
    MaxRequests = 4
SYMMETRY Symmetry
INVARIANTS
    DedupeTypeOK
    RefusedHadMark
    DuplicatesNeedRace
CHECK_DEADLOCK FALSE
