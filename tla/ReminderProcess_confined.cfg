SPECIFICATION RemindSpec
CONSTANTS
    Threads = {t1, t2}
    NoThread = NoThread
    MaxRecords = 5
    MaxClock = 2
SYMMETRY Symmetry
INVARIANTS
    RemindTypeOK
    LossConfined
