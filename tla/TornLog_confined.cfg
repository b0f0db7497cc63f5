SPECIFICATION TornSpec
SYMMETRY Symmetry
CONSTANTS
    Threads = {t1, t2}
    NoThread = NoThread
    MaxRecords = 4
    MaxClock = 2
    MaxTears = 2
INVARIANTS
    TornTypeOK
    LossPerTear
    AckedInOrder
