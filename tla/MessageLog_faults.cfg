SPECIFICATION FairSpec
CONSTANTS
    Threads = {t1, t2}
    NoThread = NoThread
    MaxRecords = 3
    MaxClock = 2
INVARIANTS
    NoLoss
    NoResurrection
    LogInv
PROPERTY
    LockReleased
