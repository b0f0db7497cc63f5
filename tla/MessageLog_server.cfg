SPECIFICATION ServerSpec
CONSTANTS
    Threads = {t1, t2}
    NoThread = NoThread
    MaxRecords = 4
    MaxClock = 3
INVARIANTS
    TsOrdered
    ServerInv
PROPERTY
    ImplementsAbstractLog
