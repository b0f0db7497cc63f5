SPECIFICATION LiveSpec
CONSTANTS
    Threads = {t1, t2}
    NoThread = NoThread
    MaxRecords = 4
    MaxClock = 2
    Pollers = {p1}
    Limit = 1
INVARIANTS
    PollTypeOK
    PollComplete
    NothingTwice
PROPERTY
    EventuallySeen
