SPECIFICATION FairSpec
CONSTANTS
    a1 = a1
    a2 = a2
    Agents = {a1, a2}
    Lists <- MCLists
    Threads = {t1, t2}
    NoThread = NoThread
    MaxCalls = 3
    MaxFaults = 1
INVARIANTS
    StatusTypeOK
    UndatedNeedsRace
    AnsweredIsIdle
    BusyShown
    FileFollows
CHECK_DEADLOCK FALSE
PROPERTY MarksExpire
