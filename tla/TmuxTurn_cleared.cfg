SPECIFICATION FairSpec
CONSTANTS
    Threads = {t1, t2}
    Texts = {x}
    Noise = Noise
    MaxMsgs = 2
    MaxLines = 1
    MaxCrashes = 1
PROPERTY
    TriggerCleared
    TakenUp
CHECK_DEADLOCK FALSE
