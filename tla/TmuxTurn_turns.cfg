SPECIFICATION Spec
CONSTANTS
    Threads = {t1, t2}
    Texts = {x, y}
    Noise = Noise
    MaxMsgs = 2
    MaxLines = 3
    MaxCrashes = 1
SYMMETRY Symmetry
INVARIANTS
    TmuxTypeOK
    OwnAnswer
    RepeatsNeedCrash
CHECK_DEADLOCK FALSE
PROPERTY
    AnswerKept
