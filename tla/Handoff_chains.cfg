SPECIFICATION Spec
CONSTANTS
    a1 = a1
    a2 = a2
    People = {you}
    Agents = {a1, a2}
    Default = a1
    All = all
    Mentions <- MCMentions
    Endpoints = {"reply", "append", "watcher", "ack", "comment"}
    Tail200 = 2
    MaxRecords = 4
    MaxChanges = 1
INVARIANTS
    HandoffTypeOK
    ChainsEnd
    WorkIsTracked
CHECK_DEADLOCK FALSE
