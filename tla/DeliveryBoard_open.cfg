SPECIFICATION FairSpec
CONSTANTS
    a1 = a1
    a2 = a2
    People = {you}
    Agents = {a1, a2}
    Default = a1
    All = all
    Mentions <- MCMentions
    Endpoints = {"reply"}
    Tail200 = 2
    MaxRecords = 2
    MaxChanges = 1
    Runs = {r1, r2}
    Reminder = you
    MaxDeaths = 1
INVARIANTS
    DeliveryTypeOK
    RemindedOnce
PROPERTY
    StillReminded
