SPECIFICATION Spec
CONSTANTS
    Rooms = {"main", "code"}
    TaskIds = {k1}
    Senders = {a}
    Priorities = {}
    Severities = {"P0"}
    MaxLog = 3
INVARIANTS
    BoardTypeOK
    BoardIsReference
    ReviewHeld
