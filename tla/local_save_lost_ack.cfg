SPECIFICATION Spec
CONSTANTS
    Files = {a, b}
    Chunks = 0
    Window = 2
    QueueLimit = 2
    MaxSessions = 1
INVARIANTS
    IncompleteStaysPartial
CHECK_DEADLOCK FALSE
