SPECIFICATION Spec
CONSTANTS
    Files = {a, b}
    Chunks = 0
    Window = 2
    QueueLimit = 2
    MaxSessions = 2
INVARIANTS
    FinalIsWhole
    CommittedIsFinal
PROPERTIES
    EndsAnyway
CHECK_DEADLOCK FALSE
