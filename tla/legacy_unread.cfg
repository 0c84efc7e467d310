SPECIFICATION Spec
CONSTANTS
    Formats = {"flac"}
    RingSize = 1
    MaxBlocks = 3
    MaxSessions = 1
INVARIANTS
    UnreadIsHarmless
