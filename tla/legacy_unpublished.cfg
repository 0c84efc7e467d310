SPECIFICATION Spec
CONSTANTS
    Formats = {"flac"}
    RingSize = 2
    MaxBlocks = 3
    MaxSessions = 1
INVARIANTS
    UnpublishedIsHarmless
