SPECIFICATION Spec
CONSTANTS
    Formats = {"raw"}
    RingSize = 1
    MaxBlocks = 3
    MaxSessions = 1
INVARIANTS
    FailedBlockIsKept
