SPECIFICATION Spec
CONSTANTS
    Formats = {"flac", "raw"}
    RingSize = 2
    MaxBlocks = 3
    MaxSessions = 2
INVARIANTS
    OwnSession
    NothingTwice
    HealthyIsComplete
PROPERTIES
    StopFinishes
