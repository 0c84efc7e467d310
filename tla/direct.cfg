SPECIFICATION FairSpec
CONSTANTS
    RingSlots = 3
    MaxBlock = 2
    MaxPushes = 5
    MaxFileFailures = 2
INVARIANTS
    InOrder
    DrainedAtExit
PROPERTIES
    ImplementsFifo
    WriterEnds
    AcceptedIsWritten
CHECK_DEADLOCK FALSE
