SPECIFICATION Spec
CONSTANTS
    RingSlots = 2
    MaxBlock = 2
    MaxPushes = 5
    MaxFileFailures = 1
INVARIANTS
    DrainedAfterRecovery
CHECK_DEADLOCK FALSE
