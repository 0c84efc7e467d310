SPECIFICATION Spec
CONSTANTS
    RingSlots = 2
    MaxBlock = 2
    MaxPushes = 5
    MaxFileFailures = 1
INVARIANTS
    ReuseIsHarmless
CHECK_DEADLOCK FALSE
