SPECIFICATION Spec
CONSTANTS
    RingSlots = 2
    MaxBlock = 2
    MaxPushes = 5
    MaxFileFailures = 0
INVARIANTS
    GapIsHarmless
CHECK_DEADLOCK FALSE
