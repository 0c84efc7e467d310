SPECIFICATION Spec
CONSTANTS
    RingSlots = 2
    MaxBlock = 2
    MaxPushes = 5
    MaxFileFailures = 1
INVARIANTS
    PartialIsHarmless
CHECK_DEADLOCK FALSE
