SPECIFICATION Spec
CONSTANTS
    Slots = 2
    MaxBlocks = 4
    MaxResets = 1
    MaxPauses = 1
INVARIANTS
    FrozenIsTakeable
CHECK_DEADLOCK FALSE
