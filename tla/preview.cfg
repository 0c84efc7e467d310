SPECIFICATION Spec
CONSTANTS
    Slots = 2
    MaxBlocks = 4
    MaxResets = 1
    MaxPauses = 1
INVARIANTS
    PictureIsOneStream
    TakenIsCurrent
    FreedIsUnused
PROPERTIES
    QueueMoves
CHECK_DEADLOCK FALSE
