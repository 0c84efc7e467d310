SPECIFICATION Spec
CONSTANTS
    BufferSize = 5
    WriteSizes = {2, 4}
    ReadSizes = {2, 4}
    MaxWaitAttempts = 1
    MaxBytes = 12
INVARIANTS
    WrittenIsPublished
CHECK_DEADLOCK FALSE
