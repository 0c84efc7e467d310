SPECIFICATION Spec
CONSTANTS
    BufferSize = 4
    WriteSizes = {2}
    ReadSizes = {2}
    MaxWaitAttempts = 1
    MaxBytes = 12
INVARIANTS
    GrantIsFree
CHECK_DEADLOCK FALSE
