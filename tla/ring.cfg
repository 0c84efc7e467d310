SPECIFICATION FairSpec
CONSTANTS
    BufferSize = 6
    WriteSizes = {2, 3, 5}
    ReadSizes = {3}
    MaxWaitAttempts = 1
    MaxBytes = 18
INVARIANTS
    TypeOK
    StaysMapped
    WindowIsFree
    UnreadIsIntact
PROPERTIES
    ImplementsFifo
    WriteCallReturns
    EveryBlockIsRead
CHECK_DEADLOCK FALSE
