SPECIFICATION TapsFairSpec
CONSTANTS
    MaxIterations = 4
    MaxSessions = 2
INVARIANTS
    QuietAfterStop
    Lockstep
PROPERTIES
    ImplementsDirect
    StopReturns
CHECK_DEADLOCK FALSE
