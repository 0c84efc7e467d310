SPECIFICATION TapsSpec
CONSTANTS
    MaxIterations = 3
    MaxSessions = 1
INVARIANTS
    Quiet
CHECK_DEADLOCK FALSE
