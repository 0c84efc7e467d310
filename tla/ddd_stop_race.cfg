SPECIFICATION Spec
CONSTANTS
    QueueLength = 2
    Discard = 1
    MaxFailures = 1
    MaxBlocks = 4
PROPERTIES
    StopIsNoOrderFailure
