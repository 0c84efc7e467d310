SPECIFICATION FairSpec
CONSTANTS
    Producers = {"extraction", "writer"}
    Writer = "writer"
    Chunks = {1, 2}
    MaxBlock = 2
    MaxOffered = 5
INVARIANTS
    AcceptedComesBack
PROPERTIES
    ImplementsFifo
    BacklogDrains
CHECK_DEADLOCK FALSE
