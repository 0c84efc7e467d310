SPECIFICATION Spec
CONSTANTS
    Producers = {"extraction", "writer"}
    Writer = "writer"
    Chunks = {1}
    MaxBlock = 2
    MaxOffered = 4
INVARIANTS
    Intact
CHECK_DEADLOCK FALSE
