SPECIFICATION Spec
CONSTANTS
    Producers = {"tap"}
    Writer = "writer"
    Chunks = {1, 2}
    MaxBlock = 2
    MaxOffered = 6
INVARIANTS
    Intact
CHECK_DEADLOCK FALSE
