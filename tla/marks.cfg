SPECIFICATION Spec
CONSTANTS
    Rates = {r1, r2}
    WriteSizes = {1, 2}
    BlockSize = 2
    Capacity = 1
    MaxPairs = 6
INVARIANTS
    SafeIsUniform
    UniformIsSafe
    UnmarkedIsContinuous
CHECK_DEADLOCK FALSE
SYMMETRY RateSymmetry
