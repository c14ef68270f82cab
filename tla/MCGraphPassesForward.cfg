CONSTANTS
    Modulus = 5
    Programs <- MCDefect
    Strides = {1}
    Points <- MCPoints
SPECIFICATION Spec
INVARIANTS MeaningKept
CHECK_DEADLOCK FALSE
