CONSTANTS
    Modulus = 5
    Programs <- MCPrograms
    Strides = {1, 2}
    Points <- MCPoints
SPECIFICATION Spec
INVARIANTS SameDensity SameGradient BindsCleanly
CHECK_DEADLOCK FALSE
