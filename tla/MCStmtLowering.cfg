SPECIFICATION Spec
CONSTANTS
    IntMin <- MCIntMin
    Fuel = 12
    Steps = 300
    WhileUnrollLimit = 3
    Param = "p"
    OuterNames = {"k"}
    Programs <- MCPrograms
INVARIANTS
    SameTarget
    CopiesAgree
    IslandsRunClean
CHECK_DEADLOCK FALSE
