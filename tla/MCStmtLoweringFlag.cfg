SPECIFICATION Spec
CONSTANTS
    IntMin <- MCIntMin
    Fuel = 12
    Steps = 300
    WhileUnrollLimit = 3
    Param = "p"
    OuterNames = {"k"}
    Programs <- MCFlagPrograms
INVARIANTS
    LaterReadsSeeTheIsland
CHECK_DEADLOCK FALSE
