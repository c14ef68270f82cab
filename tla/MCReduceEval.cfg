\* Three children on the host and one worker, two parameter points.
CONSTANTS
  NChildren = 3
  TeamWorkers = {"worker"}
  Points = {1, 2}
SPECIFICATION EvalSpec
INVARIANTS ChildrenPrepared HandshakesAgree
PROPERTY FreshAtReturn
