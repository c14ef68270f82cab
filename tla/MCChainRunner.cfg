\* Two chains on one or two threads, every combination of options; liveness,
\* so no symmetry.
CONSTANTS
  w1 = w1
  w2 = w2
  Main = Main
  None = None
  Workers = {w1, w2}
  NChains = 2
  Sizes <- MCSizes
  IntMax = 4
  Refresh = 1
SPECIFICATION FairSpec
CHECK_DEADLOCK FALSE
INVARIANTS ChainsAccounted DrawsComplete ProgressDelivered
PROPERTY CallEnds
