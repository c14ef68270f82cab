\* Two workers, two callers contending for the context, two runs of at most
\* two jobs; liveness, so no symmetry.
CONSTANTS
  w1 = w1
  w2 = w2
  a = a
  b = b
  Workers = {w1, w2}
  Callers = {a, b}
  Counts = {0, 2}
  MaxRuns = 2
  NoCaller = NoCaller
SPECIFICATION FairSpec
INVARIANTS SetupExclusive JobsDisjoint AllJobsDone TeamLifetime
PROPERTIES ImplementsBatch CallsEnd
CHECK_DEADLOCK FALSE
