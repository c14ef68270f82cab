\* Two bare threads and an equipped one over the two pools of a model.
CONSTANTS
  t1 = t1
  t2 = t2
  main = main
  log_density = log_density
  write_array = write_array
  e1 = e1
  e2 = e2
  x1 = x1
  x2 = x2
  v1 = v1
  v2 = v2
  None = None
  Own = Own
  Threads = {t1, t2, main}
  Equipped = {main}
  Pools = {log_density, write_array}
  Executors = {e1, e2}
  Tapes = {x1, x2}
  LeaseVars = {v1, v2}
SPECIFICATION Spec
SYMMETRY Symmetry
INVARIANTS OneHome TapePrivate
PROPERTIES ImplementsLoans
