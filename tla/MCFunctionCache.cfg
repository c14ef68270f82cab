\* Two threads of four calls over four keys and a cache of two plans.
CONSTANTS
  t1 = t1
  t2 = t2
  small = small
  twin = twin
  large = large
  huge = huge
  None = None
  Refused = Refused
  Threads = {t1, t2}
  Keys = {small, twin, large, huge}
  KeySize <- MCKeySize
  PlanSize <- MCPlanSize
  Fingerprint <- MCFingerprint
  RefusalSize = 1
  Capacity = 2
  Budget = 6
  MaxCalls = 4
SPECIFICATION Spec
SYMMETRY Symmetry
CHECK_DEADLOCK FALSE
INVARIANTS OnePlanPerKey StorageBounded RecompilationPaid
