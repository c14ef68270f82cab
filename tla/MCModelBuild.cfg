SPECIFICATION Spec
CONSTANTS
  c1 = c1
  c2 = c2
  Clients = {c1, c2}
  Builders = {c1}
  Tools = {c1}
  Outputs <- MCOutputs
  PipeCapacity = 1
  NoClient = NoClient
  InlineLimit = 1
  StackLimits <- MCStackLimits
  Programs <- MCPrograms
  MaxCalls = 2
INVARIANTS RuntimeUse WorkerReadsLive DataPreparedOnce WalksFit SameModel
PROPERTY BuildEnds
CHECK_DEADLOCK FALSE
