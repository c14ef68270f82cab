\* Two sampler threads of two lines each; two hosts install callbacks, switch
\* capture and collect, two calls each; liveness, so no symmetry.
CONSTANTS
  a = a
  b = b
  h1 = h1
  h2 = h2
  c1 = c1
  c2 = c2
  None = None
  Emitters = {a, b}
  Hosts = {h1, h2}
  Callbacks = {c1, c2}
  MaxMessages = 2
  MaxCalls = 2
SPECIFICATION FairSpec
CHECK_DEADLOCK FALSE
INVARIANTS EachLineOnce EmissionOrder FormerCallbackQuiet
PROPERTIES CallsReturn ImplementsLog
