\* Three executors over four blocks of two slots.
CONSTANTS
  e1 = e1
  e2 = e2
  e3 = e3
  b1 = b1
  b2 = b2
  b3 = b3
  b4 = b4
  x = x
  y = y
  Executors = {e1, e2, e3}
  Blocks = {b1, b2, b3, b4}
  Slots = {x, y}
  Values = {0, 1}
  Zero = 0
  Junk = Junk
  NoBlock = NoBlock
SPECIFICATION Spec
SYMMETRY Symmetry
INVARIANTS Isolation
PROPERTIES NoSharedWrite PointersPinned ImplementsPrivateData
