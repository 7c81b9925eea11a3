SPECIFICATION Spec
CONSTANTS
  Byte = {b1, b2}
  Junk = Junk
  MaxWrite = 3
  MaxSize = 7
INVARIANTS
  InBounds
  DrainedHasRoom
PROPERTIES
  ImplementsFifo
