SPECIFICATION Spec
CONSTANTS
  HeapSize = 145
  Hdr = 20
  Align = 16
  Modulus = 256
  Sizes <- MCSizes
INVARIANTS Tiling PayloadsDisjoint NothingLost
PROPERTIES KmallocReturns
