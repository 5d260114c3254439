SPECIFICATION Spec
CONSTANTS
  a = a
  b = b
  NodeIds <- MCNodes
  FdIds <- MCFds
  PoolSize = 4
  MinCap = 1
  Paths <- TwoPaths
  NoPath = NoPath
  Cut <- Uncut
  Bytes = {x, y}
  Zero = Zero
  MaxWrite = 2
  SlotIds <- OneSlot
  ToyFds <- MCToyFds
  MaxFiles = 1
  SectorSize = 2
  Images <- ToyImages
  NoImage = NoImage
  Removable <- None
SYMMETRY ByteSymmetry
INVARIANTS RegionsDisjoint NoDescriptorLost
PROPERTIES ImplementsFiles
