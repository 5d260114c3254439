SPECIFICATION Spec
CONSTANTS
  MetaSectors <- MCMetaSectors
  PathSec <- MCPathSec
  StartSec <- MCStartSec
  SizeSec <- MCSizeSec
  FlagSec <- MCFlagSec
  Slots <- TwoSlots
  Paths <- TwoPaths
  Words = {w1, w2}
  MaxSectors = 2
  Uids = {0}
  ChmodBits = {FALSE}
  DirSize = DirSize
  Blank = Blank
  DiskEnd = 2
  MaxNext = 2
  MaxFaults = 2
SYMMETRY WordSymmetry
INVARIANTS TypeOK FreePointerPastFiles FilesDisjoint
PROPERTIES CommittedDataKept SuccessIsDurable GoodWriteIsStored ImplementsStore
