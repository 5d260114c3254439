SPECIFICATION VfsSpec
CONSTANTS
  Paths <- FourPaths
  Images <- ToyOrNone
  Machines <- DiskOrNone
  RamSlots <- Two
  KvxSlots <- One
  Layout <- EtcLayout
  Uids <- RootAndUsers
  Pieces <- OneLetter
  ToyText <- ToyContent
  PasswdText <- PasswdContent
  MaxText = 1
INVARIANTS WrittenReadsBack RestartHasLayout
