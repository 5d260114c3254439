SPECIFICATION VfsSpec
CONSTANTS
  Paths <- WithRoot
  Images <- NoToy
  Machines <- OneMachine
  RamSlots <- Two
  KvxSlots <- Two
  Layout <- EtcLayout
  Uids <- RootUser
  Pieces <- OneLetter
  ToyText <- ToyContent
  PasswdText <- PasswdContent
  MaxText = 1
INVARIANTS BootFinishes
