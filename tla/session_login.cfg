SPECIFICATION Spec
CONSTANTS
  Keys <- MCKeys
  Users <- MCUsers
  RootName <- Root
  DefaultName <- Anil
  BufSize = 3
  Homes <- MCHomes
  Dirs <- MCDirs
  RootHome = "/root"
  DefaultHome = "/home/anil"
  NoHome = ""
  Garbage = "?"
INVARIANTS PreviousIsFromThisLogin PromptCanReadPasswd
PROPERTIES LoginByTypedKeys PasswdKeepsUser
