SPECIFICATION ExecSpec
CONSTANTS
  Buffers = {"b1", "b2", "b3", "b4"}
  MaxTasks = 2
  MaxDrivers = 2
  Names = {"rtc", "other"}
  MaxIds = 4
INVARIANTS MemoryHasOneOwner
