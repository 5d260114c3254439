SPECIFICATION Spec
CONSTANTS
  Starts <- TurnsOfTime
  Tries = 2
  TickRate = 2
  MaxDelay = 3
  MaxUpdates = 3
  MaxTicks = 2
INVARIANTS ReadIsAnInstant FailsOnlyIfOvertaken BootEpochIsTrue DisplaysAgree
