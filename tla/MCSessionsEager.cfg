SPECIFICATION SessionsSpec
CONSTANTS
  CallIndices <- OneCall
  MaxEvents = 99
  MaxTurns = 2
  MaxAttempts = 2
  MaxExecutions = 2
  None = None
  Unset = None
  MaxGenerations = 4
  MaxDrives = 0
  MaxTime = 0
  Waits = {0}
  LoneEvents = 0
INVARIANTS
  StopTerminates
CHECK_DEADLOCK FALSE
