SPECIFICATION Spec
CONSTANTS
  CellCount = 3
  ConnectionOf <- OneConnection
  MaxInFlight = 3
  Limit <- LimitTwo
  MaxRetries = 1
  Waits <- ShortAndLong
  MaxTime = 2
  None = None
INVARIANTS
  SchedulerSafe
  ResultIsTrue
PROPERTIES
  StartsArePermitted
  CellsKeepPromise
  StartedInTurn
  StopEndsRun
  NoLostWakeup
CHECK_DEADLOCK FALSE
