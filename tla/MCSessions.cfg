SPECIFICATION SessionsSpec
CONSTANTS
  CallIndices <- PairOfCalls
  MaxEvents = 99
  MaxTurns = 2
  MaxAttempts = 2
  MaxExecutions = 2
  None = None
  Unset = None
  MaxGenerations = 3
  MaxDrives = 4
  MaxTime = 2
  Waits <- TwoWaits
  LoneEvents = 13
INVARIANTS
  RunConsistent
  TurnsAnsweredInOrder
  CallsServedOnce
  SessionsTellTheTruth
  ContinuesAsAsked
PROPERTIES
  SettledContentFixed
  RefusalIsFinal
  GoneStaysGone
  DecisionsKeepFaith
  StopQuiesces
CHECK_DEADLOCK FALSE
