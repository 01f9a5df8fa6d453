SPECIFICATION RepetitionsSpec
CONSTANTS
  CallIndices <- TwoCalls
  MaxEvents = 19
  MaxTurns = 2
  MaxAttempts = 2
  MaxExecutions = 2
  None = None
  Unset = Unset
  Ceiling = 2
  MaxRetries = 1
  MaxDecisionRetries = 2
  Quirks <- AllQuirks
  MaxClock = 2
  ClockSteps = FALSE
  Resources = {server, command}
  MaxCalls = 5
INVARIANTS
  ChatEndsWithEvidence
  EndsSaveable
  LocksSafe
PROPERTIES
  OutcomeIsFinal
  ThrowsOnlyWhenCutOff
  NobodyWaitsForEver
  PromisesKept
  ServedInOrder
CHECK_DEADLOCK FALSE
