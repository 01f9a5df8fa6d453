SPECIFICATION RepetitionsSpec
CONSTANTS
  CallIndices <- TwoCalls
  MaxEvents = 19
  MaxTurns = 2
  MaxAttempts = 2
  MaxExecutions = 2
  None = None
  Unset = Unset
  Ceiling = 2
  MaxRetries = 1
  MaxDecisionRetries = 2
  Quirks <- RefusedContent
  MaxClock = 0
  ClockSteps = FALSE
  Resources = {server, command}
  MaxCalls = 0
INVARIANT
  EveryExitTerminal
CHECK_DEADLOCK FALSE
