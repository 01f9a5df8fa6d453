SPECIFICATION ToolsSpec
CONSTANTS
  MaxRequests = 3
  MaxVersions = 2
  Overlapping <- BothWays
  MaxOutput = 1
  MaxChunks = 2
  Habits <- AllHabits
INVARIANTS
  CommandsEndTruly
  McpPoolSafe
PROPERTIES
  ToolsAnswer
CHECK_DEADLOCK FALSE
