---------------------------- MODULE MCServiceTools ----------------------------
(***************************************************************************)
(* Model checking of what the service runs tools with: commands            *)
(* (CommandTool) and the pooled clients of MCP servers (McpPool).  They    *)
(* share no state, so a behaviour is one of either.                        *)
(***************************************************************************)
EXTENDS McpPool

CONSTANTS MaxOutput, MaxChunks, Habits   \* CommandTool's

ASSUME CommandAssumption == MaxOutput \in Nat /\ MaxChunks \in Nat

VARIABLES
  tool,   \* what this behaviour is of
  service, promise, outcome, timer, grace, live, aborted, leader, helper,
  stubborn, holding, asked, written, read   \* CommandTool's

Command == INSTANCE CommandTool

commandVars == <<service, promise, outcome, timer, grace, live, aborted, leader,
                 helper, stubborn, holding, asked, written, read>>
toolsVars == <<tool, poolVars, commandVars>>

BothWays == {TRUE, FALSE}
AllHabits == {"outlives_leader", "ignores_sigterm"}

ToolsInit ==
  /\ tool \in {"command", "mcp"} /\ Init /\ Command!Init
  /\ tool = "command" => ~ overlap
  /\ tool = "mcp" => stubborn = {} /\ ~ holding

ToolsNext ==
  /\ UNCHANGED tool
  /\ \/ tool = "mcp"     /\ Next         /\ UNCHANGED commandVars
     \/ tool = "command" /\ Command!Next /\ UNCHANGED poolVars

\* The fairness of each.
ToolsSpec ==
  /\ ToolsInit /\ [][ToolsNext]_toolsVars
  /\ PoolFairness
  /\ WF_commandVars(tool = "command" /\ Command!Service)
  /\ WF_commandVars(tool = "command" /\ Command!Obeys)

-----------------------------------------------------------------------------
\* What a command tool says and leaves behind is so, however its processes
\* behave (command-tool-runner.ts:136-243).
CommandsEndTruly == Command!CommandsEndTruly

\* A stopped command settles, and every request to an MCP server is answered.
ToolsAnswer == Command!StopSettles /\ RequestsEnd

=============================================================================
