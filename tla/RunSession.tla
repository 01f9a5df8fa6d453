------------------------------ MODULE RunSession ------------------------------
(***************************************************************************)
(* The interactive run session (app/run/use-run-session.client.ts): the    *)
(* one live run of the browser, its turns and tool calls, Stop, Retry and  *)
(* "Supply results and continue", and the autosave of a finished run.      *)
(*                                                                         *)
(* The module follows one run, "this", whose coordinator is the one of     *)
(* RunCoordinator, from its start to after another run has taken its       *)
(* place.  Every command that goes on asynchronously (start, retry,        *)
(* continueRun) takes the next generation, and `tasks` holds its progress  *)
(* under that number.  A task's phases are its awaits: turn (reading the   *)
(* stream), ended (the stream has sent its own failed event and is not     *)
(* over), serving (between tool calls), executing, executed, done.         *)
(*                                                                         *)
(* The commands are given when the page offers them (page.tsx,             *)
(* response-output.client.tsx, tool-call-list.client.tsx).                 *)
(***************************************************************************)
EXTENDS RunCoordinator

CONSTANTS
  MaxGenerations   \* bound: asynchronous commands and stops

ASSUME SessionAssumption == MaxGenerations \in Nat

VARIABLES
  tasks,          \* generation -> the task begun in it
  generation,     \* requestGenerationRef
  abortRef,       \* whose controller abortRef holds: a generation, or 0
  requestActive,  \* isRequestActive
  drafts,         \* toolResultDrafts: call -> draft
  live,           \* coordinatorRef holds this run's coordinator
  shown,          \* whose state runStateRef holds: "none", "this" or "other"
  other,          \* the generation another run is in flight under, or 0
  workspace,      \* whether a project folder was open when this run started
  save,           \* the autosave of this run
  storage,        \* traceStorage
  decided,        \* history: the calls a person approved or answered by hand
  asked,          \* history: the calls whose permission says ask
  stopped,        \* history: stop was called while this run was live
  hasty           \* history: Continue was pressed while a request was in flight

commands == <<tasks, generation, abortRef, requestActive>>
view     == <<live, shown, other, workspace, save, storage>>
history  == <<decided, asked, stopped, hasty>>
sessionVars == <<coordinatorVars, commands, drafts, view, history>>

\* What serves a call: nothing but a person, something on this device that
\* needs no word, or an MCP server, by a permission that asks or does not.
Drafts == [serves   : {"hand", "device", "mcp_ask", "mcp_automatic"},
           approved : BOOLEAN, edited : BOOLEAN, rejected : BOOLEAN]

Idle == [phase |-> "done", aborted |-> FALSE, automatic |-> FALSE,
         todo |-> {}, drafts |-> <<>>]

InFlight(g) == tasks[g].phase # "done"

SessionInit ==
  /\ Init
  /\ tasks = [g \in 1..MaxGenerations |-> Idle]
  /\ generation = 0 /\ abortRef = 0 /\ requestActive = FALSE
  /\ drafts = <<>> /\ live = FALSE /\ shown = "none" /\ other = 0
  /\ workspace \in BOOLEAN /\ save = "none" /\ storage = "none"
  /\ decided = {} /\ asked = {} /\ stopped = FALSE /\ hasty = FALSE

-----------------------------------------------------------------------------
(* replaceState *)

\* The state of this run, as the coordinator has just left it.
Shows ==
  /\ shown' = "this"
  /\ IF ~ IsTerminal(run') THEN UNCHANGED <<save, storage>>
     ELSE IF ~ workspace THEN storage' = "unsaved" /\ UNCHANGED save
     ELSE IF save \in {"saving", "saved"} THEN UNCHANGED <<save, storage>>
     ELSE save' = "saving" /\ storage' = "saving"

SaveEnds(outcome) ==
  /\ save = "saving"
  /\ save' = outcome
  /\ storage' = IF shown = "this" THEN outcome ELSE storage
  /\ UNCHANGED <<coordinatorVars, commands, drafts, live, shown, other,
                 workspace, history>>

-----------------------------------------------------------------------------
(* Beginning and ending a task *)

Begins(task) ==
  /\ generation < MaxGenerations
  /\ generation' = generation + 1
  /\ tasks' = [tasks EXCEPT ![generation + 1] = task]
  /\ abortRef' = generation + 1
  /\ requestActive' = TRUE

Aborted_not_at_all == tasks

Aborted ==
  [g \in DOMAIN tasks |-> [tasks[g] EXCEPT !.aborted = @ \/ (g = abortRef)]]

Turn == [Idle EXCEPT !.phase = "turn"]

Goes(g, phase) == tasks' = [tasks EXCEPT ![g].phase = phase]

Ends(g) == tasks' = [tasks EXCEPT ![g] = Idle]

\* The finally of start, retry and the second half of continueRun.
Finishes(g) ==
  /\ Ends(g)
  /\ IF g = generation THEN abortRef' = 0 /\ requestActive' = FALSE
     ELSE UNCHANGED <<abortRef, requestActive>>
  /\ UNCHANGED generation

\* coordinator.fail and replaceState in a catch: of a run that has ended already
\* the first raises.
FailsAndShows ==
  IF IsTerminal(run) THEN UNCHANGED <<coordinatorVars, shown, save, storage>>
  ELSE Fail /\ Shows

-----------------------------------------------------------------------------
(* start, retry *)

\* The page offers Run when nothing is in flight and no call is waiting.  A
\* failed attempt is stopped first, so that its trace is kept.
OffersRun == ~ requestActive /\ (shown = "this" => IsTerminal(run))

SessionStart ==
  /\ run = NewRun /\ OffersRun
  /\ Start
  /\ Begins(Turn)
  /\ drafts' = <<>> /\ live' = TRUE /\ shown' = "this" /\ other' = 0
  /\ storage' = "none"
  /\ UNCHANGED <<workspace, save, history>>

StartOther ==
  /\ run # NewRun /\ OffersRun /\ generation < MaxGenerations
  /\ generation' = generation + 1 /\ abortRef' = generation + 1
  /\ tasks' = Aborted
  /\ requestActive' = TRUE
  /\ drafts' = <<>> /\ live' = FALSE /\ shown' = "other"
  /\ other' = generation + 1
  /\ storage' = "other"
  /\ UNCHANGED <<coordinatorVars, workspace, save, history>>

OtherEnds ==
  /\ other # 0 /\ other' = 0
  /\ IF other = generation THEN abortRef' = 0 /\ requestActive' = FALSE
     ELSE UNCHANGED <<abortRef, requestActive>>
  /\ UNCHANGED <<coordinatorVars, tasks, generation, drafts, live, shown,
                 workspace, save, storage, history>>

SessionRetry ==
  /\ live /\ shown = "this" /\ run.status = "attempt_failed"
  /\ Current(run)[2] < MaxAttempts
  /\ Retry
  /\ Begins(Turn)
  /\ drafts' = <<>>
  /\ Shows
  /\ UNCHANGED <<live, other, workspace, history>>

-----------------------------------------------------------------------------
(* execute and the turn driver it awaits, driveProviderTurn *)

\* The order in which the adapters send, as far as it matters here: frames,
\* usage and text change nothing that the session or the kernel acts on.  The
\* last turn within the bounds calls no tool.
AdapterSends(e) ==
  LET attempt == AttemptAt(run, active) IN
  CASE e.type = "exchange.requested"        -> attempt.exchange = "opened"
    [] e.type = "exchange.response_started" -> attempt.exchange = "requested"
    [] e.type = "assistant.tool_call_delta" ->
         /\ attempt.exchange = "responding" /\ attempt.status = "streaming"
         /\ e.hasName /\ e.index \notin attempt.calls
         /\ Len(run.turns) < MaxTurns
    [] e.type = "assistant.completed" ->
         attempt.exchange = "responding" /\ attempt.status = "streaming"
    [] OTHER -> FALSE

\* Events of a superseded stream are read and dropped.
TurnEmits(g) ==
  /\ tasks[g].phase = "turn" /\ g = generation
  /\ \E e \in StreamEvents : AdapterSends(e) /\ AcceptEvent(e)
  /\ Shows
  /\ UNCHANGED <<commands, drafts, live, other, workspace, history>>

TurnFails(g) ==
  /\ tasks[g].phase = "turn" /\ g = generation
  /\ \E retryable \in BOOLEAN : AcceptFailed(retryable)
  /\ Shows
  /\ Goes(g, "ended") /\ UNCHANGED <<generation, abortRef, requestActive>>
  /\ UNCHANGED <<drafts, live, other, workspace, history>>

Draft(serves) == [serves |-> serves, approved |-> serves = "mcp_automatic",
                  edited |-> FALSE, rejected |-> FALSE]

\* toolResultDraftsForState: one draft for each call that waits.
Drafted ==
  \E serving \in [run'.pending -> {"hand", "device", "mcp_ask", "mcp_automatic"}] :
    /\ drafts' = [call \in run'.pending |-> Draft(serving[call])]
    /\ asked' = asked \cup { call \in run'.pending : serving[call] = "mcp_ask" }
    /\ UNCHANGED <<decided, stopped, hasty>>

Superseded_shows(g) ==
  /\ Finishes(g) /\ UNCHANGED coordinatorVars
  /\ Shows /\ UNCHANGED <<drafts, live, other, workspace, history>>

Superseded(g) ==
  /\ Finishes(g) /\ UNCHANGED <<coordinatorVars, drafts, view, history>>

TurnEnds(g) ==
  /\ tasks[g].phase \in {"turn", "ended"}
  /\ IF g # generation THEN Superseded(g)
     ELSE /\ FinishTurnStream /\ Shows /\ Drafted
          /\ Finishes(g)
          /\ UNCHANGED <<live, other, workspace>>

\* The credential, the transport or the stream rejects.  After the stream's own
\* failed event no turn is active, the driver's catch raises, and the command's
\* own catch fails the run.
TurnBreaks(g) ==
  /\ tasks[g].phase \in {"turn", "ended"}
  /\ IF g # generation THEN Superseded(g)
     ELSE /\ IF tasks[g].phase = "turn"
             THEN (\E retryable \in BOOLEAN : AcceptFailed(retryable)) /\ Shows /\ Drafted
             ELSE FailsAndShows /\ UNCHANGED <<drafts, history>>
          /\ Finishes(g)
          /\ UNCHANGED <<live, other, workspace>>

-----------------------------------------------------------------------------
(* continueRun and resolveToolCall *)

Undecided(call) ==
  /\ call \in DOMAIN drafts
  /\ \/ drafts[call].serves = "mcp_ask" /\ ~ drafts[call].approved
     \/ drafts[call].rejected /\ ~ drafts[call].edited

Automatic(some, call) == call \in DOMAIN some /\ some[call].serves = "mcp_automatic"

BeginsServing(automatic) ==
  /\ Begins([Idle EXCEPT !.phase = "serving", !.automatic = automatic,
                         !.todo = run.pending, !.drafts = drafts])
  /\ UNCHANGED <<coordinatorVars, drafts, view, decided, asked, stopped>>

SessionContinue_without_waiting ==
  /\ live /\ shown = "this" /\ run.status = "awaiting_tool_results"
  /\ hasty' = (hasty \/ requestActive)
  /\ BeginsServing(FALSE)

\* "Supply results and continue".  It is offered whenever calls are waiting.
SessionContinue ==
  /\ live /\ shown = "this" /\ run.status = "awaiting_tool_results"
  /\ hasty' = (hasty \/ requestActive)
  /\ \A call \in run.pending : ~ Undecided(call)
  /\ BeginsServing(FALSE)

\* The effect that serves what needs no person.
AutoContinue ==
  /\ live /\ shown = "this" /\ run.status = "awaiting_tool_results"
  /\ ~ requestActive
  /\ \E call \in run.pending : Automatic(drafts, call)
  /\ BeginsServing(TRUE) /\ UNCHANGED hasty

\* executableBinding: an edited draft is a person's answer.
Executable(draft) ==
  /\ draft.serves # "hand" /\ ~ draft.edited
  /\ draft.serves \in {"mcp_ask", "mcp_automatic"} => draft.approved

CallServed(g) == CHOOSE call \in tasks[g].todo :
                 \A o \in tasks[g].todo : call[2] <= o[2]

\* The first finally of continueRun, when the loop ends without a next turn.
LeavesLoop(g) ==
  /\ Ends(g)
  /\ IF g = generation /\ run'.status = "awaiting_tool_results"
     THEN abortRef' = 0 /\ requestActive' = FALSE
     ELSE UNCHANGED <<abortRef, requestActive>>
  /\ UNCHANGED generation

\* An error in the loop fails the run unless it was aborted.
LoopRaises(g) ==
  /\ IF tasks[g].aborted THEN UNCHANGED <<coordinatorVars, shown, save, storage>>
     ELSE FailsAndShows
  /\ LeavesLoop(g)
  /\ UNCHANGED <<drafts, live, other, workspace, history>>

\* What is left of the method's effect when the reducer refuses: the number is
\* used up, and one more by the failure that cannot be recorded either.
Refused(g) ==
  /\ sequence' = sequence + (IF tasks[g].aborted \/ IsTerminal(run) THEN 1 ELSE 2)
  /\ active' = IF tasks[g].aborted \/ IsTerminal(run) THEN active ELSE None
  /\ UNCHANGED <<run, drafts, view, history>>
  /\ LeavesLoop(g)

Skips(g) ==
  /\ tasks[g].phase = "serving" /\ tasks[g].todo # {}
  /\ g = generation
  /\ tasks[g].automatic /\ ~ Automatic(tasks[g].drafts, CallServed(g))
  /\ tasks' = [tasks EXCEPT ![g].todo = @ \ {CallServed(g)}]
  /\ UNCHANGED <<coordinatorVars, generation, abortRef, requestActive, drafts,
                 view, history>>

Resolves(g) ==
  /\ tasks[g].phase = "serving" /\ tasks[g].todo # {}
  /\ g = generation
  /\ tasks[g].automatic => Automatic(tasks[g].drafts, CallServed(g))

LoopSuperseded(g) ==
  /\ tasks[g].phase = "serving" /\ tasks[g].todo # {} /\ g # generation
  /\ Ends(g)
  /\ UNCHANGED <<coordinatorVars, generation, abortRef, requestActive, drafts,
                 view, history>>

BeginExecution(g) ==
  /\ Resolves(g)
  /\ CallServed(g) \in DOMAIN tasks[g].drafts /\ Executable(tasks[g].drafts[CallServed(g)])
  /\ IF run.status # "awaiting_tool_results" THEN LoopRaises(g)
     ELSE IF Accepted([type |-> "tool.execution_started", at |-> Current(run),
                       call |-> CallServed(g), number |-> NextExecution(CallServed(g))])
     THEN /\ StartToolExecution(CallServed(g))
          /\ Goes(g, "executing")
          /\ UNCHANGED <<generation, abortRef, requestActive, drafts, view, history>>
     ELSE Refused(g)

\* The tool answers, fails, or throws; its draft then becomes one for a person.
ToolReturns(g) ==
  /\ tasks[g].phase = "executing"
  /\ LET call == CallServed(g) IN
     IF run.status # "awaiting_tool_results" THEN LoopRaises(g)
     ELSE \E succeeded \in BOOLEAN :
       IF ~ InStep THEN Refused(g)
       ELSE /\ SettleToolExecution(call, NextExecution(call) - 1, succeeded)
            /\ Shows
            /\ IF succeeded
               THEN /\ Goes(g, "executed")
                    /\ UNCHANGED <<generation, abortRef, requestActive, drafts>>
               ELSE /\ drafts' = IF call \in DOMAIN drafts
                                 THEN [drafts EXCEPT ![call] =
                                         [Draft("hand") EXCEPT !.edited = drafts[call].edited]]
                                 ELSE drafts
                    /\ LeavesLoop(g)
            /\ UNCHANGED <<live, other, workspace, history>>

Supplies(g) ==
  /\ IF run.status # "awaiting_tool_results" THEN LoopRaises(g)
     ELSE IF Accepted([type |-> "tool.result_supplied", at |-> Current(run),
                       call |-> CallServed(g)])
     THEN /\ SupplyToolResult(CallServed(g))
          /\ Shows
          /\ tasks' = [tasks EXCEPT ![g].phase = "serving",
                                    ![g].todo = @ \ {CallServed(g)}]
          /\ UNCHANGED <<generation, abortRef, requestActive, drafts, live, other,
                         workspace, history>>
     ELSE Refused(g)

SupplyExecuted(g) == tasks[g].phase = "executed" /\ Supplies(g)

SupplyByHand(g) ==
  /\ Resolves(g)
  /\ CallServed(g) \in DOMAIN tasks[g].drafts /\ ~ Executable(tasks[g].drafts[CallServed(g)])
  /\ Supplies(g)

\* "Tool call ... has no result."
NoDraft(g) ==
  /\ Resolves(g) /\ CallServed(g) \notin DOMAIN tasks[g].drafts
  /\ LoopRaises(g)

\* After the loop: the calls of others still wait, or the next turn begins.
\* Nothing asks whether the generation is still this one.
LoopEnds(g) ==
  /\ tasks[g].phase = "serving" /\ tasks[g].todo = {}
  /\ IF run.status # "tool_results_ready"
     THEN /\ UNCHANGED <<coordinatorVars, drafts, view, history>>
          /\ LeavesLoop(g)
     ELSE /\ Continue
          /\ Shows
          /\ tasks' = [tasks EXCEPT ![g] = IF live THEN [Turn EXCEPT !.aborted = tasks[g].aborted]
                                          ELSE Idle]
          /\ drafts' = <<>>
          /\ UNCHANGED <<generation, abortRef, requestActive, live, other, workspace,
                         history>>

-----------------------------------------------------------------------------
(* The drafts *)

OnDraft(call, draft) ==
  /\ shown = "this"
  /\ drafts' = [drafts EXCEPT ![call] = draft]
  /\ UNCHANGED <<coordinatorVars, commands, view, asked, stopped, hasty>>

\* Approve and Reject are offered on a draft that still asks.
StillAsks(call) == drafts[call].serves = "mcp_ask" /\ ~ drafts[call].approved

Approve(call) ==
  /\ StillAsks(call)
  /\ OnDraft(call, [drafts[call] EXCEPT !.approved = TRUE])
  /\ decided' = decided \cup {call}

Reject(call) ==
  /\ StillAsks(call)
  /\ OnDraft(call, [Draft("hand") EXCEPT !.rejected = TRUE])
  /\ UNCHANGED decided

Type(call) ==
  /\ ~ drafts[call].edited
  /\ OnDraft(call, [drafts[call] EXCEPT !.edited = TRUE])
  /\ decided' = IF drafts[call].serves = "hand" THEN decided \cup {call} ELSE decided

-----------------------------------------------------------------------------
(* stop, and what ends in it *)

\* Before this run has started they have nothing to do with it.
Aborts ==
  /\ run # NewRun /\ generation < MaxGenerations
  /\ generation' = generation + 1
  /\ tasks' = Aborted
  /\ abortRef' = 0 /\ requestActive' = FALSE
  /\ stopped' = (stopped \/ live)
  /\ UNCHANGED <<decided, asked, hasty>>

\* A run that waits or streams is cancelled; one that paused is failed.
EndsLive ==
  IF ~ live \/ IsTerminal(run) THEN UNCHANGED coordinatorVars
  ELSE IF run.status = "attempt_failed" THEN Fail ELSE Cancel

Stop ==
  /\ Aborts /\ EndsLive
  /\ IF run' # run THEN Shows ELSE UNCHANGED <<shown, save, storage>>
  /\ UNCHANGED <<drafts, live, other, workspace>>

\* reset and adoptTrace stop first, and never get further when that raises.
StopAndShow(whose, notice) ==
  /\ Aborts /\ EndsLive
  /\ IF InStep'
     THEN /\ live' = FALSE /\ drafts' = <<>> /\ shown' = whose /\ storage' = notice
          /\ save' = IF run' # run /\ workspace THEN "saving" ELSE save
     ELSE UNCHANGED <<live, drafts, shown, storage, save>>
  /\ UNCHANGED <<other, workspace>>

Reset      == StopAndShow("none", "none")
AdoptOther == StopAndShow("other", "other")
AdoptThis  == save = "saved" /\ StopAndShow("this", "saved")

-----------------------------------------------------------------------------
TaskSteps(g) ==
  \/ TurnEmits(g) \/ TurnFails(g)
  \/ TurnEnds(g) \/ TurnBreaks(g)
  \/ ToolReturns(g)
  \/ Skips(g) \/ LoopSuperseded(g) \/ BeginExecution(g)
  \/ SupplyExecuted(g) \/ SupplyByHand(g) \/ NoDraft(g) \/ LoopEnds(g)

Commands ==
  \/ SessionStart \/ StartOther \/ SessionRetry \/ SessionContinue
  \/ Stop \/ Reset \/ AdoptOther \/ AdoptThis
  \/ \E call \in DOMAIN drafts : Approve(call) \/ Reject(call) \/ Type(call)

SessionNext ==
  \/ Commands \/ AutoContinue \/ OtherEnds
  \/ \E g \in 1..MaxGenerations : TaskSteps(g)
  \/ \E outcome \in {"saved", "error"} : SaveEnds(outcome)

\* No deadline is set on a provider or a tool; both end when they are aborted.
\* What runs on without waiting for either runs.
Runs_on(g) ==
  \/ Skips(g) \/ LoopSuperseded(g) \/ BeginExecution(g)
  \/ SupplyExecuted(g) \/ SupplyByHand(g) \/ NoDraft(g) \/ LoopEnds(g)
  \/ tasks[g].aborted /\ (TurnEnds(g) \/ TurnBreaks(g) \/ ToolReturns(g))

SessionSpec ==
  /\ SessionInit /\ [][SessionNext]_sessionVars
  /\ \A g \in 1..MaxGenerations : WF_sessionVars(Runs_on(g))
  /\ WF_sessionVars(AutoContinue)

-----------------------------------------------------------------------------
(* Invariants *)

SessionTypeOK ==
  /\ TypeOK
  /\ \A g \in 1..MaxGenerations :
       /\ tasks[g].phase \in {"turn", "ended", "serving", "executing", "executed", "done"}
       /\ tasks[g].aborted \in BOOLEAN /\ tasks[g].automatic \in BOOLEAN
       /\ tasks[g].todo \subseteq CallIds
  /\ generation \in 0..MaxGenerations /\ abortRef \in 0..generation
  /\ requestActive \in BOOLEAN
  /\ DOMAIN drafts \subseteq CallIds
  /\ \A call \in DOMAIN drafts : drafts[call] \in Drafts
  /\ live \in BOOLEAN /\ shown \in {"none", "this", "other"}
  /\ other \in 0..generation /\ workspace \in BOOLEAN
  /\ save \in {"none", "saving", "saved", "error"}
  /\ storage \in {"none", "unsaved", "saving", "saved", "error", "other"}

\* However the commands and the tasks they leave behind overlap, no method of
\* the coordinator is called when the reducer would refuse its event, and the
\* live run that Stop is called on ends; unless Continue was pressed while a
\* request was in flight, which nothing in the session refuses.
NeverCutOff == ~ hasty => InStep /\ (stopped /\ live => IsTerminal(run))

\* A call whose permission says ask is executed, or answered at all, only after
\* a person approved it or answered it, and not by the automatic continuation
\* of the calls beside it (continueRun(automaticOnly), executableBinding).
AskedBeforeServed ==
  \A call \in asked :
    /\ ExecutionsOf(call) # {} => call \in decided
    /\ call \in run.results => call \in decided

\* Stop terminates a live run that has not ended (UseRunSession.stop).
StopTerminates == stopped /\ live => IsTerminal(run)

\* The session says that it is executing exactly while a task in flight can
\* still report to it, and Stop reaches the turn or the tool that task is in.
ExecutingIsReal ==
  ~ hasty =>
  /\ requestActive = ((other # 0 /\ other = generation)
                       \/ (generation # 0 /\ InFlight(generation)))
  /\ \A g \in 1..generation :
       tasks[g].phase \in {"turn", "serving", "executing", "executed"} =>
         g = abortRef \/ tasks[g].aborted \/ (tasks[g].phase = "turn" /\ g # generation)

\* Every run that ended while a folder was open was handed to the autosave, by
\* whichever of Stop, Reset, an adoption, a failure or the provider ended it,
\* and the storage notice under a run is about that run and true of it.
EndedRunsReachDisk ==
  /\ IsTerminal(run) /\ workspace => save # "none"
  /\ shown = "this" =>
       /\ storage \in {"saved", "error"} => storage = save
       /\ IsTerminal(run) => storage \in {"unsaved", "saving", "saved", "error"}

-----------------------------------------------------------------------------
(* Action and temporal properties *)

\* Once the session shows another run, or none, nothing this run left behind
\* puts it back on the screen; only its saved trace does.
GoneStaysGone ==
  [][run # NewRun /\ shown # "this" /\ shown' = "this" => save = "saved"]_sessionVars

\* After Stop no tool goes on executing and every exchange it aborted is over.
StopQuiesces ==
  stopped ~> \A g \in 1..MaxGenerations :
               /\ tasks[g].phase \notin {"serving", "executing", "executed"}
               /\ tasks[g].aborted => ~ InFlight(g)

\* Continuing a run that waits for its calls does not fail it: it waits for the
\* approval, or the result, that is missing ("Manual continuation waits for MCP
\* approval (or a replacement result after rejection)", use-run-session.client.ts).
ContinueWaits ==
  [][\A g \in 1..MaxGenerations :
       tasks[g].phase = "serving" /\ ~ tasks[g].aborted /\ run' # run
         => run'.status # "failed"]_sessionVars

=============================================================================
