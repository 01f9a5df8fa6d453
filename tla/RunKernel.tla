------------------------------ MODULE RunKernel ------------------------------
(***************************************************************************)
(* The run kernel's reducer (packages/core/src/run-kernel/reducer.ts): the *)
(* pure function that folds ordered events into the state of one run.      *)
(*                                                                         *)
(* `Accepts(run, n, e)` is the conjunction of every check reduceRunEvent   *)
(* makes before it builds the next state; an event it refuses raises       *)
(* RunInvariantError and leaves the state as it was.  `Reduced(run, n, e)` *)
(* is the state an accepted event leads to.                                *)
(*                                                                         *)
(* Data that no check reads is left out: the run's input, message and      *)
(* argument text, usage numbers, timestamps, event identifiers (random and *)
(* never repeated).  Turns and attempts are named by their position, which *)
(* is what the coordinator's derived identifiers encode.                   *)
(*                                                                         *)
(* An operator whose name ends in an underscore and a few words is a slip  *)
(* one could make in the definition it is named after.  No specification   *)
(* uses it: it is there to be put in that definition's place, to see that  *)
(* the property it should break does break.                                *)
(***************************************************************************)
EXTENDS Integers, Sequences, FiniteSets

CONSTANT
  CallIndices   \* the indexes a provider may give the tool calls of one answer

ASSUME CallIndicesAssumption == CallIndices \subseteq Nat

-----------------------------------------------------------------------------
(* The state of a run *)

TerminalStatuses == {"completed", "cancelled", "failed"}

Statuses == {"not_started", "starting", "running", "attempt_failed",
             "tool_results_ready", "awaiting_tool_results"} \cup TerminalStatuses

\* A tool call is named by the exchange that produced it and its index there.
CallIds == (Nat \X Nat) \X CallIndices

ExecutionStatuses == {"executing", "completed", "failed"}
Executions == [call : CallIds, number : Nat, status : ExecutionStatuses]

Attempts == [status   : {"streaming", "completed", "failed"},
             exchange : {"opened", "requested", "responding"},
             calls    : SUBSET CallIndices,   \* accumulated tool calls
             named    : SUBSET CallIndices]   \* those whose name is not empty

NewAttempt == [status |-> "streaming", exchange |-> "opened",
               calls |-> {}, named |-> {}]

NewRun == [status |-> "not_started", turns |-> <<>>, pending |-> {},
           executions |-> {}, results |-> {}, lastSequence |-> -1]

Runs == [status : Statuses, turns : Seq(Seq(Attempts)), pending : SUBSET CallIds,
         executions : SUBSET Executions, results : SUBSET CallIds,
         lastSequence : Int]

IsTerminal(run) == run.status \in TerminalStatuses

LastAttempt(run) == run.turns[Len(run.turns)][Len(run.turns[Len(run.turns)])]

\* The exchange a provider event belongs to: its turn and its attempt.
Known(run, at) == /\ at[1] \in DOMAIN run.turns
                  /\ at[2] \in DOMAIN run.turns[at[1]]

IsLatest(run, at) == at[2] = Len(run.turns[at[1]])

AttemptAt(run, at) == run.turns[at[1]][at[2]]

Streaming(run, at) == Known(run, at) /\ AttemptAt(run, at).status = "streaming"

CallsOf(at, attempt) == { <<at, i>> : i \in attempt.calls }

\* The run's current exchange: status.turnId, status.attempt and
\* status.exchangeId always name the last attempt of the last turn.
Current(run) == <<Len(run.turns), Len(run.turns[Len(run.turns)])>>

-----------------------------------------------------------------------------
(* What each event requires *)

TurnEvents     == {"turn.started", "turn.attempt_started", "turn.attempt_failed"}
ContentEvents  == {"assistant.delta", "assistant.tool_call_delta"}
ProviderEvents == {"exchange.requested", "exchange.response_started",
                   "exchange.frame_received", "usage.reported",
                   "assistant.completed"} \cup ContentEvents
ToolEvents     == {"tool.execution_started", "tool.execution_completed",
                   "tool.execution_failed", "tool.result_supplied"}

AwaitingCall(run, e) == /\ run.status = "awaiting_tool_results"
                        /\ e.at[1] = Len(run.turns)
                        /\ e.call \in run.pending

Open(run, e) == [call |-> e.call, number |-> e.number, status |-> "executing"]

TurnAccepted(run, e) ==
  \/ /\ e.type = "turn.started"
     /\ run.status \in {"starting", "attempt_failed", "tool_results_ready"}
     /\ e.at = <<Len(run.turns) + 1, 1>>
  \/ /\ e.type = "turn.attempt_started"
     /\ run.status = "attempt_failed"
     /\ e.at = <<Current(run)[1], Current(run)[2] + 1>>
     /\ LastAttempt(run).status = "failed"
  \/ /\ e.type = "turn.attempt_failed"
     /\ Known(run, e.at) /\ IsLatest(run, e.at)
     /\ \/ run.status = "running" /\ e.at = Current(run)
        \/ run.status = "awaiting_tool_results" /\ e.at[1] = Len(run.turns)
     /\ AttemptAt(run, e.at).status # "failed"

ProviderAccepted_late_content(run, e) ==
  \/ e.type \in ContentEvents \cup {"usage.reported"} /\ Known(run, e.at)
  \/ /\ e.type = "assistant.completed"
     /\ Streaming(run, e.at)

\* Content closes with the answer; frames and usage may still follow it.  A
\* frame is in order if its index is the number of frames recorded before it.
ProviderAccepted(run, e) ==
  \/ /\ e.type = "exchange.requested"
     /\ Streaming(run, e.at) /\ AttemptAt(run, e.at).exchange = "opened"
  \/ /\ e.type = "exchange.response_started"
     /\ Streaming(run, e.at) /\ AttemptAt(run, e.at).exchange = "requested"
  \/ /\ e.type = "exchange.frame_received"
     /\ Known(run, e.at) /\ AttemptAt(run, e.at).exchange = "responding"
     /\ e.inOrder
  \/ /\ e.type = "usage.reported"
     /\ Known(run, e.at)
  \/ /\ e.type \in ContentEvents
     /\ Streaming(run, e.at)
  \/ /\ e.type = "assistant.completed"
     /\ Streaming(run, e.at)
     /\ AttemptAt(run, e.at).calls \subseteq AttemptAt(run, e.at).named

ToolAccepted_executing(run, e) ==
  /\ e.type \in ToolEvents
  /\ AwaitingCall(run, e)
  /\ \/ /\ e.type = "tool.execution_started"
        /\ \A x \in run.executions : ~ (x.call = e.call /\ x.number = e.number)
     \/ /\ e.type \in {"tool.execution_completed", "tool.execution_failed"}
        /\ Open(run, e) \in run.executions
     \/ e.type = "tool.result_supplied" /\ e.call \notin run.results

ToolAccepted(run, e) ==
  /\ e.type \in ToolEvents
  /\ AwaitingCall(run, e)
  /\ \/ /\ e.type = "tool.execution_started"
        /\ \A x \in run.executions : ~ (x.call = e.call /\ x.number = e.number)
        /\ \A x \in run.executions : x.call = e.call => x.status = "failed"
     \/ /\ e.type \in {"tool.execution_completed", "tool.execution_failed"}
        /\ Open(run, e) \in run.executions
     \/ /\ e.type = "tool.result_supplied"
        /\ e.call \notin run.results
        /\ \A x \in run.executions : x.call = e.call => x.status # "executing"

RunAccepted(run, e) ==
  \/ /\ e.type = "run.started"
     /\ run.status = "not_started"
  \/ /\ e.type = "run.completed"
     /\ run.status = "running"
     /\ LastAttempt(run).status = "completed"
     /\ LastAttempt(run).calls = {}
  \/ /\ e.type \in {"run.cancelled", "run.failed"}
     /\ run.status # "not_started"

Accepts_gap(run, sequence, e) ==
  /\ sequence > run.lastSequence
  /\ ~ IsTerminal(run)
  /\ TurnAccepted(run, e) \/ ProviderAccepted(run, e) \/ ToolAccepted(run, e)
       \/ RunAccepted(run, e)

\* `sequence` is the event's own number, which its factory gave it.
Accepts(run, sequence, e) ==
  /\ sequence = run.lastSequence + 1
  /\ ~ IsTerminal(run)
  /\ \/ TurnAccepted(run, e)
     \/ ProviderAccepted(run, e)
     \/ ToolAccepted(run, e)
     \/ RunAccepted(run, e)

-----------------------------------------------------------------------------
(* What each accepted event does *)

TurnReduced(run, e) ==
  CASE e.type = "turn.started" ->
         [run EXCEPT !.status = "running", !.turns = Append(@, <<NewAttempt>>)]
    [] e.type = "turn.attempt_started" ->
         [run EXCEPT !.status = "running",
                     !.turns[e.at[1]] = Append(@, NewAttempt)]
    [] e.type = "turn.attempt_failed" ->
         [run EXCEPT !.status = "attempt_failed", !.pending = {},
                     !.turns[e.at[1]][e.at[2]].status = "failed"]

ProviderReduced(run, e) ==
  LET with(attempt) == [run EXCEPT !.turns[e.at[1]][e.at[2]] = attempt]
      old           == AttemptAt(run, e.at)
  IN  CASE e.type = "exchange.requested" ->
             with([old EXCEPT !.exchange = "requested"])
        [] e.type = "exchange.response_started" ->
             with([old EXCEPT !.exchange = "responding"])
        [] e.type = "assistant.tool_call_delta" ->
             with([old EXCEPT !.calls = @ \cup {e.index},
                              !.named = IF e.hasName THEN @ \cup {e.index} ELSE @])
        [] e.type = "assistant.completed" ->
             IF old.calls = {}
             THEN with([old EXCEPT !.status = "completed"])
             ELSE [with([old EXCEPT !.status = "completed"])
                     EXCEPT !.status = "awaiting_tool_results",
                            !.pending = CallsOf(e.at, old)]
        [] OTHER -> run

ToolReduced_first_result(run, e) ==
  IF e.type # "tool.result_supplied" THEN run
  ELSE [run EXCEPT !.results = @ \cup {e.call}, !.pending = {},
                   !.status = "tool_results_ready"]

ToolReduced(run, e) ==
  LET settled(status) ==
        [run EXCEPT !.executions =
           (@ \ {Open(run, e)}) \cup {[Open(run, e) EXCEPT !.status = status]}]
  IN  CASE e.type = "tool.execution_started" ->
             [run EXCEPT !.executions = @ \cup {Open(run, e)}]
        [] e.type = "tool.execution_completed" -> settled("completed")
        [] e.type = "tool.execution_failed" -> settled("failed")
        [] e.type = "tool.result_supplied" ->
             LET left == CallsOf(Current(run), LastAttempt(run))
                           \ (run.results \cup {e.call})
             IN  [run EXCEPT !.results = @ \cup {e.call}, !.pending = left,
                             !.status = IF left = {} THEN "tool_results_ready" ELSE @]

RunReduced(run, e) ==
  [run EXCEPT !.pending = {},
              !.status = CASE e.type = "run.started"   -> "starting"
                           [] e.type = "run.completed" -> "completed"
                           [] e.type = "run.cancelled" -> "cancelled"
                           [] e.type = "run.failed"    -> "failed"]

NextRun(run, e) ==
  CASE e.type \in TurnEvents     -> TurnReduced(run, e)
    [] e.type \in ProviderEvents -> ProviderReduced(run, e)
    [] e.type \in ToolEvents     -> ToolReduced(run, e)
    [] OTHER                     -> RunReduced(run, e)

Numbered(run, sequence) == [run EXCEPT !.lastSequence = sequence]

Reduced(run, sequence, e) == Numbered(NextRun(run, e), sequence)

-----------------------------------------------------------------------------
(* What the state of a run is expected to satisfy *)

\* An attempt's calls that still have no result.
Unanswered(run, at) == CallsOf(at, AttemptAt(run, at)) \ run.results

\* A run waits for exactly the calls of its last answer that have no result,
\* pauses only on a failed attempt or a fully answered one, and completes only
\* on an answer that called nothing.
StatusFits(run) ==
  LET last == LastAttempt(run) IN
  /\ run.status \in {"not_started", "starting"} => run.turns = <<>>
  /\ run.status = "running" =>
       /\ last.status \in {"streaming", "completed"}
       /\ last.status = "completed" => last.calls = {}
  /\ run.status = "attempt_failed" => last.status = "failed"
  /\ run.status = "awaiting_tool_results" =>
       /\ last.status = "completed"
       /\ run.pending = Unanswered(run, Current(run)) /\ run.pending # {}
  /\ run.status = "tool_results_ready" =>
       /\ last.status = "completed" /\ last.calls # {}
       /\ Unanswered(run, Current(run)) = {}
  /\ run.status = "completed" => last.status = "completed" /\ last.calls = {}

\* Attempts follow failed attempts; turns follow completed, answered turns.
AnsweredInOrder(run) ==
  \A t \in DOMAIN run.turns : \A a \in DOMAIN run.turns[t] :
    /\ a < Len(run.turns[t]) => run.turns[t][a].status = "failed"
    /\ t < Len(run.turns) /\ a = Len(run.turns[t]) =>
         /\ run.turns[t][a].status = "completed"
         /\ run.turns[t][a].calls # {}
         /\ Unanswered(run, <<t, a>>) = {}

\* At most one execution of a call has not failed, and none of a call that has
\* its result is open.
ServedOnce(run) ==
  \A x, y \in run.executions :
    /\ x.call = y.call /\ x.status # "failed" /\ y.status # "failed" => x = y
    /\ x.call \in run.results => x.status # "executing"

=============================================================================
