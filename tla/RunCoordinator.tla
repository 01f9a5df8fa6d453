---------------------------- MODULE RunCoordinator ----------------------------
(***************************************************************************)
(* RunCoordinator (packages/core/src/run-kernel/coordinator.ts): the owner *)
(* of one live run.  It stamps events with its factory's next number,      *)
(* applies them through the reducer, and remembers the execution whose     *)
(* stream it is accepting.                                                 *)
(*                                                                         *)
(* There is one action per method.  `Next` is the most general client: any *)
(* method, at any time, in any order, with a provider that may emit any    *)
(* event.  Each real client (the batch cell executor, the interactive      *)
(* session) makes a subset of these calls.                                 *)
(*                                                                         *)
(* An event is numbered before the reducer checks it, so an event it       *)
(* refuses still uses its number up.                                       *)
(***************************************************************************)
EXTENDS RunKernel

CONSTANTS
  MaxEvents,      \* bound: event numbers handed out
  MaxTurns,       \* bound: turns begun
  MaxAttempts,    \* bound: attempts of one turn
  MaxExecutions,  \* bound: executions of one tool call
  None            \* no active execution

ASSUME BoundsAssumption ==
  /\ MaxEvents \in Nat /\ MaxTurns \in Nat
  /\ MaxAttempts \in Nat /\ MaxExecutions \in Nat
  /\ None \notin Nat \X Nat

VARIABLES
  run,       \* stateValue: the reduced state
  sequence,  \* the event factory's next number
  active     \* activeExecution, as <<turn, attempt>>

coordinatorVars == <<run, sequence, active>>

-----------------------------------------------------------------------------
(* Applying one event *)

Accepted(e) == Accepts(run, sequence, e)

Apply(e) ==
  /\ sequence' = sequence + 1
  /\ run' = IF Accepted(e) THEN Reduced(run, sequence, e) ELSE run

\* A number is out of step once a refused event has used one up.
InStep == sequence = run.lastSequence + 1

-----------------------------------------------------------------------------
(* The methods *)

\* The constructor.
Init ==
  /\ run = NewRun
  /\ sequence = run.lastSequence + 1
  /\ active = None

BeginTurn(from, number) ==
  LET at == <<Len(from.turns) + 1, 1>>
      e  == [type |-> "turn.started", at |-> at]
  IN  /\ active' = at
      /\ sequence' = number + 1
      /\ run' = IF Accepts(from, number, e) THEN Reduced(from, number, e) ELSE from

Start ==
  /\ run.status = "not_started"
  /\ IF Accepted([type |-> "run.started"])
     THEN BeginTurn(Reduced(run, sequence, [type |-> "run.started"]), sequence + 1)
     ELSE Apply([type |-> "run.started"]) /\ UNCHANGED active

Retry ==
  /\ run.status = "attempt_failed"
  /\ LET at == <<Current(run)[1], Current(run)[2] + 1>>
     IN  /\ active' = at
         /\ Apply([type |-> "turn.attempt_started", at |-> at])

Continue_after_failure ==
  /\ run.status \in {"tool_results_ready", "attempt_failed"}
  /\ BeginTurn(run, sequence)

Continue ==
  /\ run.status = "tool_results_ready"
  /\ BeginTurn(run, sequence)

AcceptEvent(e) ==
  /\ active # None
  /\ Apply(e)
  /\ UNCHANGED active

AcceptFailed(retryable) ==
  /\ active # None
  /\ active' = None
  /\ Apply(IF retryable THEN [type |-> "turn.attempt_failed", at |-> active]
                        ELSE [type |-> "run.failed"])

AcceptCancelled ==
  /\ active # None
  /\ active' = None
  /\ Apply([type |-> "run.cancelled"])

\* A paused or waiting run is left for its owner.  A running one whose
\* answer is complete is complete; a stream that ended any earlier fails it.
FinishTurnStream ==
  /\ active' = None
  /\ IF \/ IsTerminal(run)
        \/ run.status \in {"attempt_failed", "awaiting_tool_results"}
     THEN UNCHANGED <<run, sequence>>
     ELSE IF run.status = "running" /\ LastAttempt(run).status = "completed"
     THEN Apply([type |-> "run.completed"])
     ELSE Apply([type |-> "run.failed"])

ExecutionsOf(call) == { x \in run.executions : x.call = call }

\* The execution identifier counts the call's earlier executions.
NextExecution(call) == Cardinality(ExecutionsOf(call)) + 1

StartToolExecution(call) ==
  /\ run.status = "awaiting_tool_results"
  /\ Apply([type |-> "tool.execution_started", at |-> Current(run),
            call |-> call, number |-> NextExecution(call)])
  /\ UNCHANGED active

SettleToolExecution(call, number, succeeded) ==
  /\ run.status = "awaiting_tool_results"
  /\ Apply([type |-> IF succeeded THEN "tool.execution_completed"
                                  ELSE "tool.execution_failed",
            at |-> Current(run), call |-> call, number |-> number])
  /\ UNCHANGED active

SupplyToolResult(call) ==
  /\ run.status = "awaiting_tool_results"
  /\ Apply([type |-> "tool.result_supplied", at |-> Current(run), call |-> call])
  /\ UNCHANGED active

Fail ==
  /\ ~ IsTerminal(run)
  /\ active' = None
  /\ Apply([type |-> "run.failed"])

Cancel ==
  /\ ~ IsTerminal(run)
  /\ active' = None
  /\ Apply([type |-> "run.cancelled"])

-----------------------------------------------------------------------------
(* The most general client *)

\* fromProvider: a provider event, stamped with the active exchange.
StreamEvents ==
  IF active = None THEN {}
  ELSE   { [type |-> t, at |-> active, inOrder |-> o] :
             t \in ProviderEvents \ {"assistant.tool_call_delta"}, o \in BOOLEAN }
    \cup { [type |-> "assistant.tool_call_delta", at |-> active,
            index |-> i, hasName |-> n] : i \in CallIndices, n \in BOOLEAN }

KnownCalls ==
  UNION { CallsOf(at, AttemptAt(run, at)) :
            at \in { p \in (1..MaxTurns) \X (1..MaxAttempts) : Known(run, p) } }

Provider ==
  \/ \E e \in StreamEvents : AcceptEvent(e)
  \/ \E retryable \in BOOLEAN : AcceptFailed(retryable)
  \/ AcceptCancelled
  \/ FinishTurnStream

Tools ==
  \E call \in KnownCalls :
    \/ NextExecution(call) <= MaxExecutions /\ StartToolExecution(call)
    \/ \E number \in 1..MaxExecutions, succeeded \in BOOLEAN :
         SettleToolExecution(call, number, succeeded)
    \/ SupplyToolResult(call)

Owner ==
  \/ Start
  \/ Len(run.turns) < MaxTurns /\ Continue
  \/ /\ run.status = "attempt_failed" => Current(run)[2] < MaxAttempts
     /\ Retry
  \/ Fail
  \/ Cancel

Next == sequence < MaxEvents /\ (Provider \/ Tools \/ Owner)

Spec == Init /\ [][Next]_coordinatorVars

-----------------------------------------------------------------------------
(* Invariants *)

TypeOK ==
  /\ run \in Runs
  /\ sequence \in Nat
  /\ active \in (Nat \X Nat) \cup {None}

\* The status a run shows and the turns it records tell one story (the guards
\* of every case of reduceRunEvent).
StatusMatchesTurns == StatusFits(run)

\* A turn is only ever followed by another once its answer is complete and
\* every tool call in it has a result, and an attempt only by another once it
\* failed: what nextTurnInput sends to the provider has no unanswered call,
\* however failures, retries and results interleave.
TurnsAnsweredInOrder == AnsweredInOrder(run)

\* One call is served once: at most one of its executions has not failed, and
\* a call that has its result is not executing (tool.execution_started and
\* tool.result_supplied refuse the rest).
CallsServedOnce == ServedOnce(run)

\* The stream being accepted belongs to the run's last attempt, unless a
\* refused event has already cut the coordinator off from its state.
StreamIsCurrent == InStep /\ active # None => active = Current(run)

\* The run, its events and the stream being accepted never contradict each
\* other, whatever order clients and providers act in.
RunConsistent == TypeOK /\ StatusMatchesTurns /\ StreamIsCurrent

-----------------------------------------------------------------------------
(* Action properties *)

\* What an attempt said is fixed once it has settled: later events may add
\* frames and usage, fail it, or follow it, but never edit or drop it.
SettledContentFixed ==
  [][\A t \in DOMAIN run.turns : \A a \in DOMAIN run.turns[t] :
       /\ Known(run', <<t, a>>)
       /\ run.turns[t][a].status # "streaming" =>
            /\ run'.turns[t][a].calls = run.turns[t][a].calls
            /\ run'.turns[t][a].status \in {run.turns[t][a].status, "failed"}
    ]_coordinatorVars

\* A refused event is the last thing that happens to a run: no later method,
\* Fail and Cancel included, can change it (create numbers the event before
\* reduceRunEvent compares the number).
RefusalIsFinal == [][~ InStep => UNCHANGED run /\ ~ InStep']_coordinatorVars

=============================================================================
