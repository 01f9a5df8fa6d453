------------------------------- MODULE ChatCell -------------------------------
(***************************************************************************)
(* One chat repetition of a batch: ChatCellExecutor.execute with           *)
(* serveToolCalls (packages/runner/src/chat-cell-executor.ts), the turn    *)
(* driver it awaits (provider-turn-driver.ts), the evidence around a tool  *)
(* execution (core/src/tool-execution.ts), and the transport it reads.     *)
(*                                                                         *)
(* `pc` is the await, or the synchronous stretch, the repetition is in:    *)
(*   new, streaming (reading the transport's events), ended (the transport *)
(*   has sent its own failed or cancelled event), caught (the driver's     *)
(*   catch), driven (the driver returned), waiting (out a rate limit),     *)
(*   serving (between tool calls), executing, executed, finalizing, and    *)
(*   the two ways execute can settle: returned and thrown.                 *)
(*                                                                         *)
(* The batch may abort the repetition's signal between any two steps: the  *)
(* awaits let it in, and so do the progress reports, whose listener may    *)
(* call cancel() synchronously.                                            *)
(***************************************************************************)
EXTENDS RunCoordinator

CONSTANTS
  Ceiling,     \* experimentTurnCeiling(plan)
  MaxRetries,  \* retryPolicy.rateLimited.maxRetries
  Quirks       \* what the transport may do beyond the plain sequence

\* late_content:  content after the answer's finish reason
\*                (normalizeOpenAICompatibleStream passes it on)
\* nameless_call: a tool call that is never named (the same adapter)
\* late_break:    an error thrown after the stream's own failed or cancelled
\*                event (the HTTP transport still has the end to read)

VARIABLES
  pc,        \* see above
  aborted,   \* context.signal.aborted
  limited,   \* rateLimitedAttempt(coordinator.state) finds an attempt
  todo,      \* serveToolCalls: calls of its loop still to come
  served     \* executeToolCall's outcome: whether it completed

cellVars == <<run, sequence, active, pc, aborted, limited, todo, served>>

Settled == pc \in {"returned", "thrown"}

\* A coordinator method raises when the reducer refuses its event.
Leads(next, otherwise) == pc' = IF InStep' THEN next ELSE otherwise

CellInit ==
  /\ Init
  /\ pc = "new" /\ aborted = FALSE /\ limited = FALSE
  /\ todo = {} /\ served = FALSE

CellStart ==
  /\ pc = "new"
  /\ Start
  /\ Leads("streaming", "thrown")
  /\ UNCHANGED <<aborted, limited, todo, served>>

Abort ==
  /\ pc # "new" /\ ~ Settled /\ ~ aborted
  /\ aborted' = TRUE
  /\ UNCHANGED <<run, sequence, active, pc, limited, todo, served>>

-----------------------------------------------------------------------------
(* One provider turn: driveProviderTurn *)

\* The order in which every provider adapter sends its events.
Sends(e) ==
  LET attempt == AttemptAt(run, active) IN
  CASE e.type = "exchange.requested"        -> attempt.exchange = "opened"
    [] e.type = "exchange.response_started" -> attempt.exchange = "requested"
    [] OTHER ->
         /\ attempt.exchange = "responding"
         /\ e.type = "exchange.frame_received" => e.inOrder
         /\ e.type \in ContentEvents =>
              attempt.status = "streaming" \/ "late_content" \in Quirks
         /\ e.type = "assistant.completed" => attempt.status = "streaming"
         /\ e.type = "assistant.tool_call_delta" =>
              e.hasName \/ "nameless_call" \in Quirks

StreamEmits ==
  /\ pc = "streaming" /\ sequence < MaxEvents
  /\ \E e \in StreamEvents :
       /\ Sends(e)
       /\ AcceptEvent(e)
  /\ Leads("streaming", "caught")
  /\ UNCHANGED <<aborted, limited, todo, served>>

\* Only a retryable failure leaves a failed attempt to find a 429 in.
StreamFails ==
  /\ pc = "streaming"
  /\ \E retryable, is429 \in BOOLEAN :
       /\ AcceptFailed(retryable)
       /\ limited' = (retryable /\ is429)
  /\ Leads("ended", "caught")
  /\ UNCHANGED <<aborted, todo, served>>

StreamCancelled ==
  /\ pc = "streaming" /\ aborted
  /\ AcceptCancelled
  /\ Leads("ended", "caught")
  /\ UNCHANGED <<aborted, limited, todo, served>>

StreamEnds ==
  /\ pc \in {"streaming", "ended"}
  /\ FinishTurnStream
  /\ Leads("driven", "caught")
  /\ UNCHANGED <<aborted, limited, todo, served>>

\* prepareCredential, executeTurn or the event stream rejects.
StreamBreaks ==
  /\ pc = "streaming" \/ (pc = "ended" /\ "late_break" \in Quirks)
  /\ pc' = "caught"
  /\ UNCHANGED <<run, sequence, active, aborted, limited, todo, served>>

EndRun(type) ==
  IF IsTerminal(run)
  THEN pc' = "thrown" /\ UNCHANGED coordinatorVars
  ELSE /\ IF type = "run.failed" THEN Fail ELSE Cancel
       /\ Leads("finalizing", "thrown")

\* The driver's catch, and execute's answer to "aborted".
DriverCatches ==
  /\ pc = "caught"
  /\ \/ aborted /\ EndRun("run.cancelled")
     \/ ~ aborted /\ active = None /\ pc' = "thrown" /\ UNCHANGED coordinatorVars
     \/ /\ ~ aborted
        /\ \E retryable \in BOOLEAN : AcceptFailed(retryable)
        /\ Leads("driven", "thrown")
  /\ UNCHANGED <<aborted, limited, todo, served>>

-----------------------------------------------------------------------------
(* Between turns: execute's loop *)

Retries == Current(run)[2] - 1

RetryAllowed_one_more == limited /\ Retries <= MaxRetries

RetryAllowed == limited /\ Retries < MaxRetries

RateLimited ==
  /\ pc = "driven" /\ RetryAllowed
  /\ pc' = "waiting"
  /\ UNCHANGED <<run, sequence, active, aborted, limited, todo, served>>

WaitEnds_only_unaborted ==
  /\ pc = "waiting" /\ ~ aborted
  /\ Retry /\ Leads("streaming", "thrown") /\ limited' = FALSE
  /\ UNCHANGED <<aborted, todo, served>>

\* The wait ends by its timer, or at once when the signal aborts.
WaitEnds ==
  /\ pc = "waiting"
  /\ \/ aborted /\ EndRun("run.cancelled") /\ UNCHANGED limited
     \/ ~ aborted /\ Retry /\ Leads("streaming", "thrown") /\ limited' = FALSE
  /\ UNCHANGED <<aborted, todo, served>>

TurnSettled ==
  /\ pc = "driven" /\ ~ RetryAllowed /\ run.status # "awaiting_tool_results"
  /\ pc' = "finalizing"
  /\ UNCHANGED <<run, sequence, active, aborted, limited, todo, served>>

CeilingReached ==
  /\ pc = "driven" /\ run.status = "awaiting_tool_results"
  /\ Len(run.turns) >= Ceiling
  /\ EndRun("run.failed")
  /\ UNCHANGED <<aborted, limited, todo, served>>

BeginServing ==
  /\ pc = "driven" /\ run.status = "awaiting_tool_results"
  /\ Len(run.turns) < Ceiling
  /\ pc' = "serving" /\ todo' = run.pending
  /\ UNCHANGED <<run, sequence, active, aborted, limited, served>>

-----------------------------------------------------------------------------
(* serveToolCalls *)

\* completedToolCalls are in the order of their indexes.
NextCall == CHOOSE call \in todo : \A other \in todo : call[2] <= other[2]

\* The model called a tool the plan does not expose, or no binding serves it.
CallUnserved ==
  /\ pc = "serving" /\ todo # {}
  /\ EndRun("run.failed")
  /\ UNCHANGED <<aborted, limited, todo, served>>

\* After the tool's lock, which `serving` also waits for.
BeginCall ==
  /\ pc = "serving" /\ todo # {}
  /\ \/ aborted /\ EndRun("run.cancelled")
     \/ ~ aborted /\ StartToolExecution(NextCall) /\ Leads("executing", "thrown")
  /\ UNCHANGED <<aborted, limited, todo, served>>

\* The executor answers, or throws, which counts as having failed.
ExecutorReturns ==
  /\ pc = "executing"
  /\ \E completed \in BOOLEAN :
       /\ SettleToolExecution(NextCall, NextExecution(NextCall) - 1, completed)
       /\ served' = completed
  /\ Leads("executed", "thrown")
  /\ UNCHANGED <<aborted, limited, todo>>

AfterExecution_tries_again ==
  /\ pc = "executed"
  /\ \/ aborted /\ EndRun("run.cancelled") /\ UNCHANGED todo
     \/ ~ aborted /\ ~ served /\ pc' = "serving" /\ UNCHANGED <<run, sequence, active, todo>>
     \/ /\ ~ aborted /\ served
        /\ SupplyToolResult(NextCall) /\ Leads("serving", "thrown")
        /\ todo' = todo \ {NextCall}
  /\ UNCHANGED <<aborted, limited, served>>

AfterExecution ==
  /\ pc = "executed"
  /\ \/ aborted /\ EndRun("run.cancelled") /\ UNCHANGED todo
     \/ ~ aborted /\ ~ served /\ EndRun("run.failed") /\ UNCHANGED todo
     \/ /\ ~ aborted /\ served
        /\ SupplyToolResult(NextCall) /\ Leads("serving", "thrown")
        /\ todo' = todo \ {NextCall}
  /\ UNCHANGED <<aborted, limited, served>>

AllServed ==
  /\ pc = "serving" /\ todo = {}
  /\ Continue
  /\ Leads("streaming", "thrown")
  /\ UNCHANGED <<aborted, limited, todo, served>>

Finalize_always_fails ==
  /\ pc = "finalizing"
  /\ IF IsTerminal(run) THEN pc' = "thrown" /\ UNCHANGED coordinatorVars
     ELSE Fail /\ Leads("returned", "thrown")
  /\ UNCHANGED <<aborted, limited, todo, served>>

\* Whatever is still open when the loop is left fails the run.
Finalize ==
  /\ pc = "finalizing"
  /\ IF IsTerminal(run) THEN pc' = "returned" /\ UNCHANGED coordinatorVars
     ELSE Fail /\ Leads("returned", "thrown")
  /\ UNCHANGED <<aborted, limited, todo, served>>

-----------------------------------------------------------------------------
(* The repetition *)

Transport == StreamEmits \/ StreamFails \/ StreamCancelled
StreamStops == StreamEnds \/ StreamBreaks

\* What runs on without waiting for the provider or a tool.  The wait for a
\* rate limit is on a timer.
Own == \/ CellStart \/ DriverCatches
       \/ RateLimited \/ WaitEnds \/ TurnSettled \/ CeilingReached \/ BeginServing
       \/ CallUnserved \/ BeginCall \/ AfterExecution \/ AllServed \/ Finalize

CellNext == Own \/ Transport \/ StreamStops \/ ExecutorReturns \/ Abort

\* The code sets no deadline on a provider or a tool, so nothing makes them
\* answer.  Both are given the signal, and end when it aborts.
CellSpec ==
  /\ CellInit /\ [][CellNext]_cellVars
  /\ WF_cellVars(Own)
  /\ WF_cellVars(aborted /\ (StreamStops \/ ExecutorReturns))

-----------------------------------------------------------------------------
(* Invariants *)

CellTypeOK ==
  /\ TypeOK
  /\ pc \in {"new", "streaming", "ended", "caught", "driven", "waiting", "serving",
             "executing", "executed", "finalizing", "returned", "thrown"}
  /\ aborted \in BOOLEAN /\ limited \in BOOLEAN /\ served \in BOOLEAN
  /\ todo \subseteq CallIds

\* Every exit of execute is a run that has ended and whose evidence is closed:
\* no tool execution is left open in it, however it was cut short.
EvidenceClosed ==
  pc = "returned" =>
    /\ IsTerminal(run)
    /\ \A x \in run.executions : x.status # "executing"

\* One repetition executes a call once: whatever fails around it, the loop
\* never comes back to a call it has begun.
ExecutedOnce == \A x, y \in run.executions : x.call = y.call => x = y

\* A repetition ends cancelled only when the batch stopped it.  The scheduler
\* reads a cancelled cell as the user's stop and ends the whole batch for it.
CancelledOnlyWhenStopped == run.status = "cancelled" => aborted

\* A chat repetition never comes back to a call it has begun, closes the
\* evidence of every execution before it returns, and ends cancelled only when
\* the batch stopped it (chat-cell-executor.ts:128-212).
ChatEndsWithEvidence ==
  CellTypeOK /\ EvidenceClosed /\ ExecutedOnce /\ CancelledOnlyWhenStopped

\* Every way out of execute ends the repetition with a terminal run, of which a
\* trace can be saved (the comment at chat-cell-executor.ts:128-130).
EveryExitTerminal == Settled => pc = "returned" /\ IsTerminal(run)

-----------------------------------------------------------------------------
(* Temporal properties *)

\* execute rejects, and with it the whole batch is interrupted, in two cases
\* only: the reducer refused an event of the stream, or the stream broke when
\* it had already settled the turn itself and the driver had no execution left
\* to fail.  Nothing the loop, the rate-limit wait or the tool calls do on any
\* path raises on its own.
ThrowsOnlyWhenCutOff ==
  [][pc' = "thrown" => ~ InStep' \/ (pc = "caught" /\ active = None)]_cellVars

\* Once the batch stops, every repetition in flight settles: run() awaits
\* them all before it can return.
StopEnds == aborted ~> Settled

\* The repetition keeps the promise the batch was confirmed on.
Stage == CASE pc = "new"                                              -> "unstarted"
           [] pc \in {"streaming", "ended", "caught", "driven"}         -> "turn"
           [] pc = "waiting"                                          -> "waiting"
           [] pc = "finalizing"                                       -> "ending"
           [] pc \in {"serving", "executing", "executed"}             -> "serving"
           [] pc = "returned"                                         -> "settled"
           [] pc = "thrown"                                           -> "broken"

Promise == INSTANCE Repetition WITH
  stage   <- Stage,
  turns   <- Len(run.turns),
  retries <- IF run.turns = <<>> THEN 0 ELSE Retries

\* Turns within the confirmed ceiling, attempts within the retry policy, and
\* no turn after the repetition has settled, whatever provider and tools do.
PromisesKept == Promise!Spec

=============================================================================
