------------------------------ MODULE DecisionRun ------------------------------
(***************************************************************************)
(* How a decision run moves (packages/core/src/decision-run.ts): pure      *)
(* functions over one run, which is the same input sent once, plus any     *)
(* retries of it.  The experiment's decision cell and the interactive      *)
(* decision session both move a run by these functions and by nothing      *)
(* else.                                                                   *)
(*                                                                         *)
(* `Saveable` is what the saved form accepts (decision-trace.ts).          *)
(*                                                                         *)
(* Left out: the answers and the questions (a completed event carries an   *)
(* answer to each, which the protocol adapter has checked), the request    *)
(* and the response recorded with an exchange, messages, identifiers.      *)
(***************************************************************************)
EXTENDS Integers, Sequences

CONSTANT Unset   \* no error, no time

\* `limited`: the provider answered 429.  Failures that the driver classifies
\* itself, protocol violations and thrown host errors, never are.
Errors == [retryable : BOOLEAN, limited : BOOLEAN]

ASSUME UnsetAssumption == Unset \notin Nat /\ Unset \notin Errors

ProtocolError == [retryable |-> FALSE, limited |-> FALSE]
ThrownErrors  == [retryable : BOOLEAN, limited : {FALSE}]

TerminalDecisions == {"completed", "cancelled", "failed"}
DecisionStatuses == {"not_started", "running", "paused"} \cup TerminalDecisions

DecisionAttempts == [status : {"running"} \cup TerminalDecisions,
             answered : BOOLEAN, frames : {0, 1}, error : Errors \cup {Unset}]

NewDecisionRun == [status |-> "not_started", attempts |-> <<>>, error |-> Unset,
                   startedAt |-> Unset, endedAt |-> Unset, stampedAt |-> Unset]

IsTerminalDecision(run) == run.status \in TerminalDecisions

Last(run) == run.attempts[Len(run.attempts)]

-----------------------------------------------------------------------------
(* The transitions *)

NewDecisionAttempt == [status |-> "running", answered |-> FALSE, frames |-> 0, error |-> Unset]

\* beginDecisionAttempt of a new run, retryDecisionRun of a paused one.
Begun(run, at) ==
  [run EXCEPT !.status = "running",
              !.attempts = Append(@, NewDecisionAttempt),
              !.error = Unset,
              !.startedAt = IF @ = Unset THEN at ELSE @]

WithLast(run, attempt) == [run EXCEPT !.attempts[Len(run.attempts)] = attempt]

\* A terminal status holds its own time, which a trace compares with endedAt.
Ended(run, status, at) ==
  [run EXCEPT !.status = status, !.endedAt = at, !.stampedAt = at]

FailedAttempt(run, error, at) ==
  LET failed == WithLast(run, [Last(run) EXCEPT !.status = "failed",
                                                !.answered = FALSE, !.error = error])
  IN  IF error.retryable
      THEN [failed EXCEPT !.status = "paused", !.error = error]
      ELSE [Ended(failed, "failed", at) EXCEPT !.error = error]

CancelledAttempt(run, at) ==
  Ended(WithLast(run, [Last(run) EXCEPT !.status = "cancelled"]), "cancelled", at)

CompletedAttempt(run, at) ==
  Ended(WithLast(run, [Last(run) EXCEPT !.status = "completed", !.answered = TRUE]),
        "completed", at)

\* applyDecisionEvent: what a host's event does to a running attempt.
HostEvents ==
  [type : {"request", "response_started", "frame", "completed", "cancelled"}]
    \cup [type : {"failed"}, error : Errors]

Applied(run, e, at) ==
  CASE e.type = "frame" ->
         IF Last(run).frames > 0
         THEN FailedAttempt(run, ProtocolError, at)
         ELSE WithLast(run, [Last(run) EXCEPT !.frames = 1])
    [] e.type = "completed" -> CompletedAttempt(run, at)
    [] e.type = "failed"    -> FailedAttempt(run, e.error, at)
    [] e.type = "cancelled" -> CancelledAttempt(run, at)
    [] OTHER                -> run

\* finishDecisionAttemptStream
FinishedStream(run, at) ==
  IF run.status # "running" THEN run ELSE FailedAttempt(run, ProtocolError, at)

Stopped(run, at) ==
  CASE run.status = "running" -> CancelledAttempt(run, at)
    [] run.status = "paused"  -> Ended(run, "failed", at)
    [] OTHER                  -> run

\* Whether the run's last attempt failed on a 429 (rateLimitedAttempt).
DecisionRateLimited(run) == /\ Last(run).status = "failed"
                    /\ Last(run).error.limited

-----------------------------------------------------------------------------
(* The saved form *)

\* checkAttempts: every attempt has finished, each holds what its status says
\* and at most one frame, and only a failed one was followed by another.
AttemptsSaveable(run) ==
  /\ run.attempts # <<>>
  /\ \A i \in DOMAIN run.attempts :
       LET attempt == run.attempts[i] IN
       /\ attempt.status # "running"
       /\ i < Len(run.attempts) => attempt.status = "failed"
       /\ attempt.answered = (attempt.status = "completed")
       /\ (attempt.error # Unset) = (attempt.status = "failed")
       /\ attempt.frames <= 1

\* checkStatus: the run and its last attempt agree.
StatusSaveable(run) ==
  /\ run.status = Last(run).status
  /\ run.status = "failed" => run.error = Last(run).error
  /\ run.stampedAt = run.endedAt
  /\ run.startedAt <= run.endedAt

\* decisionRunTrace and parseDecisionRunTrace
Saveable(run) ==
  /\ IsTerminalDecision(run)
  /\ run.startedAt # Unset /\ run.endedAt # Unset
  /\ AttemptsSaveable(run)
  /\ StatusSaveable(run)

=============================================================================
