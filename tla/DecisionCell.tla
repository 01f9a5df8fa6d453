----------------------------- MODULE DecisionCell -----------------------------
(***************************************************************************)
(* One decision repetition of a batch: DecisionCellExecutor.execute        *)
(* (packages/runner/src/decision-cell-executor.ts) and the attempt driver  *)
(* it awaits, driveDecisionAttempt (core/src/decision-run.ts).             *)
(*                                                                         *)
(* `place` is where execute is: new, driving (an exchange is open), cut    *)
(* (the driver saw the abort and left the run's end to its caller),        *)
(* settled (the driver applied the attempt's end), waiting (out a rate     *)
(* limit), ending, returned.                                               *)
(*                                                                         *)
(* Times come from the wall clock of the machine, which moves only forward *)
(* unless ClockSteps: then it may also be set back.                        *)
(***************************************************************************)
EXTENDS DecisionRun

CONSTANTS
  MaxDecisionRetries,  \* retryPolicy.rateLimited.maxRetries
  MaxClock,            \* bound: the largest time
  ClockSteps           \* the clock may be set back

ASSUME DecisionCellAssumption ==
  /\ MaxDecisionRetries \in Nat /\ MaxClock \in Nat /\ ClockSteps \in BOOLEAN

VARIABLES
  decision,   \* the decision run
  place,      \* see above
  signalled,  \* context.signal.aborted
  clock       \* the wall clock

decisionVars == <<decision, place, signalled, clock>>

DecisionInit ==
  decision = NewDecisionRun /\ place = "new" /\ signalled = FALSE /\ clock = 0

Tick ==
  /\ clock' \in 0..MaxClock /\ clock' # clock
  /\ ClockSteps \/ clock' > clock
  /\ UNCHANGED <<decision, place, signalled>>

AbortDecision ==
  /\ place \notin {"new", "returned"} /\ ~ signalled
  /\ signalled' = TRUE
  /\ UNCHANGED <<decision, place, clock>>

Begin ==
  /\ place = "new"
  /\ decision' = Begun(decision, clock) /\ place' = "driving"
  /\ UNCHANGED <<signalled, clock>>

-----------------------------------------------------------------------------
(* driveDecisionAttempt *)

Drives_past_the_end(next) ==
  /\ place = "driving"
  /\ IF signalled THEN place' = "cut" /\ UNCHANGED decision
     ELSE decision' = next /\ place' \in {"driving", "settled"}
  /\ UNCHANGED <<signalled, clock>>

\* After each event, and at the stream's end: an abort is left to the caller.
Drives(next) ==
  /\ place = "driving"
  /\ IF signalled THEN place' = "cut" /\ UNCHANGED decision
     ELSE /\ decision' = next
          /\ place' = IF next.status = "running" THEN "driving" ELSE "settled"
  /\ UNCHANGED <<signalled, clock>>

HostSends  == \E e \in HostEvents : Drives(Applied(decision, e, clock))
DecisionStreamEnds == Drives(FinishedStream(decision, clock))

\* The credential, the host or its stream rejects.
HostBreaks == \E error \in ThrownErrors : Drives(FailedAttempt(decision, error, clock))

-----------------------------------------------------------------------------
(* execute *)

Cut ==
  /\ place = "cut"
  /\ decision' = IF decision.status = "running"
                 THEN Applied(decision, [type |-> "cancelled"], clock)
                 ELSE Stopped(decision, clock)
  /\ place' = "ending"
  /\ UNCHANGED <<signalled, clock>>

DecisionRetries == Len(decision.attempts) - 1

DecisionRetryAllowed ==
  /\ DecisionRateLimited(decision) /\ decision.status = "paused"
  /\ DecisionRetries < MaxDecisionRetries

DecisionSettled ==
  /\ place = "settled"
  /\ place' = IF DecisionRetryAllowed THEN "waiting" ELSE "ending"
  /\ UNCHANGED <<decision, signalled, clock>>

\* The wait ends by its timer, or at once when the signal aborts.
DecisionWaitEnds ==
  /\ place = "waiting"
  /\ IF signalled THEN place' = "ending" /\ UNCHANGED decision
     ELSE decision' = Begun(decision, clock) /\ place' = "driving"
  /\ UNCHANGED <<signalled, clock>>

Return_paused ==
  /\ place = "ending" /\ place' = "returned" /\ UNCHANGED <<decision, signalled, clock>>

\* A batch never leaves a retryable failure waiting for a person.
Return ==
  /\ place = "ending"
  /\ decision' = IF decision.status = "paused" THEN Stopped(decision, clock) ELSE decision
  /\ place' = "returned"
  /\ UNCHANGED <<signalled, clock>>

-----------------------------------------------------------------------------
DecisionOwn == Begin \/ Cut \/ DecisionSettled \/ DecisionWaitEnds \/ Return

Host == HostSends \/ DecisionStreamEnds \/ HostBreaks

DecisionNext == DecisionOwn \/ Host \/ AbortDecision \/ Tick

\* No deadline is set on a host, but every transport ends when it is aborted.
DecisionSpec ==
  /\ DecisionInit /\ [][DecisionNext]_decisionVars
  /\ WF_decisionVars(DecisionOwn)
  /\ WF_decisionVars(signalled /\ (DecisionStreamEnds \/ HostBreaks))

-----------------------------------------------------------------------------
(* Invariants *)

DecisionTypeOK ==
  /\ decision.status \in DecisionStatuses
  /\ \A i \in DOMAIN decision.attempts : decision.attempts[i] \in DecisionAttempts
  /\ place \in {"new", "driving", "cut", "settled", "waiting", "ending", "returned"}
  /\ signalled \in BOOLEAN /\ clock \in 0..MaxClock

\* Whatever the host sends, breaks or withholds, and whenever the batch stops,
\* a decision repetition ends as a run of which a trace can be saved ("A run
\* that ends here is exactly what the D22 trace format accepts",
\* decision-run.ts:16-17).
EndsSaveable == DecisionTypeOK /\ (place = "returned" => Saveable(decision))

-----------------------------------------------------------------------------
(* Temporal properties *)

\* The outcome of a decision is final: neither an abort that races the answer
\* nor a late event changes a run that has ended.
OutcomeIsFinal == [][IsTerminalDecision(decision) => UNCHANGED decision]_decisionVars

DecisionStopEnds == signalled ~> place = "returned"

DecisionStage == CASE place = "new"                  -> "unstarted"
           [] place \in {"driving", "settled"} -> "turn"
           [] place = "waiting"              -> "waiting"
           [] place \in {"cut", "ending"}    -> "ending"
           [] place = "returned"             -> "settled"

DecisionPromise == INSTANCE Repetition WITH
  Ceiling <- 1,
  MaxRetries <- MaxDecisionRetries,
  stage   <- DecisionStage,
  turns   <- IF decision.attempts = <<>> THEN 0 ELSE 1,
  retries <- IF decision.attempts = <<>> THEN 0 ELSE DecisionRetries

\* A decision cell keeps what the batch was confirmed on: one turn, attempts
\* within the retry policy, and nothing after it has settled.
KeepsPromise == DecisionPromise!Spec

=============================================================================
