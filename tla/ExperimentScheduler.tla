-------------------------- MODULE ExperimentScheduler --------------------------
(***************************************************************************)
(* ExperimentController (packages/runner/src/experiment-controller.ts):    *)
(* runs the cells of one frozen plan, up to an overall and a per-connection*)
(* limit, pauses a connection its provider rate-limits, and writes one     *)
(* result if nothing interrupted it.                                       *)
(*                                                                         *)
(* What a cell does inside is left to ChatCell; here a cell is busy with   *)
(* its provider turn until it is rate-limited or ends.  The scan that      *)
(* starts cells is synchronous: while it runs only the clock moves, and    *)
(* cancel(), which a progress listener may call from inside it.            *)
(***************************************************************************)
EXTENDS Integers, Sequences, FiniteSets, SequencesExt

CONSTANTS
  CellCount,     \* plan.cells.length
  ConnectionOf,  \* the connection of each cell, in plan order
  MaxInFlight,   \* concurrency.maxInFlight
  Limit,         \* each connection's limit
  MaxRetries,    \* retryPolicy.rateLimited.maxRetries
  Waits,         \* what rateLimitPauseMs may return
  MaxTime,       \* bound: the clock
  None           \* no stop recorded, no outcome yet

Cells == 1..CellCount
Connections == { ConnectionOf[c] : c \in Cells }

ASSUME SchedulerAssumption ==
  /\ CellCount \in Nat \ {0} /\ MaxInFlight \in Nat \ {0}
  /\ ConnectionOf \in [Cells -> Connections]
  /\ Limit \in [Connections -> 1..MaxInFlight]
  /\ MaxRetries \in Nat /\ Waits \subseteq Nat /\ MaxTime \in Nat
  /\ None \notin [cell : Cells, started : 1..CellCount]
  /\ None \notin {"completed", "cancelled", "stopped", "unsaved"}

VARIABLES
  phase,         \* where run() is
  outcome,       \* how run() settled
  unstarted,     \* schedule: cells not yet started, in plan order
  position,      \* schedule: the scan's cursor
  inFlight,      \* schedule: cells in flight
  activeOn,      \* schedule: active, cells in flight on each connection
  changed,       \* changed: whether the scheduler has been notified
  cancelled,     \* cancellationRequested
  stop,          \* stop
  interrupted,   \* interruption
  runAborted,    \* runAbortController.signal.aborted
  now,           \* clock.now()
  pausedUntil,   \* pausedUntil, 0 for none
  timers,        \* pauses whose sleep has not resolved, as <<connection, until>>
  embargo,       \* history: the latest end of any pause each connection was given
  stage,         \* what each cell is doing
  signalled,     \* cells whose signal has aborted
  retries,       \* each cell's retries
  wakeAt,        \* when each cell's own wait ends
  startOrder,    \* each cell's start order, 0 for none
  status,        \* each cell's entry in the result
  saved          \* onTerminalTrace calls that resolved, of each cell

runVars   == <<phase, outcome>>
scanVars  == <<unstarted, position, inFlight, activeOn>>
haltVars  == <<cancelled, stop, interrupted, runAborted>>
pauseVars == <<pausedUntil, timers, embargo>>
cellVars  == <<stage, signalled, retries, wakeAt, startOrder, status, saved>>
vars == <<runVars, scanVars, changed, haltVars, now, pauseVars, cellVars>>

Halted == cancelled \/ stop # None \/ interrupted

Started == { c \in Cells : startOrder[c] # 0 }

Busy(c) == stage[c] \in {"running", "backoff", "saving"}

IsPaused(connection) == pausedUntil[connection] > now

-----------------------------------------------------------------------------
(* run() up to the schedule *)

Init ==
  /\ phase = "idle" /\ outcome = None
  /\ unstarted = [c \in Cells |-> c] /\ position = 1
  /\ inFlight = 0 /\ activeOn = [k \in Connections |-> 0]
  /\ changed = FALSE
  /\ cancelled = FALSE /\ stop = None /\ interrupted = FALSE /\ runAborted = FALSE
  /\ now = 0
  /\ pausedUntil = [k \in Connections |-> 0] /\ timers = {}
  /\ embargo = [k \in Connections |-> 0]
  /\ stage = [c \in Cells |-> "unstarted"] /\ signalled = {}
  /\ retries = [c \in Cells |-> 0] /\ wakeAt = [c \in Cells |-> 0]
  /\ startOrder = [c \in Cells |-> 0]
  /\ status = [c \in Cells |-> "not-run"]
  /\ saved = [c \in Cells |-> 0]

\* The finally clause of run().
Ends(how) == phase' = "done" /\ outcome' = how /\ runAborted' = TRUE

\* executor.prepare, the credentials and the limits; nothing is sent or saved.
Prepare ==
  /\ phase = "idle"
  /\ \/ phase' = "saving_plan" /\ UNCHANGED outcome
     \/ phase' = "done" /\ outcome' = "refused"
  /\ UNCHANGED <<scanVars, changed, haltVars, now, pauseVars, cellVars>>

PlanSaved ==
  /\ phase = "saving_plan"
  /\ \/ phase' = "filling" /\ UNCHANGED <<outcome, runAborted>>
     \/ Ends("refused")
  /\ changed' = FALSE
  /\ UNCHANGED <<scanVars, cancelled, stop, interrupted, now, pauseVars, cellVars>>

-----------------------------------------------------------------------------
(* schedule *)

Scanning == /\ phase = "filling" /\ ~ Halted
            /\ position <= Len(unstarted) /\ inFlight < MaxInFlight

Eligible_one_more(c) == /\ activeOn[ConnectionOf[c]] <= Limit[ConnectionOf[c]]
                        /\ ~ IsPaused(ConnectionOf[c])

Eligible(c) == /\ activeOn[ConnectionOf[c]] < Limit[ConnectionOf[c]]
               /\ ~ IsPaused(ConnectionOf[c])

ScanSkips ==
  /\ Scanning /\ ~ Eligible(unstarted[position])
  /\ position' = position + 1
  /\ UNCHANGED <<runVars, unstarted, inFlight, activeOn, changed, haltVars, now,
                 pauseVars, cellVars>>

\* runCell's first, synchronous stretch.
Starts(c) ==
  /\ inFlight' = inFlight + 1
  /\ activeOn' = [activeOn EXCEPT ![ConnectionOf[c]] = @ + 1]
  /\ startOrder' = [startOrder EXCEPT ![c] = Cardinality(Started) + 1]
  /\ stage' = [stage EXCEPT ![c] = "running"]
  /\ UNCHANGED <<runVars, changed, haltVars, now, pauseVars, signalled, retries,
                 wakeAt, status, saved>>

ScanStarts_steps_over ==
  /\ Scanning /\ Eligible(unstarted[position])
  /\ Starts(unstarted[position])
  /\ unstarted' = RemoveAt(unstarted, position)
  /\ position' = position + 1

ScanStarts ==
  /\ Scanning /\ Eligible(unstarted[position])
  /\ Starts(unstarted[position])
  /\ unstarted' = RemoveAt(unstarted, position)
  /\ UNCHANGED position

\* The scan is over: return, scan again, or wait for a change.
ScanEnds ==
  /\ phase = "filling" /\ ~ Scanning
  /\ phase' = IF inFlight = 0 /\ (Halted \/ unstarted = <<>>) THEN "finishing"
              ELSE IF changed THEN "filling" ELSE "waiting"
  /\ position' = 1 /\ changed' = FALSE
  /\ UNCHANGED <<outcome, unstarted, inFlight, activeOn, haltVars, now, pauseVars,
                 cellVars>>

Wake ==
  /\ phase = "waiting" /\ changed
  /\ phase' = "filling" /\ changed' = FALSE
  /\ UNCHANGED <<outcome, scanVars, haltVars, now, pauseVars, cellVars>>

-----------------------------------------------------------------------------
(* Stopping *)

AbortInFlight_only_waits ==
  /\ signalled' = signalled \cup { c \in Cells : stage[c] = "backoff" }
  /\ runAborted' = TRUE
  /\ changed' = TRUE

\* abortInFlight
AbortInFlight ==
  /\ signalled' = signalled \cup { c \in Cells : stage[c] \in {"running", "backoff"} }
  /\ runAborted' = TRUE
  /\ changed' = TRUE

\* A second call finds nothing left to abort.
Cancel ==
  /\ phase # "done" /\ ~ cancelled
  /\ cancelled' = TRUE
  /\ AbortInFlight
  /\ UNCHANGED <<runVars, scanVars, stop, interrupted, now, pauseVars, stage,
                 retries, wakeAt, startOrder, status, saved>>

\* The catch and finally on a cell that failed: interrupt, then its slot back.
Interrupt ==
  /\ interrupted' = TRUE
  /\ IF interrupted THEN changed' = TRUE /\ UNCHANGED <<signalled, runAborted>>
     ELSE AbortInFlight
  /\ UNCHANGED <<cancelled, stop>>

LeavesSlot(c) ==
  /\ inFlight' = inFlight - 1
  /\ activeOn' = [activeOn EXCEPT ![ConnectionOf[c]] = @ - 1]

-----------------------------------------------------------------------------
(* Rate limits *)

PauseConnection(connection, ms) ==
  LET until == now + ms IN
  /\ embargo' = [embargo EXCEPT ![connection] = IF until > @ THEN until ELSE @]
  /\ IF until <= pausedUntil[connection] THEN UNCHANGED <<pausedUntil, timers>>
     ELSE /\ pausedUntil' = [pausedUntil EXCEPT ![connection] = until]
          /\ timers' = timers \cup {<<connection, until>>}

PauseEnds_any_timer ==
  /\ phase \notin {"filling", "done"}
  /\ \E t \in timers :
       /\ now >= t[2] \/ runAborted
       /\ timers' = timers \ {t}
       /\ pausedUntil' = [pausedUntil EXCEPT ![t[1]] = 0]
       /\ changed' = TRUE
  /\ UNCHANGED <<runVars, scanVars, haltVars, now, embargo, cellVars>>

PauseEnds_unannounced ==
  /\ phase \notin {"filling", "done"}
  /\ \E t \in timers :
       /\ now >= t[2] \/ runAborted
       /\ timers' = timers \ {t}
       /\ pausedUntil' = IF pausedUntil[t[1]] # t[2] THEN pausedUntil
                         ELSE [pausedUntil EXCEPT ![t[1]] = 0]
  /\ UNCHANGED <<runVars, scanVars, changed, haltVars, now, embargo, cellVars>>

\* The pause's sleep resolves, by its timer or because the run aborted.  After
\* the run it has nobody left to tell.
PauseEnds ==
  /\ phase \notin {"filling", "done"}
  /\ \E t \in timers :
       /\ now >= t[2] \/ runAborted
       /\ timers' = timers \ {t}
       /\ IF pausedUntil[t[1]] # t[2] THEN UNCHANGED <<pausedUntil, changed>>
          ELSE /\ pausedUntil' = [pausedUntil EXCEPT ![t[1]] = 0]
               /\ changed' = TRUE
  /\ UNCHANGED <<runVars, scanVars, haltVars, now, embargo, cellVars>>

Tick ==
  /\ now < MaxTime
  /\ phase # "done"
  /\ now' = now + 1
  /\ UNCHANGED <<runVars, scanVars, changed, haltVars, pauseVars, cellVars>>

-----------------------------------------------------------------------------
(* One cell *)

\* execute has returned a terminal run; its trace is being saved.
Settles(c, kind) ==
  /\ stage' = [stage EXCEPT ![c] = "saving"]
  /\ status' = [status EXCEPT ![c] = kind]
  /\ cancelled' = (cancelled \/ (kind = "cancelled" /\ ~ interrupted))

MayRetry_once_more(c) == retries[c] <= MaxRetries

MayRetry(c) == retries[c] < MaxRetries

Limited(c) ==
  /\ stage[c] = "running"
  /\ \E ms \in Waits :
       /\ now + ms <= MaxTime
       /\ PauseConnection(ConnectionOf[c], ms)
       /\ IF MayRetry(c)
          THEN /\ stage' = [stage EXCEPT ![c] = "backoff"]
               /\ wakeAt' = [wakeAt EXCEPT ![c] = now + ms]
               /\ UNCHANGED <<status, cancelled>>
          ELSE Settles(c, "failed") /\ UNCHANGED wakeAt
  /\ UNCHANGED <<runVars, scanVars, changed, stop, interrupted, runAborted, now,
                 signalled, retries, startOrder, saved>>

\* An aborted wait leaves a chat repetition cancelled and a decision failed.
BackoffEnds(c) ==
  /\ stage[c] = "backoff"
  /\ \/ /\ c \in signalled
        /\ \E kind \in {"cancelled", "failed"} : Settles(c, kind)
        /\ UNCHANGED retries
     \/ /\ c \notin signalled /\ now >= wakeAt[c]
        /\ stage' = [stage EXCEPT ![c] = "running"]
        /\ retries' = [retries EXCEPT ![c] = @ + 1]
        /\ UNCHANGED <<status, cancelled>>
  /\ wakeAt' = [wakeAt EXCEPT ![c] = 0]
  /\ UNCHANGED <<runVars, scanVars, changed, stop, interrupted, runAborted, now,
                 pauseVars, signalled, startOrder, saved>>

CellEnds(c) ==
  /\ stage[c] = "running"
  /\ \E kind \in {"completed", "failed", "cancelled"} :
       /\ kind = "cancelled" => c \in signalled
       /\ Settles(c, kind)
  /\ UNCHANGED <<runVars, scanVars, changed, stop, interrupted, runAborted, now,
                 pauseVars, signalled, retries, wakeAt, startOrder, saved>>

\* A tool can serve no later repetition: the cell stops the batch and fails.
CellStops(c) ==
  /\ stage[c] = "running" /\ c \notin signalled /\ ~ cancelled
  /\ stop' = IF stop = None THEN [cell |-> c, started |-> Cardinality(Started)] ELSE stop
  /\ Settles(c, "failed")
  /\ UNCHANGED <<runVars, scanVars, changed, interrupted, runAborted, now,
                 pauseVars, signalled, retries, wakeAt, startOrder, saved>>

\* execute rejects.
CellThrows(c) ==
  /\ stage[c] = "running"
  /\ stage' = [stage EXCEPT ![c] = "thrown"]
  /\ LeavesSlot(c)
  /\ Interrupt
  /\ UNCHANGED <<runVars, unstarted, position, now, pauseVars, retries, wakeAt,
                 startOrder, status, saved>>

TraceSaved(c) ==
  /\ stage[c] = "saving"
  /\ stage' = [stage EXCEPT ![c] = "settled"]
  /\ saved' = [saved EXCEPT ![c] = @ + 1]
  /\ LeavesSlot(c)
  /\ changed' = TRUE
  /\ UNCHANGED <<runVars, unstarted, position, haltVars, now, pauseVars, signalled,
                 retries, wakeAt, startOrder, status>>

TraceUnsaved_ignored(c) ==
  /\ stage[c] = "saving"
  /\ stage' = [stage EXCEPT ![c] = "settled"]
  /\ LeavesSlot(c)
  /\ changed' = TRUE
  /\ UNCHANGED <<runVars, unstarted, position, haltVars, now, pauseVars, signalled,
                 retries, wakeAt, startOrder, status, saved>>

TraceUnsaved(c) ==
  /\ stage[c] = "saving"
  /\ stage' = [stage EXCEPT ![c] = "thrown"]
  /\ LeavesSlot(c)
  /\ Interrupt
  /\ UNCHANGED <<runVars, unstarted, position, now, pauseVars, retries, wakeAt,
                 startOrder, status, saved>>

-----------------------------------------------------------------------------
(* The result, and the rules its serializer holds it to *)

ResultStatus == IF cancelled THEN "cancelled" ELSE IF stop # None THEN "stopped"
                ELSE "completed"

ResultCells == { c \in Cells : status[c] # "not-run" }

NumberedFromOne ==
  { startOrder[c] : c \in ResultCells } = 1..Cardinality(ResultCells)

\* On each connection: a prefix of its cells, in rising start order.
InPlanOrder ==
  \A c, d \in Cells :
    ConnectionOf[c] = ConnectionOf[d] /\ c < d /\ status[d] # "not-run" =>
      status[c] # "not-run" /\ startOrder[c] < startOrder[d]

CompletedIsWhole == ResultStatus = "completed" => ResultCells = Cells

StopNamesItsCause ==
  ResultStatus = "stopped" => /\ status[stop.cell] = "failed"
                              /\ stop.started = Cardinality(ResultCells)

ResultAccepted ==
  NumberedFromOne /\ InPlanOrder /\ CompletedIsWhole /\ StopNamesItsCause

Finish ==
  /\ phase = "finishing"
  /\ IF interrupted THEN Ends("interrupted")
     ELSE IF ~ ResultAccepted THEN Ends("rejected")
     ELSE phase' = "saving_result" /\ outcome' = ResultStatus /\ UNCHANGED runAborted
  /\ UNCHANGED <<scanVars, changed, cancelled, stop, interrupted, now, pauseVars,
                 cellVars>>

ResultSaved ==
  /\ phase = "saving_result"
  /\ \E ok \in BOOLEAN : Ends(IF ok THEN outcome ELSE "unsaved")
  /\ UNCHANGED <<scanVars, changed, cancelled, stop, interrupted, now, pauseVars,
                 cellVars>>

-----------------------------------------------------------------------------

\* What one cell does between scans.
CellStep(c) ==
  /\ phase # "filling"
  /\ \/ Limited(c) \/ BackoffEnds(c) \/ CellEnds(c) \/ CellStops(c) \/ CellThrows(c)
     \/ TraceSaved(c) \/ TraceUnsaved(c)

\* What neither waits for a provider nor for a tool.
Own == \/ PlanSaved \/ ScanSkips \/ ScanStarts \/ ScanEnds \/ Wake \/ Finish \/ ResultSaved

Next == \/ Prepare \/ Own \/ Cancel \/ PauseEnds \/ Tick
        \/ \E c \in Cells : CellStep(c)

\* Timers fire and writes finish or fail.  A provider may never answer, but
\* ends once its signal has aborted.
Fairness ==
  /\ WF_vars(Own) /\ WF_vars(PauseEnds) /\ WF_vars(Tick)
  /\ \A c \in Cells :
       WF_vars(/\ phase # "filling"
               /\ \/ BackoffEnds(c)
                  \/ TraceSaved(c) \/ TraceUnsaved(c)
                  \/ c \in signalled /\ CellEnds(c))

Spec == Init /\ [][Next]_vars /\ Fairness

-----------------------------------------------------------------------------
(* Invariants *)

RunTypesOK ==
  /\ phase \in {"idle", "saving_plan", "filling", "waiting", "finishing",
                "saving_result", "done"}
  /\ outcome \in {None, "refused", "completed", "cancelled", "stopped",
                  "interrupted", "rejected", "unsaved"}

ScanTypesOK ==
  /\ unstarted \in Seq(Cells) /\ position \in Nat \ {0}
  /\ inFlight \in Nat /\ activeOn \in [Connections -> Nat]

HaltTypesOK ==
  /\ changed \in BOOLEAN /\ cancelled \in BOOLEAN
  /\ interrupted \in BOOLEAN /\ runAborted \in BOOLEAN
  /\ stop \in [cell : Cells, started : 1..CellCount] \cup {None}

PauseTypesOK ==
  /\ now \in Nat
  /\ pausedUntil \in [Connections -> Nat] /\ embargo \in [Connections -> Nat]
  /\ timers \subseteq Connections \X Nat

CellTypesOK ==
  /\ stage \in [Cells -> {"unstarted", "running", "backoff", "saving", "settled",
                          "thrown"}]
  /\ signalled \subseteq Cells
  /\ retries \in [Cells -> Nat] /\ wakeAt \in [Cells -> Nat]
  /\ startOrder \in [Cells -> 0..CellCount]
  /\ status \in [Cells -> {"not-run", "completed", "failed", "cancelled"}]
  /\ saved \in [Cells -> Nat]

SchedulerTypeOK ==
  RunTypesOK /\ ScanTypesOK /\ HaltTypesOK /\ PauseTypesOK /\ CellTypesOK

\* However cells end, throw, back off and save, no more of them are ever busy
\* than the overall limit and their connection's limit allow.  The scan reads
\* counters; this counts the cells.
WithinLimits ==
  /\ Cardinality({ c \in Cells : Busy(c) }) <= MaxInFlight
  /\ \A k \in Connections :
       Cardinality({ c \in Cells : ConnectionOf[c] = k /\ Busy(c) }) <= Limit[k]

\* run() leaves its schedule only when nothing it started is still going, so
\* no cell and no trace write outlives the experiment, whatever ended it.
Drained ==
  phase \in {"finishing", "saving_result", "done"} => \A c \in Cells : ~ Busy(c)

\* The schedule never has more in flight than it may, and drains what it began.
SchedulerSafe == SchedulerTypeOK /\ WithinLimits /\ Drained

\* A result is written only over complete evidence: each started cell's trace
\* was saved, once, before it.
EvidenceBeforeResult ==
  outcome \in {"completed", "cancelled", "stopped", "unsaved"} =>
    \A c \in Cells : saved[c] = IF c \in Started THEN 1 ELSE 0

\* Whatever mix of stops, cancellations and failures ended the schedule, the
\* result satisfies the rules its serializer enforces on how cells are counted
\* and on what a completed and a stopped experiment must show.
ResultIsConsistent ==
  phase = "finishing" /\ ~ interrupted =>
    NumberedFromOne /\ CompletedIsWhole /\ StopNamesItsCause

\* What a result says is backed by saved traces and accepted by its serializer.
ResultIsTrue == EvidenceBeforeResult /\ ResultIsConsistent

-----------------------------------------------------------------------------
(* Action and temporal properties *)

\* A connection starts no cell before the end of the longest pause it was ever
\* given, however pauses overlap and whichever timer fires first.
PausesRespected ==
  [][\A c \in Cells :
       stage[c] = "unstarted" /\ stage'[c] # "unstarted" =>
         now >= embargo[ConnectionOf[c]]]_vars

\* Once the user cancels, a tool stops the batch or a trace is lost, no cell
\* starts, and the start orders already given out never change.
NothingStartsAfterHalt == [][Halted => UNCHANGED startOrder]_vars

\* A cell starts only when neither a pause nor a halt forbids it.
StartsArePermitted == PausesRespected /\ NothingStartsAfterHalt

\* Each connection starts its cells in plan order, as the serializer of the
\* result demands; a cell passes an earlier one only when a pause of their
\* connection has run out and its sleep has not resolved, for the scan reads the
\* clock anew for each cell.
StartedInTurn ==
  [][\A c, d \in Cells :
       /\ ConnectionOf[c] = ConnectionOf[d] /\ c < d
       /\ stage[c] = "unstarted" /\ stage[d] = "unstarted"
       /\ stage'[c] = "unstarted" /\ stage'[d] # "unstarted"
       => pausedUntil[ConnectionOf[d]] \in 1..now]_vars

\* Each cell, as the repetition ChatCell implements: one turn here, whose
\* trace is saved after it has settled.
CellStage(c) ==
  CASE stage[c] = "unstarted" -> "unstarted"
    [] stage[c] = "running"   -> "turn"
    [] stage[c] = "backoff"   -> "waiting"
    [] OTHER -> IF status[c] = "not-run" THEN "broken" ELSE "settled"

Cell(c) == INSTANCE Repetition WITH
  Ceiling <- 1,
  stage   <- CellStage(c),
  turns   <- IF stage[c] = "unstarted" THEN 0 ELSE 1,
  retries <- retries[c]

\* Every cell is a repetition, started at most once, retried within the
\* policy, and settled for good.
CellsKeepPromise ==
  /\ \A c \in Cells : Cell(c)!Init
  /\ [][\A c \in Cells : Cell(c)!Next \/ UNCHANGED Cell(c)!repetitionVars]_vars

\* An experiment that is stopped, cancelled or interrupted while it runs ends,
\* even if no provider ever answers again.
StopEndsRun ==
  (cancelled /\ phase # "idle") \/ interrupted ~> phase = "done"

\* If no cell stays with its provider for ever, run() ends: no freed slot,
\* ended pause or settled cell is ever missed by a scheduler that is waiting.
NoLostWakeup ==
  (\A c \in Cells : []<>(stage[c] # "running")) =>
    (phase = "saving_plan" ~> phase = "done")

=============================================================================
