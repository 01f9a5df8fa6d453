---------------------------- MODULE DecisionSession ----------------------------
(***************************************************************************)
(* The interactive decision session                                        *)
(* (app/decisions/use-decision-session.client.ts): the one decision run    *)
(* the browser shows, its attempts, Retry's wait, Stop, and the autosave   *)
(* of a finished run.                                                      *)
(*                                                                         *)
(* The module follows one run from its start to after another has taken    *)
(* its place.  `shown` says whether the session holds this run, another    *)
(* one, whose inside is of no interest, or none.  Each attempt is driven   *)
(* by a task (driveDecisionAttempt) with its own copy of the run, its      *)
(* abort signal, and the generation it was begun in; a superseded task     *)
(* goes on until its next event.  Commands may be given at any time.       *)
(***************************************************************************)
EXTENDS DecisionRun

CONSTANTS
  MaxGenerations,  \* bound: drives and stops
  MaxClock,        \* bound: the largest time
  Waits            \* waits a 429 may ask for

VARIABLES
  run,         \* this run, as runRef last held it
  shown,       \* whose run runRef holds: "none", "this" or "other"
  generation,  \* generationRef
  tasks,       \* the drives of this run's attempts, in order
  other,       \* the generation of the other run's drive, 0 if none is in flight
  executing,   \* the session's executing
  retryAt,     \* retryAvailableAt
  workspace,   \* whether a project folder was open when this run started
  persisted,   \* this run is in persistedRunIds
  save,        \* the autosave of this run
  storage,     \* traceStorage
  clock,
  due          \* history: when the wait last asked for is over

vars == <<run, shown, generation, tasks, other, executing, retryAt,
          workspace, persisted, save, storage, clock, due>>

saving == <<persisted, save>>

Task(local) == [run |-> local, generation |-> generation + 1,
                aborted |-> FALSE, driving |-> TRUE]

InFlight(task) == task.driving /\ ~ task.aborted /\ task.generation = generation

Init ==
  /\ run = NewDecisionRun /\ shown = "none" /\ generation = 0
  /\ tasks = <<>> /\ other = 0 /\ executing = FALSE /\ retryAt = Unset
  /\ workspace \in BOOLEAN
  /\ persisted = FALSE /\ save = "none" /\ storage = "none"
  /\ clock = 0 /\ due = 0

-----------------------------------------------------------------------------
(* replaceRun *)

\* What a replacement by a state of this run means for its trace.  A trace
\* that could not be read back is not written, and nothing is said of it.
AutosavesThis(next) ==
  IF ~ IsTerminalDecision(next) THEN UNCHANGED <<persisted, save, storage>>
  ELSE IF ~ workspace THEN storage' = "unsaved" /\ UNCHANGED saving
  ELSE IF persisted \/ ~ Saveable(next) THEN UNCHANGED <<persisted, save, storage>>
  ELSE persisted' = TRUE /\ save' = "saving" /\ storage' = "saving"

\* The wait starts when the run pauses on a 429.
SetsWait(next) ==
  IF next.status # "paused" THEN retryAt' = Unset /\ UNCHANGED due
  ELSE IF shown = "this" /\ run.status = "paused" THEN UNCHANGED <<retryAt, due>>
  ELSE IF DecisionRateLimited(next)
       THEN \E wait \in Waits : retryAt' = clock + wait /\ due' = clock + wait
  ELSE retryAt' = Unset /\ UNCHANGED due

ReplaceWithThis(next) ==
  /\ run' = next /\ shown' = "this"
  /\ SetsWait(next)
  /\ AutosavesThis(next)

ReplaceWith(whose) ==
  /\ shown' = whose /\ UNCHANGED run
  /\ retryAt' = Unset /\ UNCHANGED due
  /\ storage' = IF whose = "none" THEN "none" ELSE "other"
  /\ UNCHANGED saving

-----------------------------------------------------------------------------
(* The commands *)

\* generationRef moves on and the controller in flight is aborted.
Superseded ==
  [i \in DOMAIN tasks |->
     [tasks[i] EXCEPT !.aborted = @ \/ InFlight(tasks[i])]]

DriveThis(started) ==
  /\ generation < MaxGenerations
  /\ generation' = generation + 1
  /\ tasks' = Append(Superseded, Task(started))
  /\ other' = 0
  /\ executing' = TRUE
  /\ ReplaceWithThis(started)
  /\ UNCHANGED <<workspace, clock>>

Start == run = NewDecisionRun /\ DriveThis(Begun(run, clock))

\* Another run is started, by start(): this one is superseded as it is.
StartOther ==
  /\ run # NewDecisionRun /\ generation < MaxGenerations
  /\ generation' = generation + 1
  /\ tasks' = Superseded
  /\ other' = generation + 1 /\ executing' = TRUE
  /\ ReplaceWith("other")
  /\ UNCHANGED <<workspace, clock>>

Retry ==
  /\ shown = "this" /\ run.status = "paused"
  /\ retryAt # Unset => clock >= retryAt
  /\ DriveThis(Begun(run, clock))

\* stop, and then what its caller shows instead: nothing new, nothing at all
\* (reset), another run's trace, or this run's own (adoptTrace).
Invalidates ==
  /\ generation < MaxGenerations
  /\ generation' = generation + 1
  /\ tasks' = Superseded
  /\ other' = 0 /\ executing' = FALSE

Stop_quietly ==
  /\ Invalidates
  /\ run' = IF shown = "this" THEN Stopped(run, clock) ELSE run
  /\ retryAt' = Unset
  /\ UNCHANGED <<shown, workspace, persisted, save, storage, clock, due>>

Stop ==
  /\ Invalidates
  /\ IF shown = "this" /\ run.status \in {"running", "paused"}
     THEN ReplaceWithThis(Stopped(run, clock))
     ELSE UNCHANGED <<run, shown, retryAt, persisted, save, storage, due>>
  /\ UNCHANGED <<workspace, clock>>

\* The stop inside reset and adoptTrace saves the run it ends, and what
\* follows it in the same stretch clears what the session says of it.
StopAndShow(whose) ==
  /\ Invalidates
  /\ IF shown = "this" /\ run.status \in {"running", "paused"}
     THEN LET ended == Stopped(run, clock) IN
          /\ run' = ended
          /\ IF workspace /\ ~ persisted /\ Saveable(ended)
             THEN persisted' = TRUE /\ save' = "saving"
             ELSE UNCHANGED saving
     ELSE UNCHANGED <<run, persisted, save>>
  /\ shown' = whose /\ retryAt' = Unset
  /\ storage' = IF whose = "none" THEN "none" ELSE "other"
  /\ UNCHANGED <<workspace, clock, due>>

Reset      == StopAndShow("none")
AdoptOther == StopAndShow("other")

AdoptThis ==
  /\ save = "saved" /\ Invalidates
  /\ shown' = "this" /\ UNCHANGED run
  /\ retryAt' = Unset
  /\ persisted' = TRUE /\ storage' = "saved"
  /\ UNCHANGED <<workspace, save, clock, due>>

-----------------------------------------------------------------------------
(* The attempt in flight: driveDecisionAttempt and drive's finally *)

Finishes(i, task) ==
  /\ tasks' = [tasks EXCEPT ![i] = [task EXCEPT !.driving = FALSE]]
  /\ executing' = IF task.generation = generation THEN FALSE ELSE executing

TaskReports_to_anyone(i, next) ==
  /\ tasks[i].driving
  /\ Finishes(i, [tasks[i] EXCEPT !.run = next])
  /\ ReplaceWithThis(next)
  /\ UNCHANGED <<generation, other, workspace, clock>>

\* An event, the stream's end or a thrown error, as far as it is reported.
TaskReports(i, next) ==
  /\ tasks[i].driving
  /\ IF tasks[i].aborted \/ tasks[i].generation # generation
     THEN /\ Finishes(i, tasks[i])
          /\ UNCHANGED <<run, shown, retryAt, persisted, save, storage, due>>
     ELSE /\ ReplaceWithThis(next)
          /\ LET task == [tasks[i] EXCEPT !.run = next] IN
             IF next.status # "running" THEN Finishes(i, task)
             ELSE tasks' = [tasks EXCEPT ![i] = task] /\ UNCHANGED executing
  /\ UNCHANGED <<generation, other, workspace, clock>>

HostSends == \E i \in DOMAIN tasks, e \in HostEvents :
               TaskReports(i, Applied(tasks[i].run, e, clock))

StreamEnds == \E i \in DOMAIN tasks :
                TaskReports(i, FinishedStream(tasks[i].run, clock))

HostBreaks == \E i \in DOMAIN tasks, error \in ThrownErrors :
                TaskReports(i, FailedAttempt(tasks[i].run, error, clock))

OtherEnds ==
  /\ other # 0 /\ other' = 0
  /\ executing' = IF other = generation THEN FALSE ELSE executing
  /\ UNCHANGED <<run, shown, generation, tasks, retryAt, workspace,
                 persisted, save, storage, clock, due>>

-----------------------------------------------------------------------------
(* The timer and the file *)

Tick ==
  /\ clock < MaxClock /\ clock' = clock + 1
  /\ UNCHANGED <<run, shown, generation, tasks, other, executing, retryAt,
                 workspace, persisted, save, storage, due>>

WaitOver ==
  /\ retryAt # Unset /\ clock >= retryAt /\ retryAt' = Unset
  /\ UNCHANGED <<run, shown, generation, tasks, other, executing,
                 workspace, persisted, save, storage, clock, due>>

SaveEnds(outcome) ==
  /\ save = "saving"
  /\ save' = IF outcome = "saved" THEN "saved" ELSE "failed"
  /\ persisted' = (outcome = "saved")
  /\ storage' = IF shown = "this" THEN outcome ELSE storage
  /\ UNCHANGED <<run, shown, generation, tasks, other, executing, retryAt,
                 workspace, clock, due>>

-----------------------------------------------------------------------------
Next ==
  \/ Start \/ StartOther \/ Retry \/ Stop \/ Reset \/ AdoptOther \/ AdoptThis
  \/ HostSends \/ StreamEnds \/ HostBreaks \/ OtherEnds
  \/ Tick \/ WaitOver
  \/ \E outcome \in {"saved", "error"} : SaveEnds(outcome)

Spec == Init /\ [][Next]_vars

-----------------------------------------------------------------------------
(* Invariants *)

SessionTypeOK ==
  /\ run.status \in DecisionStatuses
  /\ \A i \in DOMAIN run.attempts : run.attempts[i] \in DecisionAttempts
  /\ shown \in {"none", "this", "other"}
  /\ generation \in 0..MaxGenerations /\ other \in 0..MaxGenerations
  /\ executing \in BOOLEAN /\ workspace \in BOOLEAN /\ persisted \in BOOLEAN
  /\ save \in {"none", "saving", "saved", "failed"}
  /\ storage \in {"none", "unsaved", "saving", "saved", "error", "other"}

\* Every run the session has ended while a folder is open was handed to the
\* autosave, by whichever of Stop, Reset, an adoption or the host ended it, and
\* the storage notice under a run is about that run and true of it.
EndedRunsReachDisk ==
  /\ IsTerminalDecision(run) /\ workspace => save # "none"
  /\ shown = "this" =>
       /\ storage = "saved" => save = "saved"
       /\ storage = "error" => save = "failed"
       /\ IsTerminalDecision(run) => storage \in {"unsaved", "saving", "saved", "error"}

\* The session says that it is executing exactly while an exchange is in flight
\* that still can report to it, so that Run, Stop and the locks on the composer
\* are never left standing; every exchange it has given up is aborted.
ExecutingIsReal ==
  /\ executing = ((other # 0 /\ other = generation)
                   \/ \E i \in DOMAIN tasks : InFlight(tasks[i]))
  /\ \A i \in DOMAIN tasks :
       tasks[i].driving /\ tasks[i].generation # generation => tasks[i].aborted

-----------------------------------------------------------------------------
(* Action properties *)

\* The first end of a run stands, and it is what the trace that is written
\* holds: no late answer replaces a stop, no stop replaces an answer.
OutcomeIsFinal == [][IsTerminalDecision(run) => UNCHANGED run]_vars

\* Retry sends nothing before the wait that the last 429 asked for is over.
RetryWaits ==
  [][Len(run'.attempts) > Len(run.attempts) => clock >= due]_vars

=============================================================================
