----------------------------- MODULE CommandTool -----------------------------
(***************************************************************************)
(* One command tool (services/api/src/command-tool-runner.ts): a process   *)
(* in a group of its own, a time limit, a limit on its output, the         *)
(* caller's abort signal, and the service's own shutdown.                  *)
(*                                                                         *)
(* leader is the process the service spawned; helper stands for what the   *)
(* command itself starts.  A signal to the group reaches both.  Node       *)
(* learns of the leader's death later ("reaped"), and announces close once *)
(* nobody holds the output any more and all of it was read.                *)
(***************************************************************************)
EXTENDS Integers

CONSTANTS
  MaxOutput,   \* maxOutputBytes, in chunks
  MaxChunks,   \* bound: chunks a command writes
  Habits       \* what helpers may do: "outlives_leader", "ignores_sigterm"

VARIABLES
  service,    \* the process that runs runCommandTool
  promise,    \* what runCommandTool returned
  outcome,    \* outcome: why the command is being stopped, or "exited"
  timer,      \* the time limit is armed
  grace,      \* terminate's SIGKILL is armed
  live,       \* child is in liveCommands
  aborted,    \* the caller's signal
  leader, helper,
  stubborn,   \* those that ignore SIGTERM
  holding,    \* whether the helper inherited the output
  asked,      \* whether the group was sent SIGTERM
  written, read   \* chunks on stdout, written and delivered

commandVars == <<service, promise, outcome, timer, grace, live, aborted, leader,
                 helper, stubborn, holding, asked, written, read>>
processVars == <<leader, helper, asked>>
natureVars  == <<stubborn, holding>>

Settled == promise \notin {"uncalled", "pending"}

OutputHeld == leader = "running" \/ (helper = "running" /\ holding)

Init ==
  /\ service = "up" /\ promise = "uncalled" /\ outcome = "exited"
  /\ timer = FALSE /\ grace = FALSE /\ live = FALSE /\ aborted = FALSE
  /\ leader = "none" /\ helper = "none" /\ asked = FALSE
  /\ stubborn \in SUBSET {"leader", "helper"} /\ holding \in BOOLEAN
  /\ "helper" \in stubborn => "ignores_sigterm" \in Habits
  /\ written = 0 /\ read = 0

-----------------------------------------------------------------------------
(* Signals *)

\* killTree, which leaves a group alone whose leader is known to have exited.
KillTree(signal) ==
  IF leader \notin {"running", "dead"} THEN UNCHANGED processVars
  ELSE IF signal = "SIGTERM" THEN asked' = TRUE /\ UNCHANGED <<leader, helper>>
  ELSE /\ leader' = "dead"
       /\ helper' = IF helper = "running" THEN "dead" ELSE helper
       /\ UNCHANGED asked

\* stop, with terminate.
Stop(reason) ==
  IF outcome # "exited" THEN UNCHANGED <<outcome, grace, processVars>>
  ELSE /\ outcome' = reason
       /\ grace' = TRUE
       /\ KillTree("SIGTERM")

Settle(result) ==
  /\ promise' = result
  /\ timer' = FALSE /\ live' = FALSE

-----------------------------------------------------------------------------
(* runCommandTool *)

\* An aborted call starts nothing; spawn may throw, fail later, or succeed.
Call ==
  /\ service = "up" /\ promise = "uncalled"
  /\ IF aborted THEN promise' = "cancelled" /\ UNCHANGED <<timer, live, leader>>
     ELSE \/ promise' = "spawn_failed" /\ UNCHANGED <<timer, live, leader>>
          \/ /\ promise' = "pending" /\ timer' = TRUE /\ live' = TRUE
             /\ leader' \in {"running", "unstarted"}
  /\ UNCHANGED <<service, outcome, grace, aborted, helper, asked, natureVars,
                 written, read>>

SpawnError ==
  /\ service = "up" /\ leader = "unstarted" /\ promise = "pending"
  /\ Settle("spawn_failed")
  /\ UNCHANGED <<service, outcome, grace, aborted, processVars, natureVars,
                 written, read>>

TimeLimit ==
  /\ service = "up" /\ timer
  /\ timer' = FALSE
  /\ Stop("timeout")
  /\ UNCHANGED <<service, promise, live, aborted, natureVars, written, read>>

\* The caller aborts; the listener is there until the promise settles.
Abort ==
  /\ service = "up" /\ ~ aborted
  /\ aborted' = TRUE
  /\ IF promise = "pending" THEN Stop("cancelled")
                            ELSE UNCHANGED <<outcome, grace, processVars>>
  /\ UNCHANGED <<service, promise, timer, live, natureVars, written, read>>

Data ==
  /\ service = "up" /\ read < written
  /\ read' = read + 1
  /\ IF read' > MaxOutput THEN Stop("output_limit_exceeded")
                          ELSE UNCHANGED <<outcome, grace, processVars>>
  /\ UNCHANGED <<service, promise, timer, live, aborted, natureVars, written>>

GraceEnds ==
  /\ service = "up" /\ grace
  /\ grace' = FALSE
  /\ KillTree("SIGKILL")
  /\ UNCHANGED <<service, promise, outcome, timer, live, aborted, natureVars,
                 written, read>>

\* Node learns that the leader has exited.
Exit ==
  /\ service = "up" /\ leader = "dead"
  /\ leader' = "reaped"
  /\ UNCHANGED <<service, promise, outcome, timer, grace, live, aborted, helper,
                 asked, natureVars, written, read>>

Closes_on_exit == leader = "reaped"

\* close comes after exit, once stdout is closed and read to its end.
Closes == leader = "reaped" /\ ~ OutputHeld /\ read = written

Close ==
  /\ service = "up" /\ promise = "pending" /\ Closes
  /\ Settle(outcome)
  /\ grace' = FALSE
  /\ UNCHANGED <<service, outcome, aborted, processVars, natureVars, written, read>>

\* terminateCommandTools, at exit or on a signal to the service.
Shutdown ==
  /\ service = "up"
  /\ service' = "down"
  /\ IF live THEN KillTree("SIGKILL") ELSE UNCHANGED processVars
  /\ live' = FALSE
  /\ UNCHANGED <<promise, outcome, timer, grace, aborted, natureVars, written, read>>

-----------------------------------------------------------------------------
(* The command *)

Writes ==
  /\ OutputHeld /\ written < MaxChunks
  /\ written' = written + 1
  /\ UNCHANGED <<service, promise, outcome, timer, grace, live, aborted,
                 processVars, natureVars, read>>

StartsHelper ==
  /\ leader = "running" /\ helper = "none" /\ ~ asked
  /\ helper' = "running"
  /\ UNCHANGED <<service, promise, outcome, timer, grace, live, aborted, leader,
                 asked, natureVars, written, read>>

\* By itself, once its helper is done unless it leaves it behind.
LeaderEnds ==
  /\ leader = "running"
  /\ helper = "running" => "outlives_leader" \in Habits
  /\ leader' = "dead"
  /\ UNCHANGED <<service, promise, outcome, timer, grace, live, aborted, helper,
                 asked, natureVars, written, read>>

HelperEnds ==
  /\ helper = "running"
  /\ helper' = "dead"
  /\ UNCHANGED <<service, promise, outcome, timer, grace, live, aborted, leader,
                 asked, natureVars, written, read>>

\* SIGTERM takes effect.
Obeys ==
  /\ asked
  /\ \/ /\ leader = "running" /\ "leader" \notin stubborn
        /\ leader' = "dead" /\ UNCHANGED helper
     \/ /\ helper = "running" /\ "helper" \notin stubborn
        /\ helper' = "dead" /\ UNCHANGED leader
  /\ UNCHANGED <<service, promise, outcome, timer, grace, live, aborted, asked,
                 natureVars, written, read>>

-----------------------------------------------------------------------------

Next == \/ Call \/ SpawnError \/ TimeLimit \/ Abort \/ Data \/ GraceEnds \/ Exit
        \/ Close \/ Shutdown
        \/ Writes \/ StartsHelper \/ LeaderEnds \/ HelperEnds \/ Obeys

\* What the service does once it can; SIGTERM ends whoever does not ignore it.
\* A command may run for ever: nothing else makes its processes end.
Service == SpawnError \/ TimeLimit \/ Data \/ GraceEnds \/ Exit \/ Close

CommandFairness ==
  /\ WF_commandVars(Service) /\ WF_commandVars(Obeys)

CommandSpec == Init /\ [][Next]_commandVars /\ CommandFairness

-----------------------------------------------------------------------------
(* Properties *)

CommandTypeOK ==
  /\ service \in {"up", "down"}
  /\ outcome \in {"exited", "timeout", "cancelled", "output_limit_exceeded"}
  /\ promise \in {"uncalled", "pending", "exited", "timeout", "cancelled",
                  "output_limit_exceeded", "spawn_failed"}
  /\ timer \in BOOLEAN /\ grace \in BOOLEAN /\ live \in BOOLEAN
  /\ aborted \in BOOLEAN /\ asked \in BOOLEAN /\ holding \in BOOLEAN
  /\ leader \in {"none", "unstarted", "running", "dead", "reaped"}
  /\ helper \in {"none", "running", "dead"}
  /\ stubborn \subseteq {"leader", "helper"}
  /\ written \in 0..MaxChunks /\ read \in 0..MaxChunks

\* An answer taken for a command's is its whole output, within its limit, and
\* every other result has happened, the first to happen winning
\* (command-tool-runner.ts:190-243).
ResultIsWhole ==
  /\ promise = "exited" => read = written /\ read <= MaxOutput
  /\ promise = "output_limit_exceeded" => read > MaxOutput
  /\ promise = "cancelled" => aborted
  /\ promise = "timeout" => ~ timer

\* What is left behind of a command: a helper that outlives its leader, which
\* killTree no longer reaches once it knows that the leader has exited (:69).
Orphaned == leader = "reaped" /\ helper = "running"

\* Neither a result nor the service's end leaves a process behind, but for a
\* helper that outlived its leader ("making sure it is gone afterwards",
\* command-tool-runner.ts:13; "so a shutdown does not leave a spawned tool
\* running", :57).
GoneAfterwards == Settled \/ service = "down" => leader # "running" /\ (helper = "running" => Orphaned)

\* What a command tool says and leaves behind.
CommandsEndTruly == CommandTypeOK /\ ResultIsWhole /\ GoneAfterwards

\* A command that is stopped, by its time limit, its output or its caller, is
\* settled whether it obeys SIGTERM or not, but for the same helper ("Runs one
\* declared command to completion, cancellation, or timeout",
\* command-tool-runner.ts:130).
StopSettles == outcome # "exited" ~> Settled \/ service = "down" \/ Orphaned

\* As the comment has it: false when a helper keeps the output of a leader that
\* has exited.
StopAlwaysSettles == outcome # "exited" ~> Settled \/ service = "down"

=============================================================================
