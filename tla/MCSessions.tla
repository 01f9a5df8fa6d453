------------------------------ MODULE MCSessions ------------------------------
(***************************************************************************)
(* Model checking of the two interactive sessions of the browser, of chat  *)
(* runs (RunSession) and of decisions (DecisionSession), and of what a     *)
(* chat session is built on: a run's coordinator (RunCoordinator) under    *)
(* its most general client.  A behaviour is one of these.                  *)
(***************************************************************************)
EXTENDS RunSession, DecisionRun

CONSTANTS MaxDrives, MaxTime, Waits,   \* DecisionSession's
          LoneEvents   \* bound: events that the general client makes

ASSUME SessionsAssumption ==
  MaxDrives \in Nat /\ MaxTime \in Nat /\ Waits \subseteq Nat /\ LoneEvents \in Nat

VARIABLES
  session,  \* which session this behaviour is of
  decisionRun, decisionShown, drive, decisionTasks, decisionOther, executing,
  retryAt, decisionWorkspace, persisted, decisionSave, decisionStorage,
  time, due   \* DecisionSession's

Decision == INSTANCE DecisionSession WITH
  MaxGenerations <- MaxDrives, MaxClock <- MaxTime, clock <- time,
  run <- decisionRun, shown <- decisionShown,
  generation <- drive, tasks <- decisionTasks, other <- decisionOther,
  workspace <- decisionWorkspace, save <- decisionSave, storage <- decisionStorage

decisionSessionVars ==
  <<decisionRun, decisionShown, drive, decisionTasks, decisionOther, executing,
    retryAt, decisionWorkspace, persisted, decisionSave, decisionStorage, time, due>>

PairOfCalls == {0, 1}
OneCall == {0}
TwoWaits == {0, 1}

SessionsInit ==
  /\ session \in {"chat", "decision", "coordinator"} /\ SessionInit /\ Decision!Init
  /\ workspace => session = "chat"
  /\ decisionWorkspace => session = "decision"

SessionsNext ==
  /\ UNCHANGED session
  /\ \/ session = "chat"     /\ SessionNext   /\ UNCHANGED decisionSessionVars
     \/ session = "decision" /\ Decision!Next /\ UNCHANGED sessionVars
     \/ session = "coordinator" /\ sequence < LoneEvents /\ Next
          /\ UNCHANGED <<commands, drafts, view, history, decisionSessionVars>>

SessionsSpec ==
  /\ SessionsInit /\ [][SessionsNext]_<<session, sessionVars, decisionSessionVars>>
  /\ \A g \in 1..MaxGenerations : WF_sessionVars(Runs_on(g))
  /\ WF_sessionVars(AutoContinue)

-----------------------------------------------------------------------------
\* A session says that it is executing exactly while an exchange or a tool in
\* flight can still report to it, and Stop reaches what is in flight
\* (use-run-session.client.ts:334-341, use-decision-session.client.ts:140-192).
ExecutingIsRealInBoth ==
  /\ SessionTypeOK /\ Decision!SessionTypeOK
  /\ ExecutingIsReal /\ Decision!ExecutingIsReal

\* Every run that ended while a folder was open was handed to the autosave, by
\* whichever way it ended, and the notice under a run is true of it.
EndedRunsReachDiskInBoth == EndedRunsReachDisk /\ Decision!EndedRunsReachDisk

\* What a session shows and what it keeps are true, in both of the ways above.
SessionsTellTheTruth ==
  session # "coordinator" => ExecutingIsRealInBoth /\ EndedRunsReachDiskInBoth

\* A chat run's continuation serves a call the user must be asked about only
\* after he answered, and unless he continues twice the run's events stay in
\* step, so that Stop can end it (use-run-session.client.ts:286-341).
ContinuesAsAsked == session # "coordinator" => NeverCutOff /\ AskedBeforeServed

\* The first end of a decision stands, and Retry sends nothing before the wait
\* that the last 429 asked for is over (use-decision-session.client.ts:173-222).
DecisionsKeepFaith == Decision!OutcomeIsFinal /\ Decision!RetryWaits

=============================================================================
