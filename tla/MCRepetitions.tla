---------------------------- MODULE MCRepetitions ----------------------------
(***************************************************************************)
(* Model checking of what a batch is made of: a decision repetition        *)
(* (DecisionCell), a chat repetition (ChatCell), and the locks its chat    *)
(* repetitions take around their tool calls (ToolResourceLocks).  They     *)
(* share no state, so a behaviour is one of any kind.                      *)
(***************************************************************************)
EXTENDS ChatCell, DecisionCell, ToolResourceLocks

VARIABLE kind   \* what this behaviour is of

TwoCalls == {0, 1}
AllQuirks == {"late_content", "nameless_call", "late_break"}
RefusedContent == {"late_content"}

RepetitionsInit ==
  /\ kind \in {"chat", "decision", "locks"}
  /\ CellInit /\ DecisionInit /\ LocksInit

RepetitionsNext ==
  /\ UNCHANGED kind
  /\ \/ kind = "chat"     /\ CellNext     /\ UNCHANGED <<decisionVars, locksVars>>
     \/ kind = "decision" /\ DecisionNext /\ UNCHANGED <<cellVars, locksVars>>
     \/ kind = "locks"    /\ LocksNext    /\ UNCHANGED <<cellVars, decisionVars>>

\* The fairness of each.  Nothing of the locks is enabled before a call asks.
RepetitionsSpec ==
  /\ RepetitionsInit /\ [][RepetitionsNext]_<<kind, cellVars, decisionVars, locksVars>>
  /\ WF_cellVars(kind = "chat" /\ Own)
  /\ WF_cellVars(aborted /\ (StreamStops \/ ExecutorReturns))
  /\ WF_decisionVars(kind = "decision" /\ DecisionOwn)
  /\ WF_decisionVars(signalled /\ (DecisionStreamEnds \/ HostBreaks))
  /\ \A c \in 1..MaxCalls : WF_locksVars(c \in Asked /\ Granted(c))

-----------------------------------------------------------------------------
\* Once the batch stops, a repetition of either kind settles: run() awaits
\* them all (experiment-controller.ts); and if no tool keeps its resource for
\* ever, every call that asked for it gets it.
NobodyWaitsForEver == StopEnds /\ DecisionStopEnds /\ EveryoneServed

=============================================================================
