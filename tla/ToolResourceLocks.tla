-------------------------- MODULE ToolResourceLocks --------------------------
(***************************************************************************)
(* ToolResourceLocks (packages/runner/src/tool-resource-locks.ts): one     *)
(* holder at a time of each stateful resource a tool call reaches, across  *)
(* every repetition of a batch.                                            *)
(*                                                                         *)
(* A lock is a chain of promises.  A call waits for the tail it finds and  *)
(* leaves its own, which resolves when the one before it has and its own   *)
(* call has been released.  A call is released only after it was granted,  *)
(* so a released call's tail has resolved, up to microtasks that delay it. *)
(* Calls are numbered in the order they ask; 0 is no call.                 *)
(***************************************************************************)
EXTENDS Naturals, Sequences

CONSTANTS
  Resources,  \* toolResourceKey of the bindings that have one
  MaxCalls    \* bound: calls that ask

VARIABLES
  calls,  \* every call that asked, in order
  tails   \* tails: the last call of each resource, 0 for none

locksVars == <<calls, tails>>

Asked == DOMAIN calls

Call == [resource : Resources, previous : Nat,
         state    : {"waiting", "holding", "released"}]

LocksInit == calls = <<>> /\ tails = [r \in Resources |-> 0]

Asks(resource) ==
  calls' = Append(calls, [resource |-> resource, previous |-> tails[resource],
                          state |-> "waiting"])

Acquire(resource) ==
  /\ Len(calls) < MaxCalls
  /\ Asks(resource)
  /\ tails' = [tails EXCEPT ![resource] = Len(calls) + 1]

TailResolved(call) == call \in Asked => calls[call].state = "released"

Granted_when_free(call) ==
  /\ calls[call].state = "waiting"
  /\ \A c \in Asked : calls[c].resource = calls[call].resource =>
                       calls[c].state # "holding"
  /\ calls' = [calls EXCEPT ![call].state = "holding"]
  /\ UNCHANGED tails

\* The await of the previous tail resumes.
Granted(call) ==
  /\ calls[call].state = "waiting"
  /\ TailResolved(calls[call].previous)
  /\ calls' = [calls EXCEPT ![call].state = "holding"]
  /\ UNCHANGED tails

Release_forgets(call) ==
  /\ calls[call].state = "holding"
  /\ calls' = [calls EXCEPT ![call].state = "released"]
  /\ tails' = [tails EXCEPT ![calls[call].resource] = 0]

\* In the finally around the tool's execution.
Release(call) ==
  /\ calls[call].state = "holding"
  /\ calls' = [calls EXCEPT ![call].state = "released"]
  /\ tails' = [tails EXCEPT ![calls[call].resource] = IF @ = call THEN 0 ELSE @]

LocksNext == \/ \E r \in Resources : Acquire(r)
        \/ \E c \in Asked : Granted(c) \/ Release(c)

\* A promise that can resume does.  Nothing makes a tool return.
LocksSpec == /\ LocksInit /\ [][LocksNext]_locksVars
        /\ \A c \in 1..MaxCalls : WF_locksVars(c \in Asked /\ Granted(c))

-----------------------------------------------------------------------------

LocksTypeOK == calls \in Seq(Call) /\ tails \in [Resources -> Nat]

OpenCall(call) == calls[call].state # "released"

\* One tool call reaches a resource at a time, though a resource's chain is
\* forgotten and begun anew while calls of it come and go.
OneHolder ==
  \A c, d \in Asked :
    calls[c].resource = calls[d].resource /\ calls[c].state = "holding"
      /\ calls[d].state = "holding" => c = d

\* Chains do not pile up: a resource is remembered exactly while some call
\* holds it or waits for it, and then by the last of them.
NothingLeftBehind ==
  \A r \in Resources :
    LET open == { c \in Asked : calls[c].resource = r /\ OpenCall(c) }
    IN  IF tails[r] = 0 THEN open = {}
        ELSE tails[r] \in open /\ \A c \in open : c <= tails[r]

\* However calls come and go, a resource has one holder and is forgotten with
\* its last call, not before.
LocksSafe == LocksTypeOK /\ OneHolder /\ NothingLeftBehind

\* A resource serves its calls in the order they asked ("served in the order
\* they asked", tool-resource-locks.ts:20).
ServedInOrder ==
  [][\A c \in Asked :
       calls[c].state = "waiting" /\ calls'[c].state = "holding" =>
         \A d \in Asked :
           d < c /\ calls[d].resource = calls[c].resource => ~ OpenCall(d)]_locksVars

\* If no tool keeps its resource for ever, every call that asked gets it.
EveryoneServed ==
  (\A c \in 1..MaxCalls : []<>(c \in Asked => calls[c].state # "holding")) =>
    \A c \in 1..MaxCalls :
      (c \in Asked /\ calls[c].state = "waiting")
        ~> (c \in Asked /\ calls[c].state = "holding")

=============================================================================
