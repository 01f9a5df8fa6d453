------------------------------ MODULE Runs_proofs ------------------------------
(***************************************************************************)
(* Proofs about runs: the reducer and the coordinator of chat runs, and    *)
(* what a batch is made of, a chat repetition, a decision repetition and   *)
(* the locks around tool calls.  The lemmas about the coordinator and      *)
(* about decision-run.ts are also what MCSessions_proofs rests on.         *)
(***************************************************************************)
EXTENDS MCRepetitions, FiniteSetTheorems, WellFoundedInduction, TLAPS

-----------------------------------------------------------------------------
(***************************************************************************)
(* What the reducer preserves, and from it the coordinator's safety        *)
(* properties, for every bound and every set of tool-call indexes.         *)
(*                                                                         *)
(* The reducer: for any run and any event it accepts.  StatusFits,         *)
(* AnsweredInOrder and ServedOnce are not inductive: a new attempt is      *)
(* unanswered only because no result can name an exchange that does not    *)
(* exist yet or is still streaming (ResultsSettled), and a turn is there   *)
(* to be current only once it has begun (TurnsBegun).  RunInv adds both.   *)
(*                                                                         *)
(* The coordinator only makes events the reducer's theorem is about        *)
(* (FromCoordinator), so RunInv holds of its run; that the number it hands *)
(* out next never falls behind the run it keeps is what makes a refusal    *)
(* final.                                                                  *)
(***************************************************************************)

TurnsBegun(r) ==
  /\ r.turns = <<>> => r.status \in {"not_started", "starting", "cancelled", "failed"}
  /\ \A t \in DOMAIN r.turns : r.turns[t] # <<>>

ResultsSettled(r) ==
  \A c \in r.results : Known(r, c[1]) /\ AttemptAt(r, c[1]).status # "streaming"

RunInv(r) ==
  /\ r \in Runs /\ IsFiniteSet(r.executions)
  /\ TurnsBegun(r) /\ ResultsSettled(r)
  /\ StatusFits(r) /\ AnsweredInOrder(r) /\ ServedOnce(r)

\* The events a coordinator makes: they name an exchange, number executions
\* from one, and begin no turn on a failed attempt.
FromCoordinator(r, e) ==
  /\ e.type \in TurnEvents \cup ProviderEvents \cup ToolEvents =>
       e.at = <<e.at[1], e.at[2]>> /\ e.at \in Nat \X Nat
  /\ e.type \in ToolEvents \ {"tool.result_supplied"} => e.number \in Nat
  /\ e.type = "assistant.tool_call_delta" => e.index \in CallIndices
  /\ e.type = "turn.started" => r.status # "attempt_failed"

-----------------------------------------------------------------------------
(* Turns *)

LEMMA AttemptTypes ==
  ASSUME NEW T \in Seq(Seq(Attempts)), NEW t \in DOMAIN T
  PROVE  /\ DOMAIN T = 1..Len(T) /\ T[t] \in Seq(Attempts) /\ Len(T[t]) \in Nat
         /\ DOMAIN T[t] = 1..Len(T[t]) /\ t \in Nat /\ Len(T) \in Nat
         /\ \A a \in DOMAIN T[t] : T[t][a] \in Attempts /\ a \in Nat
<1>1. T[t] \in Seq(Attempts)
  OBVIOUS
<1>. QED
  BY <1>1

\* The turns T with the attempt of one exchange replaced.
Replaced(T, at, new) == [T EXCEPT ![at[1]][at[2]] = new]

\* Replacing one attempt replaces nothing else.
LEMMA ReplaceAttempt ==
  ASSUME NEW T \in Seq(Seq(Attempts)), NEW at, at[1] \in DOMAIN T,
         at[2] \in DOMAIN T[at[1]], NEW new \in Attempts
  PROVE  LET U == Replaced(T, at, new) IN
         /\ U \in Seq(Seq(Attempts)) /\ Len(U) = Len(T) /\ DOMAIN U = DOMAIN T
         /\ \A s \in DOMAIN T : Len(U[s]) = Len(T[s]) /\ DOMAIN U[s] = DOMAIN T[s]
         /\ \A s \in DOMAIN T : \A b \in DOMAIN T[s] :
              U[s][b] = IF s = at[1] /\ b = at[2] THEN new ELSE T[s][b]
<1> DEFINE U == Replaced(T, at, new)
           t == at[1]
           a == at[2]
           turn == [T[t] EXCEPT ![a] = new]
<1>1. T[t] \in Seq(Attempts) /\ Len(T[t]) \in Nat /\ DOMAIN T[t] = 1..Len(T[t])
  BY AttemptTypes
<1>2. /\ turn \in Seq(Attempts) /\ Len(turn) = Len(T[t]) /\ DOMAIN turn = DOMAIN T[t]
      /\ \A b \in DOMAIN T[t] : turn[b] = IF b = a THEN new ELSE T[t][b]
  BY <1>1
<1>3. U = [T EXCEPT ![t] = turn]
  BY DEF Replaced
<1>4. U \in Seq(Seq(Attempts)) /\ Len(U) = Len(T) /\ DOMAIN U = DOMAIN T
  BY <1>2, <1>3
<1>5. \A s \in DOMAIN T : U[s] = IF s = t THEN turn ELSE T[s]
  BY <1>3
<1>. QED
  BY <1>2, <1>4, <1>5

\* Appending an attempt to a turn.
LEMMA AppendAttempt ==
  ASSUME NEW T \in Seq(Seq(Attempts)), NEW t \in DOMAIN T, NEW new \in Attempts,
         NEW U, U = [T EXCEPT ![t] = Append(@, new)]
  PROVE  /\ U \in Seq(Seq(Attempts)) /\ Len(U) = Len(T) /\ DOMAIN U = DOMAIN T
         /\ Len(U[t]) = Len(T[t]) + 1 /\ U[t][Len(T[t]) + 1] = new
         /\ \A a \in DOMAIN T[t] : a \in DOMAIN U[t] /\ U[t][a] = T[t][a]
         /\ \A s \in DOMAIN T : s # t => U[s] = T[s]
<1> DEFINE turn == Append(T[t], new)
<1>1. T[t] \in Seq(Attempts) /\ Len(T[t]) \in Nat /\ DOMAIN T[t] = 1..Len(T[t])
  BY AttemptTypes
<1>2. /\ turn \in Seq(Attempts) /\ Len(turn) = Len(T[t]) + 1
      /\ turn[Len(T[t]) + 1] = new
      /\ \A a \in DOMAIN T[t] : a \in DOMAIN turn /\ turn[a] = T[t][a]
  BY <1>1
<1>3. U = [T EXCEPT ![t] = turn]
  OBVIOUS
<1>4. U \in Seq(Seq(Attempts)) /\ Len(U) = Len(T) /\ DOMAIN U = DOMAIN T
  BY <1>2, <1>3
<1>5. \A s \in DOMAIN T : U[s] = IF s = t THEN turn ELSE T[s]
  BY <1>3
<1>. QED
  BY <1>2, <1>4, <1>5

\* Beginning a turn.
LEMMA AppendTurn ==
  ASSUME NEW T \in Seq(Seq(Attempts)), NEW new \in Attempts,
         NEW U, U = Append(T, <<new>>)
  PROVE  /\ U \in Seq(Seq(Attempts)) /\ Len(U) = Len(T) + 1 /\ Len(T) + 1 \in DOMAIN U
         /\ U[Len(T) + 1] = <<new>> /\ Len(U[Len(T) + 1]) = 1
         /\ DOMAIN U[Len(T) + 1] = {1} /\ U[Len(T) + 1][1] = new
         /\ DOMAIN U = DOMAIN T \cup {Len(T) + 1}
         /\ \A t \in DOMAIN T : U[t] = T[t] /\ t <= Len(T)
<1>1. <<new>> \in Seq(Attempts) /\ Len(<<new>>) = 1 /\ DOMAIN <<new>> = {1}
  OBVIOUS
<1>. QED
  BY <1>1

LEMMA NewAttemptType == NewAttempt \in Attempts
  BY DEF NewAttempt, Attempts

\* A run that has begun a turn has a current attempt.
LEMMA LastIsKnown ==
  ASSUME NEW r, RunInv(r), r.turns # <<>>
  PROVE  /\ r.turns \in Seq(Seq(Attempts)) /\ Len(r.turns) \in DOMAIN r.turns
         /\ Current(r) = <<Len(r.turns), Len(r.turns[Len(r.turns)])>>
         /\ Current(r) \in Nat \X Nat /\ Known(r, Current(r))
         /\ LastAttempt(r) = AttemptAt(r, Current(r)) /\ LastAttempt(r) \in Attempts
<1> DEFINE T == r.turns
<1>1. T \in Seq(Seq(Attempts)) /\ Len(T) \in DOMAIN T /\ T[Len(T)] # <<>>
  BY DEF RunInv, Runs, TurnsBegun
<1>2. T[Len(T)] \in Seq(Attempts) /\ Len(T[Len(T)]) \in DOMAIN T[Len(T)]
  BY <1>1
<1>. QED
  BY <1>1, <1>2 DEF Current, Known, AttemptAt, LastAttempt

\* Only the current attempt streams, and only while the run is running or has
\* been ended around it.
LEMMA StreamingIsLast ==
  ASSUME NEW r, RunInv(r), NEW at \in Nat \X Nat, Streaming(r, at)
  PROVE  /\ r.turns # <<>> /\ at = Current(r) /\ LastAttempt(r).status = "streaming"
         /\ r.status \in {"running", "cancelled", "failed"}
<1> DEFINE T == r.turns
<1>1. T \in Seq(Seq(Attempts)) /\ at[1] \in DOMAIN T /\ at[2] \in DOMAIN T[at[1]]
  BY DEF RunInv, Runs, Streaming, Known
<1>2. /\ T # <<>> /\ at = <<at[1], at[2]>>
      /\ at[1] <= Len(T) /\ at[2] <= Len(T[at[1]])
      /\ Len(T) \in Nat /\ Len(T[at[1]]) \in Nat
      /\ at[1] \in Nat /\ at[2] \in Nat
      /\ T[at[1]][at[2]].status = "streaming"
  BY <1>1, AttemptTypes DEF Streaming, AttemptAt
<1>3. at[2] = Len(T[at[1]])
  <2>1. at[2] < Len(T[at[1]]) => T[at[1]][at[2]].status = "failed"
    BY <1>1 DEF RunInv, AnsweredInOrder
  <2>. QED
    BY <1>2, <2>1
<1>4. at[1] = Len(T)
  BY <1>1, <1>2, <1>3 DEF RunInv, AnsweredInOrder
<1>5. at = Current(r) /\ LastAttempt(r).status = "streaming"
  BY <1>2, <1>3, <1>4, LastIsKnown DEF Streaming
<1>6. r.status \in Statuses
  BY DEF RunInv, Runs
<1>. QED
  BY <1>2, <1>5, <1>6 DEF RunInv, StatusFits, Statuses, TerminalStatuses

-----------------------------------------------------------------------------
(* The current attempt changes *)

\* Replacing the current attempt disturbs nothing that is said of the others,
\* and no result, unless it makes a settled attempt stream again.
LEMMA CurrentChanges ==
  ASSUME NEW r, RunInv(r), r.turns # <<>>,
         NEW new \in Attempts,
         LastAttempt(r).status = "streaming" \/ new.status # "streaming",
         NEW r2 \in Runs,
         r2.turns = Replaced(r.turns, Current(r), new),
         r2.results = r.results, r2.executions = r.executions
  PROVE  /\ r2.turns # <<>> /\ \A t \in DOMAIN r2.turns : r2.turns[t] # <<>>
         /\ Current(r2) = Current(r) /\ LastAttempt(r2) = new
         /\ AttemptAt(r2, Current(r2)) = new
         /\ ResultsSettled(r2) /\ AnsweredInOrder(r2) /\ ServedOnce(r2)
         /\ IsFiniteSet(r2.executions)
<1> DEFINE T == r.turns
           U == r2.turns
           at == Current(r)
<1>1. /\ T \in Seq(Seq(Attempts)) /\ at[1] = Len(T) /\ at[2] = Len(T[Len(T)])
      /\ at[1] \in DOMAIN T /\ at[2] \in DOMAIN T[at[1]]
      /\ LastAttempt(r) = T[at[1]][at[2]]
      /\ at = <<at[1], at[2]>> /\ U = Replaced(T, at, new)
  BY LastIsKnown DEF Known, AttemptAt
<1>2. /\ U \in Seq(Seq(Attempts)) /\ Len(U) = Len(T) /\ DOMAIN U = DOMAIN T
      /\ \A s \in DOMAIN T : Len(U[s]) = Len(T[s]) /\ DOMAIN U[s] = DOMAIN T[s]
      /\ \A s \in DOMAIN T : \A b \in DOMAIN T[s] :
           U[s][b] = IF s = at[1] /\ b = at[2] THEN new ELSE T[s][b]
  <2> DEFINE W == Replaced(T, at, new)
  <2>1. /\ W \in Seq(Seq(Attempts)) /\ Len(W) = Len(T) /\ DOMAIN W = DOMAIN T
        /\ \A s \in DOMAIN T : Len(W[s]) = Len(T[s]) /\ DOMAIN W[s] = DOMAIN T[s]
        /\ \A s \in DOMAIN T : \A b \in DOMAIN T[s] :
             W[s][b] = IF s = at[1] /\ b = at[2] THEN new ELSE T[s][b]
    <3>. HIDE DEF T, U, at
    <3>. QED
      BY <1>1, ReplaceAttempt, Zenon
  <2>2. U = W
    BY <1>1
  <2>. HIDE DEF T, U, at, W
  <2>. QED
    BY <2>1, <2>2
<1>3. U # <<>> /\ \A t \in DOMAIN U : U[t] # <<>>
  BY <1>1, <1>2 DEF RunInv, TurnsBegun
<1>4. Current(r2) = at /\ LastAttempt(r2) = new /\ AttemptAt(r2, at) = new
  <2>1. U[at[1]][at[2]] = new /\ Len(U) = at[1] /\ Len(U[Len(U)]) = at[2]
    BY <1>1, <1>2
  <2>. QED
    BY <1>1, <2>1 DEF Current, LastAttempt, AttemptAt
<1>5. ResultsSettled(r2)
  <2>1. SUFFICES ASSUME NEW c \in r.results
                 PROVE  Known(r2, c[1]) /\ AttemptAt(r2, c[1]).status # "streaming"
    BY DEF ResultsSettled
  <2>2. Known(r, c[1]) /\ AttemptAt(r, c[1]).status # "streaming"
    BY DEF RunInv, ResultsSettled
  <2>. QED
    BY <1>1, <1>2, <2>2 DEF Known, AttemptAt
<1>6. AnsweredInOrder(r2)
  <2>1. SUFFICES ASSUME NEW t \in DOMAIN U, NEW a \in DOMAIN U[t]
                 PROVE  /\ a < Len(U[t]) => U[t][a].status = "failed"
                        /\ t < Len(U) /\ a = Len(U[t]) =>
                             /\ U[t][a].status = "completed" /\ U[t][a].calls # {}
                             /\ Unanswered(r2, <<t, a>>) = {}
    BY Zenon DEF AnsweredInOrder
  <2>. t \in DOMAIN T /\ a \in DOMAIN T[t] /\ Len(U[t]) = Len(T[t]) /\ Len(U) = Len(T)
    BY <1>2
  <2>2. /\ a < Len(T[t]) => T[t][a].status = "failed"
        /\ t < Len(T) /\ a = Len(T[t]) =>
             /\ T[t][a].status = "completed" /\ T[t][a].calls # {}
             /\ Unanswered(r, <<t, a>>) = {}
    BY DEF RunInv, AnsweredInOrder
  <2>3. CASE t = at[1] /\ a = at[2]
    BY <1>1, <2>3, AttemptTypes
  <2>4. CASE ~ (t = at[1] /\ a = at[2])
    <3>1. U[t][a] = T[t][a]
      BY <1>2, <2>4
    <3>2. Unanswered(r2, <<t, a>>) = Unanswered(r, <<t, a>>)
      BY <3>1 DEF Unanswered, AttemptAt, CallsOf
    <3>. QED
      BY <2>2, <3>1, <3>2
  <2>. QED
    BY <2>3, <2>4
<1>. QED
  BY <1>3, <1>4, <1>5, <1>6 DEF RunInv, ServedOnce

\* A run, field by field.
RunWith(status, turns, pending, executions, results, n) ==
  [status |-> status, turns |-> turns, pending |-> pending,
   executions |-> executions, results |-> results, lastSequence |-> n]

LEMMA RunWithType ==
  ASSUME NEW s \in Statuses, NEW T \in Seq(Seq(Attempts)), NEW p \in SUBSET CallIds,
         NEW x \in SUBSET Executions, NEW c \in SUBSET CallIds, NEW n \in Int
  PROVE  RunWith(s, T, p, x, c, n) \in Runs
  BY DEF Runs, RunWith

LEMMA RunWithNumber ==
  ASSUME NEW s, NEW T, NEW p, NEW x, NEW c, NEW n
  PROVE  RunWith(s, T, p, x, c, n).lastSequence = n
  BY DEF RunWith

LEMMA RunWithNumbered ==
  ASSUME NEW s, NEW T, NEW p, NEW x, NEW c, NEW m, NEW n
  PROVE  Numbered(RunWith(s, T, p, x, c, m), n) = RunWith(s, T, p, x, c, n)
  BY DEF RunWith, Numbered

LEMMA RunFields ==
  ASSUME NEW r, RunInv(r)
  PROVE  /\ r \in Runs /\ r.turns \in Seq(Seq(Attempts)) /\ r.status \in Statuses
         /\ r.pending \in SUBSET CallIds /\ r.executions \in SUBSET Executions
         /\ r.results \in SUBSET CallIds /\ r.lastSequence \in Int
  BY DEF RunInv, Runs

LEMMA StatusTypes ==
  {"running", "attempt_failed", "tool_results_ready", "awaiting_tool_results",
   "starting", "completed", "cancelled", "failed"} \subseteq Statuses
  BY DEF Statuses, TerminalStatuses

\* Content, and an answer that calls nothing, keep the run running.
LEMMA StreamContinues ==
  ASSUME NEW r, RunInv(r), ~ IsTerminal(r), NEW at \in Nat \X Nat, Streaming(r, at),
         NEW n \in Int, NEW new \in Attempts,
         new.status = "streaming" \/ (new.status = "completed" /\ new.calls = {})
  PROVE  RunInv(RunWith(r.status, Replaced(r.turns, at, new), r.pending,
                        r.executions, r.results, n))
<1> DEFINE U  == Replaced(r.turns, at, new)
           r2 == RunWith(r.status, U, r.pending, r.executions, r.results, n)
<1>1. /\ r.turns # <<>> /\ at = Current(r) /\ LastAttempt(r).status = "streaming"
      /\ r.status = "running"
  BY StreamingIsLast DEF IsTerminal, TerminalStatuses
<1>2. U \in Seq(Seq(Attempts))
  BY <1>1, ReplaceAttempt, LastIsKnown DEF Known
<1>3. r2 \in Runs
  BY <1>2, RunFields, RunWithType
<1>4. /\ r2.turns = U /\ r2.status = "running" /\ r2.executions = r.executions
      /\ r2.results = r.results
  BY <1>1 DEF RunWith
<1>. HIDE DEF r2, U
<1>5. r2.turns = Replaced(r.turns, Current(r), new)
  BY <1>1, <1>4 DEF U
<1>6. /\ r2.turns # <<>> /\ \A t \in DOMAIN r2.turns : r2.turns[t] # <<>>
      /\ LastAttempt(r2) = new
      /\ ResultsSettled(r2) /\ AnsweredInOrder(r2) /\ ServedOnce(r2)
      /\ IsFiniteSet(r2.executions)
  BY <1>1, <1>3, <1>4, <1>5, CurrentChanges
<1>. QED
  BY <1>3, <1>4, <1>6 DEF RunInv, TurnsBegun, StatusFits, r2, U

\* An answer with tool calls leaves the run waiting for all of them.
LEMMA AnswerCalls ==
  ASSUME NEW r, RunInv(r), ~ IsTerminal(r), NEW at \in Nat \X Nat, Streaming(r, at),
         NEW n \in Int, NEW new \in Attempts, new.status = "completed",
         new.calls = AttemptAt(r, at).calls, new.calls # {}
  PROVE  RunInv(RunWith("awaiting_tool_results",
                        Replaced(r.turns, at, new),
                        CallsOf(at, AttemptAt(r, at)), r.executions, r.results, n))
<1> DEFINE U  == Replaced(r.turns, at, new)
           p  == CallsOf(at, AttemptAt(r, at))
           r2 == RunWith("awaiting_tool_results", U, p, r.executions, r.results, n)
<1>1. /\ r.turns # <<>> /\ at = Current(r) /\ LastAttempt(r).status = "streaming"
      /\ AttemptAt(r, at) = LastAttempt(r) /\ AttemptAt(r, at) \in Attempts
  BY StreamingIsLast, LastIsKnown
<1>2. U \in Seq(Seq(Attempts))
  BY <1>1, ReplaceAttempt, LastIsKnown DEF Known
<1>3. p \in SUBSET CallIds
  <2>1. AttemptAt(r, at).calls \subseteq CallIndices
    BY <1>1 DEF Attempts
  <2>. QED
    BY <2>1 DEF CallsOf, CallIds
<1>4. r2 \in Runs
  BY <1>2, <1>3, RunFields, RunWithType, StatusTypes
<1>5. /\ r2.turns = U /\ r2.status = "awaiting_tool_results" /\ r2.pending = p
      /\ r2.executions = r.executions /\ r2.results = r.results
  BY DEF RunWith
<1>. HIDE DEF r2, U
<1>6. r2.turns = Replaced(r.turns, Current(r), new)
  BY <1>1, <1>5 DEF U
<1>7. /\ r2.turns # <<>> /\ \A t \in DOMAIN r2.turns : r2.turns[t] # <<>>
      /\ Current(r2) = at /\ LastAttempt(r2) = new /\ AttemptAt(r2, at) = new
      /\ ResultsSettled(r2) /\ AnsweredInOrder(r2) /\ ServedOnce(r2)
      /\ IsFiniteSet(r2.executions)
  BY <1>1, <1>4, <1>5, <1>6, CurrentChanges
<1>8. p = Unanswered(r2, at) /\ p # {}
  <2>1. ASSUME NEW c \in r.results, c[1] = at
        PROVE  FALSE
    BY <1>1, <2>1 DEF RunInv, ResultsSettled
  <2>2. \A c \in p : c[1] = at
    BY DEF CallsOf
  <2>3. p = CallsOf(at, new) /\ p # {}
    BY DEF CallsOf
  <2>. QED
    BY <1>5, <1>7, <2>1, <2>2, <2>3 DEF Unanswered
<1>. QED
  BY <1>4, <1>5, <1>7, <1>8 DEF RunInv, TurnsBegun, StatusFits, r2, U

\* A failed attempt pauses the run, also when its answer was already waiting.
LEMMA AttemptFails ==
  ASSUME NEW r, RunInv(r), r.status \in {"running", "awaiting_tool_results"},
         NEW n \in Int, NEW new \in Attempts, new.status = "failed"
  PROVE  RunInv(RunWith("attempt_failed", Replaced(r.turns, Current(r), new), {},
                        r.executions, r.results, n))
<1> DEFINE U  == Replaced(r.turns, Current(r), new)
           r2 == RunWith("attempt_failed", U, {}, r.executions, r.results, n)
<1>1. r.turns # <<>>
  BY DEF RunInv, TurnsBegun
<1>2. U \in Seq(Seq(Attempts))
  BY <1>1, ReplaceAttempt, LastIsKnown DEF Known
<1>3. r2 \in Runs
  BY <1>2, RunFields, RunWithType, StatusTypes
<1>4. /\ r2.turns = U /\ r2.status = "attempt_failed" /\ r2.executions = r.executions
      /\ r2.results = r.results
  BY DEF RunWith
<1>. HIDE DEF r2, U
<1>5. r2.turns = Replaced(r.turns, Current(r), new)
  BY <1>4 DEF U
<1>6. /\ r2.turns # <<>> /\ \A t \in DOMAIN r2.turns : r2.turns[t] # <<>>
      /\ LastAttempt(r2) = new
      /\ ResultsSettled(r2) /\ AnsweredInOrder(r2) /\ ServedOnce(r2)
      /\ IsFiniteSet(r2.executions)
  BY <1>1, <1>3, <1>4, <1>5, CurrentChanges
<1>. QED
  BY <1>3, <1>4, <1>6 DEF RunInv, TurnsBegun, StatusFits, r2, U

-----------------------------------------------------------------------------
(* Turns and attempts begin *)

\* AnsweredInOrder, attempt by attempt.
AnsweredAt(r, t, a) ==
  /\ a < Len(r.turns[t]) => r.turns[t][a].status = "failed"
  /\ t < Len(r.turns) /\ a = Len(r.turns[t]) =>
       /\ r.turns[t][a].status = "completed" /\ r.turns[t][a].calls # {}
       /\ Unanswered(r, <<t, a>>) = {}

LEMMA AnsweredByAttempt ==
  ASSUME NEW r
  PROVE  AnsweredInOrder(r) <=>
           \A t \in DOMAIN r.turns : \A a \in DOMAIN r.turns[t] : AnsweredAt(r, t, a)
  BY Zenon DEF AnsweredInOrder, AnsweredAt

\* What is said of an attempt stays true if it and its turn's length stay.
LEMMA AnsweredStays ==
  ASSUME NEW r, NEW r2, NEW t, NEW a, AnsweredAt(r, t, a),
         r2.turns[t] = r.turns[t], t < Len(r2.turns) => t < Len(r.turns),
         r2.results = r.results
  PROVE  AnsweredAt(r2, t, a)
  BY DEF AnsweredAt, Unanswered, AttemptAt

\* A retry follows a failed attempt, which it leaves as it was.
LEMMA AttemptBegins ==
  ASSUME NEW r, RunInv(r), r.status = "attempt_failed", NEW n \in Int,
         NEW U, U = [r.turns EXCEPT ![Len(r.turns)] = Append(@, NewAttempt)]
  PROVE  RunInv(RunWith("running", U, r.pending, r.executions, r.results, n))
<1> DEFINE T  == r.turns
           l  == Len(T)
           r2 == RunWith("running", U, r.pending, r.executions, r.results, n)
<1>1. /\ T \in Seq(Seq(Attempts)) /\ l \in DOMAIN T
      /\ T[l][Len(T[l])].status = "failed"
  BY LastIsKnown DEF RunInv, TurnsBegun, StatusFits, LastAttempt
<1>2. /\ U \in Seq(Seq(Attempts)) /\ Len(U) = l /\ DOMAIN U = DOMAIN T
      /\ Len(U[l]) = Len(T[l]) + 1 /\ U[l][Len(T[l]) + 1] = NewAttempt
      /\ \A a \in DOMAIN T[l] : a \in DOMAIN U[l] /\ U[l][a] = T[l][a]
      /\ \A s \in DOMAIN T : s # l => U[s] = T[s]
  BY <1>1, NewAttemptType, AppendAttempt
<1>3. r2 \in Runs
  BY <1>2, RunFields, RunWithType, StatusTypes
<1>4. /\ r2.turns = U /\ r2.status = "running" /\ r2.executions = r.executions
      /\ r2.results = r.results
  BY DEF RunWith
<1>. HIDE DEF r2
<1>5. TurnsBegun(r2) /\ LastAttempt(r2) = NewAttempt
  BY <1>1, <1>2, <1>4, AttemptTypes DEF RunInv, TurnsBegun, LastAttempt
<1>6. ResultsSettled(r2)
  <2>1. SUFFICES ASSUME NEW c \in r.results
                 PROVE  /\ c[1][1] \in DOMAIN U /\ c[1][2] \in DOMAIN U[c[1][1]]
                        /\ U[c[1][1]][c[1][2]].status # "streaming"
    BY <1>4 DEF ResultsSettled, Known, AttemptAt
  <2>2. /\ c[1][1] \in DOMAIN T /\ c[1][2] \in DOMAIN T[c[1][1]]
        /\ T[c[1][1]][c[1][2]].status # "streaming"
    BY DEF RunInv, ResultsSettled, Known, AttemptAt
  <2>3. /\ c[1][2] \in DOMAIN U[c[1][1]]
        /\ U[c[1][1]][c[1][2]] = T[c[1][1]][c[1][2]]
    BY <1>2, <2>2
  <2>. QED
    BY <1>2, <2>2, <2>3
<1>7. AnsweredInOrder(r2)
  <2>1. SUFFICES ASSUME NEW t \in DOMAIN U, NEW a \in DOMAIN U[t]
                 PROVE  AnsweredAt(r2, t, a)
    BY <1>4, AnsweredByAttempt
  <2>. \A s \in DOMAIN T : \A b \in DOMAIN T[s] : AnsweredAt(r, s, b)
    BY AnsweredByAttempt DEF RunInv
  <2>2. CASE t = l
    <3>1. CASE a < Len(T[l])
      <4>1. a \in DOMAIN T[l]
        BY <1>1, <1>2, <2>2, <3>1, AttemptTypes
      <4>. QED
        BY <1>1, <1>2, <1>4, <2>2, <3>1, <4>1, AttemptTypes DEF AnsweredAt
    <3>2. CASE a = Len(T[l])
      BY <1>1, <1>2, <1>4, <2>2, <3>2, AttemptTypes DEF AnsweredAt
    <3>3. a \in Nat /\ a <= Len(T[l]) + 1 /\ Len(T[l]) \in Nat
      BY <1>1, <1>2, <2>2, AttemptTypes
    <3>4. CASE a = Len(T[l]) + 1
      BY <1>2, <1>4, <2>2, <3>3, <3>4, AttemptTypes DEF AnsweredAt
    <3>. QED
      BY <3>1, <3>2, <3>3, <3>4
  <2>3. CASE t # l
    <3>1. U[t] = T[t] /\ t \in DOMAIN T /\ a \in DOMAIN T[t]
      BY <1>2, <2>3
    <3>. QED
      BY <1>2, <1>4, <3>1, AnsweredStays
  <2>. QED
    BY <2>2, <2>3
<1>8. StatusFits(r2)
  BY <1>4, <1>5 DEF StatusFits, NewAttempt
<1>9. ServedOnce(r2) /\ IsFiniteSet(r2.executions)
  BY <1>4 DEF RunInv, ServedOnce
<1>. QED
  BY <1>3, <1>5, <1>6, <1>7, <1>8, <1>9 DEF RunInv, r2

\* A turn follows the start, or a completed answer all of whose calls have a
\* result.
LEMMA TurnBegins ==
  ASSUME NEW r, RunInv(r), r.status \in {"starting", "tool_results_ready"},
         NEW n \in Int, NEW U, U = Append(r.turns, <<NewAttempt>>)
  PROVE  RunInv(RunWith("running", U, r.pending, r.executions, r.results, n))
<1> DEFINE T  == r.turns
           l  == Len(T)
           r2 == RunWith("running", U, r.pending, r.executions, r.results, n)
<1>1. T \in Seq(Seq(Attempts)) /\ l \in Nat
  BY RunFields
<1>2. /\ U \in Seq(Seq(Attempts)) /\ Len(U) = l + 1 /\ U[l + 1] = <<NewAttempt>>
      /\ Len(U[l + 1]) = 1 /\ DOMAIN U[l + 1] = {1} /\ U[l + 1][1] = NewAttempt
      /\ DOMAIN U = DOMAIN T \cup {l + 1}
      /\ \A t \in DOMAIN T : U[t] = T[t] /\ t <= l
  BY <1>1, NewAttemptType, AppendTurn
<1>3. r2 \in Runs
  BY <1>2, RunFields, RunWithType, StatusTypes
<1>4. /\ r2.turns = U /\ r2.status = "running" /\ r2.executions = r.executions
      /\ r2.results = r.results
  BY DEF RunWith
<1>. HIDE DEF r2
<1>5. TurnsBegun(r2) /\ LastAttempt(r2) = NewAttempt
  BY <1>1, <1>2, <1>4 DEF RunInv, TurnsBegun, LastAttempt
<1>6. ResultsSettled(r2)
  <2>1. SUFFICES ASSUME NEW c \in r.results
                 PROVE  /\ c[1][1] \in DOMAIN U /\ c[1][2] \in DOMAIN U[c[1][1]]
                        /\ U[c[1][1]][c[1][2]].status # "streaming"
    BY <1>4 DEF ResultsSettled, Known, AttemptAt
  <2>2. /\ c[1][1] \in DOMAIN T /\ c[1][2] \in DOMAIN T[c[1][1]]
        /\ T[c[1][1]][c[1][2]].status # "streaming"
    BY DEF RunInv, ResultsSettled, Known, AttemptAt
  <2>3. /\ c[1][2] \in DOMAIN U[c[1][1]]
        /\ U[c[1][1]][c[1][2]] = T[c[1][1]][c[1][2]]
    BY <1>2, <2>2
  <2>. QED
    BY <1>2, <2>2, <2>3
<1>7. AnsweredInOrder(r2)
  <2>1. SUFFICES ASSUME NEW t \in DOMAIN U, NEW a \in DOMAIN U[t]
                 PROVE  AnsweredAt(r2, t, a)
    BY <1>4, AnsweredByAttempt
  <2>. \A s \in DOMAIN T : \A b \in DOMAIN T[s] : AnsweredAt(r, s, b)
    BY AnsweredByAttempt DEF RunInv
  <2>2. CASE t = l + 1
    BY <1>1, <1>2, <1>4, <2>2 DEF AnsweredAt
  <2>3. CASE t \in DOMAIN T
    <3>1. U[t] = T[t] /\ a \in DOMAIN T[t] /\ Unanswered(r2, <<t, a>>) = Unanswered(r, <<t, a>>)
      BY <1>2, <1>4, <2>3 DEF Unanswered, AttemptAt
    <3>. AnsweredAt(r, t, a)
      BY <2>3, <3>1
    <3>2. CASE t = l
      <4>1. /\ T # <<>> /\ r.status = "tool_results_ready"
            /\ LastAttempt(r) = T[l][Len(T[l])] /\ Current(r) = <<l, Len(T[l])>>
        BY <2>3, <3>2 DEF RunInv, StatusFits, LastAttempt, Current
      <4>2. /\ T[l][Len(T[l])].status = "completed" /\ T[l][Len(T[l])].calls # {}
            /\ Unanswered(r, <<l, Len(T[l])>>) = {}
        BY <4>1 DEF RunInv, StatusFits
      <4>3. a \in Nat /\ a <= Len(T[l]) /\ Len(T[l]) \in Nat
        BY <1>1, <2>3, <3>1, <3>2, AttemptTypes
      <4>. QED
        BY <1>4, <3>1, <3>2, <4>2, <4>3 DEF AnsweredAt
    <3>3. CASE t # l
      <4>1. t < l
        BY <1>1, <1>2, <2>3, <3>3
      <4>. QED
        BY <1>4, <3>1, <4>1, AnsweredStays
    <3>. QED
      BY <3>2, <3>3
  <2>. QED
    BY <1>2, <2>2, <2>3
<1>8. StatusFits(r2)
  BY <1>4, <1>5 DEF StatusFits, NewAttempt
<1>9. ServedOnce(r2) /\ IsFiniteSet(r2.executions)
  BY <1>4 DEF RunInv, ServedOnce
<1>. QED
  BY <1>3, <1>5, <1>6, <1>7, <1>8, <1>9 DEF RunInv, r2

-----------------------------------------------------------------------------
(* The turns stay as they are *)

\* With the same turns, and new results only of settled attempts, what is said
\* of the turns stays true.
LEMMA TurnsKept ==
  ASSUME NEW r, RunInv(r), NEW r2, r2.turns = r.turns, r.results \subseteq r2.results,
         \A c \in r2.results \ r.results :
           Known(r, c[1]) /\ AttemptAt(r, c[1]).status # "streaming"
  PROVE  /\ ResultsSettled(r2) /\ AnsweredInOrder(r2)
         /\ LastAttempt(r2) = LastAttempt(r) /\ Current(r2) = Current(r)
         /\ \A t \in DOMAIN r2.turns : r2.turns[t] # <<>>
<1>1. ResultsSettled(r2)
  BY DEF RunInv, ResultsSettled, Known, AttemptAt
<1>2. AnsweredInOrder(r2)
  <2>1. SUFFICES ASSUME NEW t \in DOMAIN r.turns, NEW a \in DOMAIN r.turns[t]
                 PROVE  AnsweredAt(r2, t, a)
    BY AnsweredByAttempt
  <2>2. AnsweredAt(r, t, a)
    BY AnsweredByAttempt DEF RunInv
  <2>3. Unanswered(r2, <<t, a>>) \subseteq Unanswered(r, <<t, a>>)
    BY DEF Unanswered, AttemptAt
  <2>. QED
    BY <2>2, <2>3 DEF AnsweredAt
<1>. QED
  BY <1>1, <1>2 DEF RunInv, TurnsBegun, LastAttempt, Current

\* A change of executions that still serves each call once.
LEMMA ExecutionsChange ==
  ASSUME NEW r, RunInv(r), NEW n \in Int, NEW X \in SUBSET Executions, IsFiniteSet(X),
         ServedOnce(RunWith(r.status, r.turns, r.pending, X, r.results, n))
  PROVE  RunInv(RunWith(r.status, r.turns, r.pending, X, r.results, n))
<1> DEFINE r2 == RunWith(r.status, r.turns, r.pending, X, r.results, n)
<1>1. r2 \in Runs
  BY RunFields, RunWithType
<1>2. /\ r2.turns = r.turns /\ r2.status = r.status /\ r2.executions = X
      /\ r2.results = r.results /\ r2.pending = r.pending
  BY DEF RunWith
<1>. HIDE DEF r2
<1>3. /\ ResultsSettled(r2) /\ AnsweredInOrder(r2)
      /\ LastAttempt(r2) = LastAttempt(r) /\ Current(r2) = Current(r)
      /\ \A t \in DOMAIN r2.turns : r2.turns[t] # <<>>
  BY <1>2, TurnsKept
<1>4. StatusFits(r2) /\ TurnsBegun(r2)
  BY <1>2, <1>3 DEF RunInv, StatusFits, TurnsBegun, Unanswered, AttemptAt
<1>5. RunInv(r2)
  BY <1>1, <1>2, <1>3, <1>4 DEF RunInv, r2
<1>. QED
  BY <1>5 DEF r2

LEMMA ExecutionBegins ==
  ASSUME NEW r, RunInv(r), r.status = "awaiting_tool_results", NEW n \in Int,
         NEW call \in r.pending, NEW number \in Nat,
         \A x \in r.executions : x.call = call => x.status = "failed",
         NEW new, new = [call |-> call, number |-> number, status |-> "executing"]
  PROVE  RunInv(RunWith(r.status, r.turns, r.pending, r.executions \cup {new},
                        r.results, n))
<1> DEFINE X == r.executions \cup {new}
<1>1. new \in Executions
  BY RunFields DEF Executions, ExecutionStatuses
<1>2. X \in SUBSET Executions /\ IsFiniteSet(X)
  BY <1>1, RunFields, FS_AddElement DEF RunInv
<1>3. call \notin r.results
  BY DEF RunInv, StatusFits, Unanswered
<1>4. \A x, y \in X : /\ x.call = y.call /\ x.status # "failed" /\ y.status # "failed" => x = y
                      /\ x.call \in r.results => x.status # "executing"
  BY <1>3 DEF RunInv, ServedOnce
<1>5. ServedOnce(RunWith(r.status, r.turns, r.pending, X, r.results, n))
  BY <1>4 DEF ServedOnce, RunWith
<1>. QED
  BY <1>2, <1>5, ExecutionsChange

LEMMA ExecutionSettles ==
  ASSUME NEW r, RunInv(r), NEW n \in Int, NEW open \in r.executions,
         open.status = "executing", NEW status \in {"completed", "failed"},
         NEW new, new = [open EXCEPT !.status = status]
  PROVE  RunInv(RunWith(r.status, r.turns, r.pending,
                        (r.executions \ {open}) \cup {new}, r.results, n))
<1> DEFINE X == (r.executions \ {open}) \cup {new}
<1>1. open \in Executions
  BY RunFields
<1>2. new \in Executions /\ new.call = open.call /\ new.status = status
  BY <1>1 DEF Executions, ExecutionStatuses
<1>3. X \in SUBSET Executions /\ IsFiniteSet(X)
  BY <1>2, RunFields, FS_AddElement, FS_RemoveElement DEF RunInv
<1>4. \A x, y \in X : /\ x.call = y.call /\ x.status # "failed" /\ y.status # "failed" => x = y
                      /\ x.call \in r.results => x.status # "executing"
  <2>1. \A x, y \in r.executions :
          /\ x.call = y.call /\ x.status # "failed" /\ y.status # "failed" => x = y
          /\ x.call \in r.results => x.status # "executing"
    BY Zenon DEF RunInv, ServedOnce
  <2>2. \A y \in r.executions \ {open} : y.call = open.call => y.status = "failed"
    BY <2>1
  <2>3. new.status # "executing"
    BY <1>2
  <2>. HIDE DEF X
  <2>4. ASSUME NEW x \in X, NEW y \in X
        PROVE  /\ x.call = y.call /\ x.status # "failed" /\ y.status # "failed" => x = y
               /\ x.call \in r.results => x.status # "executing"
    <3>1. x \in r.executions \ {open} \/ x = new
      BY DEF X
    <3>2. y \in r.executions \ {open} \/ y = new
      BY DEF X
    <3>3. CASE x = new
      BY <1>2, <2>2, <2>3, <3>2, <3>3
    <3>4. CASE x \in r.executions \ {open}
      BY <1>2, <2>1, <2>2, <3>2, <3>4
    <3>. QED
      BY <3>1, <3>3, <3>4
  <2>. QED
    BY <2>4
<1>5. ServedOnce(RunWith(r.status, r.turns, r.pending, X, r.results, n))
  BY <1>4 DEF ServedOnce, RunWith
<1>. QED
  BY <1>3, <1>5, ExecutionsChange

\* The last result that is missing makes the run ready for its next turn.
LEMMA ResultArrives ==
  ASSUME NEW r, RunInv(r), r.status = "awaiting_tool_results", NEW n \in Int,
         NEW call \in r.pending,
         \A x \in r.executions : x.call = call => x.status # "executing",
         NEW left, left = CallsOf(Current(r), LastAttempt(r)) \ (r.results \cup {call}),
         NEW s, s = IF left = {} THEN "tool_results_ready" ELSE r.status
  PROVE  RunInv(RunWith(s, r.turns, left, r.executions, r.results \cup {call}, n))
<1> DEFINE c2 == r.results \cup {call}
           r2 == RunWith(s, r.turns, left, r.executions, c2, n)
<1>1. /\ r.turns # <<>> /\ LastAttempt(r).status = "completed"
      /\ r.pending = Unanswered(r, Current(r))
  BY DEF RunInv, TurnsBegun, StatusFits
<1>2. /\ Known(r, Current(r)) /\ LastAttempt(r) = AttemptAt(r, Current(r))
      /\ LastAttempt(r) \in Attempts /\ Current(r) \in Nat \X Nat
  BY <1>1, LastIsKnown
<1>3. call[1] = Current(r) /\ call \in CallIds /\ LastAttempt(r).calls # {}
  BY <1>1, <1>2, RunFields DEF Unanswered, CallsOf
<1>4. left \in SUBSET CallIds
  BY <1>2 DEF CallsOf, CallIds, Attempts
<1>5. s \in {"tool_results_ready", "awaiting_tool_results"}
  OBVIOUS
<1>6. r2 \in Runs
  BY <1>3, <1>4, <1>5, RunFields, RunWithType, StatusTypes
<1>7. /\ r2.turns = r.turns /\ r2.status = s /\ r2.executions = r.executions
      /\ r2.results = c2 /\ r2.pending = left
  BY DEF RunWith
<1>. HIDE DEF r2
<1>8. /\ ResultsSettled(r2) /\ AnsweredInOrder(r2)
      /\ LastAttempt(r2) = LastAttempt(r) /\ Current(r2) = Current(r)
      /\ \A t \in DOMAIN r2.turns : r2.turns[t] # <<>>
  BY <1>1, <1>2, <1>3, <1>7, TurnsKept
<1>9. Unanswered(r2, Current(r2)) = left
  BY <1>2, <1>7, <1>8 DEF Unanswered, AttemptAt
<1>10. StatusFits(r2) /\ TurnsBegun(r2)
  BY <1>1, <1>3, <1>5, <1>7, <1>8, <1>9 DEF StatusFits, TurnsBegun
<1>11. ServedOnce(r2)
  BY <1>7 DEF RunInv, ServedOnce
<1>12. RunInv(r2)
  BY <1>6, <1>7, <1>8, <1>10, <1>11 DEF RunInv
<1>. QED
  BY <1>12 DEF r2

\* A run starts with nothing, and ends as it stands.
LEMMA RunChanges ==
  ASSUME NEW r, RunInv(r), NEW n \in Int,
         NEW s \in {"starting", "completed", "cancelled", "failed"},
         s = "starting" => r.status = "not_started",
         s = "completed" => /\ r.status = "running"
                            /\ LastAttempt(r).status = "completed"
                            /\ LastAttempt(r).calls = {}
  PROVE  RunInv(RunWith(s, r.turns, {}, r.executions, r.results, n))
<1> DEFINE r2 == RunWith(s, r.turns, {}, r.executions, r.results, n)
<1>1. r2 \in Runs
  BY RunFields, RunWithType, StatusTypes
<1>2. /\ r2.turns = r.turns /\ r2.status = s /\ r2.executions = r.executions
      /\ r2.results = r.results
  BY DEF RunWith
<1>. HIDE DEF r2
<1>3. /\ ResultsSettled(r2) /\ AnsweredInOrder(r2) /\ LastAttempt(r2) = LastAttempt(r)
      /\ \A t \in DOMAIN r2.turns : r2.turns[t] # <<>>
  BY <1>2, TurnsKept
<1>4. StatusFits(r2) /\ TurnsBegun(r2) /\ ServedOnce(r2)
  BY <1>2, <1>3 DEF RunInv, StatusFits, TurnsBegun, ServedOnce
<1>5. RunInv(r2)
  BY <1>1, <1>2, <1>3, <1>4 DEF RunInv
<1>. QED
  BY <1>5 DEF r2

\* An event that only uses its number up: a frame, usage.
LEMMA NumberAdvances ==
  ASSUME NEW r, RunInv(r), NEW n \in Int
  PROVE  RunInv(RunWith(r.status, r.turns, r.pending, r.executions, r.results, n))
<1>1. ServedOnce(RunWith(r.status, r.turns, r.pending, r.executions, r.results, n))
  BY DEF RunInv, ServedOnce, RunWith
<1>. QED
  BY <1>1, RunFields, ExecutionsChange DEF RunInv

-----------------------------------------------------------------------------
(* Every accepted event *)

LEMMA TurnInv ==
  ASSUME NEW r, RunInv(r), NEW n \in Int, NEW e, FromCoordinator(r, e),
         TurnAccepted(r, e)
  PROVE  RunInv(Reduced(r, n, e)) /\ Reduced(r, n, e).lastSequence = n
<1>. r \in Runs
  BY RunFields
<1>0. ASSUME e.type \in TurnEvents
      PROVE  Reduced(r, n, e) = Numbered(TurnReduced(r, e), n)
  <2>1. e.type \notin ProviderEvents /\ e.type \notin ToolEvents
    BY <1>0 DEF TurnEvents, ProviderEvents, ContentEvents, ToolEvents
  <2>2. NextRun(r, e) = TurnReduced(r, e)
    BY <1>0, <2>1 DEF NextRun
  <2>. QED
    BY <2>2 DEF Reduced
<1>1. CASE e.type = "turn.started"
  <2> DEFINE U == Append(r.turns, <<NewAttempt>>)
  <2>1. Reduced(r, n, e) = RunWith("running", U, r.pending, r.executions, r.results, n)
    <3>1. TurnReduced(r, e) = RunWith("running", U, r.pending, r.executions, r.results,
                                      r.lastSequence)
      BY <1>1 DEF TurnReduced, RunWith, Runs
    <3>. QED
      BY <1>0, <1>1, <3>1, RunWithNumbered DEF TurnEvents
  <2>2. r.status \in {"starting", "tool_results_ready"}
    BY <1>1 DEF FromCoordinator, TurnAccepted
  <2>3. RunInv(RunWith("running", U, r.pending, r.executions, r.results, n))
    BY <2>2, TurnBegins
  <2>. QED
    BY <2>1, <2>3, RunWithNumber
<1>2. CASE e.type = "turn.attempt_started"
  <2>1. r.status = "attempt_failed" /\ e.at[1] = Len(r.turns)
    BY <1>2 DEF TurnAccepted, Current
  <2> DEFINE U == [r.turns EXCEPT ![Len(r.turns)] = Append(@, NewAttempt)]
  <2>2. Reduced(r, n, e) = RunWith("running", U, r.pending, r.executions, r.results, n)
    <3>1. TurnReduced(r, e) = RunWith("running", U, r.pending, r.executions, r.results,
                                      r.lastSequence)
      BY <1>2, <2>1 DEF TurnReduced, RunWith, Runs
    <3>. QED
      BY <1>0, <1>2, <3>1, RunWithNumbered DEF TurnEvents
  <2>3. RunInv(RunWith("running", U, r.pending, r.executions, r.results, n))
    BY <2>1, AttemptBegins
  <2>. QED
    BY <2>2, <2>3, RunWithNumber
<1>3. CASE e.type = "turn.attempt_failed"
  <2>1. r.status \in {"running", "awaiting_tool_results"} /\ e.at = Current(r)
    BY <1>3 DEF FromCoordinator, TurnEvents, TurnAccepted, IsLatest, Current
  <2> DEFINE new == [LastAttempt(r) EXCEPT !.status = "failed"]
  <2>2. LastAttempt(r) = AttemptAt(r, e.at) /\ new \in Attempts /\ new.status = "failed"
    BY <2>1, LastIsKnown DEF RunInv, TurnsBegun, Attempts
  <2>3. Replaced(r.turns, e.at, new)
          = [r.turns EXCEPT ![e.at[1]][e.at[2]].status = "failed"]
    BY <2>2 DEF Replaced, AttemptAt
  <2>4. Reduced(r, n, e)
          = RunWith("attempt_failed", Replaced(r.turns, e.at, new), {}, r.executions,
                    r.results, n)
    <3>1. TurnReduced(r, e)
            = RunWith("attempt_failed", Replaced(r.turns, e.at, new), {}, r.executions,
                      r.results, r.lastSequence)
      BY <1>3, <2>3 DEF TurnReduced, RunWith, Runs
    <3>. QED
      BY <1>0, <1>3, <3>1, RunWithNumbered DEF TurnEvents
  <2>5. RunInv(RunWith("attempt_failed", Replaced(r.turns, Current(r), new), {},
                       r.executions, r.results, n))
    BY <2>1, <2>2, AttemptFails
  <2>. QED
    BY <2>1, <2>4, <2>5, RunWithNumber
<1>. QED
  BY <1>1, <1>2, <1>3 DEF TurnAccepted

LEMMA ProviderInv ==
  ASSUME NEW r, RunInv(r), ~ IsTerminal(r), NEW n \in Int, NEW e,
         FromCoordinator(r, e), ProviderAccepted(r, e)
  PROVE  RunInv(Reduced(r, n, e)) /\ Reduced(r, n, e).lastSequence = n
<1> DEFINE old == AttemptAt(r, e.at)
<1>. r \in Runs
  BY RunFields
<1>1. e.type \in ProviderEvents /\ e.at \in Nat \X Nat
  BY DEF ProviderAccepted, ProviderEvents, ContentEvents, FromCoordinator
<1>2. Reduced(r, n, e) = Numbered(ProviderReduced(r, e), n)
  <2>1. e.type \notin TurnEvents /\ e.type \notin ToolEvents
    BY <1>1 DEF TurnEvents, ProviderEvents, ContentEvents, ToolEvents
  <2>2. NextRun(r, e) = ProviderReduced(r, e)
    BY <1>1, <2>1 DEF NextRun
  <2>. QED
    BY <2>2 DEF Reduced
<1>3. ASSUME Streaming(r, e.at)
      PROVE  old \in Attempts /\ old.status = "streaming"
  BY <1>1, <1>3, StreamingIsLast, LastIsKnown DEF Streaming
<1>4. ASSUME Streaming(r, e.at), NEW new \in Attempts, new.status = "streaming",
             ProviderReduced(r, e) = [r EXCEPT !.turns[e.at[1]][e.at[2]] = new]
      PROVE  RunInv(Reduced(r, n, e)) /\ Reduced(r, n, e).lastSequence = n
  <2>1. Reduced(r, n, e)
          = RunWith(r.status, Replaced(r.turns, e.at, new), r.pending, r.executions,
                    r.results, n)
    BY <1>2, <1>4 DEF RunWith, Runs, Replaced, Numbered
  <2>2. RunInv(RunWith(r.status, Replaced(r.turns, e.at, new), r.pending,
                       r.executions, r.results, n))
    <3>1. /\ Streaming(r, e.at) /\ new \in Attempts
          /\ new.status = "streaming" \/ (new.status = "completed" /\ new.calls = {})
      BY <1>4
    <3>. HIDE DEF old
    <3>. QED
      BY <1>1, <3>1, StreamContinues
  <2>. QED
    BY <2>1, <2>2, RunWithNumber
<1>5. CASE e.type \in {"exchange.frame_received", "usage.reported", "assistant.delta"}
  <2>1. Reduced(r, n, e)
          = RunWith(r.status, r.turns, r.pending, r.executions, r.results, n)
    BY <1>2, <1>5 DEF ProviderReduced, RunWith, Runs, Numbered
  <2>. QED
    BY <2>1, NumberAdvances, RunWithNumber
<1>6. CASE e.type = "exchange.requested"
  <2> DEFINE new == [old EXCEPT !.exchange = "requested"]
  <2>1. Streaming(r, e.at)
    BY <1>6 DEF ProviderAccepted, ContentEvents
  <2>2. new \in Attempts /\ new.status = "streaming"
    BY <1>3, <2>1 DEF Attempts
  <2>3. ProviderReduced(r, e) = [r EXCEPT !.turns[e.at[1]][e.at[2]] = new]
    BY <1>6 DEF ProviderReduced
  <2>. QED
    BY <1>4, <2>1, <2>2, <2>3
<1>7. CASE e.type = "exchange.response_started"
  <2> DEFINE new == [old EXCEPT !.exchange = "responding"]
  <2>1. Streaming(r, e.at)
    BY <1>7 DEF ProviderAccepted, ContentEvents
  <2>2. new \in Attempts /\ new.status = "streaming"
    BY <1>3, <2>1 DEF Attempts
  <2>3. ProviderReduced(r, e) = [r EXCEPT !.turns[e.at[1]][e.at[2]] = new]
    BY <1>7 DEF ProviderReduced
  <2>. QED
    BY <1>4, <2>1, <2>2, <2>3
<1>8. CASE e.type = "assistant.tool_call_delta"
  <2> DEFINE new == [old EXCEPT !.calls = @ \cup {e.index},
                                !.named = IF e.hasName THEN @ \cup {e.index} ELSE @]
  <2>1. Streaming(r, e.at) /\ e.index \in CallIndices
    BY <1>8 DEF ProviderAccepted, ContentEvents, FromCoordinator
  <2>2. new \in Attempts /\ new.status = "streaming"
    BY <1>3, <2>1 DEF Attempts
  <2>3. ProviderReduced(r, e) = [r EXCEPT !.turns[e.at[1]][e.at[2]] = new]
    BY <1>8 DEF ProviderReduced
  <2>. QED
    BY <1>4, <2>1, <2>2, <2>3
<1>9. CASE e.type = "assistant.completed"
  <2> DEFINE new == [old EXCEPT !.status = "completed"]
             U   == Replaced(r.turns, e.at, new)
  <2>1. Streaming(r, e.at)
    BY <1>9 DEF ProviderAccepted, ContentEvents
  <2>2. new \in Attempts /\ new.status = "completed" /\ new.calls = old.calls
    BY <1>3, <2>1 DEF Attempts
  <2>3. CASE old.calls = {}
    <3>1. ProviderReduced(r, e) = [r EXCEPT !.turns[e.at[1]][e.at[2]] = new]
      BY <1>9, <2>3 DEF ProviderReduced
    <3>2. Reduced(r, n, e)
            = RunWith(r.status, U, r.pending, r.executions, r.results, n)
      BY <1>2, <3>1 DEF RunWith, Runs, Replaced, Numbered
    <3>3. RunInv(RunWith(r.status, U, r.pending, r.executions, r.results, n))
      BY <1>1, <2>1, <2>2, <2>3, StreamContinues
    <3>. QED
      BY <3>2, <3>3, RunWithNumber
  <2>4. CASE old.calls # {}
    <3>1. ProviderReduced(r, e)
            = [r EXCEPT !.turns[e.at[1]][e.at[2]] = new,
                        !.status = "awaiting_tool_results", !.pending = CallsOf(e.at, old)]
      BY <1>9, <2>4 DEF ProviderReduced, Runs
    <3>2. Reduced(r, n, e)
            = RunWith("awaiting_tool_results", U, CallsOf(e.at, old), r.executions,
                      r.results, n)
      BY <1>2, <3>1 DEF RunWith, Runs, Replaced, Numbered
    <3>3. RunInv(RunWith("awaiting_tool_results", U, CallsOf(e.at, old), r.executions,
                         r.results, n))
      BY <1>1, <2>1, <2>2, <2>4, AnswerCalls
    <3>. QED
      BY <3>2, <3>3, RunWithNumber
  <2>. QED
    BY <2>3, <2>4
<1>. QED
  BY <1>1, <1>5, <1>6, <1>7, <1>8, <1>9 DEF ProviderEvents, ContentEvents

LEMMA ToolInv ==
  ASSUME NEW r, RunInv(r), NEW n \in Int, NEW e, FromCoordinator(r, e),
         ToolAccepted(r, e)
  PROVE  RunInv(Reduced(r, n, e)) /\ Reduced(r, n, e).lastSequence = n
<1>. r \in Runs
  BY RunFields
<1>1. /\ e.type \in ToolEvents /\ e.call \in r.pending
      /\ r.status = "awaiting_tool_results"
  BY DEF ToolAccepted, AwaitingCall
<1>2. Reduced(r, n, e) = Numbered(ToolReduced(r, e), n)
  <2>1. e.type \notin TurnEvents /\ e.type \notin ProviderEvents
    BY <1>1 DEF TurnEvents, ProviderEvents, ContentEvents, ToolEvents
  <2>2. NextRun(r, e) = ToolReduced(r, e)
    BY <1>1, <2>1 DEF NextRun
  <2>. QED
    BY <2>2 DEF Reduced
<1>3. CASE e.type = "tool.execution_started"
  <2> DEFINE X == r.executions \cup {Open(r, e)}
  <2>1. Reduced(r, n, e) = RunWith(r.status, r.turns, r.pending, X, r.results, n)
    BY <1>2, <1>3 DEF ToolReduced, RunWith, Runs, Numbered
  <2>2. /\ e.number \in Nat
        /\ \A x \in r.executions : x.call = e.call => x.status = "failed"
    BY <1>1, <1>3 DEF FromCoordinator, ToolAccepted
  <2>3. Open(r, e) = [call |-> e.call, number |-> e.number, status |-> "executing"]
    BY DEF Open
  <2>4. RunInv(RunWith(r.status, r.turns, r.pending, X, r.results, n))
    BY <1>1, <2>2, <2>3, ExecutionBegins
  <2>. QED
    BY <2>1, <2>4, RunWithNumber
<1>4. ASSUME NEW s \in {"completed", "failed"}, Open(r, e) \in r.executions,
             ToolReduced(r, e) = [r EXCEPT !.executions =
               (@ \ {Open(r, e)}) \cup {[Open(r, e) EXCEPT !.status = s]}]
      PROVE  RunInv(Reduced(r, n, e)) /\ Reduced(r, n, e).lastSequence = n
  <2> DEFINE new == [Open(r, e) EXCEPT !.status = s]
             X   == (r.executions \ {Open(r, e)}) \cup {new}
  <2>1. Reduced(r, n, e) = RunWith(r.status, r.turns, r.pending, X, r.results, n)
    BY <1>2, <1>4 DEF RunWith, Runs, Numbered
  <2>2. Open(r, e).status = "executing"
    BY DEF Open
  <2>3. RunInv(RunWith(r.status, r.turns, r.pending, X, r.results, n))
    BY <1>4, <2>2, ExecutionSettles
  <2>. QED
    BY <2>1, <2>3, RunWithNumber
<1>5. CASE e.type \in {"tool.execution_completed", "tool.execution_failed"}
  <2>1. Open(r, e) \in r.executions
    BY <1>5 DEF ToolAccepted
  <2>2. \E s \in {"completed", "failed"} :
          ToolReduced(r, e) = [r EXCEPT !.executions =
            (@ \ {Open(r, e)}) \cup {[Open(r, e) EXCEPT !.status = s]}]
    BY <1>5 DEF ToolReduced
  <2>. QED
    BY <1>4, <2>1, <2>2
<1>6. CASE e.type = "tool.result_supplied"
  <2> DEFINE left == CallsOf(Current(r), LastAttempt(r)) \ (r.results \cup {e.call})
             s    == IF left = {} THEN "tool_results_ready" ELSE r.status
             c2   == r.results \cup {e.call}
  <2>1. Reduced(r, n, e) = RunWith(s, r.turns, left, r.executions, c2, n)
    <3>1. ToolReduced(r, e) = RunWith(s, r.turns, left, r.executions, c2, r.lastSequence)
      BY <1>6 DEF ToolReduced, RunWith, Runs
    <3>. QED
      BY <1>2, <3>1, RunWithNumbered
  <2>2. \A x \in r.executions : x.call = e.call => x.status # "executing"
    BY <1>6 DEF ToolAccepted
  <2>3. RunInv(RunWith(s, r.turns, left, r.executions, c2, n))
    BY <1>1, <2>2, ResultArrives
  <2>. QED
    BY <2>1, <2>3, RunWithNumber
<1>. QED
  BY <1>1, <1>3, <1>5, <1>6 DEF ToolEvents

LEMMA RunEventInv ==
  ASSUME NEW r, RunInv(r), NEW n \in Int, NEW e, RunAccepted(r, e)
  PROVE  RunInv(Reduced(r, n, e)) /\ Reduced(r, n, e).lastSequence = n
<1>. r \in Runs
  BY RunFields
<1> DEFINE s == CASE e.type = "run.started"   -> "starting"
                  [] e.type = "run.completed" -> "completed"
                  [] e.type = "run.cancelled" -> "cancelled"
                  [] e.type = "run.failed"    -> "failed"
<1>1. /\ e.type \in {"run.started", "run.completed", "run.cancelled", "run.failed"}
      /\ e.type = "run.started" => r.status = "not_started"
      /\ e.type = "run.completed" =>
           r.status = "running" /\ LastAttempt(r).status = "completed" /\ LastAttempt(r).calls = {}
  BY DEF RunAccepted
<1>2. RunReduced(r, e) = RunWith(s, r.turns, {}, r.executions, r.results, r.lastSequence)
  <2>1. RunReduced(r, e) = [r EXCEPT !.pending = {}, !.status = s]
    BY DEF RunReduced
  <2>. HIDE DEF s
  <2>. QED
    BY <2>1 DEF RunWith, Runs
<1>3. /\ s \in {"starting", "completed", "cancelled", "failed"}
      /\ s = "starting" => e.type = "run.started"
      /\ s = "completed" => e.type = "run.completed"
  BY <1>1
<1>. HIDE DEF s
<1>4. Reduced(r, n, e) = RunWith(s, r.turns, {}, r.executions, r.results, n)
  <2>1. e.type \notin TurnEvents /\ e.type \notin ProviderEvents /\ e.type \notin ToolEvents
    BY <1>1 DEF TurnEvents, ProviderEvents, ContentEvents, ToolEvents
  <2>2. NextRun(r, e) = RunReduced(r, e)
    BY <2>1 DEF NextRun
  <2>. QED
    BY <1>2, <2>2, RunWithNumbered DEF Reduced
<1>5. RunInv(RunWith(s, r.turns, {}, r.executions, r.results, n))
  BY <1>1, <1>3, RunChanges
<1>. QED
  BY <1>4, <1>5, RunWithNumber

\* Whatever ordered events a run is fed, an accepted one leads from a sound
\* state to a sound state (reduceRunEvent).
THEOREM ReducerKeepsRunSound ==
  ASSUME NEW r, RunInv(r), NEW n \in Int, NEW e, FromCoordinator(r, e),
         Accepts(r, n, e)
  PROVE  RunInv(Reduced(r, n, e)) /\ Reduced(r, n, e).lastSequence = n
BY TurnInv, ProviderInv, ToolInv, RunEventInv DEF Accepts

LEMMA NewRunInv == RunInv(NewRun)
<1>1. NewRun \in Runs
  BY DEF NewRun, Runs, Statuses
<1>2. IsFiniteSet(NewRun.executions)
  BY FS_EmptySet DEF NewRun
<1>. QED
  BY <1>1, <1>2 DEF RunInv, NewRun, TurnsBegun, ResultsSettled, StatusFits,
                    AnsweredInOrder, ServedOnce

-----------------------------------------------------------------------------
(* The coordinator *)

CoordinatorInv ==
  /\ RunInv(run)
  /\ sequence \in Nat /\ sequence >= run.lastSequence + 1
  /\ active \in (Nat \X Nat) \cup {None}
  /\ StreamIsCurrent

-----------------------------------------------------------------------------
(* One event *)

\* An applied event is either reduced, in step, or dropped, out of step.
LEMMA EventApplied ==
  ASSUME CoordinatorInv, NEW e, FromCoordinator(run, e), Apply(e)
  PROVE  /\ RunInv(run')
         /\ sequence' \in Nat /\ sequence' >= run'.lastSequence + 1
         /\ InStep' => Accepted(e) /\ InStep
         /\ ~ InStep => run' = run
<1>1. RunInv(run) /\ sequence \in Nat /\ sequence >= run.lastSequence + 1
      /\ run.lastSequence \in Int
  BY RunFields DEF CoordinatorInv
<1>2. sequence' = sequence + 1
  BY DEF Apply
<1>3. CASE Accepted(e)
  <2>1. run' = Reduced(run, sequence, e) /\ Accepts(run, sequence, e)
    BY <1>3 DEF Apply, Accepted
  <2>2. RunInv(Reduced(run, sequence, e)) /\ Reduced(run, sequence, e).lastSequence = sequence
    BY <1>1, <2>1, ReducerKeepsRunSound
  <2>3. InStep
    BY <2>1 DEF Accepts, InStep
  <2>. QED
    BY <1>1, <1>2, <1>3, <2>1, <2>2, <2>3
<1>4. CASE ~ Accepted(e)
  <2>1. run' = run
    BY <1>4 DEF Apply
  <2>. QED
    BY <1>1, <1>2, <2>1 DEF InStep
<1>. QED
  BY <1>3, <1>4

LEMMA ReducedTurns ==
  ASSUME NEW r, NEW n, NEW e, Reduced(r, n, e) \in Runs
  PROVE  Reduced(r, n, e).turns = NextRun(r, e).turns
<1>. DEFINE next == NextRun(r, e)
<1>1. Reduced(r, n, e) = [next EXCEPT !.lastSequence = n]
  BY DEF Reduced, Numbered
<1>. HIDE DEF next
<1>2. "turns" \in DOMAIN next
  BY <1>1 DEF Runs
<1>3. Reduced(r, n, e).turns = next.turns
  BY <1>1, <1>2
<1>. QED
  BY <1>3 DEF next

\* Provider and tool events leave the current exchange current.
LEMMA CurrentStays ==
  ASSUME CoordinatorInv, NEW e, e.type \in ProviderEvents \cup ToolEvents,
         FromCoordinator(run, e), Apply(e), Accepted(e)
  PROVE  Current(run') = Current(run)
<1>. DEFINE T == run.turns
<1>1. RunInv(run) /\ run \in Runs /\ T \in Seq(Seq(Attempts))
  BY RunFields DEF CoordinatorInv
<1>2. /\ run' = Reduced(run, sequence, e)
      /\ e.type \notin TurnEvents
      /\ ProviderAccepted(run, e) \/ ToolAccepted(run, e)
  BY DEF Apply, Accepted, Accepts, TurnAccepted, RunAccepted, TurnEvents, ProviderEvents,
         ContentEvents, ToolEvents
<1>3. SUFFICES Len(NextRun(run, e).turns) = Len(T)
               /\ Len(NextRun(run, e).turns[Len(T)]) = Len(T[Len(T)])
  <2>1. Reduced(run, sequence, e).turns = NextRun(run, e).turns
    BY <1>2, EventApplied, RunFields, ReducedTurns
  <2>. QED
    BY <1>2, <1>3, <2>1 DEF Current
<1>4. CASE ToolAccepted(run, e)
  <2>1. e.type \in ToolEvents /\ e.type \notin ProviderEvents
    BY <1>4 DEF ToolAccepted, ToolEvents, ProviderEvents, ContentEvents
  <2>2. NextRun(run, e) = ToolReduced(run, e)
    BY <1>2, <2>1 DEF NextRun
  <2>3. ToolReduced(run, e).turns = T
    BY <1>1, <2>1 DEF ToolReduced, ToolEvents, Runs
  <2>. QED
    BY <2>2, <2>3
<1>5. CASE ProviderAccepted(run, e)
  <2>1. e.type \in ProviderEvents /\ e.type \notin ToolEvents
    BY <1>5 DEF ProviderAccepted, ProviderEvents, ContentEvents, ToolEvents
  <2>2. NextRun(run, e) = ProviderReduced(run, e)
    BY <1>2, <2>1 DEF NextRun
  <2>3. Known(run, e.at)
    BY <1>5 DEF ProviderAccepted, Streaming
  <2>4. \/ ProviderReduced(run, e).turns = T
        \/ \E new : ProviderReduced(run, e).turns = Replaced(T, e.at, new)
    BY <1>1, <2>1 DEF ProviderReduced, ProviderEvents, ContentEvents, Runs, Replaced
  <2>5. \A new : LET U == Replaced(T, e.at, new)
                 IN  Len(U) = Len(T) /\ Len(U[Len(T)]) = Len(T[Len(T)])
    BY <1>1, <2>3 DEF Replaced, Known
  <2>. QED
    BY <2>2, <2>4, <2>5
<1>. QED
  BY <1>2, <1>4, <1>5

-----------------------------------------------------------------------------
(* What an event leaves of the content recorded before it *)

\* SettledContentFixed, of one run and the next.
ContentFixed(r, r2) ==
  \A t \in DOMAIN r.turns : \A a \in DOMAIN r.turns[t] :
    /\ Known(r2, <<t, a>>)
    /\ r.turns[t][a].status # "streaming" =>
         /\ r2.turns[t][a].calls = r.turns[t][a].calls
         /\ r2.turns[t][a].status \in {r.turns[t][a].status, "failed"}

LEMMA SameTurnsFixed ==
  ASSUME NEW r, NEW r2, r2.turns = r.turns
  PROVE  ContentFixed(r, r2)
BY DEF ContentFixed, Known

\* Replacing a streaming attempt, or failing a settled one.
LEMMA ReplacedFixed ==
  ASSUME NEW r, RunInv(r), NEW at, Known(r, at), NEW new \in Attempts,
         \/ AttemptAt(r, at).status = "streaming"
         \/ new.status = "failed" /\ new.calls = AttemptAt(r, at).calls,
         NEW r2, r2.turns = Replaced(r.turns, at, new)
  PROVE  ContentFixed(r, r2)
<1>. DEFINE T == r.turns
            U == Replaced(T, at, new)
<1>1. T \in Seq(Seq(Attempts)) /\ at[1] \in DOMAIN T /\ at[2] \in DOMAIN T[at[1]]
  BY RunFields DEF Known
<1>. HIDE DEF T
<1>2. /\ U \in Seq(Seq(Attempts)) /\ Len(U) = Len(T) /\ DOMAIN U = DOMAIN T
      /\ \A s \in DOMAIN T : Len(U[s]) = Len(T[s]) /\ DOMAIN U[s] = DOMAIN T[s]
      /\ \A s \in DOMAIN T : \A b \in DOMAIN T[s] :
           U[s][b] = IF s = at[1] /\ b = at[2] THEN new ELSE T[s][b]
  BY <1>1, ReplaceAttempt, Zenon
<1>. USE DEF T
<1>. HIDE DEF U
<1>3. r2.turns = U
  BY DEF U
<1>. QED
  BY <1>2, <1>3 DEF ContentFixed, Known, AttemptAt

LEMMA TurnFixed ==
  ASSUME NEW r, RunInv(r), NEW e, FromCoordinator(r, e), TurnAccepted(r, e)
  PROVE  ContentFixed(r, TurnReduced(r, e))
<1>. DEFINE T == r.turns
<1>1. r \in Runs /\ T \in Seq(Seq(Attempts)) /\ T = r.turns
  BY RunFields
<1>2. CASE e.type = "turn.started"
  <2>. DEFINE U == Append(T, <<NewAttempt>>)
  <2>1. TurnReduced(r, e).turns = U
    BY <1>1, <1>2 DEF TurnReduced, Runs
  <2>2. DOMAIN T \subseteq DOMAIN U /\ \A t \in DOMAIN T : U[t] = T[t]
    BY <1>1, AppendTurn, NewAttemptType
  <2>. HIDE DEF U
  <2>. QED
    BY <2>1, <2>2 DEF ContentFixed, Known
<1>3. CASE e.type = "turn.attempt_started"
  <2>. DEFINE U == [T EXCEPT ![e.at[1]] = Append(@, NewAttempt)]
  <2>1. TurnReduced(r, e).turns = U
    BY <1>1, <1>3 DEF TurnReduced, Runs
  <2>2. e.at[1] \in DOMAIN T
    <3>1. r.turns # <<>> /\ e.at = <<Current(r)[1], Current(r)[2] + 1>>
      BY <1>3 DEF TurnAccepted, RunInv, TurnsBegun
    <3>. QED
      BY <3>1, LastIsKnown
  <2>3. DOMAIN U = DOMAIN T /\ \A s \in DOMAIN T :
          \A a \in DOMAIN T[s] : a \in DOMAIN U[s] /\ U[s][a] = T[s][a]
    BY <1>1, <2>2, AppendAttempt, NewAttemptType
  <2>. HIDE DEF U
  <2>. QED
    BY <2>1, <2>3 DEF ContentFixed, Known
<1>4. CASE e.type = "turn.attempt_failed"
  <2>. DEFINE new == [AttemptAt(r, e.at) EXCEPT !.status = "failed"]
  <2>1. Known(r, e.at)
    BY <1>4 DEF TurnAccepted
  <2>2. AttemptAt(r, e.at) \in Attempts
    BY <1>1, <2>1 DEF Known, AttemptAt
  <2>3. new \in Attempts /\ new.status = "failed" /\ new.calls = AttemptAt(r, e.at).calls
    BY <2>2 DEF Attempts
  <2>4. TurnReduced(r, e).turns = Replaced(T, e.at, new)
    BY <1>1, <1>4 DEF TurnReduced, Runs, Replaced, AttemptAt
  <2>. HIDE DEF new
  <2>. QED
    BY <2>1, <2>3, <2>4, ReplacedFixed
<1>. QED
  BY <1>2, <1>3, <1>4 DEF TurnAccepted

LEMMA ProviderFixed ==
  ASSUME NEW r, RunInv(r), NEW e, FromCoordinator(r, e), ProviderAccepted(r, e)
  PROVE  ContentFixed(r, ProviderReduced(r, e))
<1>. DEFINE T   == r.turns
            old == AttemptAt(r, e.at)
<1>1. r \in Runs /\ T \in Seq(Seq(Attempts)) /\ T = r.turns
  BY RunFields
<1>2. Known(r, e.at) /\ old \in Attempts
  <2>1. Known(r, e.at)
    BY DEF ProviderAccepted, Streaming
  <2>. QED
    BY <1>1, <2>1 DEF Known, AttemptAt
<1>3. CASE \/ e.type \in {"exchange.frame_received", "usage.reported"}
           \/ e.type = "assistant.delta"
  <2>1. ProviderReduced(r, e) = r
    BY <1>3 DEF ProviderReduced
  <2>. QED
    BY <2>1, SameTurnsFixed
<1>4. CASE e.type \in {"exchange.requested", "exchange.response_started",
                      "assistant.tool_call_delta", "assistant.completed"}
  <2>1. old.status = "streaming"
    BY <1>4 DEF ProviderAccepted, Streaming, ContentEvents
  <2>2. PICK new \in Attempts : ProviderReduced(r, e).turns = Replaced(T, e.at, new)
    <3>1. CASE e.type = "exchange.requested"
      <4>. DEFINE new == [old EXCEPT !.exchange = "requested"]
      <4>1. new \in Attempts
        BY <1>2 DEF Attempts
      <4>2. ProviderReduced(r, e).turns = Replaced(T, e.at, new)
        BY <1>1, <3>1 DEF ProviderReduced, Runs, Replaced
      <4>. QED
        BY <4>1, <4>2
    <3>2. CASE e.type = "exchange.response_started"
      <4>. DEFINE new == [old EXCEPT !.exchange = "responding"]
      <4>1. new \in Attempts
        BY <1>2 DEF Attempts
      <4>2. ProviderReduced(r, e).turns = Replaced(T, e.at, new)
        BY <1>1, <3>2 DEF ProviderReduced, Runs, Replaced
      <4>. QED
        BY <4>1, <4>2
    <3>3. CASE e.type = "assistant.tool_call_delta"
      <4>. DEFINE new == [old EXCEPT !.calls = @ \cup {e.index},
                            !.named = IF e.hasName THEN @ \cup {e.index} ELSE @]
      <4>1. new \in Attempts
        BY <1>2, <3>3 DEF Attempts, FromCoordinator
      <4>2. ProviderReduced(r, e).turns = Replaced(T, e.at, new)
        BY <1>1, <3>3 DEF ProviderReduced, Runs, Replaced
      <4>. QED
        BY <4>1, <4>2
    <3>4. CASE e.type = "assistant.completed"
      <4>. DEFINE new == [old EXCEPT !.status = "completed"]
      <4>1. new \in Attempts
        BY <1>2 DEF Attempts
      <4>2. ProviderReduced(r, e).turns = Replaced(T, e.at, new)
        BY <1>1, <3>4 DEF ProviderReduced, Runs, Replaced
      <4>. QED
        BY <4>1, <4>2
    <3>. QED
      BY <1>4, <3>1, <3>2, <3>3, <3>4
  <2>. QED
    BY <1>2, <2>1, <2>2, ReplacedFixed
<1>. QED
  BY <1>3, <1>4 DEF ProviderAccepted, ContentEvents

LEMMA ReducedFixed ==
  ASSUME NEW r, RunInv(r), NEW n \in Int, NEW e, FromCoordinator(r, e), Accepts(r, n, e)
  PROVE  ContentFixed(r, Reduced(r, n, e))
<1>. DEFINE next == NextRun(r, e)
<1>1. r \in Runs /\ Reduced(r, n, e).turns = next.turns
  BY RunFields, ReducerKeepsRunSound, ReducedTurns
<1>2. SUFFICES ContentFixed(r, next)
  BY <1>1 DEF ContentFixed, Known
<1>3. CASE TurnAccepted(r, e)
  <2>1. next = TurnReduced(r, e)
    BY <1>3 DEF TurnAccepted, NextRun, TurnEvents, ProviderEvents, ContentEvents, ToolEvents
  <2>. QED
    BY <1>3, <2>1, TurnFixed
<1>4. CASE ProviderAccepted(r, e)
  <2>1. e.type \in ProviderEvents /\ e.type \notin TurnEvents \cup ToolEvents
    BY <1>4 DEF ProviderAccepted, TurnEvents, ProviderEvents, ContentEvents, ToolEvents
  <2>2. next = ProviderReduced(r, e)
    BY <2>1 DEF NextRun
  <2>. QED
    BY <1>4, <2>2, ProviderFixed
<1>5. CASE ToolAccepted(r, e)
  <2>1. e.type \in ToolEvents /\ e.type \notin TurnEvents \cup ProviderEvents
    BY <1>5 DEF ToolAccepted, TurnEvents, ProviderEvents, ContentEvents, ToolEvents
  <2>2. next = ToolReduced(r, e)
    BY <2>1 DEF NextRun
  <2>3. ToolReduced(r, e).turns = r.turns
    BY <1>1, <2>1 DEF ToolReduced, ToolEvents, Runs
  <2>. QED
    BY <2>2, <2>3, SameTurnsFixed
<1>6. CASE RunAccepted(r, e)
  <2>1. next = RunReduced(r, e)
    BY <1>6 DEF RunAccepted, NextRun, TurnEvents, ProviderEvents, ContentEvents, ToolEvents
  <2>2. RunReduced(r, e).turns = r.turns
    BY <1>1 DEF RunReduced, Runs
  <2>. QED
    BY <2>1, <2>2, SameTurnsFixed
<1>. QED
  BY <1>3, <1>4, <1>5, <1>6 DEF Accepts

LEMMA AppliedFixed ==
  ASSUME CoordinatorInv, NEW e, FromCoordinator(run, e), Apply(e)
  PROVE  ContentFixed(run, run')
<1>1. CASE Accepted(e)
  <2>1. run' = Reduced(run, sequence, e) /\ Accepts(run, sequence, e)
    BY <1>1 DEF Apply, Accepted
  <2>2. RunInv(run) /\ sequence \in Int
    BY DEF CoordinatorInv
  <2>. QED
    BY <2>1, <2>2, ReducedFixed
<1>2. CASE ~ Accepted(e)
  BY <1>2, SameTurnsFixed DEF Apply
<1>. QED
  BY <1>1, <1>2

\* What every method's step is proved to do.
SoundStep == CoordinatorInv' /\ ContentFixed(run, run')

-----------------------------------------------------------------------------
(* The events a coordinator makes *)

LEMMA RunEvents ==
  ASSUME NEW r, NEW t \in {"run.started", "run.completed", "run.cancelled", "run.failed"}
  PROVE  FromCoordinator(r, [type |-> t])
BY DEF FromCoordinator, TurnEvents, ProviderEvents, ContentEvents, ToolEvents

LEMMA AttemptEvents ==
  ASSUME NEW r, NEW t, NEW a, <<t, a>> \in Nat \X Nat,
         NEW type \in {"turn.attempt_started", "turn.attempt_failed"}
  PROVE  FromCoordinator(r, [type |-> type, at |-> <<t, a>>])
BY DEF FromCoordinator, TurnEvents, ProviderEvents, ContentEvents, ToolEvents

LEMMA StreamedEvents ==
  ASSUME active \in (Nat \X Nat) \cup {None}, NEW e \in StreamEvents
  PROVE  e.type \in ProviderEvents /\ FromCoordinator(run, e)
<1>1. active # None /\ active \in Nat \X Nat /\ active = <<active[1], active[2]>>
  BY DEF StreamEvents
<1>2. /\ e.type \in ProviderEvents /\ e.at = active
      /\ e.type = "assistant.tool_call_delta" => e.index \in CallIndices
  BY <1>1 DEF StreamEvents, ProviderEvents, ContentEvents
<1>. QED
  BY <1>1, <1>2 DEF FromCoordinator, TurnEvents, ProviderEvents, ContentEvents, ToolEvents

\* Settling the stream: any event of the run's own, and no active exchange.
LEMMA StreamSettles ==
  ASSUME CoordinatorInv, NEW e, FromCoordinator(run, e), Apply(e), active' = None
  PROVE  SoundStep
BY EventApplied, AppliedFixed DEF SoundStep, CoordinatorInv, StreamIsCurrent

\* Provider and tool events, during which the stream's exchange stays active.
LEMMA StreamContinuing ==
  ASSUME CoordinatorInv, NEW e, e.type \in ProviderEvents \cup ToolEvents,
         FromCoordinator(run, e), Apply(e), active' = active
  PROVE  SoundStep
<1>1. StreamIsCurrent'
  <2>1. SUFFICES ASSUME InStep', active # None  PROVE active = Current(run')
    BY DEF StreamIsCurrent
  <2>2. Accepted(e) /\ active = Current(run)
    BY <2>1, EventApplied DEF CoordinatorInv, StreamIsCurrent
  <2>. QED
    BY <2>2, CurrentStays
<1>. QED
  BY <1>1, EventApplied, AppliedFixed DEF SoundStep, CoordinatorInv

\* Beginning a turn, on the run as it is or as run.started has just left it.
LEMMA TurnBegun ==
  ASSUME NEW from, RunInv(from), NEW number \in Nat, number >= from.lastSequence + 1,
         from.status # "attempt_failed", from.turns = run.turns,
         BeginTurn(from, number)
  PROVE  SoundStep
<1>. DEFINE at == <<Len(from.turns) + 1, 1>>
            e  == [type |-> "turn.started", at |-> at]
<1>1. from \in Runs /\ from.turns \in Seq(Seq(Attempts)) /\ from.lastSequence \in Int
      /\ Len(from.turns) \in Nat /\ at \in Nat \X Nat
  BY RunFields
<1>2. FromCoordinator(from, e)
  BY <1>1 DEF FromCoordinator, TurnEvents, ProviderEvents, ContentEvents, ToolEvents
<1>3. active' = at /\ sequence' = number + 1
  BY DEF BeginTurn
<1>4. CASE Accepts(from, number, e)
  <2>1. run' = Reduced(from, number, e)
    BY <1>4 DEF BeginTurn
  <2>2. RunInv(run') /\ run'.lastSequence = number
    BY <1>2, <1>4, <2>1, ReducerKeepsRunSound
  <2>3. Current(run') = at
    <3>1. NextRun(from, e) = TurnReduced(from, e)
      BY DEF NextRun, TurnEvents, ProviderEvents, ContentEvents, ToolEvents
    <3>2. TurnReduced(from, e).turns = Append(from.turns, <<NewAttempt>>)
      BY <1>1 DEF TurnReduced, Runs
    <3>3. run'.turns = Append(from.turns, <<NewAttempt>>)
      BY <2>1, <2>2, <3>1, <3>2, RunFields, ReducedTurns
    <3>. QED
      BY <1>1, <3>3, AppendTurn, NewAttemptType DEF Current
  <2>4. ContentFixed(from, run')
    BY <1>2, <1>4, <2>1, ReducedFixed
  <2>. QED
    BY <1>1, <1>3, <2>2, <2>3, <2>4
       DEF SoundStep, ContentFixed, CoordinatorInv, StreamIsCurrent
<1>5. CASE ~ Accepts(from, number, e)
  <2>1. run' = from
    BY <1>5 DEF BeginTurn
  <2>2. ~ InStep'
    BY <1>1, <1>3, <2>1 DEF InStep
  <2>. QED
    BY <1>1, <1>3, <2>1, <2>2, SameTurnsFixed
       DEF SoundStep, CoordinatorInv, StreamIsCurrent
<1>. QED
  BY <1>4, <1>5

\* A failed attempt followed by the next.
LEMMA AttemptRetried ==
  ASSUME CoordinatorInv, Retry
  PROVE  SoundStep
<1>. DEFINE t  == Current(run)[1]
            a  == Current(run)[2] + 1
            e  == [type |-> "turn.attempt_started", at |-> <<t, a>>]
<1>1. /\ RunInv(run) /\ run \in Runs /\ run.status = "attempt_failed"
      /\ active' = <<t, a>> /\ Apply(e)
  BY RunFields DEF CoordinatorInv, Retry
<1>2. /\ run.turns # <<>> /\ run.turns \in Seq(Seq(Attempts)) /\ t \in DOMAIN run.turns
      /\ t = Len(run.turns) /\ a = Len(run.turns[t]) + 1 /\ <<t, a>> \in Nat \X Nat
  <2>1. run.turns # <<>>
    BY <1>1 DEF RunInv, TurnsBegun
  <2>. QED
    BY <1>1, <2>1, LastIsKnown
<1>3. FromCoordinator(run, e)
  BY <1>2, AttemptEvents
<1>4. SUFFICES ASSUME InStep'  PROVE Current(run') = <<t, a>>
  BY <1>1, <1>2, <1>3, EventApplied, AppliedFixed
     DEF SoundStep, CoordinatorInv, StreamIsCurrent
<1>5. Accepted(e) /\ run' = Reduced(run, sequence, e) /\ RunInv(run')
  BY <1>1, <1>3, <1>4, EventApplied DEF Apply
<1>6. NextRun(run, e) = TurnReduced(run, e)
  BY DEF NextRun, TurnEvents, ProviderEvents, ContentEvents, ToolEvents
<1>7. TurnReduced(run, e).turns = [run.turns EXCEPT ![t] = Append(@, NewAttempt)]
  BY <1>1 DEF TurnReduced, Runs
<1>8. run'.turns = [run.turns EXCEPT ![t] = Append(@, NewAttempt)]
  BY <1>5, <1>6, <1>7, RunFields, ReducedTurns
<1>9. Len(run'.turns) = Len(run.turns) /\ Len(run'.turns[t]) = Len(run.turns[t]) + 1
  BY <1>2, <1>8, AppendAttempt, NewAttemptType
<1>. QED
  BY <1>2, <1>9 DEF Current

\* Starting: two events, the second on what the first has just left.
LEMMA Started ==
  ASSUME CoordinatorInv, Start
  PROVE  SoundStep
<1>. DEFINE e    == [type |-> "run.started"]
            from == Reduced(run, sequence, e)
<1>1. RunInv(run) /\ run \in Runs /\ sequence \in Nat /\ FromCoordinator(run, e)
  BY RunFields, RunEvents DEF CoordinatorInv
<1>2. CASE Accepted(e)
  <2>1. RunInv(from) /\ from.lastSequence = sequence
    BY <1>1, <1>2, ReducerKeepsRunSound DEF Accepted
  <2>2. from.status = "starting" /\ from.turns = run.turns
    <3>1. NextRun(run, e) = RunReduced(run, e)
      BY DEF NextRun, TurnEvents, ProviderEvents, ContentEvents, ToolEvents
    <3>2. RunReduced(run, e) = [run EXCEPT !.pending = {}, !.status = "starting"]
      BY DEF RunReduced
    <3>. QED
      BY <1>1, <3>1, <3>2 DEF Reduced, Numbered, Runs
  <2>3. BeginTurn(from, sequence + 1)
    BY <1>2 DEF Start
  <2>. QED
    BY <1>1, <2>1, <2>2, <2>3, TurnBegun
<1>3. CASE ~ Accepted(e)
  <2>1. Apply(e) /\ active' = active
    BY <1>3 DEF Start
  <2>2. ~ InStep' /\ active \in (Nat \X Nat) \cup {None}
    BY <1>1, <1>3, <2>1, EventApplied DEF CoordinatorInv
  <2>. QED
    BY <1>1, <2>1, <2>2, EventApplied, AppliedFixed
       DEF SoundStep, CoordinatorInv, StreamIsCurrent
<1>. QED
  BY <1>2, <1>3

LEMMA ExecutionNumber ==
  ASSUME RunInv(run), NEW call
  PROVE  NextExecution(call) \in Nat
<1>1. ExecutionsOf(call) \subseteq run.executions /\ IsFiniteSet(run.executions)
  BY DEF RunInv, ExecutionsOf
<1>2. Cardinality(ExecutionsOf(call)) \in Nat
  BY <1>1, FS_Subset, FS_CardinalityType
<1>. QED
  BY <1>2 DEF NextExecution

LEMMA ToolStep ==
  ASSUME CoordinatorInv, Tools
  PROVE  SoundStep
<1>1. PICK call \in KnownCalls :
        \/ StartToolExecution(call)
        \/ \E number \in 1..MaxExecutions, succeeded \in BOOLEAN :
             SettleToolExecution(call, number, succeeded)
        \/ SupplyToolResult(call)
  BY DEF Tools
<1>2. ASSUME run.status = "awaiting_tool_results"
      PROVE  /\ Current(run) \in Nat \X Nat
             /\ Current(run) = <<Current(run)[1], Current(run)[2]>>
  <2>1. run.turns # <<>> /\ RunInv(run)
    BY <1>2 DEF CoordinatorInv, RunInv, TurnsBegun
  <2>. QED
    BY <2>1, LastIsKnown
<1>3. CASE StartToolExecution(call)
  <2>. DEFINE e == [type |-> "tool.execution_started", at |-> Current(run),
                    call |-> call, number |-> NextExecution(call)]
  <2>1. Apply(e) /\ active' = active
    BY <1>3 DEF StartToolExecution
  <2>2. FromCoordinator(run, e) /\ e.type \in ToolEvents
    BY <1>2, <1>3, ExecutionNumber
       DEF StartToolExecution, CoordinatorInv, FromCoordinator, TurnEvents,
           ProviderEvents, ContentEvents, ToolEvents
  <2>. QED
    BY <2>1, <2>2, StreamContinuing
<1>4. CASE \E number \in 1..MaxExecutions, succeeded \in BOOLEAN :
             SettleToolExecution(call, number, succeeded)
  <2>1. PICK number \in 1..MaxExecutions, succeeded \in BOOLEAN :
          SettleToolExecution(call, number, succeeded)
    BY <1>4
  <2>. DEFINE e == [type |-> IF succeeded THEN "tool.execution_completed"
                                          ELSE "tool.execution_failed",
                    at |-> Current(run), call |-> call, number |-> number]
  <2>2. Apply(e) /\ active' = active
    BY <2>1 DEF SettleToolExecution
  <2>3. FromCoordinator(run, e) /\ e.type \in ToolEvents
    BY <1>2, <2>1, BoundsAssumption
       DEF SettleToolExecution, FromCoordinator, TurnEvents, ProviderEvents,
           ContentEvents, ToolEvents
  <2>. QED
    BY <2>2, <2>3, StreamContinuing
<1>5. CASE SupplyToolResult(call)
  <2>. DEFINE e == [type |-> "tool.result_supplied", at |-> Current(run), call |-> call]
  <2>1. Apply(e) /\ active' = active
    BY <1>5 DEF SupplyToolResult
  <2>2. FromCoordinator(run, e) /\ e.type \in ToolEvents
    BY <1>2, <1>5
       DEF SupplyToolResult, FromCoordinator, TurnEvents, ProviderEvents,
           ContentEvents, ToolEvents
  <2>. QED
    BY <2>1, <2>2, StreamContinuing
<1>. QED
  BY <1>1, <1>3, <1>4, <1>5

LEMMA ProviderStep ==
  ASSUME CoordinatorInv, Provider
  PROVE  SoundStep
<1>1. CASE \E e \in StreamEvents : AcceptEvent(e)
  <2>1. PICK e \in StreamEvents : Apply(e) /\ active' = active
    BY <1>1 DEF AcceptEvent
  <2>. QED
    BY <2>1, StreamedEvents, StreamContinuing DEF CoordinatorInv
<1>2. CASE \E retryable \in BOOLEAN : AcceptFailed(retryable)
  <2>1. CASE AcceptFailed(TRUE)
    <3>. DEFINE e == [type |-> "turn.attempt_failed", at |-> <<active[1], active[2]>>]
    <3>1. active \in Nat \X Nat /\ active = <<active[1], active[2]>> /\ active' = None
      BY <2>1 DEF AcceptFailed, CoordinatorInv
    <3>2. Apply(e)
      <4>1. Apply([type |-> "turn.attempt_failed", at |-> active])
        BY <2>1 DEF AcceptFailed
      <4>2. e = [type |-> "turn.attempt_failed", at |-> active]
        BY <3>1
      <4>. QED
        BY <4>1, <4>2
    <3>3. FromCoordinator(run, e)
      BY <3>1, AttemptEvents
    <3>. QED
      BY <3>1, <3>2, <3>3, StreamSettles
  <2>2. CASE AcceptFailed(FALSE)
    BY <2>2, RunEvents, StreamSettles DEF AcceptFailed
  <2>. QED
    BY <1>2, <2>1, <2>2
<1>3. CASE AcceptCancelled
  BY <1>3, RunEvents, StreamSettles DEF AcceptCancelled
<1>4. CASE FinishTurnStream
  <2>1. CASE UNCHANGED <<run, sequence>>
    BY <1>4, <2>1, SameTurnsFixed
       DEF FinishTurnStream, SoundStep, CoordinatorInv, StreamIsCurrent
  <2>2. CASE \E t \in {"run.completed", "run.failed"} : Apply([type |-> t])
    BY <1>4, <2>2, RunEvents, StreamSettles DEF FinishTurnStream
  <2>. QED
    BY <1>4, <2>1, <2>2 DEF FinishTurnStream
<1>. QED
  BY <1>1, <1>2, <1>3, <1>4 DEF Provider

LEMMA OwnerStep ==
  ASSUME CoordinatorInv, Owner
  PROVE  SoundStep
<1>1. CASE Start
  BY <1>1, Started
<1>2. CASE Continue
  <2>1. BeginTurn(run, sequence) /\ run.status # "attempt_failed"
    BY <1>2 DEF Continue
  <2>. QED
    BY <2>1, TurnBegun DEF CoordinatorInv
<1>3. CASE Retry
  BY <1>3, AttemptRetried
<1>4. CASE Fail
  BY <1>4, RunEvents, StreamSettles DEF Fail
<1>5. CASE Cancel
  BY <1>5, RunEvents, StreamSettles DEF Cancel
<1>. QED
  BY <1>1, <1>2, <1>3, <1>4, <1>5 DEF Owner

-----------------------------------------------------------------------------
(* What each method leaves as it was *)

LEMMA ReducedFields ==
  ASSUME NEW r, NEW n, NEW e, Reduced(r, n, e) \in Runs
  PROVE  /\ Reduced(r, n, e).status = NextRun(r, e).status
         /\ Reduced(r, n, e).turns = NextRun(r, e).turns
         /\ Reduced(r, n, e).pending = NextRun(r, e).pending
         /\ Reduced(r, n, e).executions = NextRun(r, e).executions
         /\ Reduced(r, n, e).results = NextRun(r, e).results
<1>. DEFINE next == NextRun(r, e)
<1>1. Reduced(r, n, e) = [next EXCEPT !.lastSequence = n]
  BY DEF Reduced, Numbered
<1>. HIDE DEF next
<1>2. {"status", "turns", "pending", "executions", "results"} \subseteq DOMAIN next
  BY <1>1 DEF Runs
<1>3. \A f \in {"status", "turns", "pending", "executions", "results"} :
        Reduced(r, n, e)[f] = next[f]
  BY <1>1, <1>2
<1>. QED
  BY <1>3 DEF next

\* An event that was applied was either reduced, or dropped for good.
LEMMA Outcome ==
  ASSUME CoordinatorInv, NEW e, FromCoordinator(run, e), Apply(e)
  PROVE  \/ /\ ~ InStep'
            /\ run' = run
         \/ /\ InStep' /\ InStep /\ Accepts(run, sequence, e) /\ ~ IsTerminal(run)
            /\ run'.status = NextRun(run, e).status
            /\ run'.turns = NextRun(run, e).turns
            /\ run'.pending = NextRun(run, e).pending
            /\ run'.executions = NextRun(run, e).executions
            /\ run'.results = NextRun(run, e).results
<1>1. CASE Accepted(e)
  <2>1. /\ run' = Reduced(run, sequence, e) /\ RunInv(run')
        /\ Accepts(run, sequence, e) /\ InStep /\ ~ IsTerminal(run)
    BY <1>1, EventApplied DEF Apply, Accepted, Accepts, InStep
  <2>2. Reduced(run, sequence, e) \in Runs
    BY <2>1, RunFields
  <2>3. sequence' = sequence + 1 /\ run'.lastSequence = sequence
    BY <2>1, ReducerKeepsRunSound DEF Apply, CoordinatorInv
  <2>. QED
    BY <2>1, <2>2, <2>3, ReducedFields DEF InStep
<1>2. CASE ~ Accepted(e)
  <2>1. run' = run
    BY <1>2 DEF Apply
  <2>2. ~ InStep'
    BY <1>2, EventApplied
  <2>. QED
    BY <2>1, <2>2
<1>. QED
  BY <1>1, <1>2

\* What every step but a new turn, a retry and the tool calls' leaves alone.
SamePlace ==
  /\ run.turns # <<>> => run'.turns # <<>> /\ Current(run') = Current(run)
  /\ Len(run'.turns) = Len(run.turns)
  /\ run'.executions = run.executions

LEMMA RunEnds ==
  ASSUME CoordinatorInv, NEW t \in {"run.completed", "run.cancelled", "run.failed"},
         Apply([type |-> t]), active' = None
  PROVE  /\ SoundStep /\ SamePlace
         /\ InStep' => InStep /\ ~ IsTerminal(run) /\ IsTerminal(run')
         /\ ~ InStep' => run' = run
         /\ run'.status = "cancelled" => run.status = "cancelled" \/ t = "run.cancelled"
<1>. DEFINE e == [type |-> t]
<1>1. FromCoordinator(run, e) /\ run \in Runs
  BY RunEvents, RunFields DEF CoordinatorInv
<1>2. SoundStep
  BY <1>1, StreamSettles
<1>3. NextRun(run, e) = RunReduced(run, e)
  BY DEF NextRun, TurnEvents, ProviderEvents, ContentEvents, ToolEvents
<1>4. /\ RunReduced(run, e).turns = run.turns
      /\ RunReduced(run, e).executions = run.executions
      /\ RunReduced(run, e).status = CASE t = "run.completed" -> "completed"
                                       [] t = "run.cancelled" -> "cancelled"
                                       [] t = "run.failed"    -> "failed"
  BY <1>1 DEF RunReduced, Runs
<1>5. \/ ~ InStep' /\ run' = run
      \/ /\ InStep' /\ InStep /\ ~ IsTerminal(run)
         /\ run'.turns = run.turns /\ run'.executions = run.executions
         /\ run'.status = RunReduced(run, e).status
  BY <1>1, <1>3, <1>4, Outcome
<1>. QED
  <2>1. SamePlace
    BY <1>4, <1>5 DEF SamePlace, Current
  <2>2. /\ InStep' => InStep /\ ~ IsTerminal(run)
        /\ ~ InStep' => run' = run
    BY <1>5
  <2>3. CASE ~ InStep' /\ run' = run
    BY <1>2, <2>1, <2>2, <2>3
  <2>4. CASE run'.status = RunReduced(run, e).status
    <3>1. \/ run'.status = "completed"
          \/ run'.status = "cancelled" /\ t = "run.cancelled"
          \/ run'.status = "failed"
      BY <1>4, <2>4
    <3>. QED
      BY <1>2, <2>1, <2>2, <3>1 DEF IsTerminal, TerminalStatuses
  <2>. QED
    BY <1>5, <2>3, <2>4

\* A provider's event may complete an answer, and with it begin a wait for its
\* calls' results.
LEMMA EventStays ==
  ASSUME CoordinatorInv, NEW e \in StreamEvents, AcceptEvent(e)
  PROVE  /\ SoundStep /\ SamePlace /\ active' = active
         /\ InStep' => InStep
         /\ run'.status \in {run.status, "awaiting_tool_results"}
         /\ IsTerminal(run) => run' = run
<1>1. /\ e.type \in ProviderEvents /\ FromCoordinator(run, e) /\ Apply(e) /\ active' = active
      /\ run \in Runs /\ active # None
  BY StreamedEvents, RunFields DEF CoordinatorInv, AcceptEvent
<1>2. SoundStep
  BY <1>1, StreamContinuing
<1>3. NextRun(run, e) = ProviderReduced(run, e)
  BY <1>1 DEF NextRun, TurnEvents, ProviderEvents, ContentEvents, ToolEvents
<1>4. /\ ProviderReduced(run, e).executions = run.executions
      /\ ProviderReduced(run, e).status \in {run.status, "awaiting_tool_results"}
  BY <1>1 DEF ProviderReduced, Runs
<1>5. CASE ~ InStep' /\ run' = run
  BY <1>1, <1>2, <1>5 DEF SamePlace
<1>6. CASE /\ InStep' /\ InStep /\ ~ IsTerminal(run) /\ Accepts(run, sequence, e)
           /\ run'.status = ProviderReduced(run, e).status
           /\ run'.executions = ProviderReduced(run, e).executions
  <2>1. Current(run') = Current(run)
    BY <1>1, <1>6, CurrentStays DEF Accepted
  <2>2. Len(run'.turns) = Len(run.turns)
    BY <2>1 DEF Current
  <2>3. run.turns # <<>> => run'.turns # <<>>
    BY <1>1, <1>2, <2>2, RunFields DEF SoundStep, CoordinatorInv
  <2>. QED
    BY <1>1, <1>2, <1>4, <1>6, <2>1, <2>2, <2>3 DEF SamePlace
<1>. QED
  BY <1>1, <1>3, <1>5, <1>6, Outcome

\* A failure that may be tried again pauses the run, any other ends it.
LEMMA FailureStays ==
  ASSUME CoordinatorInv, NEW retryable \in BOOLEAN, AcceptFailed(retryable)
  PROVE  /\ SoundStep /\ SamePlace /\ active' = None
         /\ InStep' => InStep
         /\ InStep' /\ retryable => run'.status = "attempt_failed"
         /\ run'.status = "cancelled" => run.status = "cancelled"
         /\ retryable /\ IsTerminal(run') => IsTerminal(run)
<1>1. CASE ~ retryable
  <2>1. Apply([type |-> "run.failed"]) /\ active' = None
    BY <1>1 DEF AcceptFailed
  <2>. QED
    BY <1>1, <2>1, RunEnds
<1>2. CASE retryable
  <2>. DEFINE e == [type |-> "turn.attempt_failed", at |-> <<active[1], active[2]>>]
  <2>1. active \in Nat \X Nat /\ active = <<active[1], active[2]>> /\ active' = None
    BY DEF AcceptFailed, CoordinatorInv
  <2>2. Apply(e)
    <3>1. Apply([type |-> "turn.attempt_failed", at |-> active])
      BY <1>2 DEF AcceptFailed
    <3>2. e = [type |-> "turn.attempt_failed", at |-> active]
      BY <2>1
    <3>. QED
      BY <3>1, <3>2
  <2>3. FromCoordinator(run, e) /\ run \in Runs /\ run.turns \in Seq(Seq(Attempts))
    BY <2>1, AttemptEvents, RunFields DEF CoordinatorInv
  <2>4. SoundStep
    BY <2>1, <2>2, <2>3, StreamSettles
  <2>5. NextRun(run, e) = TurnReduced(run, e)
    BY DEF NextRun, TurnEvents, ProviderEvents, ContentEvents, ToolEvents
  <2>. DEFINE new == [AttemptAt(run, e.at) EXCEPT !.status = "failed"]
  <2>6. /\ TurnReduced(run, e).turns = Replaced(run.turns, e.at, new)
        /\ TurnReduced(run, e).status = "attempt_failed"
        /\ TurnReduced(run, e).executions = run.executions
    BY <2>3 DEF TurnReduced, Runs, Replaced, AttemptAt
  <2>7. CASE ~ InStep' /\ run' = run
    BY <2>1, <2>4, <2>7 DEF SamePlace
  <2>8. CASE /\ InStep' /\ InStep /\ Accepts(run, sequence, e)
             /\ run'.status = "attempt_failed" /\ run'.executions = run.executions
             /\ run'.turns = Replaced(run.turns, e.at, new)
    <3>1. TurnAccepted(run, e)
      BY <2>8 DEF Accepts, TurnAccepted, ProviderAccepted, ToolAccepted, RunAccepted,
                  ContentEvents, ToolEvents
    <3>2. Known(run, e.at)
      BY <3>1 DEF TurnAccepted
    <3>3. \A n : LET U == Replaced(run.turns, e.at, n)
                IN  /\ Len(U) = Len(run.turns) /\ DOMAIN U = DOMAIN run.turns
                    /\ \A s \in DOMAIN run.turns : Len(U[s]) = Len(run.turns[s])
      BY <2>3, <3>2 DEF Replaced, Known
    <3>. HIDE DEF new
    <3>4. /\ Len(run'.turns) = Len(run.turns) /\ DOMAIN run'.turns = DOMAIN run.turns
          /\ \A s \in DOMAIN run.turns : Len(run'.turns[s]) = Len(run.turns[s])
      BY <2>8, <3>3
    <3>5. run.turns # <<>> => run'.turns # <<>> /\ Len(run.turns) \in DOMAIN run.turns
      BY <2>3, <3>2, <3>4 DEF Known
    <3>6. SamePlace
      BY <2>8, <3>4, <3>5 DEF SamePlace, Current
    <3>. QED
      BY <2>1, <2>4, <2>8, <3>6 DEF IsTerminal, TerminalStatuses
  <2>. QED
    BY <2>2, <2>3, <2>5, <2>6, <2>7, <2>8, Outcome
<1>. QED
  BY <1>1, <1>2

\* The end of a stream settles a running turn and leaves a paused one.
LEMMA FinishStays ==
  ASSUME CoordinatorInv, FinishTurnStream
  PROVE  /\ SoundStep /\ SamePlace /\ active' = None
         /\ InStep' => InStep
         /\ run'.status = "cancelled" => run.status = "cancelled"
         /\ run.status = "attempt_failed" => run' = run
<1>1. CASE UNCHANGED <<run, sequence>>
  BY <1>1, SameTurnsFixed
     DEF FinishTurnStream, SoundStep, CoordinatorInv, StreamIsCurrent, SamePlace, InStep, Current
<1>2. CASE /\ \E t \in {"run.completed", "run.failed"} : Apply([type |-> t])
           /\ run.status # "attempt_failed"
  BY <1>2, RunEnds DEF FinishTurnStream
<1>. QED
  BY <1>1, <1>2 DEF FinishTurnStream

\* The next turn, unless the reducer refuses it.
LEMMA ContinueBegins ==
  ASSUME CoordinatorInv, Continue, run.turns # <<>>
  PROVE  /\ SoundStep /\ run'.executions = run.executions
         /\ InStep' => /\ run'.turns # <<>> /\ Len(run'.turns) = Len(run.turns) + 1
                       /\ Current(run') = <<Len(run.turns) + 1, 1>>
                       /\ run'.status = "running"
         /\ ~ InStep' => run' = run
<1>. DEFINE at == <<Len(run.turns) + 1, 1>>
            e  == [type |-> "turn.started", at |-> at]
<1>1. /\ run \in Runs /\ run.turns \in Seq(Seq(Attempts)) /\ Len(run.turns) \in Nat
      /\ at \in Nat \X Nat /\ RunInv(run) /\ run.status # "attempt_failed"
      /\ run.lastSequence \in Int /\ sequence \in Nat /\ sequence >= run.lastSequence + 1
  BY RunFields DEF CoordinatorInv, Continue
<1>2. FromCoordinator(run, e)
  BY <1>1 DEF FromCoordinator, TurnEvents, ProviderEvents, ContentEvents, ToolEvents
<1>3. Apply(e)
  BY DEF Continue, BeginTurn, Apply, Accepted
<1>4. SoundStep
  BY <1>1, TurnBegun DEF Continue
<1>5. NextRun(run, e) = TurnReduced(run, e)
  BY DEF NextRun, TurnEvents, ProviderEvents, ContentEvents, ToolEvents
<1>6. /\ TurnReduced(run, e).turns = Append(run.turns, <<NewAttempt>>)
      /\ TurnReduced(run, e).status = "running"
      /\ TurnReduced(run, e).executions = run.executions
  BY <1>1 DEF TurnReduced, Runs
<1>7. CASE ~ InStep' /\ run' = run
  BY <1>4, <1>7
<1>8. CASE /\ InStep' /\ run'.status = "running" /\ run'.executions = run.executions
           /\ run'.turns = Append(run.turns, <<NewAttempt>>)
  <2>1. /\ Len(run'.turns) = Len(run.turns) + 1
        /\ Len(run'.turns[Len(run.turns) + 1]) = 1
    BY <1>1, <1>8, AppendTurn, NewAttemptType
  <2>2. run'.turns # <<>>
    BY <1>1, <1>8
  <2>. QED
    BY <1>4, <1>8, <2>1, <2>2 DEF Current
<1>. QED
  BY <1>2, <1>3, <1>5, <1>6, <1>7, <1>8, Outcome

\* The next attempt of a turn, unless the reducer refuses it.
LEMMA RetryBegins ==
  ASSUME CoordinatorInv, Retry
  PROVE  /\ SoundStep /\ run'.executions = run.executions
         /\ InStep' => /\ run'.turns # <<>> /\ Len(run'.turns) = Len(run.turns)
                       /\ Current(run') = <<Current(run)[1], Current(run)[2] + 1>>
                       /\ run'.status = "running"
         /\ ~ InStep' => run' = run
<1>. DEFINE t == Current(run)[1]
            e == [type |-> "turn.attempt_started", at |-> <<t, Current(run)[2] + 1>>]
            T == run.turns
<1>1. /\ RunInv(run) /\ run \in Runs /\ run.status = "attempt_failed" /\ Apply(e)
  BY RunFields DEF CoordinatorInv, Retry
<1>2. SoundStep
  BY AttemptRetried
<1>3. /\ T # <<>> /\ T \in Seq(Seq(Attempts)) /\ t \in DOMAIN T /\ t = Len(T)
      /\ Current(run)[2] = Len(T[t]) /\ <<t, Current(run)[2] + 1>> \in Nat \X Nat
  <2>1. T # <<>>
    BY <1>1 DEF RunInv, TurnsBegun
  <2>. QED
    BY <1>1, <2>1, LastIsKnown
<1>4. FromCoordinator(run, e)
  BY <1>3, AttemptEvents
<1>5. NextRun(run, e) = TurnReduced(run, e)
  BY DEF NextRun, TurnEvents, ProviderEvents, ContentEvents, ToolEvents
<1>6. /\ TurnReduced(run, e).turns = [T EXCEPT ![t] = Append(@, NewAttempt)]
      /\ TurnReduced(run, e).status = "running"
      /\ TurnReduced(run, e).executions = run.executions
  BY <1>1 DEF TurnReduced, Runs
<1>7. CASE ~ InStep' /\ run' = run
  BY <1>2, <1>7
<1>8. CASE /\ InStep' /\ run'.status = "running" /\ run'.executions = run.executions
           /\ run'.turns = [T EXCEPT ![t] = Append(@, NewAttempt)]
  <2>1. Len(run'.turns) = Len(T) /\ Len(run'.turns[t]) = Len(T[t]) + 1
    BY <1>3, <1>8, AppendAttempt, NewAttemptType
  <2>2. run'.turns # <<>>
    BY <1>3, <2>1
  <2>. QED
    BY <1>2, <1>3, <1>8, <2>1, <2>2 DEF Current
<1>. QED
  BY <1>1, <1>4, <1>5, <1>6, <1>7, <1>8, Outcome

-----------------------------------------------------------------------------
(* What each tool method does *)

LEMMA WaitingIsKnown ==
  ASSUME CoordinatorInv, run.status = "awaiting_tool_results"
  PROVE  /\ run \in Runs /\ run.turns # <<>>
         /\ Current(run) \in Nat \X Nat
         /\ Current(run) = <<Current(run)[1], Current(run)[2]>>
         /\ LastAttempt(run) = AttemptAt(run, Current(run))
         /\ run.pending = Unanswered(run, Current(run)) /\ run.pending # {}
<1>1. run.turns # <<>> /\ RunInv(run)
  BY DEF CoordinatorInv, RunInv, TurnsBegun
<1>2. run.pending = Unanswered(run, Current(run)) /\ run.pending # {}
  BY <1>1 DEF RunInv, StatusFits
<1>. QED
  BY <1>1, <1>2, LastIsKnown, RunFields

LEMMA ToolEventApplied ==
  ASSUME CoordinatorInv, run.status = "awaiting_tool_results", NEW e,
         e.type \in ToolEvents, e.at = Current(run), Apply(e), active' = active,
         e.type # "tool.result_supplied" => e.number \in Nat
  PROVE  /\ SoundStep
         /\ \/ ~ InStep' /\ run' = run
            \/ /\ InStep' /\ InStep
               /\ ToolAccepted(run, e)
               /\ run'.status = ToolReduced(run, e).status
               /\ run'.turns = ToolReduced(run, e).turns
               /\ run'.pending = ToolReduced(run, e).pending
               /\ run'.executions = ToolReduced(run, e).executions
<1>1. FromCoordinator(run, e)
  BY WaitingIsKnown
     DEF FromCoordinator, TurnEvents, ProviderEvents, ContentEvents, ToolEvents
<1>2. SoundStep
  BY <1>1, StreamContinuing
<1>3. NextRun(run, e) = ToolReduced(run, e)
  BY DEF NextRun, TurnEvents, ProviderEvents, ContentEvents, ToolEvents
<1>4. Accepts(run, sequence, e) => ToolAccepted(run, e)
  BY DEF Accepts, TurnAccepted, ProviderAccepted, RunAccepted, ContentEvents, ToolEvents
<1>. QED
  BY <1>1, <1>2, <1>3, <1>4, Outcome

LEMMA ExecutionBegun ==
  ASSUME CoordinatorInv, NEW call, StartToolExecution(call)
  PROVE  /\ SoundStep /\ active' = active
         /\ \/ ~ InStep' /\ run' = run
            \/ /\ InStep' /\ call \in run.pending
               /\ run'.status = run.status /\ run'.turns = run.turns
               /\ run'.pending = run.pending
               /\ \E number \in Nat :
                    run'.executions = run.executions \cup
                      {[call |-> call, number |-> number, status |-> "executing"]}
<1>. DEFINE e == [type |-> "tool.execution_started", at |-> Current(run),
                  call |-> call, number |-> NextExecution(call)]
<1>1. /\ run.status = "awaiting_tool_results" /\ Apply(e) /\ active' = active
      /\ e.type \in ToolEvents /\ NextExecution(call) \in Nat
  BY ExecutionNumber DEF StartToolExecution, ToolEvents, CoordinatorInv
<1>2. /\ ToolReduced(run, e).status = run.status
      /\ ToolReduced(run, e).turns = run.turns
      /\ ToolReduced(run, e).pending = run.pending
      /\ ToolReduced(run, e).executions = run.executions \cup
           {[call |-> call, number |-> NextExecution(call), status |-> "executing"]}
  BY <1>1, WaitingIsKnown DEF ToolReduced, Runs, Open
<1>3. ToolAccepted(run, e) => call \in run.pending
  BY DEF ToolAccepted, AwaitingCall
<1>. QED
  BY <1>1, <1>2, <1>3, ToolEventApplied

LEMMA ExecutionSettled ==
  ASSUME CoordinatorInv, NEW call, NEW number \in Nat, NEW succeeded \in BOOLEAN,
         SettleToolExecution(call, number, succeeded)
  PROVE  LET open == [call |-> call, number |-> number, status |-> "executing"] IN
         /\ SoundStep /\ active' = active
         /\ \/ ~ InStep' /\ run' = run
            \/ /\ InStep' /\ open \in run.executions
               /\ run'.status = run.status /\ run'.turns = run.turns
               /\ run'.pending = run.pending
               /\ \E status \in {"completed", "failed"} :
                    run'.executions =
                      (run.executions \ {open}) \cup {[open EXCEPT !.status = status]}
<1>. DEFINE type == IF succeeded THEN "tool.execution_completed" ELSE "tool.execution_failed"
            e    == [type |-> type, at |-> Current(run), call |-> call, number |-> number]
            open == [call |-> call, number |-> number, status |-> "executing"]
            end  == IF succeeded THEN "completed" ELSE "failed"
<1>1. /\ run.status = "awaiting_tool_results" /\ Apply(e) /\ active' = active
      /\ e.type \in ToolEvents
  BY DEF SettleToolExecution, ToolEvents
<1>2. /\ ToolReduced(run, e).status = run.status
      /\ ToolReduced(run, e).turns = run.turns
      /\ ToolReduced(run, e).pending = run.pending
      /\ ToolReduced(run, e).executions =
           (run.executions \ {open}) \cup {[open EXCEPT !.status = end]}
  <2>1. CASE succeeded
    BY <1>1, <2>1, WaitingIsKnown DEF ToolReduced, Runs, Open
  <2>2. CASE ~ succeeded
    BY <1>1, <2>2, WaitingIsKnown DEF ToolReduced, Runs, Open
  <2>. QED
    BY <2>1, <2>2
<1>3. ToolAccepted(run, e) => open \in run.executions
  BY DEF ToolAccepted, Open
<1>4. end \in {"completed", "failed"}
  OBVIOUS
<1>. HIDE DEF end
<1>. QED
  BY <1>1, <1>2, <1>3, <1>4, ToolEventApplied

LEMMA ResultSupplied ==
  ASSUME CoordinatorInv, NEW call, SupplyToolResult(call)
  PROVE  /\ SoundStep /\ active' = active
         /\ \/ ~ InStep' /\ run' = run
            \/ /\ InStep' /\ run'.turns = run.turns /\ run'.executions = run.executions
               /\ run'.pending = run.pending \ {call}
               /\ run'.status = IF run'.pending = {} THEN "tool_results_ready"
                                                     ELSE "awaiting_tool_results"
<1>. DEFINE e    == [type |-> "tool.result_supplied", at |-> Current(run), call |-> call]
            left == CallsOf(Current(run), LastAttempt(run)) \ (run.results \cup {call})
<1>1. /\ run.status = "awaiting_tool_results" /\ Apply(e) /\ active' = active
      /\ e.type \in ToolEvents
  BY DEF SupplyToolResult, ToolEvents
<1>2. left = run.pending \ {call}
  BY <1>1, WaitingIsKnown DEF Unanswered
<1>3. /\ ToolReduced(run, e).turns = run.turns
      /\ ToolReduced(run, e).executions = run.executions
      /\ ToolReduced(run, e).pending = left
      /\ ToolReduced(run, e).status = IF left = {} THEN "tool_results_ready"
                                                   ELSE "awaiting_tool_results"
  BY <1>1, WaitingIsKnown DEF ToolReduced, Runs
<1>. HIDE DEF left
<1>. QED
  BY <1>1, <1>2, <1>3, ToolEventApplied

\* The calls of a run's executions, and the turns they are of.
LEMMA ExecutionTypes ==
  ASSUME CoordinatorInv, NEW x \in run.executions
  PROVE  x.call \in CallIds /\ x.call[1][1] \in Nat /\ Len(run.turns) \in Nat
<1>1. x \in Executions /\ run.turns \in Seq(Seq(Attempts))
  BY RunFields DEF CoordinatorInv
<1>. QED
  BY <1>1 DEF Executions, CallIds

\* An event numbered past the run's own next number is dropped.
LEMMA Dropped ==
  ASSUME CoordinatorInv, ~ InStep, NEW e, Apply(e)
  PROVE  run' = run /\ ~ InStep'
<1>1. /\ run.lastSequence \in Int /\ sequence \in Nat
      /\ sequence > run.lastSequence + 1
  BY RunFields DEF CoordinatorInv, InStep
<1>2. run' = run /\ sequence' = sequence + 1
  BY <1>1 DEF Apply, Accepted, Accepts
<1>. QED
  BY <1>1, <1>2 DEF InStep

LEMMA TurnDropped ==
  ASSUME CoordinatorInv, ~ InStep, BeginTurn(run, sequence)
  PROVE  run' = run /\ ~ InStep'
<1>1. /\ run.lastSequence \in Int /\ sequence \in Nat
      /\ sequence > run.lastSequence + 1
  BY RunFields DEF CoordinatorInv, InStep
<1>2. run' = run /\ sequence' = sequence + 1
  BY <1>1 DEF BeginTurn, Accepts
<1>. QED
  BY <1>1, <1>2 DEF InStep

-----------------------------------------------------------------------------
(* Theorems *)

LEMMA InitInv ==
  ASSUME Init
  PROVE  CoordinatorInv
<1>1. RunInv(run) /\ run.lastSequence = -1 /\ sequence = 0 /\ active = None
  BY NewRunInv DEF Init, NewRun
<1>. QED
  BY <1>1 DEF CoordinatorInv, StreamIsCurrent

LEMMA NextInv ==
  ASSUME CoordinatorInv, [Next]_coordinatorVars
  PROVE  SoundStep
<1>1. CASE Next
  BY <1>1, ProviderStep, ToolStep, OwnerStep DEF Next
<1>2. CASE UNCHANGED coordinatorVars
  BY <1>2, SameTurnsFixed
     DEF SoundStep, coordinatorVars, CoordinatorInv, StreamIsCurrent, InStep
<1>. QED
  BY <1>1, <1>2

LEMMA RefusedForGood ==
  ASSUME CoordinatorInv, ~ InStep, [Next]_coordinatorVars
  PROVE  UNCHANGED run /\ ~ InStep'
<1>1. CASE UNCHANGED coordinatorVars
  BY <1>1 DEF coordinatorVars, InStep
<1>2. CASE Provider
  BY <1>2, Dropped
     DEF Provider, AcceptEvent, AcceptFailed, AcceptCancelled, FinishTurnStream, InStep
<1>3. CASE Tools
  BY <1>3, Dropped
     DEF Tools, StartToolExecution, SettleToolExecution, SupplyToolResult
<1>4. CASE Owner
  <2>1. CASE Start
    BY <2>1, Dropped DEF Start, Accepted, Accepts, InStep
  <2>2. CASE Retry \/ Continue \/ Fail \/ Cancel
    BY <2>2, Dropped, TurnDropped DEF Retry, Continue, Fail, Cancel
  <2>. QED
    BY <1>4, <2>1, <2>2 DEF Owner
<1>. QED
  BY <1>1, <1>2, <1>3, <1>4 DEF Next

LEMMA AlwaysCoordinatorInv == Spec => []CoordinatorInv
<1>1. CoordinatorInv /\ [Next]_coordinatorVars => CoordinatorInv'
  BY NextInv DEF SoundStep
<1>. QED
  BY <1>1, InitInv, PTL DEF Spec

\* The coordinator's state keeps its type (the RunState of state.ts).
THEOREM TypeHolds == Spec => []TypeOK
<1>1. CoordinatorInv => TypeOK
  BY DEF CoordinatorInv, RunInv, TypeOK
<1>. QED
  BY <1>1, AlwaysCoordinatorInv, PTL

\* Whatever methods are called in whatever order, the status tells the story
\* the turns record (reduceRunEvent).
THEOREM StatusMatchesTurnsHolds == Spec => []StatusMatchesTurns
<1>1. CoordinatorInv => StatusMatchesTurns
  BY DEF CoordinatorInv, RunInv, StatusMatchesTurns
<1>. QED
  BY <1>1, AlwaysCoordinatorInv, PTL

\* No turn follows an unanswered call, no attempt one that did not fail
\* (nextTurnInput's precondition).
THEOREM TurnsAnsweredInOrderHolds == Spec => []TurnsAnsweredInOrder
<1>1. CoordinatorInv => TurnsAnsweredInOrder
  BY DEF CoordinatorInv, RunInv, TurnsAnsweredInOrder
<1>. QED
  BY <1>1, AlwaysCoordinatorInv, PTL

\* No call is executed twice without failing, or answered while it executes
\* (the guards of tool.execution_started and tool.result_supplied).
THEOREM CallsServedOnceHolds == Spec => []CallsServedOnce
<1>1. CoordinatorInv => CallsServedOnce
  BY DEF CoordinatorInv, RunInv, CallsServedOnce
<1>. QED
  BY <1>1, AlwaysCoordinatorInv, PTL

\* The exchange whose stream is accepted is the run's last attempt
\* (activeExecution).
THEOREM StreamIsCurrentHolds == Spec => []StreamIsCurrent
<1>1. CoordinatorInv => StreamIsCurrent
  BY DEF CoordinatorInv
<1>. QED
  BY <1>1, AlwaysCoordinatorInv, PTL

\* The run, its status, its events and its stream never contradict each other
\* (every case of reduceRunEvent).
THEOREM RunConsistentHolds == Spec => []RunConsistent
<1>1. TypeOK /\ StatusMatchesTurns /\ StreamIsCurrent => RunConsistent
  BY DEF RunConsistent
<1>. QED
  BY <1>1, TypeHolds, StatusMatchesTurnsHolds, StreamIsCurrentHolds, PTL

-----------------------------------------------------------------------------
(* What a step may never do *)

\* An event one method made and the reducer refused is the run's last: the
\* factory's number has passed the run's for good (create, reduceRunEvent).
THEOREM RefusalIsFinalHolds == Spec => RefusalIsFinal
<1>1. CoordinatorInv /\ [Next]_coordinatorVars
        => [~ InStep => UNCHANGED run /\ ~ InStep']_coordinatorVars
  BY RefusedForGood
<1>. QED
  BY <1>1, AlwaysCoordinatorInv, PTL DEF Spec, RefusalIsFinal

\* What was said stays said: the content of a settled attempt survives every
\* method (withExchangeAttempt, and the streaming checks of reduceRunEvent).
THEOREM SettledContentFixedHolds == Spec => SettledContentFixed
<1>. DEFINE Fixed ==
       \A t \in DOMAIN run.turns : \A a \in DOMAIN run.turns[t] :
         /\ Known(run', <<t, a>>)
         /\ run.turns[t][a].status # "streaming" =>
              /\ run'.turns[t][a].calls = run.turns[t][a].calls
              /\ run'.turns[t][a].status \in {run.turns[t][a].status, "failed"}
<1>1. CoordinatorInv /\ [Next]_coordinatorVars => [Fixed]_coordinatorVars
  BY NextInv DEF SoundStep, ContentFixed
<1>. QED
  BY <1>1, AlwaysCoordinatorInv, PTL DEF Spec, SettledContentFixed

-----------------------------------------------------------------------------
(***************************************************************************)
(* Proofs about one chat repetition, for any turn ceiling, retry policy,   *)
(* set of tool-call indexes and transport quirks, and without a bound on   *)
(* the events of its stream.                                               *)
(*                                                                         *)
(* The coordinator's invariant holds of its run because the executor is    *)
(* one of the coordinator's clients.  What the executor adds is where it   *)
(* is: outside of "caught" and "thrown" no event was ever refused; while   *)
(* it serves calls, those still to serve are the ones the run waits for,   *)
(* and none of them but the next was begun; and a tool execution is open   *)
(* only while its answer is awaited.                                       *)
(***************************************************************************)

InTurn == pc \in {"new", "streaming", "ended", "caught", "driven", "waiting"}

InService == pc \in {"serving", "executing", "executed"}

PlaceInv ==
  /\ pc \in {"new", "streaming", "ended", "caught", "driven", "waiting", "serving",
             "executing", "executed", "finalizing", "returned", "thrown"}
  /\ pc = "new" => run = NewRun /\ sequence = 0 /\ active = None
  /\ pc # "new" => run.turns # <<>>
  /\ pc \notin {"caught", "thrown"} => InStep
  /\ pc = "waiting" => run.status = "attempt_failed"
  /\ pc = "returned" => IsTerminal(run)
  /\ pc = "ended" => active = None

\* A run that has ended has no stream, and was cancelled only by the batch.
EndInv ==
  /\ IsTerminal(run) => active = None
  /\ run.status = "cancelled" => aborted

\* A rate limit that may be waited out is that of a failed attempt.
LimitInv ==
  limited => \/ pc \in {"ended", "driven", "waiting"} /\ run.status = "attempt_failed"
             \/ pc \in {"finalizing", "returned", "thrown"}
             \/ pc = "caught" /\ active = None

\* The calls still to serve are those the run waits for.
ServiceInv ==
  /\ todo \subseteq CallIds
  /\ InService =>
       /\ todo = run.pending
       /\ run.status = IF todo = {} THEN "tool_results_ready" ELSE "awaiting_tool_results"
  /\ pc \in {"executing", "executed"} => todo # {}

\* Executions are of the calls of earlier turns, or of those served already in
\* this one, and of the next.
ExecutionsInv ==
  /\ \A x \in run.executions :
       /\ x.call[1][1] <= Len(run.turns)
       /\ InTurn => x.call[1][1] < Len(run.turns)
       /\ x.status = "executing" => pc \in {"executing", "thrown"}
       /\ pc = "serving" => x.call \notin todo
       /\ pc \in {"executing", "executed"} /\ x.call \in todo => x.call = NextCall
       /\ pc = "executing" /\ x.status = "executing" => x.call = NextCall
  /\ ExecutedOnce

ChatInv ==
  /\ CoordinatorInv /\ PlaceInv /\ EndInv /\ LimitInv /\ ServiceInv /\ ExecutionsInv
  /\ aborted \in BOOLEAN /\ limited \in BOOLEAN /\ served \in BOOLEAN

-----------------------------------------------------------------------------
(* The call that is served next *)

LEMMA NextCallIsOne ==
  ASSUME todo \subseteq CallIds, todo # {}
  PROVE  NextCall \in todo
<1>. DEFINE Indices == { call[2] : call \in todo }
<1>1. Indices \subseteq Nat /\ Indices # {}
  BY CallIndicesAssumption DEF CallIds
<1>2. PICK least \in Indices : \A other \in Indices : <<other, least>> \notin OpToRel(<, Nat)
  BY <1>1, NatLessThanWellFounded, WFMin
<1>3. least \in Nat /\ \A other \in Indices : other \in Nat /\ least <= other
  <2>1. SUFFICES ASSUME NEW other \in Indices  PROVE other \in Nat /\ least <= other
    BY <1>1
  <2>2. least \in Nat /\ other \in Nat /\ ~ other < least
    BY <1>1, <1>2 DEF OpToRel
  <2>. QED
    BY <2>2
<1>4. PICK call \in todo : least = call[2]
  OBVIOUS
<1>5. \A other \in todo : call[2] <= other[2]
  BY <1>3, <1>4
<1>. QED
  BY <1>5 DEF NextCall

-----------------------------------------------------------------------------
(* Steps that leave the executions and the turn as they are *)

\* What execute may reject for.
CutOff == pc' = "thrown" => ~ InStep' \/ (pc = "caught" /\ active = None)

LEMMA Moves ==
  ASSUME ChatInv, SoundStep, SamePlace,
         pc \notin {"new", "executing", "thrown"},
         pc' \in {"streaming", "ended", "caught", "driven", "finalizing", "returned", "thrown"},
         pc' \in {"streaming", "ended", "caught", "driven"} => InTurn,
         pc' \notin {"caught", "thrown"} => InStep',
         pc' = "returned" => IsTerminal(run'),
         pc' = "ended" => active' = None,
         IsTerminal(run') => active' = None,
         run'.status = "cancelled" => aborted,
         limited' \in BOOLEAN, LimitInv',
         UNCHANGED <<aborted, todo, served>>
  PROVE  ChatInv'
<1>1. PlaceInv'
  BY DEF ChatInv, PlaceInv, SamePlace
<1>2. EndInv'
  BY DEF EndInv
<1>3. ServiceInv'
  BY DEF ChatInv, ServiceInv, InService
<1>4. ExecutionsInv'
  <2>1. ExecutedOnce'
    BY DEF ChatInv, ExecutionsInv, ExecutedOnce, SamePlace
  <2>2. ASSUME NEW x \in run.executions
        PROVE  /\ x.call[1][1] <= Len(run'.turns)
               /\ InTurn' => x.call[1][1] < Len(run'.turns)
               /\ x.status # "executing"
    BY DEF ChatInv, ExecutionsInv, InTurn, SamePlace
  <2>. QED
    BY <2>1, <2>2 DEF ExecutionsInv, SamePlace
<1>. QED
  BY <1>1, <1>2, <1>3, <1>4 DEF ChatInv, SoundStep

\* However a repetition is cut short, its run is ended, or had ended already.
LEMMA RunIsEnded ==
  ASSUME ChatInv, NEW type \in {"run.failed", "run.cancelled"}, EndRun(type),
         pc \in {"caught", "driven", "waiting", "serving", "executed"},
         type = "run.cancelled" => aborted,
         UNCHANGED <<aborted, limited, todo, served>>
  PROVE  /\ ChatInv' /\ SamePlace /\ pc' \in {"finalizing", "thrown"}
         /\ pc' = "thrown" => ~ InStep' \/ IsTerminal(run)
<1>1. CoordinatorInv /\ EndInv
  BY DEF ChatInv
<1>2. CASE IsTerminal(run)
  <2>1. pc' = "thrown" /\ UNCHANGED coordinatorVars
    BY <1>2 DEF EndRun
  <2>2. SoundStep /\ SamePlace
    BY <1>1, <2>1, SameTurnsFixed
       DEF SoundStep, CoordinatorInv, StreamIsCurrent, SamePlace, coordinatorVars, InStep, Current
  <2>3. LimitInv'
    BY <2>1 DEF LimitInv
  <2>4. ChatInv'
    BY <1>1, <2>1, <2>2, <2>3, Moves DEF ChatInv, EndInv, coordinatorVars
  <2>. QED
    BY <1>2, <2>1, <2>2, <2>4
<1>3. CASE ~ IsTerminal(run)
  <2>1. Apply([type |-> type]) /\ active' = None /\ Leads("finalizing", "thrown")
    BY <1>3 DEF EndRun, Fail, Cancel
  <2>2. /\ SoundStep /\ SamePlace
        /\ run'.status = "cancelled" => run.status = "cancelled" \/ type = "run.cancelled"
    BY <1>1, <2>1, RunEnds
  <2>3. LimitInv'
    BY <2>1 DEF LimitInv, Leads
  <2>4. pc' \in {"finalizing", "thrown"} /\ (pc' = "finalizing" <=> InStep')
    BY <2>1 DEF Leads
  <2>5. ChatInv'
    BY <1>1, <2>1, <2>2, <2>3, <2>4, Moves DEF ChatInv, EndInv
  <2>. QED
    BY <2>2, <2>4, <2>5
<1>. QED
  BY <1>2, <1>3

-----------------------------------------------------------------------------
(* The provider's turn *)

LEMMA StartStep ==
  ASSUME ChatInv, CellStart
  PROVE  /\ ChatInv' /\ pc = "new" /\ pc' = "streaming"
         /\ Current(run') = <<1, 1>> /\ run.turns = <<>> /\ run'.turns # <<>>
<1>. DEFINE e    == [type |-> "run.started"]
            from == Reduced(run, sequence, e)
            at   == <<1, 1>>
            e2   == [type |-> "turn.started", at |-> at]
<1>1. /\ pc = "new" /\ run = NewRun /\ sequence = 0 /\ active = None /\ CoordinatorInv
      /\ Start /\ UNCHANGED <<aborted, limited, todo, served>>
  BY DEF ChatInv, PlaceInv, CellStart
<1>2. SoundStep
  BY <1>1, Started
<1>3. Accepted(e)
  BY <1>1 DEF Accepted, Accepts, RunAccepted, NewRun, IsTerminal, TerminalStatuses
<1>4. /\ RunInv(from) /\ from \in Runs /\ from.lastSequence = 0
      /\ from.status = "starting" /\ from.turns = <<>> /\ from.executions = {}
  <2>1. RunInv(run) /\ run \in Runs /\ FromCoordinator(run, e) /\ Accepts(run, sequence, e)
    BY <1>1, <1>3, RunEvents, RunFields DEF CoordinatorInv, Accepted
  <2>2. RunInv(from) /\ from \in Runs /\ from.lastSequence = 0
    BY <1>1, <2>1, ReducerKeepsRunSound, RunFields
  <2>3. NextRun(run, e) = [run EXCEPT !.pending = {}, !.status = "starting"]
    BY DEF NextRun, RunReduced, TurnEvents, ProviderEvents, ContentEvents, ToolEvents
  <2>4. from.status = "starting" /\ from.turns = run.turns /\ from.executions = run.executions
    <3>1. /\ NextRun(run, e).status = "starting" /\ NextRun(run, e).turns = run.turns
          /\ NextRun(run, e).executions = run.executions
      BY <2>1, <2>3 DEF Runs
    <3>. QED
      BY <2>2, <3>1, ReducedFields
  <2>. QED
    BY <1>1, <2>2, <2>4 DEF NewRun
<1>5. BeginTurn(from, 1)
  BY <1>1, <1>3 DEF Start
<1>. HIDE DEF from
<1>6. Len(from.turns) + 1 = 1 /\ from.lastSequence + 1 = 1
  BY <1>4
<1>7. Accepts(from, 1, e2)
  BY <1>4, <1>6 DEF Accepts, TurnAccepted, IsTerminal, TerminalStatuses
<1>8. run' = Reduced(from, 1, e2) /\ sequence' = 2
  BY <1>5, <1>6, <1>7 DEF BeginTurn
<1>9. /\ run'.status = "running" /\ run'.turns = <<<<NewAttempt>>>> /\ run'.executions = {}
      /\ run'.lastSequence = 1
  <2>1. FromCoordinator(from, e2)
    BY <1>4 DEF FromCoordinator, TurnEvents, ProviderEvents, ContentEvents, ToolEvents
  <2>2. run' \in Runs /\ run'.lastSequence = 1
    BY <1>4, <1>7, <1>8, <2>1, ReducerKeepsRunSound, RunFields
  <2>3. NextRun(from, e2)
          = [from EXCEPT !.status = "running", !.turns = Append(@, <<NewAttempt>>)]
    BY DEF NextRun, TurnReduced, TurnEvents, ProviderEvents, ContentEvents, ToolEvents
  <2>4. /\ run'.status = "running" /\ run'.executions = from.executions
        /\ run'.turns = Append(from.turns, <<NewAttempt>>)
    <3>1. /\ NextRun(from, e2).status = "running"
          /\ NextRun(from, e2).executions = from.executions
          /\ NextRun(from, e2).turns = Append(from.turns, <<NewAttempt>>)
      BY <1>4, <2>3 DEF Runs
    <3>. QED
      BY <1>8, <2>2, <3>1, ReducedFields
  <2>5. Append(<<>>, <<NewAttempt>>) = <<<<NewAttempt>>>>
    OBVIOUS
  <2>. QED
    BY <1>4, <2>2, <2>4, <2>5
<1>10. InStep' /\ pc' = "streaming"
  BY <1>8, <1>9 DEF InStep, CellStart, Leads
<1>11. run'.turns # <<>> /\ Current(run') = <<1, 1>> /\ run.turns = <<>>
  BY <1>1, <1>9 DEF Current, NewRun
<1>12. PlaceInv'
  BY <1>9, <1>10, <1>11 DEF PlaceInv
<1>13. EndInv'
  BY <1>9 DEF EndInv, IsTerminal, TerminalStatuses
<1>14. LimitInv' /\ ServiceInv'
  BY <1>1, <1>10 DEF ChatInv, LimitInv, ServiceInv, InService
<1>15. ExecutionsInv'
  BY <1>9 DEF ExecutionsInv, ExecutedOnce
<1>. QED
  BY <1>1, <1>2, <1>10, <1>11, <1>12, <1>13, <1>14, <1>15 DEF ChatInv, SoundStep

LEMMA StreamStep ==
  ASSUME ChatInv, Transport \/ StreamStops
  PROVE  ChatInv' /\ SamePlace /\ CutOff
         /\ pc \in {"streaming", "ended"} /\ pc' \in {"streaming", "ended", "caught", "driven"}
<1>1. /\ CoordinatorInv /\ EndInv /\ LimitInv /\ PlaceInv
      /\ limited \in BOOLEAN /\ aborted \in BOOLEAN
  BY DEF ChatInv
<1>2. CASE StreamEmits
  <2>1. PICK e \in StreamEvents : AcceptEvent(e)
    BY <1>2 DEF StreamEmits
  <2>2. /\ pc = "streaming" /\ Leads("streaming", "caught")
        /\ UNCHANGED <<aborted, limited, todo, served>>
    BY <1>2 DEF StreamEmits
  <2>3. /\ SoundStep /\ SamePlace /\ active' = active
        /\ run'.status \in {run.status, "awaiting_tool_results"}
    BY <1>1, <2>1, EventStays
  <2>4. pc' \in {"streaming", "caught"} /\ (pc' = "streaming" => InStep')
    BY <2>2 DEF Leads
  <2>5. LimitInv'
    BY <1>1, <2>2 DEF LimitInv
  <2>6. /\ IsTerminal(run') => active' = None
        /\ run'.status = "cancelled" => aborted
    BY <1>1, <2>3 DEF EndInv, IsTerminal, TerminalStatuses
  <2>7. ChatInv'
    BY <1>1, <2>2, <2>3, <2>4, <2>5, <2>6, Moves DEF InTurn
  <2>. QED
    BY <2>2, <2>3, <2>4, <2>7 DEF CutOff
<1>3. CASE StreamFails
  <2>1. PICK retryable, is429 \in BOOLEAN :
          AcceptFailed(retryable) /\ limited' = (retryable /\ is429)
    BY <1>3 DEF StreamFails
  <2>2. /\ pc = "streaming" /\ Leads("ended", "caught")
        /\ UNCHANGED <<aborted, todo, served>>
    BY <1>3 DEF StreamFails
  <2>3. /\ SoundStep /\ SamePlace /\ active' = None
        /\ InStep' /\ retryable => run'.status = "attempt_failed"
        /\ run'.status = "cancelled" => run.status = "cancelled"
    BY <1>1, <2>1, FailureStays
  <2>4. pc' \in {"ended", "caught"} /\ (pc' = "ended" => InStep')
    BY <2>2 DEF Leads
  <2>5. (limited' => retryable) /\ limited' \in BOOLEAN
    BY <2>1, Zenon
  <2>6. LimitInv'
    BY <2>3, <2>4, <2>5 DEF LimitInv
  <2>7. ChatInv'
    BY <1>1, <2>2, <2>3, <2>4, <2>5, <2>6, Moves DEF InTurn, EndInv
  <2>. QED
    BY <2>2, <2>3, <2>4, <2>7 DEF CutOff
<1>4. CASE StreamCancelled
  <2>1. /\ pc = "streaming" /\ aborted /\ Apply([type |-> "run.cancelled"]) /\ active' = None
        /\ Leads("ended", "caught") /\ UNCHANGED <<aborted, limited, todo, served>>
    BY <1>4 DEF StreamCancelled, AcceptCancelled
  <2>2. SoundStep /\ SamePlace
    BY <1>1, <2>1, RunEnds
  <2>3. pc' \in {"ended", "caught"} /\ (pc' = "ended" => InStep')
    BY <2>1 DEF Leads
  <2>4. LimitInv'
    BY <1>1, <2>1 DEF LimitInv
  <2>5. ChatInv'
    BY <1>1, <2>1, <2>2, <2>3, <2>4, Moves DEF InTurn
  <2>. QED
    BY <2>1, <2>2, <2>3, <2>5 DEF CutOff
<1>5. CASE StreamEnds
  <2>1. /\ pc \in {"streaming", "ended"} /\ FinishTurnStream
        /\ Leads("driven", "caught") /\ UNCHANGED <<aborted, limited, todo, served>>
    BY <1>5 DEF StreamEnds
  <2>2. /\ SoundStep /\ SamePlace /\ active' = None
        /\ run'.status = "cancelled" => run.status = "cancelled"
        /\ run.status = "attempt_failed" => run' = run
    BY <1>1, <2>1, FinishStays
  <2>3. pc' \in {"driven", "caught"} /\ (pc' = "driven" => InStep')
    BY <2>1 DEF Leads
  <2>4. LimitInv'
    BY <1>1, <2>1, <2>2, <2>3 DEF LimitInv
  <2>5. ChatInv'
    BY <1>1, <2>1, <2>2, <2>3, <2>4, Moves DEF InTurn, EndInv
  <2>. QED
    BY <2>1, <2>2, <2>3, <2>5 DEF CutOff
<1>6. CASE StreamBreaks
  <2>1. /\ pc \in {"streaming", "ended"} /\ pc' = "caught"
        /\ UNCHANGED <<run, sequence, active, aborted, limited, todo, served>>
    BY <1>6 DEF StreamBreaks
  <2>2. SoundStep /\ SamePlace
    BY <1>1, <2>1, SameTurnsFixed
       DEF SoundStep, CoordinatorInv, StreamIsCurrent, SamePlace, InStep, Current
  <2>3. LimitInv'
    BY <1>1, <2>1 DEF LimitInv, PlaceInv
  <2>4. ChatInv'
    BY <1>1, <2>1, <2>2, <2>3, Moves DEF InTurn, EndInv
  <2>. QED
    BY <2>1, <2>2, <2>4 DEF CutOff
<1>. QED
  BY <1>2, <1>3, <1>4, <1>5, <1>6 DEF Transport, StreamStops

LEMMA CatchStep ==
  ASSUME ChatInv, DriverCatches
  PROVE  ChatInv' /\ SamePlace /\ CutOff
         /\ pc = "caught" /\ pc' \in {"driven", "finalizing", "thrown"}
<1>1. /\ CoordinatorInv /\ EndInv /\ LimitInv /\ PlaceInv /\ pc = "caught"
      /\ limited \in BOOLEAN /\ UNCHANGED <<aborted, limited, todo, served>>
  BY DEF ChatInv, DriverCatches
<1>2. CASE aborted /\ EndRun("run.cancelled")
  BY <1>1, <1>2, RunIsEnded DEF CutOff, EndInv
<1>3. CASE active = None /\ pc' = "thrown" /\ UNCHANGED coordinatorVars
  <2>1. SoundStep /\ SamePlace
    BY <1>1, <1>3, SameTurnsFixed
       DEF SoundStep, CoordinatorInv, StreamIsCurrent, SamePlace, coordinatorVars, InStep, Current
  <2>2. LimitInv'
    BY <1>3 DEF LimitInv
  <2>3. ChatInv'
    BY <1>1, <1>3, <2>1, <2>2, Moves DEF EndInv, coordinatorVars
  <2>. QED
    BY <1>1, <1>3, <2>1, <2>3 DEF CutOff
<1>4. CASE \E retryable \in BOOLEAN : AcceptFailed(retryable) /\ Leads("driven", "thrown")
  <2>1. PICK retryable \in BOOLEAN : AcceptFailed(retryable) /\ Leads("driven", "thrown")
    BY <1>4
  <2>2. /\ SoundStep /\ SamePlace /\ active' = None
        /\ run'.status = "cancelled" => run.status = "cancelled"
    BY <1>1, <2>1, FailureStays
  <2>3. active # None
    BY <2>1 DEF AcceptFailed
  <2>4. ~ limited'
    BY <1>1, <2>3 DEF LimitInv
  <2>5. pc' \in {"driven", "thrown"} /\ (pc' = "driven" <=> InStep')
    BY <2>1 DEF Leads
  <2>6. ChatInv'
    BY <1>1, <2>2, <2>4, <2>5, Moves DEF InTurn, EndInv, LimitInv
  <2>. QED
    BY <1>1, <2>2, <2>5, <2>6 DEF CutOff
<1>. QED
  BY <1>2, <1>3, <1>4 DEF DriverCatches

-----------------------------------------------------------------------------
(* Between turns *)

LEMMA RateLimitedStep ==
  ASSUME ChatInv, RateLimited
  PROVE  ChatInv' /\ SamePlace /\ CutOff
         /\ pc = "driven" /\ pc' = "waiting" /\ Retries < MaxRetries
<1>1. /\ CoordinatorInv /\ pc = "driven" /\ limited /\ pc' = "waiting"
      /\ Retries < MaxRetries
      /\ UNCHANGED <<run, sequence, active, aborted, limited, todo, served>>
  BY DEF ChatInv, RateLimited, RetryAllowed
<1>2. SoundStep /\ SamePlace
  BY <1>1, SameTurnsFixed
     DEF SoundStep, CoordinatorInv, StreamIsCurrent, SamePlace, InStep, Current
<1>3. run.status = "attempt_failed"
  BY <1>1 DEF ChatInv, LimitInv
<1>4. PlaceInv' /\ EndInv' /\ LimitInv'
  BY <1>1, <1>3 DEF ChatInv, PlaceInv, EndInv, LimitInv, InStep
<1>5. ServiceInv'
  BY <1>1 DEF ChatInv, ServiceInv, InService
<1>6. ExecutionsInv'
  BY <1>1 DEF ChatInv, ExecutionsInv, ExecutedOnce, InTurn
<1>. QED
  BY <1>1, <1>2, <1>4, <1>5, <1>6 DEF ChatInv, SoundStep, CutOff

LEMMA WaitStep ==
  ASSUME ChatInv, WaitEnds
  PROVE  /\ ChatInv' /\ CutOff /\ pc = "waiting"
         /\ pc' \in {"streaming", "finalizing", "thrown"}
         /\ pc' # "streaming" => SamePlace
         /\ pc' = "streaming" => Current(run') = <<Current(run)[1], Current(run)[2] + 1>>
<1>1. /\ CoordinatorInv /\ pc = "waiting" /\ run.status = "attempt_failed"
      /\ PlaceInv /\ EndInv
      /\ UNCHANGED <<aborted, todo, served>>
  BY DEF ChatInv, PlaceInv, WaitEnds
<1>2. CASE aborted /\ EndRun("run.cancelled") /\ UNCHANGED limited
  BY <1>1, <1>2, RunIsEnded DEF CutOff, IsTerminal, TerminalStatuses
<1>3. CASE Retry /\ Leads("streaming", "thrown") /\ limited' = FALSE
  <2>1. /\ SoundStep /\ run'.executions = run.executions
        /\ InStep' => /\ run'.turns # <<>> /\ Len(run'.turns) = Len(run.turns)
                      /\ Current(run') = <<Current(run)[1], Current(run)[2] + 1>>
                      /\ run'.status = "running"
        /\ ~ InStep' => run' = run
    BY <1>1, <1>3, RetryBegins
  <2>2. pc' \in {"streaming", "thrown"} /\ (pc' = "streaming" <=> InStep')
    BY <1>3 DEF Leads
  <2>3. run'.status \in {"running", "attempt_failed"}
        /\ Len(run'.turns) = Len(run.turns) /\ run'.turns # <<>>
    BY <1>1, <2>1 DEF PlaceInv
  <2>4. PlaceInv' /\ EndInv' /\ LimitInv'
    BY <1>3, <2>2, <2>3 DEF PlaceInv, EndInv, LimitInv, IsTerminal, TerminalStatuses
  <2>5. ServiceInv'
    BY <1>1, <2>2 DEF ChatInv, ServiceInv, InService
  <2>6. ExecutionsInv'
    BY <1>1, <2>1, <2>2, <2>3 DEF ChatInv, ExecutionsInv, ExecutedOnce, InTurn
  <2>7. ChatInv'
    BY <1>1, <1>3, <2>1, <2>4, <2>5, <2>6 DEF ChatInv, SoundStep
  <2>. QED
    BY <1>1, <2>1, <2>2, <2>7 DEF CutOff, SamePlace
<1>. QED
  BY <1>2, <1>3 DEF WaitEnds

LEMMA SettledStep ==
  ASSUME ChatInv, TurnSettled \/ CeilingReached
  PROVE  ChatInv' /\ SamePlace /\ CutOff
         /\ pc = "driven" /\ pc' \in {"finalizing", "thrown"}
<1>1. CoordinatorInv /\ PlaceInv /\ EndInv /\ pc = "driven" /\ limited \in BOOLEAN
      /\ UNCHANGED <<aborted, limited, todo, served>>
  BY DEF ChatInv, TurnSettled, CeilingReached
<1>2. CASE TurnSettled
  <2>1. pc' = "finalizing" /\ UNCHANGED <<run, sequence, active>>
    BY <1>2 DEF TurnSettled
  <2>2. SoundStep /\ SamePlace
    BY <1>1, <2>1, SameTurnsFixed
       DEF SoundStep, CoordinatorInv, StreamIsCurrent, SamePlace, InStep, Current
  <2>3. InStep' /\ LimitInv'
    BY <1>1, <2>1 DEF PlaceInv, InStep, LimitInv
  <2>4. ChatInv'
    BY <1>1, <2>1, <2>2, <2>3, Moves DEF EndInv
  <2>. QED
    BY <1>1, <2>1, <2>2, <2>4 DEF CutOff
<1>3. CASE CeilingReached
  <2>1. EndRun("run.failed") /\ ~ IsTerminal(run)
    BY <1>3 DEF CeilingReached, IsTerminal, TerminalStatuses
  <2>. QED
    BY <1>1, <2>1, RunIsEnded DEF CutOff
<1>. QED
  BY <1>2, <1>3

LEMMA BeginServingStep ==
  ASSUME ChatInv, BeginServing
  PROVE  /\ ChatInv' /\ SamePlace /\ CutOff
         /\ pc = "driven" /\ pc' = "serving" /\ Len(run.turns) < Ceiling
<1>1. /\ CoordinatorInv /\ pc = "driven" /\ run.status = "awaiting_tool_results"
      /\ Len(run.turns) < Ceiling /\ pc' = "serving" /\ todo' = run.pending
      /\ UNCHANGED <<run, sequence, active, aborted, limited, served>>
  BY DEF ChatInv, BeginServing
<1>2. SoundStep /\ SamePlace
  BY <1>1, SameTurnsFixed
     DEF SoundStep, CoordinatorInv, StreamIsCurrent, SamePlace, InStep, Current
<1>3. /\ run.pending = CallsOf(Current(run), AttemptAt(run, Current(run))) \ run.results
      /\ run.pending # {} /\ run.pending \subseteq CallIds
  BY <1>1, WaitingIsKnown DEF Unanswered, Runs
<1>4. PlaceInv' /\ EndInv' /\ LimitInv' /\ ServiceInv'
  BY <1>1, <1>3 DEF ChatInv, PlaceInv, EndInv, LimitInv, ServiceInv, InStep
<1>5. \A x \in run.executions : x.call \notin run.pending
  <2>1. SUFFICES ASSUME NEW x \in run.executions, x.call \in run.pending  PROVE FALSE
    OBVIOUS
  <2>2. x.call[1] = Current(run) /\ Current(run)[1] = Len(run.turns)
    BY <1>3, <2>1 DEF CallsOf, Current
  <2>3. x.call[1][1] < Len(run.turns) /\ x.call[1][1] \in Nat /\ Len(run.turns) \in Nat
    BY <1>1, ExecutionTypes DEF ChatInv, ExecutionsInv, InTurn
  <2>. QED
    BY <2>2, <2>3
<1>6. ExecutionsInv'
  BY <1>1, <1>5 DEF ChatInv, ExecutionsInv, ExecutedOnce, InTurn
<1>. QED
  BY <1>1, <1>2, <1>4, <1>6 DEF ChatInv, SoundStep, CutOff

-----------------------------------------------------------------------------
(* The tool calls of an answer *)

\* What the loop knows of the call it serves next.
LEMMA ServingNext ==
  ASSUME ChatInv, InService, todo # {}
  PROVE  /\ CoordinatorInv /\ NextCall \in todo /\ todo = run.pending
         /\ run.status = "awaiting_tool_results" /\ run.turns # <<>>
         /\ ~ IsTerminal(run) /\ InStep
         /\ NextCall \in CallIds /\ NextCall[1] = Current(run)
<1>1. /\ CoordinatorInv /\ todo = run.pending /\ todo \subseteq CallIds
      /\ run.status = "awaiting_tool_results" /\ InStep
  BY DEF ChatInv, ServiceInv, PlaceInv, InService
<1>2. NextCall \in todo
  BY <1>1, NextCallIsOne
<1>3. todo = CallsOf(Current(run), AttemptAt(run, Current(run))) \ run.results
      /\ run.turns # <<>>
  BY <1>1, WaitingIsKnown DEF Unanswered
<1>4. NextCall[1] = Current(run)
  BY <1>2, <1>3 DEF CallsOf
<1>. QED
  BY <1>1, <1>2, <1>3, <1>4 DEF IsTerminal, TerminalStatuses

LEMMA UnservedStep ==
  ASSUME ChatInv, CallUnserved
  PROVE  ChatInv' /\ SamePlace /\ CutOff
         /\ pc = "serving" /\ pc' \in {"finalizing", "thrown"}
<1>1. /\ pc = "serving" /\ todo # {} /\ EndRun("run.failed")
      /\ UNCHANGED <<aborted, limited, todo, served>>
  BY DEF CallUnserved
<1>2. ~ IsTerminal(run)
  BY <1>1, ServingNext DEF InService
<1>. QED
  BY <1>1, <1>2, RunIsEnded DEF CutOff

\* A tool method's step, refused: execute rejects, and the run stays.
LEMMA ToolRefused ==
  ASSUME ChatInv, SoundStep, pc \in {"serving", "executing", "executed"},
         run' = run, active' = active, ~ InStep', pc' = "thrown",
         UNCHANGED <<aborted, limited, served>>, todo' \subseteq todo
  PROVE  ChatInv' /\ SamePlace /\ CutOff
<1>1. PlaceInv' /\ EndInv' /\ LimitInv' /\ ServiceInv'
  BY DEF ChatInv, PlaceInv, EndInv, LimitInv, ServiceInv, InService
<1>2. ExecutionsInv'
  BY DEF ChatInv, ExecutionsInv, ExecutedOnce, InTurn
<1>. QED
  BY <1>1, <1>2 DEF ChatInv, SoundStep, SamePlace, CutOff, Current

LEMMA BeginCallStep ==
  ASSUME ChatInv, BeginCall
  PROVE  /\ ChatInv' /\ CutOff /\ pc = "serving"
         /\ pc' \in {"executing", "finalizing", "thrown"}
         /\ run'.turns = run.turns \/ SamePlace
<1>1. /\ pc = "serving" /\ todo # {} /\ UNCHANGED <<aborted, limited, todo, served>>
  BY DEF BeginCall
<1>2. /\ CoordinatorInv /\ NextCall \in todo /\ todo = run.pending
      /\ run.status = "awaiting_tool_results" /\ run.turns # <<>>
      /\ ~ IsTerminal(run) /\ InStep
      /\ NextCall \in CallIds /\ NextCall[1] = Current(run)
  BY <1>1, ServingNext DEF InService
<1>3. CASE aborted /\ EndRun("run.cancelled")
  BY <1>1, <1>2, <1>3, RunIsEnded DEF CutOff
<1>4. CASE StartToolExecution(NextCall) /\ Leads("executing", "thrown")
  <2>1. /\ SoundStep /\ active' = active
        /\ \/ ~ InStep' /\ run' = run
           \/ /\ InStep' /\ run'.status = run.status /\ run'.turns = run.turns
              /\ run'.pending = run.pending
              /\ \E number \in Nat :
                   run'.executions = run.executions \cup
                     {[call |-> NextCall, number |-> number, status |-> "executing"]}
    BY <1>2, <1>4, ExecutionBegun
  <2>2. pc' = IF InStep' THEN "executing" ELSE "thrown"
    BY <1>4 DEF Leads
  <2>3. CASE ~ InStep' /\ run' = run
    BY <1>1, <2>1, <2>2, <2>3, ToolRefused
  <2>4. CASE /\ InStep' /\ run'.status = run.status /\ run'.turns = run.turns
             /\ run'.pending = run.pending
             /\ \E number \in Nat :
                  run'.executions = run.executions \cup
                    {[call |-> NextCall, number |-> number, status |-> "executing"]}
    <3>1. PICK number \in Nat :
            run'.executions = run.executions \cup
              {[call |-> NextCall, number |-> number, status |-> "executing"]}
      BY <2>4
    <3>. DEFINE begun == [call |-> NextCall, number |-> number, status |-> "executing"]
    <3>2. pc' = "executing" /\ NextCall' = NextCall
      BY <1>1, <2>2, <2>4 DEF NextCall
    <3>3. PlaceInv' /\ EndInv' /\ LimitInv' /\ ServiceInv'
      BY <1>1, <1>2, <2>1, <2>4, <3>2
         DEF ChatInv, PlaceInv, EndInv, LimitInv, ServiceInv, InService,
             IsTerminal, TerminalStatuses
    <3>4. \A x \in run.executions :
            /\ x.call[1][1] <= Len(run.turns) /\ x.status # "executing"
            /\ x.call \notin todo
      BY <1>1 DEF ChatInv, ExecutionsInv
    <3>5. begun.call = NextCall /\ begun.call[1][1] <= Len(run.turns)
      <4>1. Len(run.turns) \in Nat
        BY <1>2, RunFields DEF CoordinatorInv
      <4>. QED
        BY <1>2, <4>1 DEF Current
    <3>. HIDE DEF begun
    <3>6. ExecutedOnce'
      BY <1>2, <3>1, <3>4, <3>5 DEF ChatInv, ExecutionsInv, ExecutedOnce, begun
    <3>7. ExecutionsInv'
      <4>1. \A x \in run'.executions :
              /\ x.call[1][1] <= Len(run'.turns)
              /\ x.call \in todo => x.call = NextCall
              /\ x.status = "executing" => x.call = NextCall
        BY <2>4, <3>1, <3>4, <3>5 DEF begun
      <4>. QED
        BY <1>1, <3>2, <3>6, <4>1 DEF ExecutionsInv, InTurn
    <3>8. ChatInv'
      BY <1>1, <2>1, <3>3, <3>7 DEF ChatInv, SoundStep
    <3>. QED
      BY <1>1, <2>4, <3>2, <3>8 DEF CutOff
  <2>. QED
    BY <1>1, <2>1, <2>2, <2>3, <2>4
<1>. QED
  BY <1>3, <1>4 DEF BeginCall

LEMMA ExecutorStep ==
  ASSUME ChatInv, ExecutorReturns
  PROVE  /\ ChatInv' /\ CutOff /\ pc = "executing"
         /\ pc' \in {"executed", "thrown"}
         /\ run'.turns = run.turns \/ SamePlace
<1>1. /\ pc = "executing" /\ todo # {} /\ UNCHANGED <<aborted, limited, todo>>
      /\ Leads("executed", "thrown")
  BY DEF ExecutorReturns, ChatInv, ServiceInv
<1>2. /\ CoordinatorInv /\ NextCall \in todo /\ todo = run.pending
      /\ run.status = "awaiting_tool_results" /\ run.turns # <<>>
  BY <1>1, ServingNext DEF InService
<1>3. PICK completed \in BOOLEAN :
        /\ SettleToolExecution(NextCall, NextExecution(NextCall) - 1, completed)
        /\ served' = completed
  BY DEF ExecutorReturns
<1>4. NextExecution(NextCall) - 1 \in Nat
  <2>1. /\ ExecutionsOf(NextCall) \subseteq run.executions
        /\ IsFiniteSet(run.executions)
    BY <1>2 DEF CoordinatorInv, RunInv, ExecutionsOf
  <2>2. Cardinality(ExecutionsOf(NextCall)) \in Nat
    BY <2>1, FS_Subset, FS_CardinalityType
  <2>. QED
    BY <2>2 DEF NextExecution
<1>. DEFINE number == NextExecution(NextCall) - 1
            open   == [call |-> NextCall, number |-> number, status |-> "executing"]
<1>5. /\ SoundStep /\ active' = active
      /\ \/ ~ InStep' /\ run' = run
         \/ /\ InStep' /\ open \in run.executions
            /\ run'.status = run.status /\ run'.turns = run.turns
            /\ run'.pending = run.pending
            /\ \E status \in {"completed", "failed"} :
                 run'.executions =
                   (run.executions \ {open}) \cup {[open EXCEPT !.status = status]}
  BY <1>2, <1>3, <1>4, ExecutionSettled
<1>6. pc' = IF InStep' THEN "executed" ELSE "thrown"
  BY <1>1 DEF Leads
<1>7. served' \in BOOLEAN
  BY <1>3
<1>8. CASE ~ InStep' /\ run' = run
  <2>1. PlaceInv' /\ EndInv' /\ LimitInv' /\ ServiceInv'
    BY <1>1, <1>5, <1>6, <1>8
       DEF ChatInv, PlaceInv, EndInv, LimitInv, ServiceInv, InService
  <2>2. ExecutionsInv'
    BY <1>1, <1>6, <1>8 DEF ChatInv, ExecutionsInv, ExecutedOnce, InTurn
  <2>. QED
    BY <1>1, <1>5, <1>6, <1>7, <1>8, <2>1, <2>2 DEF ChatInv, SoundStep, CutOff
<1>9. CASE /\ InStep' /\ open \in run.executions
           /\ run'.status = run.status /\ run'.turns = run.turns
           /\ run'.pending = run.pending
           /\ \E status \in {"completed", "failed"} :
                run'.executions =
                  (run.executions \ {open}) \cup {[open EXCEPT !.status = status]}
  <2>1. PICK status \in {"completed", "failed"} :
          run'.executions =
            (run.executions \ {open}) \cup {[open EXCEPT !.status = status]}
    BY <1>9
  <2>. DEFINE closed == [open EXCEPT !.status = status]
  <2>2. pc' = "executed" /\ NextCall' = NextCall
    BY <1>1, <1>6, <1>9 DEF NextCall
  <2>3. PlaceInv' /\ EndInv' /\ LimitInv' /\ ServiceInv'
    BY <1>1, <1>2, <1>5, <1>9, <2>2
       DEF ChatInv, PlaceInv, EndInv, LimitInv, ServiceInv, InService,
           IsTerminal, TerminalStatuses
  <2>4. closed.call = NextCall /\ closed.status # "executing"
        /\ open.call = NextCall /\ open.status = "executing"
    BY <2>1
  <2>. HIDE DEF open, closed
  <2>5. \A x \in run.executions :
          /\ x.call[1][1] <= Len(run.turns)
          /\ x.call \in todo => x.call = NextCall
          /\ x.status = "executing" => x.call = NextCall
    BY <1>1 DEF ChatInv, ExecutionsInv
  <2>6. \A x, y \in run.executions : x.call = y.call => x = y
    BY DEF ChatInv, ExecutionsInv, ExecutedOnce
  <2>7. run'.executions = (run.executions \ {open}) \cup {closed}
    BY <2>1 DEF closed
  <2>8. \A x \in run.executions \ {open} : x.call # NextCall /\ x.status # "executing"
    BY <1>9, <2>4, <2>5, <2>6
  <2>9. ExecutedOnce'
    BY <2>4, <2>6, <2>7, <2>8 DEF ExecutedOnce
  <2>10. ExecutionsInv'
    <3>1. \A x \in run'.executions :
            /\ x.call[1][1] <= Len(run'.turns)
            /\ x.call \in todo => x.call = NextCall
            /\ x.status # "executing"
      BY <1>9, <2>4, <2>5, <2>7, <2>8
    <3>. QED
      BY <1>1, <2>2, <2>9, <3>1 DEF ExecutionsInv, InTurn
  <2>11. ChatInv'
    BY <1>1, <1>5, <1>7, <2>3, <2>10 DEF ChatInv, SoundStep
  <2>. QED
    BY <1>1, <1>9, <2>2, <2>11 DEF CutOff
<1>. QED
  BY <1>5, <1>8, <1>9

LEMMA AfterStep ==
  ASSUME ChatInv, AfterExecution
  PROVE  /\ ChatInv' /\ CutOff /\ pc = "executed"
         /\ pc' \in {"serving", "finalizing", "thrown"}
         /\ run'.turns = run.turns \/ SamePlace
<1>1. /\ pc = "executed" /\ todo # {} /\ UNCHANGED <<aborted, limited, served>>
  BY DEF AfterExecution, ChatInv, ServiceInv
<1>2. /\ CoordinatorInv /\ NextCall \in todo /\ todo = run.pending
      /\ run.status = "awaiting_tool_results" /\ run.turns # <<>> /\ ~ IsTerminal(run)
  BY <1>1, ServingNext DEF InService
<1>3. CASE /\ \/ aborted /\ EndRun("run.cancelled")
              \/ EndRun("run.failed")
           /\ UNCHANGED todo
  BY <1>1, <1>2, <1>3, RunIsEnded DEF CutOff
<1>4. CASE /\ SupplyToolResult(NextCall) /\ Leads("serving", "thrown")
           /\ todo' = todo \ {NextCall}
  <2>1. /\ SoundStep /\ active' = active
        /\ \/ ~ InStep' /\ run' = run
           \/ /\ InStep' /\ run'.turns = run.turns /\ run'.executions = run.executions
              /\ run'.pending = run.pending \ {NextCall}
              /\ run'.status = IF run'.pending = {} THEN "tool_results_ready"
                                                    ELSE "awaiting_tool_results"
    BY <1>2, <1>4, ResultSupplied
  <2>2. pc' = IF InStep' THEN "serving" ELSE "thrown"
    BY <1>4 DEF Leads
  <2>3. CASE ~ InStep' /\ run' = run
    BY <1>1, <1>4, <2>1, <2>2, <2>3, ToolRefused
  <2>4. CASE /\ InStep' /\ run'.turns = run.turns /\ run'.executions = run.executions
             /\ run'.pending = run.pending \ {NextCall}
             /\ run'.status = IF run'.pending = {} THEN "tool_results_ready"
                                                   ELSE "awaiting_tool_results"
    <3>1. pc' = "serving" /\ todo' = run'.pending
      BY <1>2, <1>4, <2>2, <2>4
    <3>2. run'.status \in {"tool_results_ready", "awaiting_tool_results"}
      BY <2>4
    <3>3. PlaceInv' /\ EndInv' /\ LimitInv'
      BY <1>1, <1>2, <2>1, <2>4, <3>1, <3>2
         DEF ChatInv, PlaceInv, EndInv, LimitInv, IsTerminal, TerminalStatuses
    <3>4. ServiceInv'
      BY <1>4, <2>4, <3>1 DEF ChatInv, ServiceInv, InService
    <3>5. ExecutionsInv'
      BY <1>1, <1>4, <2>4, <3>1 DEF ChatInv, ExecutionsInv, ExecutedOnce, InTurn
    <3>6. ChatInv'
      BY <1>1, <2>1, <3>3, <3>4, <3>5 DEF ChatInv, SoundStep
    <3>. QED
      BY <1>1, <2>4, <3>1, <3>6 DEF CutOff
  <2>. QED
    BY <1>1, <2>1, <2>2, <2>3, <2>4
<1>. QED
  BY <1>3, <1>4 DEF AfterExecution

LEMMA AllServedStep ==
  ASSUME ChatInv, AllServed
  PROVE  /\ ChatInv' /\ CutOff /\ pc = "serving"
         /\ pc' \in {"streaming", "thrown"}
         /\ pc' = "thrown" => SamePlace
         /\ pc' = "streaming" => Current(run') = <<Len(run.turns) + 1, 1>>
<1>1. /\ CoordinatorInv /\ pc = "serving" /\ run.turns # <<>> /\ PlaceInv /\ Continue
      /\ Leads("streaming", "thrown") /\ UNCHANGED <<aborted, limited, todo, served>>
  BY DEF AllServed, ChatInv, PlaceInv
<1>2. /\ SoundStep /\ run'.executions = run.executions
      /\ InStep' => /\ run'.turns # <<>> /\ Len(run'.turns) = Len(run.turns) + 1
                    /\ Current(run') = <<Len(run.turns) + 1, 1>>
                    /\ run'.status = "running"
      /\ ~ InStep' => run' = run
  BY <1>1, ContinueBegins
<1>3. pc' \in {"streaming", "thrown"} /\ (pc' = "streaming" <=> InStep')
  BY <1>1 DEF Leads
<1>4. run'.status \in {"running", "tool_results_ready"} /\ run'.turns # <<>>
  BY <1>1, <1>2 DEF Continue
<1>5. PlaceInv' /\ EndInv' /\ LimitInv'
  BY <1>1, <1>2, <1>3, <1>4
     DEF ChatInv, PlaceInv, EndInv, LimitInv, IsTerminal, TerminalStatuses
<1>6. ServiceInv'
  BY <1>1, <1>3 DEF ChatInv, ServiceInv, InService
<1>7. ExecutionsInv'
  <2>1. \A x \in run.executions :
          /\ x.call[1][1] \in Nat /\ Len(run.turns) \in Nat
          /\ x.call[1][1] <= Len(run.turns) /\ x.status # "executing"
    BY <1>1, ExecutionTypes DEF ChatInv, ExecutionsInv
  <2>2. CASE InStep'
    BY <1>1, <1>2, <1>3, <2>1, <2>2 DEF ChatInv, ExecutionsInv, ExecutedOnce
  <2>3. CASE ~ InStep'
    BY <1>1, <1>2, <1>3, <2>1, <2>3 DEF ChatInv, ExecutionsInv, ExecutedOnce, InTurn
  <2>. QED
    BY <2>2, <2>3
<1>8. ChatInv'
  BY <1>1, <1>2, <1>5, <1>6, <1>7 DEF ChatInv, SoundStep
<1>. QED
  BY <1>1, <1>2, <1>3, <1>8 DEF CutOff, SamePlace

-----------------------------------------------------------------------------
(* The end, and the batch's signal *)

LEMMA FinalizeStep ==
  ASSUME ChatInv, Finalize
  PROVE  ChatInv' /\ SamePlace /\ CutOff
         /\ pc = "finalizing" /\ pc' \in {"returned", "thrown"}
<1>1. /\ CoordinatorInv /\ EndInv /\ PlaceInv /\ pc = "finalizing" /\ limited \in BOOLEAN
      /\ UNCHANGED <<aborted, limited, todo, served>>
  BY DEF ChatInv, Finalize
<1>2. CASE IsTerminal(run) /\ pc' = "returned" /\ UNCHANGED coordinatorVars
  <2>1. SoundStep /\ SamePlace
    BY <1>1, <1>2, SameTurnsFixed
       DEF SoundStep, CoordinatorInv, StreamIsCurrent, SamePlace, coordinatorVars, InStep, Current
  <2>2. InStep' /\ LimitInv'
    BY <1>1, <1>2 DEF PlaceInv, InStep, LimitInv, coordinatorVars
  <2>3. ChatInv'
    BY <1>1, <1>2, <2>1, <2>2, Moves DEF EndInv, coordinatorVars
  <2>. QED
    BY <1>1, <1>2, <2>1, <2>3 DEF CutOff
<1>3. CASE Fail /\ Leads("returned", "thrown")
  <2>1. Apply([type |-> "run.failed"]) /\ active' = None
    BY <1>3 DEF Fail
  <2>2. /\ SoundStep /\ SamePlace /\ (InStep' => IsTerminal(run'))
        /\ run'.status = "cancelled" => run.status = "cancelled"
    BY <1>1, <2>1, RunEnds
  <2>3. pc' \in {"returned", "thrown"} /\ (pc' = "returned" <=> InStep')
    BY <1>3 DEF Leads
  <2>4. LimitInv'
    BY <2>3 DEF LimitInv
  <2>5. ChatInv'
    BY <1>1, <2>1, <2>2, <2>3, <2>4, Moves DEF EndInv
  <2>. QED
    BY <1>1, <2>2, <2>3, <2>5 DEF CutOff
<1>. QED
  BY <1>2, <1>3 DEF Finalize

LEMMA AbortStep ==
  ASSUME ChatInv, Abort
  PROVE  ChatInv' /\ SamePlace /\ CutOff /\ pc' = pc /\ pc # "new"
<1>1. /\ CoordinatorInv /\ aborted' = TRUE /\ pc # "new" /\ ~ Settled
      /\ UNCHANGED <<run, sequence, active, pc, limited, todo, served>>
  BY DEF ChatInv, Abort
<1>2. SoundStep /\ SamePlace
  BY <1>1, SameTurnsFixed
     DEF SoundStep, CoordinatorInv, StreamIsCurrent, SamePlace, InStep, Current
<1>3. PlaceInv' /\ EndInv' /\ LimitInv' /\ ServiceInv'
  BY <1>1 DEF ChatInv, PlaceInv, EndInv, LimitInv, ServiceInv, InService, InStep
<1>4. NextCall' = NextCall
  BY <1>1 DEF NextCall
<1>5. ExecutionsInv'
  BY <1>1, <1>4 DEF ChatInv, ExecutionsInv, ExecutedOnce, InTurn
<1>. QED
  BY <1>1, <1>2, <1>3, <1>5 DEF ChatInv, SoundStep, CutOff, Settled

-----------------------------------------------------------------------------
(* Theorems *)

LEMMA ChatBegins ==
  ASSUME CellInit
  PROVE  ChatInv
<1>1. /\ CoordinatorInv /\ run = NewRun /\ sequence = 0 /\ active = None /\ pc = "new"
      /\ aborted = FALSE /\ limited = FALSE /\ todo = {} /\ served = FALSE
  BY InitInv DEF CellInit, Init, NewRun
<1>2. run.status = "not_started" /\ run.lastSequence = -1 /\ run.executions = {}
  BY <1>1 DEF NewRun
<1>3. PlaceInv
  BY <1>1, <1>2 DEF PlaceInv, InStep
<1>4. EndInv /\ LimitInv
  BY <1>1, <1>2 DEF EndInv, LimitInv, IsTerminal, TerminalStatuses
<1>5. ServiceInv /\ ExecutionsInv
  BY <1>1, <1>2 DEF ServiceInv, InService, ExecutionsInv, ExecutedOnce
<1>. QED
  BY <1>1, <1>3, <1>4, <1>5 DEF ChatInv

LEMMA ChatSteps ==
  ASSUME ChatInv, CellNext
  PROVE  ChatInv' /\ CutOff
<1>1. CASE CellStart
  BY <1>1, StartStep DEF CutOff
<1>2. CASE Own /\ ~ CellStart
  BY <1>2, CatchStep, RateLimitedStep, WaitStep, SettledStep, BeginServingStep,
     UnservedStep, BeginCallStep, AfterStep, AllServedStep, FinalizeStep
     DEF Own
<1>3. CASE Transport \/ StreamStops
  BY <1>3, StreamStep
<1>4. CASE ExecutorReturns \/ Abort
  BY <1>4, ExecutorStep, AbortStep
<1>. QED
  BY <1>1, <1>2, <1>3, <1>4 DEF CellNext

LEMMA ChatStays ==
  ASSUME ChatInv, UNCHANGED cellVars
  PROVE  ChatInv'
<1>1. /\ UNCHANGED <<run, sequence, active, pc, aborted, limited, todo, served>>
      /\ CoordinatorInv
  BY DEF cellVars, ChatInv
<1>2. CoordinatorInv'
  BY <1>1 DEF CoordinatorInv, StreamIsCurrent, InStep
<1>3. PlaceInv' /\ EndInv' /\ LimitInv' /\ ServiceInv'
  BY <1>1 DEF ChatInv, PlaceInv, EndInv, LimitInv, ServiceInv, InService, InStep
<1>4. NextCall' = NextCall
  BY <1>1 DEF NextCall
<1>5. ExecutionsInv'
  BY <1>1, <1>4 DEF ChatInv, ExecutionsInv, ExecutedOnce, InTurn
<1>. QED
  BY <1>1, <1>2, <1>3, <1>5 DEF ChatInv

LEMMA AlwaysChatInv == CellSpec => []ChatInv
<1>1. ChatInv /\ [CellNext]_cellVars => ChatInv'
  BY ChatSteps, ChatStays
<1>. QED
  BY <1>1, ChatBegins, PTL DEF CellSpec

\* However provider, tools and the batch's stop interleave, execute returns a
\* run that has ended with no tool execution left open, executes a call once,
\* and shows a cancelled run only when the batch stopped it.
THEOREM ChatEndsWithEvidenceHolds == CellSpec => []ChatEndsWithEvidence
<1>1. ChatInv => CellTypeOK
  BY RunFields
     DEF ChatInv, PlaceInv, ServiceInv, CoordinatorInv, CellTypeOK, TypeOK
<1>2. ChatInv => EvidenceClosed /\ ExecutedOnce /\ CancelledOnlyWhenStopped
  BY DEF ChatInv, PlaceInv, ExecutionsInv, EndInv, EvidenceClosed, CancelledOnlyWhenStopped
<1>. QED
  BY <1>1, <1>2, AlwaysChatInv, PTL DEF ChatEndsWithEvidence

\* execute rejects only when the reducer refused an event, or the stream broke
\* after it had settled the turn itself: no other step can raise.
THEOREM ThrowsOnlyWhenCutOffHolds == CellSpec => ThrowsOnlyWhenCutOff
<1>1. ChatInv /\ [CellNext]_cellVars => [CutOff]_cellVars
  BY ChatSteps
<1>. QED
  BY <1>1, AlwaysChatInv, PTL DEF CellSpec, CutOff, ThrowsOnlyWhenCutOff

-----------------------------------------------------------------------------
(* The repetition keeps its promise, step by step *)

LEMMA SamePromise ==
  ASSUME SamePlace \/ run'.turns = run.turns, run.turns # <<>>
  PROVE  /\ run'.turns # <<>> /\ Len(run'.turns) = Len(run.turns) /\ Retries' = Retries
BY DEF SamePlace, Retries, Current

\* A step that stays in one turn moves from stage to stage.
LEMMA StageMoves ==
  ASSUME run.turns # <<>>, SamePlace \/ run'.turns = run.turns,
         \/ Stage' = Stage
         \/ Stage = "turn" /\ Retries < MaxRetries /\ Stage' = "waiting"
         \/ Stage = "turn" /\ Len(run.turns) < Ceiling /\ Stage' = "serving"
         \/ Stage \in {"turn", "waiting", "serving"} /\ Stage' = "ending"
         \/ Stage \in {"turn", "waiting", "serving", "ending"} /\ Stage' \in {"settled", "broken"}
  PROVE  [Promise!Next]_(Promise!repetitionVars)
<1>1. run'.turns # <<>> /\ Len(run'.turns) = Len(run.turns) /\ Retries' = Retries
  BY SamePromise
<1>. QED
  BY <1>1 DEF Promise!Next, Promise!repetitionVars, Promise!Wait, Promise!Serve,
              Promise!End, Promise!Settle

LEMMA PromiseSteps ==
  ASSUME ChatInv, CellNext
  PROVE  [Promise!Next]_(Promise!repetitionVars)
<1>1. CASE CellStart
  <2>1. /\ Stage = "unstarted" /\ Stage' = "turn"
        /\ run.turns = <<>> /\ run'.turns # <<>> /\ Current(run') = <<1, 1>>
    BY <1>1, StartStep DEF Stage
  <2>2. Len(run'.turns) = 1 /\ Retries' = 0 /\ Len(run.turns) = 0
    BY <2>1 DEF Current, Retries
  <2>. QED
    BY <2>1, <2>2 DEF Promise!Next, Promise!repetitionVars, Promise!Begin
<1>2. CASE Transport \/ StreamStops \/ DriverCatches \/ TurnSettled \/ CeilingReached
  <2>1. /\ SamePlace /\ pc \in {"streaming", "ended", "caught", "driven"}
        /\ pc' \in {"streaming", "ended", "caught", "driven", "finalizing", "thrown"}
        /\ run.turns # <<>>
    BY <1>2, StreamStep, CatchStep, SettledStep DEF ChatInv, PlaceInv
  <2>. QED
    BY <2>1, StageMoves DEF Stage
<1>3. CASE RateLimited \/ BeginServing
  <2>1. /\ SamePlace /\ pc = "driven" /\ run.turns # <<>>
        /\ \/ pc' = "waiting" /\ Retries < MaxRetries
           \/ pc' = "serving" /\ Len(run.turns) < Ceiling
    BY <1>3, RateLimitedStep, BeginServingStep DEF ChatInv, PlaceInv
  <2>. QED
    BY <2>1, StageMoves DEF Stage
<1>4. CASE WaitEnds
  <2>1. /\ pc = "waiting" /\ run.turns # <<>>
        /\ pc' \in {"streaming", "finalizing", "thrown"}
        /\ pc' # "streaming" => SamePlace
        /\ pc' = "streaming" =>
             run'.turns # <<>> /\ Current(run') = <<Current(run)[1], Current(run)[2] + 1>>
    BY <1>4, WaitStep DEF ChatInv, PlaceInv
  <2>2. CASE pc' # "streaming"
    BY <2>1, <2>2, StageMoves DEF Stage
  <2>3. CASE pc' = "streaming"
    <3>1. Stage = "waiting" /\ Stage' = "turn"
      BY <2>1, <2>3 DEF Stage
    <3>2. /\ run'.turns # <<>> /\ Len(run'.turns) = Len(run.turns)
          /\ Retries' = (Current(run)[2] + 1) - 1
      BY <2>1, <2>3 DEF Current, Retries
    <3>3. Current(run)[2] \in Nat
      BY <2>1, LastIsKnown DEF ChatInv, CoordinatorInv
    <3>4. Retries' = Retries + 1
      BY <3>2, <3>3 DEF Retries
    <3>. QED
      BY <2>1, <3>1, <3>2, <3>4 DEF Promise!Next, Promise!repetitionVars, Promise!Retry
  <2>. QED
    BY <2>2, <2>3
<1>5. CASE CallUnserved \/ BeginCall \/ ExecutorReturns \/ AfterExecution
  <2>1. /\ SamePlace \/ run'.turns = run.turns
        /\ pc \in {"serving", "executing", "executed"} /\ run.turns # <<>>
        /\ pc' \in {"serving", "executing", "executed", "finalizing", "thrown"}
    BY <1>5, UnservedStep, BeginCallStep, ExecutorStep, AfterStep DEF ChatInv, PlaceInv
  <2>. QED
    BY <2>1, StageMoves DEF Stage
<1>6. CASE AllServed
  <2>1. /\ pc = "serving" /\ run.turns # <<>>
        /\ pc' \in {"streaming", "thrown"} /\ (pc' = "thrown" => SamePlace)
        /\ pc' = "streaming" => run'.turns # <<>> /\ Current(run') = <<Len(run.turns) + 1, 1>>
    BY <1>6, AllServedStep DEF ChatInv, PlaceInv
  <2>2. CASE pc' = "thrown"
    BY <2>1, <2>2, StageMoves DEF Stage
  <2>3. CASE pc' = "streaming"
    <3>1. Stage = "serving" /\ Stage' = "turn"
      BY <2>1, <2>3 DEF Stage
    <3>2. run'.turns # <<>> /\ Len(run'.turns) = Len(run.turns) + 1 /\ Retries' = 0
      BY <2>1, <2>3 DEF Current, Retries
    <3>. QED
      BY <2>1, <3>1, <3>2 DEF Promise!Next, Promise!repetitionVars, Promise!NextTurn
  <2>. QED
    BY <2>1, <2>2, <2>3
<1>7. CASE Finalize \/ Abort
  <2>1. /\ SamePlace /\ run.turns # <<>>
        /\ \/ pc = "finalizing" /\ pc' \in {"returned", "thrown"}
           \/ pc' = pc
    BY <1>7, FinalizeStep, AbortStep DEF ChatInv, PlaceInv
  <2>. QED
    BY <2>1, StageMoves DEF Stage
<1>. QED
  BY <1>1, <1>2, <1>3, <1>4, <1>5, <1>6, <1>7 DEF CellNext, Own

\* Turns within the confirmed ceiling, attempts within the retry policy, and
\* no turn after the repetition has settled: a chat repetition is one of those
\* a batch was confirmed on, whatever provider and tools do.
THEOREM PromisesKeptHolds == CellSpec => PromisesKept
<1>1. CellInit => Promise!Init
  BY DEF CellInit, Init, NewRun, Stage, Promise!Init
<1>2. ChatInv /\ [CellNext]_cellVars => [Promise!Next]_(Promise!repetitionVars)
  <2>1. CASE UNCHANGED cellVars
    BY <2>1 DEF cellVars, Promise!repetitionVars, Stage, Retries, Current
  <2>. QED
    BY <2>1, PromiseSteps
<1>. QED
  BY <1>1, <1>2, AlwaysChatInv, PTL DEF CellSpec, PromisesKept, Promise!Spec

-----------------------------------------------------------------------------
(***************************************************************************)
(* Proofs about DecisionRun and DecisionCell, for any retry policy and any *)
(* times.                                                                  *)
(*                                                                         *)
(* The argument: every transition of decision-run.ts takes a well-formed   *)
(* run to one, and a well-formed run that has ended is what the trace      *)
(* format accepts.  The cell calls each only at the stage it is for.       *)
(***************************************************************************)

DecisionRuns == [status : DecisionStatuses, attempts : Seq(DecisionAttempts),
         error : Errors \cup {Unset},
         startedAt : Nat \cup {Unset}, endedAt : Nat \cup {Unset},
         stampedAt : Nat \cup {Unset}]

\* What an attempt holds is what its status says.
AttemptOK(a) ==
  /\ a.answered = (a.status = "completed")
  /\ (a.error # Unset) = (a.status = "failed")

\* Every attempt but the last failed.
AttemptsOK(r) ==
  /\ r.attempts # <<>>
  /\ \A i \in 1..Len(r.attempts) : AttemptOK(r.attempts[i])
  /\ \A i \in 1..Len(r.attempts) : i < Len(r.attempts) => r.attempts[i].status = "failed"

\* A run that has begun, at a time: it and its last attempt tell one story.
RunOK(r, at) ==
  /\ r \in DecisionRuns /\ AttemptsOK(r)
  /\ r.startedAt \in Nat /\ r.startedAt <= at
  /\ r.status # "not_started"
  /\ r.status = "paused" => Last(r).status = "failed" /\ r.error = Last(r).error
  /\ r.status # "paused" => Last(r).status = r.status
  /\ r.status = "failed" => r.error = Last(r).error
  /\ IsTerminalDecision(r) => /\ r.endedAt \in Nat /\ r.stampedAt = r.endedAt
                      /\ r.startedAt <= r.endedAt

-----------------------------------------------------------------------------
(* The transitions *)

LEMMA LastOK ==
  ASSUME NEW r \in DecisionRuns, r.attempts # <<>>
  PROVE  /\ Len(r.attempts) \in Nat \ {0} /\ Last(r) = r.attempts[Len(r.attempts)]
         /\ Last(r) \in DecisionAttempts
  BY DEF DecisionRuns, Last

\* Another last attempt leaves the others alone.
LEMMA WithLastOK ==
  ASSUME NEW r \in DecisionRuns, AttemptsOK(r), NEW a \in DecisionAttempts, AttemptOK(a)
  PROVE  /\ WithLast(r, a) \in DecisionRuns /\ AttemptsOK(WithLast(r, a))
         /\ Last(WithLast(r, a)) = a
         /\ WithLast(r, a).status = r.status /\ WithLast(r, a).error = r.error
         /\ WithLast(r, a).startedAt = r.startedAt /\ WithLast(r, a).endedAt = r.endedAt
         /\ WithLast(r, a).stampedAt = r.stampedAt
<1>. DEFINE n == Len(r.attempts)  as == [r.attempts EXCEPT ![n] = a]
<1>1. n \in Nat \ {0} /\ r.attempts \in Seq(DecisionAttempts)
  BY LastOK DEF AttemptsOK, DecisionRuns
<1>2. as \in Seq(DecisionAttempts) /\ Len(as) = n /\ as[n] = a
      /\ \A i \in 1..n : i # n => as[i] = r.attempts[i]
  BY <1>1
<1>3. WithLast(r, a) = [r EXCEPT !.attempts = as]
  BY DEF WithLast
<1>. HIDE DEF as, n
<1>4. /\ WithLast(r, a) \in DecisionRuns /\ WithLast(r, a).attempts = as
      /\ WithLast(r, a).status = r.status /\ WithLast(r, a).error = r.error
      /\ WithLast(r, a).startedAt = r.startedAt /\ WithLast(r, a).endedAt = r.endedAt
      /\ WithLast(r, a).stampedAt = r.stampedAt
  BY <1>2, <1>3 DEF DecisionRuns
<1>5. as # <<>>
  BY <1>1, <1>2
<1>6. AttemptsOK(WithLast(r, a))
  <2>. DEFINE w == WithLast(r, a)
  <2>1. w.attempts = as /\ Len(w.attempts) = n
    BY <1>2, <1>4
  <2>. HIDE DEF w
  <2>2. ASSUME NEW i \in 1..n
        PROVE  AttemptOK(as[i]) /\ (i < n => as[i].status = "failed")
    <3>1. AttemptOK(r.attempts[i]) /\ (i < n => r.attempts[i].status = "failed")
      BY DEF AttemptsOK, n
    <3>2. CASE i = n
      BY <3>2, <1>1, <1>2
    <3>3. CASE i # n
      BY <3>1, <3>3, <1>2
    <3>. QED  BY <3>2, <3>3
  <2>. QED  BY <1>5, <2>1, <2>2 DEF AttemptsOK, w
<1>. QED  BY <1>2, <1>4, <1>6 DEF Last

LEMMA BegunOK ==
  ASSUME NEW at \in Nat, NEW r, r = NewDecisionRun \/ (RunOK(r, at) /\ r.status = "paused")
  PROVE  RunOK(Begun(r, at), at) /\ Begun(r, at).status = "running"
<1>. DEFINE as == Append(r.attempts, NewDecisionAttempt)  n == Len(r.attempts)
<1>1. r \in DecisionRuns /\ r.attempts \in Seq(DecisionAttempts)
  <2>1. NewDecisionRun \in DecisionRuns
    <3>1. <<>> \in Seq(DecisionAttempts) /\ "not_started" \in DecisionStatuses
      BY DEF DecisionStatuses
    <3>. QED  BY <3>1 DEF NewDecisionRun, DecisionRuns
  <2>2. r \in DecisionRuns
    BY <2>1 DEF RunOK
  <2>. QED  BY <2>2 DEF DecisionRuns
<1>2. NewDecisionAttempt \in DecisionAttempts /\ AttemptOK(NewDecisionAttempt)
  BY DEF NewDecisionAttempt, DecisionAttempts, AttemptOK
<1>3. /\ as \in Seq(DecisionAttempts) /\ Len(as) = n + 1 /\ n \in Nat
      /\ as[n + 1] = NewDecisionAttempt /\ \A i \in 1..n : as[i] = r.attempts[i]
  <2>1. as \in Seq(DecisionAttempts) /\ Len(as) = n + 1 /\ n \in Nat
    BY <1>1, <1>2
  <2>2. as[n + 1] = NewDecisionAttempt
    BY <1>1, <1>2
  <2>3. \A i \in 1..n : as[i] = r.attempts[i]
    BY <1>1, <1>2
  <2>. QED  BY <2>1, <2>2, <2>3
<1>4. \A i \in 1..n : AttemptOK(r.attempts[i]) /\ r.attempts[i].status = "failed"
  <2>1. CASE r = NewDecisionRun
    BY <2>1 DEF NewDecisionRun
  <2>2. CASE RunOK(r, at) /\ r.status = "paused"
    BY <2>2, <1>1 DEF RunOK, AttemptsOK, Last
  <2>. QED  BY <2>1, <2>2
<1>5. r.startedAt = Unset \/ (r.startedAt \in Nat /\ r.startedAt <= at)
  BY DEF NewDecisionRun, RunOK
<1>. HIDE DEF as, n
<1>6. /\ Begun(r, at) \in DecisionRuns /\ Begun(r, at).attempts = as
      /\ Begun(r, at).status = "running"
      /\ Begun(r, at).startedAt \in Nat /\ Begun(r, at).startedAt <= at
  <2>1. Begun(r, at) = [r EXCEPT !.status = "running", !.attempts = as, !.error = Unset,
                                 !.startedAt = IF r.startedAt = Unset THEN at ELSE r.startedAt]
    BY <1>1 DEF Begun, as, DecisionRuns
  <2>2. "running" \in DecisionStatuses
        /\ (IF r.startedAt = Unset THEN at ELSE r.startedAt) \in Nat
        /\ (IF r.startedAt = Unset THEN at ELSE r.startedAt) <= at
    BY <1>5, UnsetAssumption DEF DecisionStatuses
  <2>. QED  BY <1>1, <1>3, <2>1, <2>2 DEF DecisionRuns
<1>7. AttemptsOK(Begun(r, at)) /\ Last(Begun(r, at)).status = "running"
  <2>1. \A i \in 1..n+1 : AttemptOK(as[i]) /\ (i < n + 1 => as[i].status = "failed")
    <3>. SUFFICES ASSUME NEW i \in 1..n+1
                  PROVE  AttemptOK(as[i]) /\ (i < n + 1 => as[i].status = "failed")
      OBVIOUS
    <3>0. i \in 1..n \/ i = n + 1
      BY <1>3
    <3>1. CASE i \in 1..n
      BY <3>1, <1>3, <1>4
    <3>2. CASE i = n + 1
      BY <3>2, <1>2, <1>3
    <3>. QED  BY <3>0, <3>1, <3>2
  <2>2. Last(Begun(r, at)) = NewDecisionAttempt
    BY <1>3, <1>6 DEF Last
  <2>3. as # <<>>
    <3>1. Len(as) \in Nat \ {0}
      BY <1>3
    <3>2. SUFFICES ASSUME as = <<>> PROVE FALSE
      OBVIOUS
    <3>3. Len(as) = 0
      BY <3>2
    <3>. QED  BY <3>1, <3>3
  <2>. DEFINE b == Begun(r, at)
  <2>4. b.attempts = as /\ Len(b.attempts) = n + 1
    BY <1>3, <1>6
  <2>. HIDE DEF b
  <2>5. AttemptsOK(b)
    BY <2>1, <2>3, <2>4 DEF AttemptsOK
  <2>. QED  BY <2>2, <2>5 DEF b, NewDecisionAttempt
<1>. QED  BY <1>6, <1>7 DEF RunOK, IsTerminalDecision, TerminalDecisions

LEMMA FailedOK ==
  ASSUME NEW at \in Nat, NEW r, RunOK(r, at), r.status = "running", NEW error \in Errors
  PROVE  LET f == FailedAttempt(r, error, at) IN
         RunOK(f, at) /\ f.status \in {"paused", "failed"}
<1>. DEFINE a == [Last(r) EXCEPT !.status = "failed", !.answered = FALSE, !.error = error]
            w == WithLast(r, a)
            f == FailedAttempt(r, error, at)
<1>1. r \in DecisionRuns /\ AttemptsOK(r) /\ Last(r) \in DecisionAttempts /\ error # Unset
  BY LastOK, UnsetAssumption DEF RunOK, AttemptsOK
<1>2. /\ a \in DecisionAttempts /\ AttemptOK(a) /\ a.status = "failed" /\ a.error = error
  BY <1>1 DEF DecisionAttempts, AttemptOK, TerminalDecisions
<1>. HIDE DEF a
<1>3. /\ w \in DecisionRuns /\ AttemptsOK(w) /\ Last(w) = a
      /\ w.startedAt \in Nat /\ w.startedAt <= at
  BY <1>1, <1>2, WithLastOK DEF RunOK
<1>4. \/ error.retryable /\ f = [w EXCEPT !.status = "paused", !.error = error]
      \/ ~ error.retryable /\ f = [w EXCEPT !.status = "failed", !.endedAt = at,
                                            !.stampedAt = at, !.error = error]
  BY <1>3 DEF FailedAttempt, Ended, DecisionRuns, a
<1>. HIDE DEF w, f
<1>5. /\ f \in DecisionRuns /\ f.attempts = w.attempts /\ f.startedAt = w.startedAt
      /\ f.error = error /\ f.status \in {"paused", "failed"}
      /\ f.status = "failed" => f.endedAt = at /\ f.stampedAt = at
  BY <1>3, <1>4 DEF DecisionRuns, DecisionStatuses, TerminalDecisions
<1>6. AttemptsOK(f) /\ Last(f) = a
  BY <1>3, <1>5 DEF AttemptsOK, Last
<1>. QED
  BY <1>2, <1>3, <1>5, <1>6 DEF RunOK, IsTerminalDecision, TerminalDecisions, f

\* The two ends an attempt reaches without an error.
LEMMA EndedOK ==
  ASSUME NEW at \in Nat, NEW r, RunOK(r, at), r.status = "running",
         NEW status \in {"completed", "cancelled"}, NEW a \in DecisionAttempts, AttemptOK(a),
         a.status = status
  PROVE  LET e == Ended(WithLast(r, a), status, at) IN RunOK(e, at) /\ e.status = status
<1>. DEFINE w == WithLast(r, a)  e == Ended(w, status, at)
<1>1. /\ w \in DecisionRuns /\ AttemptsOK(w) /\ Last(w) = a
      /\ w.startedAt \in Nat /\ w.startedAt <= at
  BY WithLastOK DEF RunOK
<1>. HIDE DEF w
<1>2. /\ e \in DecisionRuns /\ e.attempts = w.attempts /\ e.startedAt = w.startedAt
      /\ e.status = status /\ e.endedAt = at /\ e.stampedAt = at
  BY <1>1 DEF Ended, DecisionRuns, DecisionStatuses, TerminalDecisions
<1>. HIDE DEF e
<1>3. AttemptsOK(e) /\ Last(e) = a
  BY <1>1, <1>2 DEF AttemptsOK, Last
<1>4. RunOK(e, at) /\ e.status = status
  BY <1>1, <1>2, <1>3 DEF RunOK, IsTerminalDecision
<1>. QED  BY <1>4 DEF e, w

LEMMA CompletedOK ==
  ASSUME NEW at \in Nat, NEW r, RunOK(r, at), r.status = "running"
  PROVE  RunOK(CompletedAttempt(r, at), at) /\ CompletedAttempt(r, at).status = "completed"
<1>. DEFINE a == [Last(r) EXCEPT !.status = "completed", !.answered = TRUE]
<1>1. Last(r) \in DecisionAttempts /\ Last(r).status = "running" /\ AttemptOK(Last(r))
  BY LastOK DEF RunOK, AttemptsOK
<1>2. a \in DecisionAttempts /\ AttemptOK(a) /\ a.status = "completed"
  BY <1>1 DEF DecisionAttempts, AttemptOK, TerminalDecisions
<1>. QED  BY <1>2, EndedOK DEF CompletedAttempt

LEMMA CancelledOK ==
  ASSUME NEW at \in Nat, NEW r, RunOK(r, at), r.status = "running"
  PROVE  RunOK(CancelledAttempt(r, at), at) /\ CancelledAttempt(r, at).status = "cancelled"
<1>. DEFINE a == [Last(r) EXCEPT !.status = "cancelled"]
<1>1. Last(r) \in DecisionAttempts /\ Last(r).status = "running" /\ AttemptOK(Last(r))
  BY LastOK DEF RunOK, AttemptsOK
<1>2. a \in DecisionAttempts /\ AttemptOK(a) /\ a.status = "cancelled"
  BY <1>1 DEF DecisionAttempts, AttemptOK, TerminalDecisions
<1>. QED  BY <1>2, EndedOK DEF CancelledAttempt

\* Whatever a host sends to a running attempt.
LEMMA AppliedOK ==
  ASSUME NEW at \in Nat, NEW r, RunOK(r, at), r.status = "running", NEW e \in HostEvents
  PROVE  RunOK(Applied(r, e, at), at)
<1>1. CASE e.type = "failed"
  <2>1. e.error \in Errors
    BY <1>1 DEF HostEvents
  <2>. QED  BY <1>1, <2>1, FailedOK DEF Applied
<1>2. CASE e.type = "completed"
  BY <1>2, CompletedOK DEF Applied
<1>3. CASE e.type = "cancelled"
  BY <1>3, CancelledOK DEF Applied
<1>4. CASE e.type = "frame" /\ Last(r).frames > 0
  <2>1. ProtocolError \in Errors
    BY DEF ProtocolError, Errors
  <2>. QED  BY <1>4, <2>1, FailedOK DEF Applied
<1>5. CASE e.type = "frame" /\ ~ (Last(r).frames > 0)
  <2>. DEFINE a == [Last(r) EXCEPT !.frames = 1]  w == WithLast(r, a)
  <2>1. r \in DecisionRuns /\ AttemptsOK(r) /\ Last(r) \in DecisionAttempts /\ AttemptOK(Last(r))
        /\ Last(r).status = "running"
    BY LastOK DEF RunOK, AttemptsOK
  <2>2. a \in DecisionAttempts /\ AttemptOK(a) /\ a.status = "running"
    BY <2>1 DEF DecisionAttempts, AttemptOK
  <2>3. Applied(r, e, at) = w
    BY <1>5 DEF Applied
  <2>. HIDE DEF a
  <2>4. /\ w \in DecisionRuns /\ AttemptsOK(w) /\ Last(w) = a /\ w.status = "running"
        /\ w.startedAt = r.startedAt
    BY <2>1, <2>2, WithLastOK
  <2>. HIDE DEF w
  <2>5. RunOK(w, at)
    BY <2>2, <2>4 DEF RunOK, IsTerminalDecision, TerminalDecisions
  <2>. QED  BY <2>3, <2>5
<1>6. CASE e.type \in {"request", "response_started"}
  BY <1>6 DEF Applied
<1>7. e.type \in {"request", "response_started", "frame", "completed", "cancelled", "failed"}
  BY DEF HostEvents
<1>. QED  BY <1>1, <1>2, <1>3, <1>4, <1>5, <1>6, <1>7

LEMMA StoppedOK ==
  ASSUME NEW at \in Nat, NEW r, RunOK(r, at)
  PROVE  RunOK(Stopped(r, at), at) /\ IsTerminalDecision(Stopped(r, at))
<1>1. CASE r.status = "running"
  BY <1>1, CancelledOK DEF Stopped, IsTerminalDecision, TerminalDecisions
<1>2. CASE r.status = "paused"
  <2>. DEFINE e == Ended(r, "failed", at)
  <2>1. /\ e \in DecisionRuns /\ e.attempts = r.attempts /\ e.startedAt = r.startedAt
        /\ e.status = "failed" /\ e.endedAt = at /\ e.stampedAt = at /\ e.error = r.error
    BY DEF RunOK, Ended, DecisionRuns, DecisionStatuses, TerminalDecisions
  <2>2. Stopped(r, at) = e
    BY <1>2 DEF Stopped
  <2>. HIDE DEF e
  <2>3. AttemptsOK(e) /\ Last(e) = Last(r)
    BY <2>1 DEF RunOK, AttemptsOK, Last
  <2>. QED  BY <1>2, <2>1, <2>2, <2>3 DEF RunOK, IsTerminalDecision, TerminalDecisions
<1>3. CASE IsTerminalDecision(r)
  BY <1>3 DEF Stopped, IsTerminalDecision, TerminalDecisions
<1>4. r.status \in {"running", "paused"} \/ IsTerminalDecision(r)
  BY DEF RunOK, DecisionRuns, DecisionStatuses, IsTerminalDecision
<1>. QED  BY <1>1, <1>2, <1>3, <1>4
-----------------------------------------------------------------------------
(* The cell *)

CellInv ==
  /\ clock \in 0..MaxClock /\ signalled \in BOOLEAN
  /\ place \in {"new", "driving", "cut", "settled", "waiting", "ending", "returned"}
  /\ IF place = "new" THEN decision = NewDecisionRun ELSE RunOK(decision, clock)
  /\ place \in {"driving", "cut"} => decision.status = "running"
  /\ place = "waiting" => decision.status = "paused"
  /\ place \in {"settled", "ending"} => decision.status = "paused" \/ IsTerminalDecision(decision)
  /\ place = "returned" => IsTerminalDecision(decision)

\* A run that is well-formed at a time is so later.
LEMMA LaterOK ==
  ASSUME NEW at \in Nat, NEW later \in Nat, at <= later, NEW r, RunOK(r, at)
  PROVE  RunOK(r, later)
<1>1. r.startedAt \in Nat /\ r.startedAt <= later
  BY DEF RunOK
<1>. QED  BY <1>1 DEF RunOK

\* What the driver makes of the run it drives, whatever the host does.
LEMMA DrivesOK ==
  ASSUME CellInv, NEW next, Drives(next), RunOK(next, clock)
  PROVE  CellInv'
<1>1. CASE signalled
  BY <1>1 DEF Drives, CellInv
<1>2. CASE ~ signalled
  <2>1. next.status \in {"running", "paused"} \/ IsTerminalDecision(next)
    BY DEF RunOK, DecisionRuns, DecisionStatuses, IsTerminalDecision
  <2>2. decision' = next /\ clock' = clock /\ signalled' = signalled
        /\ place' = IF next.status = "running" THEN "driving" ELSE "settled"
    BY <1>2 DEF Drives
  <2>. QED  BY <2>1, <2>2 DEF CellInv
<1>. QED  BY <1>1, <1>2

LEMMA InitCell == DecisionInit => CellInv
<1>1. DecisionInit => signalled \in BOOLEAN
  BY Zenon DEF DecisionInit
<1>. QED  BY <1>1, DecisionCellAssumption DEF DecisionInit, CellInv

LEMMA NextCell ==
  ASSUME ~ ClockSteps, CellInv, [DecisionNext]_decisionVars
  PROVE  CellInv'
<1>0. clock \in Nat /\ MaxClock \in Nat
  BY DecisionCellAssumption DEF CellInv
<1>1. CASE UNCHANGED decisionVars
  BY <1>1 DEF decisionVars, CellInv, IsTerminalDecision
<1>2. CASE Tick
  <2>1. clock' \in Nat /\ clock <= clock' /\ UNCHANGED <<decision, place, signalled>>
        /\ clock' \in 0..MaxClock
    BY <1>0, <1>2 DEF Tick, CellInv
  <2>2. place # "new" => RunOK(decision', clock')
    BY <1>0, <2>1, LaterOK DEF CellInv
  <2>. QED  BY <2>1, <2>2 DEF CellInv, IsTerminalDecision
<1>3. CASE AbortDecision
  BY <1>3 DEF AbortDecision, CellInv, IsTerminalDecision
<1>4. CASE Begin
  <2>1. decision = NewDecisionRun /\ RunOK(decision', clock) /\ decision'.status = "running"
    BY <1>0, <1>4, BegunOK DEF Begin, CellInv
  <2>. QED  BY <1>4, <2>1 DEF Begin, CellInv
<1>5. CASE Host
  <2>1. CASE HostSends
    <3>1. PICK e \in HostEvents : Drives(Applied(decision, e, clock))
      BY <2>1 DEF HostSends
    <3>2. RunOK(Applied(decision, e, clock), clock)
      BY <1>0, <3>1, AppliedOK DEF Drives, CellInv
    <3>. QED  BY <3>1, <3>2, DrivesOK
  <2>2. CASE DecisionStreamEnds
    <3>1. ProtocolError \in Errors
      BY DEF ProtocolError, Errors
    <3>2. RunOK(FinishedStream(decision, clock), clock)
      BY <1>0, <2>2, <3>1, FailedOK DEF DecisionStreamEnds, Drives, CellInv, FinishedStream
    <3>. QED  BY <2>2, <3>2, DrivesOK DEF DecisionStreamEnds
  <2>3. CASE HostBreaks
    <3>1. PICK error \in ThrownErrors : Drives(FailedAttempt(decision, error, clock))
      BY <2>3 DEF HostBreaks
    <3>2. error \in Errors
      BY DEF ThrownErrors, Errors
    <3>3. RunOK(FailedAttempt(decision, error, clock), clock)
      BY <1>0, <3>1, <3>2, FailedOK DEF Drives, CellInv
    <3>. QED  BY <3>1, <3>3, DrivesOK
  <2>. QED  BY <1>5, <2>1, <2>2, <2>3 DEF Host
<1>6. CASE Cut
  <2>1. /\ decision' = CancelledAttempt(decision, clock)
        /\ decision.status = "running" /\ RunOK(decision, clock)
    BY <1>6 DEF Cut, CellInv, Applied
  <2>2. RunOK(decision', clock) /\ IsTerminalDecision(decision')
    BY <1>0, <2>1, CancelledOK DEF IsTerminalDecision, TerminalDecisions
  <2>. QED  BY <1>6, <2>2 DEF Cut, CellInv, IsTerminalDecision
<1>7. CASE DecisionSettled
  BY <1>7 DEF DecisionSettled, CellInv, DecisionRetryAllowed, IsTerminalDecision
<1>8. CASE DecisionWaitEnds
  <2>1. CASE signalled
    BY <1>8, <2>1 DEF DecisionWaitEnds, CellInv
  <2>2. CASE ~ signalled
    <3>1. RunOK(decision', clock) /\ decision'.status = "running"
      BY <1>0, <1>8, <2>2, BegunOK DEF DecisionWaitEnds, CellInv
    <3>. QED  BY <1>8, <2>2, <3>1 DEF DecisionWaitEnds, CellInv
  <2>. QED  BY <2>1, <2>2
<1>9. CASE Return
  <2>1. RunOK(decision', clock) /\ IsTerminalDecision(decision')
    <3>1. CASE decision.status = "paused"
      BY <1>0, <1>9, <3>1, StoppedOK DEF Return, CellInv
    <3>2. CASE decision.status # "paused"
      BY <1>9, <3>2 DEF Return, CellInv
    <3>. QED  BY <3>1, <3>2
  <2>. QED  BY <1>9, <2>1 DEF Return, CellInv, IsTerminalDecision
<1>. QED
  BY <1>1, <1>2, <1>3, <1>4, <1>5, <1>6, <1>7, <1>8, <1>9 DEF DecisionNext, DecisionOwn

\* A well-formed run that has ended is what the trace format accepts.
LEMMA EndedIsSaveable ==
  ASSUME NEW at, NEW r, RunOK(r, at), IsTerminalDecision(r)
  PROVE  Saveable(r)
<1>1. /\ r \in DecisionRuns /\ AttemptsOK(r) /\ Last(r).status = r.status
      /\ Len(r.attempts) \in Nat \ {0} /\ Last(r) = r.attempts[Len(r.attempts)]
      /\ \A i \in 1..Len(r.attempts) : r.attempts[i] \in DecisionAttempts
  BY LastOK DEF RunOK, AttemptsOK, IsTerminalDecision, TerminalDecisions, DecisionRuns
<1>2. ASSUME NEW i \in 1..Len(r.attempts)
      PROVE  LET a == r.attempts[i] IN
             /\ a.status # "running" /\ (i < Len(r.attempts) => a.status = "failed")
             /\ AttemptOK(a) /\ a.frames <= 1
  <2>1. r.attempts[i].frames <= 1
    BY <1>1 DEF DecisionAttempts
  <2>2. i < Len(r.attempts) \/ i = Len(r.attempts)
    BY <1>1
  <2>. QED  BY <1>1, <2>1, <2>2 DEF AttemptsOK, IsTerminalDecision, TerminalDecisions
<1>3. AttemptsSaveable(r)
  <2>1. DOMAIN r.attempts = 1..Len(r.attempts)
    BY <1>1 DEF DecisionRuns
  <2>. QED  BY <1>1, <1>2, <2>1 DEF AttemptsSaveable, AttemptsOK, AttemptOK
<1>. QED
  BY <1>1, <1>3, UnsetAssumption DEF Saveable, StatusSaveable, RunOK

-----------------------------------------------------------------------------

\* As long as the clock is never set back, whatever the host sends, breaks or
\* withholds and whenever the batch stops, a repetition that has returned is a
\* run of which a trace can be saved.
THEOREM EndsSaveableHolds ==
  ASSUME ~ ClockSteps
  PROVE  DecisionSpec => []EndsSaveable
<1>1. CellInv /\ [DecisionNext]_decisionVars => CellInv'
  BY NextCell
<1>2. CellInv => DecisionTypeOK
  <2>1. CASE CellInv /\ place = "new"
    BY <2>1 DEF CellInv, DecisionTypeOK, NewDecisionRun, DecisionStatuses
  <2>2. CASE CellInv /\ place # "new"
    <3>1. decision.status \in DecisionStatuses /\ decision.attempts \in Seq(DecisionAttempts)
      BY <2>2 DEF CellInv, RunOK, DecisionRuns
    <3>. QED  BY <2>2, <3>1 DEF CellInv, DecisionTypeOK
  <2>. QED  BY <2>1, <2>2
<1>3. CellInv => (place = "returned" => Saveable(decision))
  BY EndedIsSaveable DEF CellInv
<1>. QED  BY InitCell, <1>1, <1>2, <1>3, PTL DEF DecisionSpec, EndsSaveable

\* The outcome of a decision is final.
THEOREM OutcomeIsFinalHolds ==
  ASSUME ~ ClockSteps
  PROVE  DecisionSpec => OutcomeIsFinal
<1>1. CellInv /\ [DecisionNext]_decisionVars => CellInv'
  BY NextCell
<1>2. ASSUME CellInv, DecisionNext, IsTerminalDecision(decision)
      PROVE  UNCHANGED decision
  <2>1. place \notin {"new", "driving", "cut", "waiting"} /\ decision.status # "paused"
    BY <1>2 DEF CellInv, IsTerminalDecision, TerminalDecisions, NewDecisionRun
  <2>2. CASE Tick \/ AbortDecision
    BY <2>2 DEF Tick, AbortDecision
  <2>3. CASE Host
    BY <2>1, <2>3 DEF Host, HostSends, DecisionStreamEnds, HostBreaks, Drives
  <2>4. CASE DecisionOwn
    BY <2>1, <2>4 DEF DecisionOwn, Begin, Cut, DecisionSettled, DecisionWaitEnds, Return
  <2>. QED  BY <1>2, <2>2, <2>3, <2>4 DEF DecisionNext
<1>3. CellInv /\ [DecisionNext]_decisionVars
        => [IsTerminalDecision(decision) => UNCHANGED decision]_decisionVars
  BY <1>2 DEF decisionVars
<1>. QED  BY InitCell, <1>1, <1>3, PTL DEF DecisionSpec, OutcomeIsFinal

-----------------------------------------------------------------------------
(* The repetition keeps its promise, step by step, whatever the clock does *)

\* The same attempts, of which the last may hold more.
SameAttempts(r, s) == s \in DecisionRuns /\ Len(s.attempts) = Len(r.attempts) /\ s.attempts # <<>>

LEMMA WithLastSame ==
  ASSUME NEW r \in DecisionRuns, r.attempts # <<>>, NEW a \in DecisionAttempts
  PROVE  SameAttempts(r, WithLast(r, a))
<1>. DEFINE n == Len(r.attempts)  as == [r.attempts EXCEPT ![n] = a]
<1>1. n \in Nat \ {0} /\ r.attempts \in Seq(DecisionAttempts)
  BY LastOK DEF DecisionRuns
<1>2. as \in Seq(DecisionAttempts) /\ Len(as) = n /\ as # <<>>
  BY <1>1
<1>3. WithLast(r, a) = [r EXCEPT !.attempts = as]
  BY DEF WithLast
<1>. HIDE DEF as, n
<1>4. WithLast(r, a) \in DecisionRuns /\ WithLast(r, a).attempts = as
  BY <1>2, <1>3 DEF DecisionRuns
<1>. QED  BY <1>2, <1>4 DEF SameAttempts, n

LEMMA EndedSame ==
  ASSUME NEW r, NEW s, SameAttempts(r, s), NEW at \in Nat,
         NEW status \in {"completed", "failed", "cancelled"}
  PROVE  SameAttempts(r, Ended(s, status, at))
BY DEF SameAttempts, Ended, DecisionRuns, DecisionStatuses, TerminalDecisions

LEMMA FailedSame ==
  ASSUME NEW r \in DecisionRuns, r.attempts # <<>>, NEW error \in Errors, NEW at \in Nat
  PROVE  SameAttempts(r, FailedAttempt(r, error, at))
<1>. DEFINE a == [Last(r) EXCEPT !.status = "failed", !.answered = FALSE, !.error = error]
            w == WithLast(r, a)
<1>1. a \in DecisionAttempts
  BY LastOK DEF DecisionAttempts, TerminalDecisions
<1>2. SameAttempts(r, w) /\ SameAttempts(r, Ended(w, "failed", at))
  BY <1>1, WithLastSame, EndedSame
<1>3. FailedAttempt(r, error, at) = IF error.retryable
                                    THEN [w EXCEPT !.status = "paused", !.error = error]
                                    ELSE [Ended(w, "failed", at) EXCEPT !.error = error]
  BY DEF FailedAttempt
<1>. HIDE DEF w
<1>4. ASSUME NEW s, SameAttempts(r, s)
      PROVE  /\ SameAttempts(r, [s EXCEPT !.error = error])
             /\ SameAttempts(r, [s EXCEPT !.status = "paused", !.error = error])
  BY <1>4 DEF SameAttempts, DecisionRuns, DecisionStatuses
<1>. QED  BY <1>2, <1>3, <1>4

LEMMA AppliedSame ==
  ASSUME NEW r \in DecisionRuns, r.attempts # <<>>, NEW e \in HostEvents, NEW at \in Nat
  PROVE  SameAttempts(r, Applied(r, e, at))
<1>1. Last(r) \in DecisionAttempts
  BY LastOK
<1>2. /\ [Last(r) EXCEPT !.frames = 1] \in DecisionAttempts
      /\ [Last(r) EXCEPT !.status = "cancelled"] \in DecisionAttempts
      /\ [Last(r) EXCEPT !.status = "completed", !.answered = TRUE] \in DecisionAttempts
  BY <1>1 DEF DecisionAttempts, TerminalDecisions
<1>3. CASE e.type = "frame"
  <2>1. ProtocolError \in Errors
    BY DEF ProtocolError, Errors
  <2>. QED  BY <1>2, <1>3, <2>1, WithLastSame, FailedSame DEF Applied
<1>4. CASE e.type = "completed"
  BY <1>2, <1>4, WithLastSame, EndedSame DEF Applied, CompletedAttempt
<1>5. CASE e.type = "cancelled"
  BY <1>2, <1>5, WithLastSame, EndedSame DEF Applied, CancelledAttempt
<1>6. CASE e.type = "failed"
  BY <1>6, FailedSame DEF Applied, HostEvents
<1>7. CASE e.type \notin {"frame", "completed", "cancelled", "failed"}
  BY <1>7 DEF Applied, SameAttempts
<1>. QED  BY <1>3, <1>4, <1>5, <1>6, <1>7

LEMMA StoppedSame ==
  ASSUME NEW r \in DecisionRuns, r.attempts # <<>>, NEW at \in Nat
  PROVE  SameAttempts(r, Stopped(r, at)) /\ SameAttempts(r, CancelledAttempt(r, at))
<1>1. [Last(r) EXCEPT !.status = "cancelled"] \in DecisionAttempts
  BY LastOK DEF DecisionAttempts, TerminalDecisions
<1>2. SameAttempts(r, CancelledAttempt(r, at))
  BY <1>1, WithLastSame, EndedSame DEF CancelledAttempt
<1>3. SameAttempts(r, r)
  BY DEF SameAttempts
<1>. QED  BY <1>2, <1>3, EndedSame DEF Stopped

LEMMA BegunLonger ==
  ASSUME NEW r \in DecisionRuns, NEW at \in Nat
  PROVE  /\ Begun(r, at) \in DecisionRuns /\ Begun(r, at).attempts # <<>>
         /\ Len(Begun(r, at).attempts) = Len(r.attempts) + 1
<1>. DEFINE as == Append(r.attempts, NewDecisionAttempt)
<1>1. NewDecisionAttempt \in DecisionAttempts /\ r.attempts \in Seq(DecisionAttempts)
  BY DEF NewDecisionAttempt, DecisionAttempts, DecisionRuns
<1>2. as \in Seq(DecisionAttempts) /\ Len(as) = Len(r.attempts) + 1 /\ as # <<>>
  BY <1>1
<1>. HIDE DEF as
<1>3. Begun(r, at) = [r EXCEPT !.status = "running", !.attempts = as, !.error = Unset,
                               !.startedAt = IF r.startedAt = Unset THEN at ELSE r.startedAt]
  BY DEF Begun, as, DecisionRuns
<1>4. Begun(r, at) \in DecisionRuns /\ Begun(r, at).attempts = as
  BY <1>2, <1>3 DEF DecisionRuns, DecisionStatuses
<1>. QED  BY <1>2, <1>4

\* The run of a cell that has started has an attempt, and keeps its type.
DecisionTurnInv ==
  /\ clock \in Nat
  /\ decision \in DecisionRuns
  /\ IF place = "new" THEN decision.attempts = <<>> ELSE decision.attempts # <<>>

LEMMA DecisionTurnBegins ==
  ASSUME DecisionInit
  PROVE  DecisionTurnInv /\ DecisionPromise!Init
<1>1. NewDecisionRun \in DecisionRuns
  <2>1. <<>> \in Seq(DecisionAttempts) /\ "not_started" \in DecisionStatuses
    BY DEF DecisionStatuses
  <2>. QED  BY <2>1 DEF NewDecisionRun, DecisionRuns
<1>. QED  BY <1>1 DEF DecisionInit, DecisionTurnInv, NewDecisionRun, DecisionPromise!Init, DecisionStage

\* A step that begins no attempt moves from stage to stage.
LEMMA DecisionStageMoves ==
  ASSUME DecisionTurnInv, place # "new", place' # "new", clock' \in Nat,
         SameAttempts(decision, decision'),
         \/ DecisionStage' = DecisionStage
         \/ /\ DecisionStage = "turn" /\ DecisionRetries < MaxDecisionRetries
            /\ DecisionStage' = "waiting"
         \/ DecisionStage \in {"turn", "waiting"} /\ DecisionStage' = "ending"
         \/ DecisionStage = "ending" /\ DecisionStage' = "settled"
  PROVE  DecisionTurnInv' /\ [DecisionPromise!Next]_(DecisionPromise!repetitionVars)
<1>1. /\ decision.attempts # <<>> /\ decision'.attempts # <<>> /\ decision' \in DecisionRuns
      /\ Len(decision'.attempts) = Len(decision.attempts) /\ DecisionRetries' = DecisionRetries
  BY DEF DecisionTurnInv, SameAttempts, DecisionRetries
<1>2. DecisionTurnInv'
  BY <1>1 DEF DecisionTurnInv
<1>3. [DecisionPromise!Next]_(DecisionPromise!repetitionVars)
  BY <1>1 DEF DecisionPromise!Next, DecisionPromise!repetitionVars, DecisionPromise!Wait,
              DecisionPromise!End, DecisionPromise!Settle
<1>. QED  BY <1>2, <1>3

LEMMA TurnSteps ==
  ASSUME DecisionTurnInv, [DecisionNext]_decisionVars
  PROVE  DecisionTurnInv' /\ [DecisionPromise!Next]_(DecisionPromise!repetitionVars)
<1>0. clock \in Nat /\ decision \in DecisionRuns /\ MaxClock \in Nat
  BY DecisionCellAssumption DEF DecisionTurnInv
<1>1. CASE UNCHANGED <<decision, place>> /\ clock' \in Nat
  BY <1>0, <1>1 DEF DecisionTurnInv, DecisionPromise!repetitionVars, DecisionStage, DecisionRetries
<1>2. CASE UNCHANGED decisionVars \/ Tick \/ AbortDecision
  <2>1. UNCHANGED <<decision, place>> /\ clock' \in Nat
    BY <1>0, <1>2 DEF decisionVars, Tick, AbortDecision
  <2>. QED  BY <2>1, <1>1
<1>3. CASE Begin
  <2>1. /\ place = "new" /\ place' = "driving" /\ clock' = clock /\ decision.attempts = <<>>
        /\ decision' \in DecisionRuns /\ decision'.attempts # <<>> /\ Len(decision'.attempts) = 1
    <3>1. place = "new" /\ place' = "driving" /\ clock' = clock /\ decision' = Begun(decision, clock)
      BY <1>3 DEF Begin
    <3>2. decision.attempts = <<>>
      BY <3>1 DEF DecisionTurnInv
    <3>3. /\ decision' \in DecisionRuns /\ decision'.attempts # <<>>
          /\ Len(decision'.attempts) = Len(decision.attempts) + 1
      BY <1>0, <3>1, BegunLonger
    <3>4. Len(decision.attempts) = 0
      BY <3>2
    <3>. QED  BY <3>1, <3>2, <3>3, <3>4
  <2>2. DecisionTurnInv'
    BY <1>0, <2>1 DEF DecisionTurnInv
  <2>3. DecisionPromise!Begin
    BY <2>1 DEF DecisionPromise!Begin, DecisionStage, DecisionRetries
  <2>. QED  BY <2>2, <2>3 DEF DecisionPromise!Next
<1>4. ASSUME NEW next, Drives(next), SameAttempts(decision, next)
      PROVE  DecisionTurnInv' /\ [DecisionPromise!Next]_(DecisionPromise!repetitionVars)
  <2>1. /\ place = "driving" /\ place' \in {"cut", "driving", "settled"} /\ clock' = clock
        /\ decision' = next \/ decision' = decision
    BY <1>4 DEF Drives
  <2>2. SameAttempts(decision, decision')
    BY <1>0, <1>4, <2>1 DEF SameAttempts, DecisionTurnInv
  <2>. QED  BY <1>0, <2>1, <2>2, DecisionStageMoves DEF DecisionStage
<1>5. CASE Host
  <2>1. place = "driving" /\ decision.attempts # <<>>
    BY <1>5 DEF Host, HostSends, DecisionStreamEnds, HostBreaks, Drives, DecisionTurnInv
  <2>2. CASE HostSends
    <3>1. PICK e \in HostEvents : Drives(Applied(decision, e, clock))
      BY <2>2 DEF HostSends
    <3>2. SameAttempts(decision, Applied(decision, e, clock))
      BY <1>0, <2>1, AppliedSame
    <3>. QED  BY <3>1, <3>2, <1>4
  <2>3. CASE DecisionStreamEnds
    <3>1. ProtocolError \in Errors /\ SameAttempts(decision, decision)
      BY <1>0, <2>1 DEF ProtocolError, Errors, SameAttempts
    <3>2. SameAttempts(decision, FinishedStream(decision, clock))
      BY <1>0, <2>1, <3>1, FailedSame DEF FinishedStream
    <3>. QED  BY <2>3, <3>2, <1>4 DEF DecisionStreamEnds
  <2>4. CASE HostBreaks
    <3>1. PICK error \in ThrownErrors : Drives(FailedAttempt(decision, error, clock))
      BY <2>4 DEF HostBreaks
    <3>2. error \in Errors
      BY DEF ThrownErrors, Errors
    <3>3. SameAttempts(decision, FailedAttempt(decision, error, clock))
      BY <1>0, <2>1, <3>2, FailedSame
    <3>. QED  BY <3>1, <3>3, <1>4
  <2>. QED  BY <1>5, <2>2, <2>3, <2>4 DEF Host
<1>6. CASE Cut \/ Return
  <2>1. /\ clock' = clock /\ decision.attempts # <<>>
        /\ \/ place = "cut" /\ place' = "ending"
           \/ place = "ending" /\ place' = "returned"
    BY <1>6 DEF Cut, Return, DecisionTurnInv
  <2>2. SameAttempts(decision, decision')
    <3>1. [type |-> "cancelled"] \in HostEvents
      BY DEF HostEvents
    <3>2. /\ SameAttempts(decision, Applied(decision, [type |-> "cancelled"], clock))
          /\ SameAttempts(decision, Stopped(decision, clock)) /\ SameAttempts(decision, decision)
      BY <1>0, <2>1, <3>1, AppliedSame, StoppedSame DEF SameAttempts
    <3>. QED  BY <1>6, <3>2 DEF Cut, Return
  <2>. QED  BY <1>0, <2>1, <2>2, DecisionStageMoves DEF DecisionStage
<1>7. CASE DecisionSettled
  <2>1. /\ place = "settled" /\ decision' = decision /\ clock' = clock /\ decision.attempts # <<>>
        /\ \/ place' = "waiting" /\ DecisionRetries < MaxDecisionRetries
           \/ place' = "ending"
    BY <1>7 DEF DecisionSettled, DecisionRetryAllowed, DecisionTurnInv
  <2>2. SameAttempts(decision, decision')
    BY <1>0, <2>1 DEF SameAttempts
  <2>. QED  BY <1>0, <2>1, <2>2, DecisionStageMoves DEF DecisionStage
<1>8. CASE DecisionWaitEnds
  <2>1. place = "waiting" /\ clock' = clock /\ decision.attempts # <<>>
    BY <1>8 DEF DecisionWaitEnds, DecisionTurnInv
  <2>2. CASE place' = "ending" /\ decision' = decision
    <3>1. SameAttempts(decision, decision')
      BY <1>0, <2>1, <2>2 DEF SameAttempts
    <3>. QED  BY <1>0, <2>1, <2>2, <3>1, DecisionStageMoves DEF DecisionStage
  <2>3. CASE place' = "driving" /\ decision' = Begun(decision, clock)
    <3>1. /\ decision' \in DecisionRuns /\ decision'.attempts # <<>>
          /\ Len(decision'.attempts) = Len(decision.attempts) + 1 /\ Len(decision.attempts) \in Nat
      BY <1>0, <2>3, BegunLonger DEF DecisionRuns
    <3>2. DecisionTurnInv'
      BY <1>0, <2>1, <2>3, <3>1 DEF DecisionTurnInv
    <3>3. DecisionPromise!Retry
      BY <2>1, <2>3, <3>1 DEF DecisionPromise!Retry, DecisionStage, DecisionRetries
    <3>. QED  BY <3>2, <3>3 DEF DecisionPromise!Next
  <2>. QED  BY <1>8, <2>2, <2>3 DEF DecisionWaitEnds
<1>. QED
  BY <1>2, <1>3, <1>5, <1>6, <1>7, <1>8 DEF DecisionNext, DecisionOwn

\* One turn, attempts within the retry policy, and nothing after it has
\* settled: a decision repetition is one of those a batch was confirmed on.
THEOREM KeepsPromiseHolds == DecisionSpec => KeepsPromise
<1>1. DecisionTurnInv /\ [DecisionNext]_decisionVars => DecisionTurnInv'
  BY TurnSteps
<1>2. DecisionTurnInv /\ [DecisionNext]_decisionVars => [DecisionPromise!Next]_(DecisionPromise!repetitionVars)
  BY TurnSteps
<1>. QED
  BY DecisionTurnBegins, <1>1, <1>2, PTL DEF DecisionSpec, KeepsPromise, DecisionPromise!Spec

-----------------------------------------------------------------------------
(***************************************************************************)
(* Proofs about ToolResourceLocks, for any set of resources and any number *)
(* of calls.                                                               *)
(*                                                                         *)
(* The argument is about the chain.  A call's promise is followed directly *)
(* by the next call on its resource that found it open; everything between *)
(* the two had been released by then.  So when the promise a call awaits   *)
(* has resolved, no earlier call on its resource is open.                  *)
(***************************************************************************)

\* A call follows one that asked before it, and those between are released.
Linked ==
  \A c, d \in Asked :
    /\ calls[c].previous < c
    /\ calls[d].resource = calls[c].resource /\ calls[c].previous < d /\ d < c => ~ OpenCall(d)
    /\ calls[c].previous = d => calls[d].resource = calls[c].resource

\* While a call is open, those that asked after it wait.
OthersWait ==
  \A c, d \in Asked :
    d < c /\ calls[d].resource = calls[c].resource /\ OpenCall(d) =>
      calls[c].state = "waiting"

\* The tail of a resource is its last open call.
TailIsLast ==
  \A r \in Resources :
    /\ tails[r] # 0 => tails[r] \in Asked /\ calls[tails[r]].resource = r /\ OpenCall(tails[r])
    /\ \A c \in Asked : calls[c].resource = r /\ OpenCall(c) => c <= tails[r]

ChainInv == LocksTypeOK /\ Linked /\ OthersWait /\ TailIsLast

-----------------------------------------------------------------------------

LEMMA InitChain == LocksInit => ChainInv
  BY DEF LocksInit, ChainInv, LocksTypeOK, Linked, OthersWait, TailIsLast, Asked, OpenCall

LEMMA AcquireChain ==
  ASSUME ChainInv, NEW r \in Resources, Acquire(r)
  PROVE  ChainInv'
<1> DEFINE n == Len(calls) + 1
           new == [resource |-> r, previous |-> tails[r], state |-> "waiting"]
<1>1. /\ new \in Call
      /\ calls \in Seq(Call) /\ calls' = Append(calls, new)
      /\ tails' = [tails EXCEPT ![r] = n]
      /\ n \in Nat /\ tails \in [Resources -> Nat]
  BY DEF ChainInv, LocksTypeOK, Acquire, Asks, Call
<1>2. /\ Asked' = Asked \cup {n} /\ n \notin Asked
      /\ calls'[n] = new
      /\ \A c \in Asked : calls'[c] = calls[c] /\ c < n /\ c \in Nat \ {0}
      /\ \A c \in Asked : calls[c].previous \in Nat
  <2>1. Asked = 1..Len(calls) /\ Asked' = 1..n
    BY <1>1 DEF Asked
  <2>2. ASSUME NEW c \in Asked
        PROVE  calls'[c] = calls[c] /\ calls[c] \in Call
    BY <1>1, <2>1
  <2>3. calls'[n] = new
    BY <1>1
  <2>. QED
    BY <1>1, <2>1, <2>2, <2>3 DEF Call
<1>3. LocksTypeOK'
  BY <1>1 DEF LocksTypeOK
<1>4. tails[r] \in Nat /\ tails[r] < n /\ (tails[r] # 0 => tails[r] \in Asked)
  BY <1>1, <1>2 DEF ChainInv, TailIsLast
<1>5. Linked'
  <2>1. SUFFICES ASSUME NEW c \in Asked', NEW d \in Asked'
                 PROVE  /\ calls'[c].previous < c
                        /\ calls'[d].resource = calls'[c].resource
                             /\ calls'[c].previous < d /\ d < c => calls'[d].state = "released"
                        /\ calls'[c].previous = d => calls'[d].resource = calls'[c].resource
    BY Zenon DEF Linked, OpenCall
  <2>2. CASE c \in Asked /\ d \in Asked
    BY <1>2, <2>2 DEF ChainInv, Linked, OpenCall
  <2>3. CASE c \in Asked /\ d = n
    BY <1>1, <1>2, <2>3 DEF ChainInv, Linked
  <2>4. CASE c = n
    <3>1. calls'[c].previous = tails[r] /\ calls'[c].resource = r
      BY <1>2, <2>4
    <3>2. CASE d \in Asked
      BY <1>2, <1>4, <2>4, <3>1, <3>2 DEF ChainInv, TailIsLast, OpenCall
    <3>3. CASE d = n
      BY <1>4, <1>1, <2>4, <3>1, <3>3
    <3>. QED
      BY <1>2, <3>2, <3>3
  <2>. QED
    BY <1>2, <2>2, <2>3, <2>4
<1>6. OthersWait'
  <2>1. SUFFICES ASSUME NEW c \in Asked', NEW d \in Asked', d < c,
                        calls'[d].resource = calls'[c].resource,
                        calls'[d].state # "released"
                 PROVE  calls'[c].state = "waiting"
    BY Zenon DEF OthersWait, OpenCall
  <2>2. CASE c = n
    BY <1>2, <2>2
  <2>3. CASE c \in Asked /\ d \in Asked
    BY <1>2, <2>1, <2>3 DEF ChainInv, OthersWait, OpenCall
  <2>4. CASE c \in Asked /\ d = n
    BY <1>1, <1>2, <2>1, <2>4
  <2>. QED
    BY <1>2, <2>2, <2>3, <2>4
<1>7. TailIsLast'
  BY <1>1, <1>2, <1>4 DEF ChainInv, TailIsLast, OpenCall
<1>. QED
  BY <1>3, <1>5, <1>6, <1>7 DEF ChainInv

\* Whatever a call does to itself, the rest of the chain is as it was.
LEMMA StateChange ==
  ASSUME LocksTypeOK, NEW c \in Asked, NEW s \in {"waiting", "holding", "released"},
         calls' = [calls EXCEPT ![c].state = s]
  PROVE  /\ calls' \in Seq(Call) /\ Asked' = Asked /\ Asked \subseteq Nat \ {0}
         /\ \A d \in Asked : /\ calls'[d].resource = calls[d].resource
                             /\ calls'[d].previous = calls[d].previous
                             /\ d # c => calls'[d].state = calls[d].state
                             /\ d = c => calls'[d].state = s
<1>1. calls \in Seq(Call) /\ Asked = 1..Len(calls)
  BY DEF LocksTypeOK, Asked
<1>2. calls[c] \in Call
  BY <1>1
<1>3. [calls[c] EXCEPT !.state = s] \in Call
  BY <1>2 DEF Call
<1>4. calls' = [calls EXCEPT ![c] = [calls[c] EXCEPT !.state = s]]
  OBVIOUS
<1>5. calls' \in Seq(Call) /\ Len(calls') = Len(calls)
  BY <1>1, <1>3, <1>4
<1>6. \A d \in Asked : /\ d # c => calls'[d] = calls[d]
                       /\ d = c => calls'[d] = [calls[c] EXCEPT !.state = s]
  BY <1>1, <1>4
<1>. QED
  BY <1>1, <1>2, <1>5, <1>6 DEF Asked, Call

LEMMA GrantedChain ==
  ASSUME ChainInv, NEW c \in Asked, Granted(c)
  PROVE  /\ ChainInv'
         /\ \A d \in Asked : d < c /\ calls[d].resource = calls[c].resource => ~ OpenCall(d)
<1>1. /\ c \in Nat \ {0} /\ calls[c].state = "waiting" /\ calls[c].previous \in Nat
      /\ calls' = [calls EXCEPT ![c].state = "holding"] /\ tails' = tails
      /\ TailResolved(calls[c].previous)
  <2>1. Asked = 1..Len(calls) /\ calls[c] \in Call
    BY DEF ChainInv, LocksTypeOK, Asked
  <2>. QED
    BY <2>1 DEF Granted, Call
<1>2. LocksTypeOK' /\ Asked' = Asked /\ Asked \subseteq Nat \ {0}
  BY <1>1, StateChange DEF ChainInv, LocksTypeOK
<1>3. \A d \in Asked : /\ calls'[d].resource = calls[d].resource
                       /\ calls'[d].previous = calls[d].previous
                       /\ calls'[d].state = "released" <=> calls[d].state = "released"
                       /\ d # c => calls'[d].state = calls[d].state
  BY <1>1, StateChange DEF ChainInv
<1>4. ASSUME NEW d \in Asked, d < c, calls[d].resource = calls[c].resource
      PROVE  ~ OpenCall(d)
  <2>1. CASE calls[c].previous < d
    BY <1>4, <2>1 DEF ChainInv, Linked
  <2>2. CASE calls[c].previous = d
    BY <1>1, <1>4, <2>2 DEF TailResolved, OpenCall
  <2>3. CASE d < calls[c].previous
    <3>1. calls[c].previous \in Asked
      BY <1>1, <1>2, <2>3 DEF ChainInv, Linked, LocksTypeOK, Asked
    <3>2. /\ calls[calls[c].previous].state = "released"
          /\ calls[calls[c].previous].resource = calls[c].resource
      BY <1>1, <3>1 DEF ChainInv, Linked, TailResolved
    <3>. QED
      BY <1>4, <2>3, <3>1, <3>2 DEF ChainInv, OthersWait
  <2>. QED
    BY <1>1, <1>2, <2>1, <2>2, <2>3
<1>5. Linked'
  <2>1. SUFFICES ASSUME NEW a \in Asked, NEW b \in Asked
                 PROVE  /\ calls'[a].previous < a
                        /\ calls'[b].resource = calls'[a].resource
                             /\ calls'[a].previous < b /\ b < a => ~ OpenCall(b)'
                        /\ calls'[a].previous = b =>
                             calls'[b].resource = calls'[a].resource
    BY <1>2 DEF Linked
  <2>2. /\ calls[a].previous < a
        /\ calls[b].resource = calls[a].resource
             /\ calls[a].previous < b /\ b < a => ~ OpenCall(b)
        /\ calls[a].previous = b => calls[b].resource = calls[a].resource
    BY DEF ChainInv, Linked
  <2>. QED
    BY <1>3, <2>2 DEF OpenCall
<1>6. OthersWait'
  <2>1. SUFFICES ASSUME NEW d \in Asked, NEW e \in Asked, e < d,
                        calls[e].resource = calls[d].resource, OpenCall(e)
                 PROVE  calls'[d].state = "waiting"
    BY <1>2, <1>3 DEF OthersWait, OpenCall
  <2>2. d # c
    BY <1>4, <2>1
  <2>. QED
    BY <1>3, <2>1, <2>2 DEF ChainInv, OthersWait
<1>7. TailIsLast'
  BY <1>1, <1>2, <1>3 DEF ChainInv, TailIsLast, OpenCall
<1>. QED
  BY <1>2, <1>4, <1>5, <1>6, <1>7 DEF ChainInv

LEMMA ReleaseChain ==
  ASSUME ChainInv, NEW c \in Asked, Release(c)
  PROVE  ChainInv'
<1> DEFINE r == calls[c].resource
<1>1. /\ r \in Resources /\ calls[c].state = "holding"
      /\ calls' = [calls EXCEPT ![c].state = "released"]
      /\ tails' = [tails EXCEPT ![r] = IF @ = c THEN 0 ELSE @]
      /\ tails \in [Resources -> Nat]
  <2>1. Asked = 1..Len(calls) /\ calls[c] \in Call /\ tails \in [Resources -> Nat]
    BY DEF ChainInv, LocksTypeOK, Asked
  <2>. QED
    BY <2>1 DEF Release, Call
<1>2. LocksTypeOK' /\ Asked' = Asked /\ Asked \subseteq Nat \ {0}
  BY <1>1, StateChange DEF ChainInv, LocksTypeOK
<1>3. \A d \in Asked : /\ calls'[d].resource = calls[d].resource
                       /\ calls'[d].previous = calls[d].previous
                       /\ d # c => calls'[d].state = calls[d].state
                       /\ d = c => calls'[d].state = "released"
  BY <1>1, StateChange DEF ChainInv
<1>4. Linked'
  BY <1>2, <1>3 DEF ChainInv, Linked, OpenCall
<1>5. OthersWait'
  BY <1>1, <1>2, <1>3 DEF ChainInv, OthersWait, OpenCall
<1>6. TailIsLast'
  <2>1. ASSUME NEW d \in Asked, calls[d].resource = r, OpenCall(d), d # c, tails[r] = c
        PROVE  FALSE
    BY <1>1, <1>2, <2>1 DEF ChainInv, TailIsLast, OthersWait
  <2>. QED
    BY <1>1, <1>2, <1>3, <2>1 DEF ChainInv, TailIsLast, OpenCall
<1>. QED
  BY <1>2, <1>4, <1>5, <1>6 DEF ChainInv

LEMMA NextChain == ChainInv /\ [LocksNext]_locksVars => ChainInv'
<1>1. ASSUME ChainInv, UNCHANGED locksVars
      PROVE  ChainInv'
  BY <1>1 DEF locksVars, ChainInv, LocksTypeOK, Linked, OthersWait, TailIsLast, Asked, OpenCall
<1>. QED
  BY <1>1, AcquireChain, GrantedChain, ReleaseChain DEF LocksNext

LEMMA AlwaysChain == LocksSpec => []ChainInv
  BY InitChain, NextChain, PTL DEF LocksSpec

-----------------------------------------------------------------------------

\* However many calls ask for however many resources, a resource has one
\* holder at a time (the chain ToolResourceLocks.acquire builds).
THEOREM OneHolderHolds == LocksSpec => []OneHolder
<1>1. ChainInv => OneHolder
  BY DEF ChainInv, LocksTypeOK, OthersWait, OneHolder, Asked, OpenCall
<1>. QED
  BY <1>1, AlwaysChain, PTL

\* The table of tails holds an entry exactly for the resources in use.
THEOREM NothingLeftBehindHolds == LocksSpec => []NothingLeftBehind
<1>1. ASSUME ChainInv, NEW r \in Resources
      PROVE  LET open == { c \in Asked : calls[c].resource = r /\ OpenCall(c) }
             IN  IF tails[r] = 0 THEN open = {}
                 ELSE tails[r] \in open /\ \A c \in open : c <= tails[r]
  <2>1. Asked \subseteq Nat \ {0}
    BY <1>1 DEF ChainInv, LocksTypeOK, Asked
  <2>2. CASE tails[r] = 0
    <3>1. ASSUME NEW c \in Asked, calls[c].resource = r, OpenCall(c)
          PROVE  FALSE
      BY <1>1, <2>1, <2>2, <3>1 DEF ChainInv, TailIsLast
    <3>. QED
      BY <2>2, <3>1
  <2>3. CASE tails[r] # 0
    BY <1>1, <2>3 DEF ChainInv, TailIsLast
  <2>. QED
    BY <2>2, <2>3
<1>2. ChainInv => NothingLeftBehind
  BY <1>1 DEF NothingLeftBehind
<1>. QED
  BY <1>2, AlwaysChain, PTL

\* One holder, and no chain outlives its calls (tool-resource-locks.ts:22-35).
THEOREM LocksSafeHolds == LocksSpec => []LocksSafe
<1>1. LocksTypeOK /\ OneHolder /\ NothingLeftBehind => LocksSafe
  BY DEF LocksSafe
<1>2. ChainInv => LocksTypeOK
  BY DEF ChainInv
<1>. QED
  BY <1>1, <1>2, AlwaysChain, OneHolderHolds, NothingLeftBehindHolds, PTL

\* A call is granted only when no earlier call on its resource is open.
THEOREM ServedInOrderHolds == LocksSpec => ServedInOrder
<1>1. ASSUME ChainInv, [LocksNext]_locksVars
      PROVE  \A c \in Asked :
               calls[c].state = "waiting" /\ calls'[c].state = "holding" =>
                 \A d \in Asked :
                   d < c /\ calls[d].resource = calls[c].resource => ~ OpenCall(d)
  <2>1. SUFFICES ASSUME NEW c \in Asked, calls[c].state = "waiting",
                        calls'[c].state = "holding"
                 PROVE  Granted(c)
    BY <1>1, GrantedChain
  <2>2. Asked = 1..Len(calls) /\ calls \in Seq(Call)
    BY <1>1 DEF ChainInv, LocksTypeOK, Asked
  <2>3. ASSUME NEW r \in Resources, Acquire(r)
        PROVE  FALSE
    BY <2>1, <2>2, <2>3 DEF Acquire, Asks, Call
  <2>4. ASSUME NEW d \in Asked, Granted(d) \/ Release(d), c # d
        PROVE  FALSE
    BY <2>1, <2>2, <2>4 DEF Granted, Release
  <2>5. ~ Release(c)
    BY <2>1 DEF Release
  <2>6. ~ UNCHANGED locksVars
    BY <2>1 DEF locksVars
  <2>. QED
    BY <1>1, <2>3, <2>4, <2>5, <2>6 DEF LocksNext
<1>. QED
  BY <1>1, AlwaysChain, PTL DEF LocksSpec, ServedInOrder
=============================================================================
