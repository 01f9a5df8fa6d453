--------------------------- MODULE MCSessions_proofs ---------------------------
(***************************************************************************)
(* Proofs about the two interactive sessions, for any bounds, any calls    *)
(* and any waits.                                                          *)
(*                                                                         *)
(* A chat session.  SessionRun says what of a run the session relies on    *)
(* and the coordinator's own invariant does not give: every event that a   *)
(* session makes keeps it.  SessionInv then says who may still do what:    *)
(* only the latest task serves calls (LatestFits, ExecutionFits), a task   *)
(* that was superseded is over, on its last await, or aborted with the run *)
(* ended (StaleOver), and what was asked is served on a person's word only *)
(* (Consent).  Orderly is not kept once Continue was pressed while a       *)
(* request was in flight (hasty), and nothing proved here then relies      *)
(* on it.                                                                  *)
(*                                                                         *)
(* A decision session.  DrivesFit says that a drive which can still report *)
(* is the last one begun, carries the run that the session shows, and is   *)
(* why the session says it is executing; DecisionHeld that this run is     *)
(* well-formed, as the transitions of decision-run.ts keep it (the lemmas  *)
(* of Runs_proofs); DecisionKept that what the session says of its trace   *)
(* is true; DecisionWaits that a Retry allowed now is allowed by the last  *)
(* 429.                                                                    *)
(***************************************************************************)
EXTENDS MCSessions, Runs_proofs

-----------------------------------------------------------------------------
(***************************************************************************)
(* Proofs about the interactive run session.                               *)
(***************************************************************************)

\* The exchange a call is of has settled.
SettledCall(r, c) == Known(r, c[1]) /\ AttemptAt(r, c[1]).status # "streaming"

WaitsOnlyForCalls(r) == r.status # "awaiting_tool_results" => r.pending = {}

ExecutedCallsSettled(r) == \A x \in r.executions : SettledCall(r, x.call)

\* The adapters name every call, and answer before they complete.
AnswerFits(a) ==
  /\ a.calls \subseteq a.named
  /\ a.status = "completed" => a.exchange = "responding"

AnswersFit(r) == \A t \in DOMAIN r.turns : \A a \in DOMAIN r.turns[t] : AnswerFits(r.turns[t][a])

Executed(r, c) == { x \in r.executions : x.call = c }

\* The executions of a call are numbered from one.
NumbersFit(r) ==
  /\ \A x \in r.executions : x.number \in 1..Cardinality(Executed(r, x.call))
  /\ \A x, y \in r.executions : x.call = y.call /\ x.number = y.number => x = y

SessionRun(r) ==
  /\ WaitsOnlyForCalls(r) /\ ExecutedCallsSettled(r) /\ AnswersFit(r) /\ NumbersFit(r)

\* What a session's adapters and tools add to what the reducer checks.
FromSession(r, e) ==
  /\ e.type = "assistant.tool_call_delta" => e.hasName
  /\ e.type = "assistant.completed" => AttemptAt(r, e.at).exchange = "responding"
  /\ e.type = "tool.execution_started" => e.number = Cardinality(Executed(r, e.call)) + 1

-----------------------------------------------------------------------------

LEMMA CallStaysSettled ==
  ASSUME NEW r, NEW r2, ContentFixed(r, r2), NEW c, c[1] = <<c[1][1], c[1][2]>>,
         SettledCall(r, c)
  PROVE  SettledCall(r2, c)
<1>1. c[1][1] \in DOMAIN r.turns /\ c[1][2] \in DOMAIN r.turns[c[1][1]]
  BY DEF SettledCall, Known
<1>2. /\ Known(r2, <<c[1][1], c[1][2]>>)
      /\ r.turns[c[1][1]][c[1][2]].status # "streaming"
      /\ r2.turns[c[1][1]][c[1][2]].status \in {r.turns[c[1][1]][c[1][2]].status, "failed"}
  BY <1>1 DEF SettledCall, ContentFixed, AttemptAt
<1>. QED
  BY <1>2 DEF SettledCall, AttemptAt

LEMMA CallIsPair ==
  ASSUME NEW c \in CallIds
  PROVE  c[1] = <<c[1][1], c[1][2]>> /\ c[1] \in Nat \X Nat /\ c[2] \in Nat
<1>1. c[1] \in Nat \X Nat /\ c[2] \in CallIndices
  BY DEF CallIds
<1>2. c[1] = <<c[1][1], c[1][2]>>
  BY <1>1
<1>3. c[2] \in Nat
  BY <1>1, CallIndicesAssumption
<1>. QED
  BY <1>1, <1>2, <1>3

\* The calls that a run waits for are those of a settled answer.
LEMMA PendingSettled ==
  ASSUME NEW r, RunInv(r), r.status = "awaiting_tool_results", NEW c \in r.pending
  PROVE  /\ SettledCall(r, c) /\ c \notin r.results /\ c[1] = Current(r)
<1>1. r.turns # <<>>
  BY DEF RunInv, TurnsBegun
<1>2. LastAttempt(r).status = "completed" /\ r.pending = Unanswered(r, Current(r))
  BY DEF RunInv, StatusFits
<1>3. c[1] = Current(r) /\ c \notin r.results
  BY <1>2 DEF Unanswered, CallsOf
<1>. QED
  BY <1>1, <1>2, <1>3, LastIsKnown DEF SettledCall

-----------------------------------------------------------------------------
(* The answers of the run *)

LEMMA AnswersKept ==
  ASSUME NEW r, AnswersFit(r), NEW r2, r2.turns = r.turns
  PROVE  AnswersFit(r2)
BY DEF AnswersFit

LEMMA AnswerReplaced ==
  ASSUME NEW r, RunInv(r), AnswersFit(r), NEW at, Known(r, at), NEW new \in Attempts,
         AnswerFits(new), NEW r2, r2.turns = Replaced(r.turns, at, new)
  PROVE  AnswersFit(r2)
<1>. DEFINE T == r.turns
            U == Replaced(T, at, new)
<1>1. T \in Seq(Seq(Attempts)) /\ at[1] \in DOMAIN T /\ at[2] \in DOMAIN T[at[1]]
  BY RunFields DEF Known
<1>. HIDE DEF T
<1>2. /\ U \in Seq(Seq(Attempts)) /\ Len(U) = Len(T) /\ DOMAIN U = DOMAIN T
      /\ \A s \in DOMAIN T : Len(U[s]) = Len(T[s]) /\ DOMAIN U[s] = DOMAIN T[s]
      /\ \A s \in DOMAIN T : \A b \in DOMAIN T[s] :
           U[s][b] = IF s = at[1] /\ b = at[2] THEN new ELSE T[s][b]
  BY <1>1, ReplaceAttempt, Zenon
<1>. USE DEF T
<1>. HIDE DEF U
<1>3. r2.turns = U
  BY DEF U
<1>4. \A s \in DOMAIN T : \A b \in DOMAIN T[s] : AnswerFits(T[s][b])
  BY DEF AnswersFit
<1>5. SUFFICES ASSUME NEW s \in DOMAIN T, NEW b \in DOMAIN T[s]
               PROVE  AnswerFits(U[s][b])
  BY <1>2, <1>3 DEF AnswersFit
<1>6. U[s][b] = IF s = at[1] /\ b = at[2] THEN new ELSE T[s][b]
  BY <1>2
<1>. QED
  BY <1>4, <1>6

LEMMA NewAttemptFits == AnswerFits(NewAttempt)
BY DEF AnswerFits, NewAttempt

LEMMA TurnAnswers ==
  ASSUME NEW r, RunInv(r), AnswersFit(r), NEW e, FromCoordinator(r, e), TurnAccepted(r, e)
  PROVE  AnswersFit(TurnReduced(r, e))
<1>. DEFINE T == r.turns
<1>1. r \in Runs /\ T \in Seq(Seq(Attempts)) /\ T = r.turns
  BY RunFields
<1>2. CASE e.type = "turn.started"
  <2>. DEFINE U == Append(T, <<NewAttempt>>)
  <2>1. TurnReduced(r, e).turns = U
    BY <1>1, <1>2 DEF TurnReduced, Runs
  <2>2. /\ DOMAIN U = DOMAIN T \cup {Len(T) + 1} /\ \A t \in DOMAIN T : U[t] = T[t]
        /\ DOMAIN U[Len(T) + 1] = {1} /\ U[Len(T) + 1][1] = NewAttempt
    BY <1>1, AppendTurn, NewAttemptType
  <2>. HIDE DEF U
  <2>. QED
    BY <2>1, <2>2, NewAttemptFits DEF AnswersFit
<1>3. CASE e.type = "turn.attempt_started"
  <2>. DEFINE U == [T EXCEPT ![e.at[1]] = Append(@, NewAttempt)]
              t == e.at[1]
  <2>1. TurnReduced(r, e).turns = U
    BY <1>1, <1>3 DEF TurnReduced, Runs
  <2>2. t \in DOMAIN T
    <3>1. r.turns # <<>> /\ e.at = <<Current(r)[1], Current(r)[2] + 1>>
      BY <1>3 DEF TurnAccepted, RunInv, TurnsBegun
    <3>. QED
      BY <3>1, LastIsKnown
  <2>3. /\ U \in Seq(Seq(Attempts)) /\ DOMAIN U = DOMAIN T
        /\ Len(U[t]) = Len(T[t]) + 1 /\ U[t][Len(T[t]) + 1] = NewAttempt
        /\ \A a \in DOMAIN T[t] : U[t][a] = T[t][a]
        /\ \A s \in DOMAIN T : s # t => U[s] = T[s]
    BY <1>1, <2>2, AppendAttempt, NewAttemptType
  <2>. HIDE DEF U, t
  <2>4. /\ DOMAIN U[t] = 1..Len(U[t]) /\ DOMAIN T[t] = 1..Len(T[t]) /\ Len(T[t]) \in Nat
    BY <1>1, <2>2, <2>3, AttemptTypes
  <2>5. \A a \in DOMAIN U[t] : a \in DOMAIN T[t] \/ a = Len(T[t]) + 1
    BY <2>3, <2>4
  <2>6. \A a \in DOMAIN U[t] : AnswerFits(U[t][a])
    BY <2>2, <2>3, <2>5, NewAttemptFits DEF AnswersFit
  <2>. QED
    BY <2>1, <2>3, <2>6 DEF AnswersFit
<1>4. CASE e.type = "turn.attempt_failed"
  <2>. DEFINE new == [AttemptAt(r, e.at) EXCEPT !.status = "failed"]
  <2>1. Known(r, e.at)
    BY <1>4 DEF TurnAccepted
  <2>2. AttemptAt(r, e.at) \in Attempts /\ AnswerFits(AttemptAt(r, e.at))
    BY <1>1, <2>1 DEF Known, AttemptAt, AnswersFit
  <2>3. new \in Attempts /\ AnswerFits(new)
    BY <2>2 DEF Attempts, AnswerFits
  <2>4. TurnReduced(r, e).turns = Replaced(T, e.at, new)
    BY <1>1, <1>4 DEF TurnReduced, Runs, Replaced, AttemptAt
  <2>. HIDE DEF new
  <2>. QED
    BY <2>1, <2>3, <2>4, AnswerReplaced
<1>. QED
  BY <1>2, <1>3, <1>4 DEF TurnAccepted

LEMMA ProviderAnswers ==
  ASSUME NEW r, RunInv(r), AnswersFit(r), NEW e, FromCoordinator(r, e), FromSession(r, e),
         ProviderAccepted(r, e)
  PROVE  AnswersFit(ProviderReduced(r, e))
<1>. DEFINE T   == r.turns
            old == AttemptAt(r, e.at)
<1>1. r \in Runs /\ T \in Seq(Seq(Attempts)) /\ T = r.turns
  BY RunFields
<1>2. Known(r, e.at) /\ old \in Attempts /\ AnswerFits(old)
  <2>1. Known(r, e.at)
    BY DEF ProviderAccepted, Streaming
  <2>. QED
    BY <1>1, <2>1 DEF Known, AttemptAt, AnswersFit
<1>3. CASE \/ e.type \in {"exchange.frame_received", "usage.reported"}
           \/ e.type = "assistant.delta"
  <2>1. ProviderReduced(r, e) = r
    BY <1>3 DEF ProviderReduced
  <2>. QED
    BY <2>1
<1>4. CASE e.type \in {"exchange.requested", "exchange.response_started",
                      "assistant.tool_call_delta", "assistant.completed"}
  <2>1. old.status = "streaming"
    BY <1>4 DEF ProviderAccepted, Streaming, ContentEvents
  <2>2. PICK new \in Attempts : /\ ProviderReduced(r, e).turns = Replaced(T, e.at, new)
                                /\ AnswerFits(new)
    <3>1. CASE e.type = "exchange.requested"
      <4>. DEFINE new == [old EXCEPT !.exchange = "requested"]
      <4>1. new \in Attempts /\ AnswerFits(new)
        BY <1>2, <2>1 DEF Attempts, AnswerFits
      <4>2. ProviderReduced(r, e).turns = Replaced(T, e.at, new)
        BY <1>1, <3>1 DEF ProviderReduced, Runs, Replaced
      <4>. QED
        BY <4>1, <4>2
    <3>2. CASE e.type = "exchange.response_started"
      <4>. DEFINE new == [old EXCEPT !.exchange = "responding"]
      <4>1. new \in Attempts /\ AnswerFits(new)
        BY <1>2, <2>1 DEF Attempts, AnswerFits
      <4>2. ProviderReduced(r, e).turns = Replaced(T, e.at, new)
        BY <1>1, <3>2 DEF ProviderReduced, Runs, Replaced
      <4>. QED
        BY <4>1, <4>2
    <3>3. CASE e.type = "assistant.tool_call_delta"
      <4>. DEFINE new == [old EXCEPT !.calls = @ \cup {e.index},
                            !.named = IF e.hasName THEN @ \cup {e.index} ELSE @]
      <4>1. new \in Attempts
        BY <1>2, <3>3 DEF Attempts, FromCoordinator
      <4>2. AnswerFits(new)
        <5>1. e.hasName
          BY <3>3 DEF FromSession
        <5>. QED
          BY <1>2, <2>1, <5>1 DEF Attempts, AnswerFits
      <4>3. ProviderReduced(r, e).turns = Replaced(T, e.at, new)
        BY <1>1, <3>3 DEF ProviderReduced, Runs, Replaced
      <4>. QED
        BY <4>1, <4>2, <4>3
    <3>4. CASE e.type = "assistant.completed"
      <4>. DEFINE new == [old EXCEPT !.status = "completed"]
      <4>1. new \in Attempts /\ AnswerFits(new)
        <5>1. old.exchange = "responding"
          BY <3>4 DEF FromSession
        <5>. QED
          BY <1>2, <5>1 DEF Attempts, AnswerFits
      <4>2. ProviderReduced(r, e).turns = Replaced(T, e.at, new)
        BY <1>1, <3>4 DEF ProviderReduced, Runs, Replaced
      <4>. QED
        BY <4>1, <4>2
    <3>. QED
      BY <1>4, <3>1, <3>2, <3>3, <3>4
  <2>. QED
    BY <1>2, <2>2, AnswerReplaced
<1>. QED
  BY <1>3, <1>4 DEF ProviderAccepted, ContentEvents

-----------------------------------------------------------------------------
(* The numbers of the executions *)

LEMMA ExecutedFinite ==
  ASSUME NEW r, IsFiniteSet(r.executions), NEW c
  PROVE  IsFiniteSet(Executed(r, c)) /\ Cardinality(Executed(r, c)) \in Nat
<1>1. Executed(r, c) \subseteq r.executions
  BY DEF Executed
<1>. QED
  BY <1>1, FS_Subset, FS_CardinalityType

LEMMA NumbersKept ==
  ASSUME NEW r, NumbersFit(r), NEW r2, r2.executions = r.executions
  PROVE  NumbersFit(r2)
<1>1. \A c : Executed(r2, c) = Executed(r, c)
  BY DEF Executed
<1>. QED
  BY <1>1 DEF NumbersFit

\* An execution that begins takes the next number of its call.
LEMMA NumberTaken ==
  ASSUME NEW r, NumbersFit(r), IsFiniteSet(r.executions), NEW c, NEW x, x.call = c,
         x.number = Cardinality(Executed(r, c)) + 1,
         NEW r2, r2.executions = r.executions \cup {x}
  PROVE  /\ NumbersFit(r2)
         /\ Cardinality(Executed(r2, c)) = Cardinality(Executed(r, c)) + 1
<1>. DEFINE n == Cardinality(Executed(r, c))
<1>1. IsFiniteSet(Executed(r, c)) /\ n \in Nat
  BY ExecutedFinite
<1>2. \A y \in r.executions : y.call = c => y.number \in 1..n
  BY DEF NumbersFit
<1>3. x \notin Executed(r, c) /\ Executed(r2, c) = Executed(r, c) \cup {x}
  <2>1. x \notin Executed(r, c)
    BY <1>1, <1>2 DEF Executed
  <2>2. Executed(r2, c) = Executed(r, c) \cup {x}
    BY DEF Executed
  <2>. QED
    BY <2>1, <2>2
<1>4. Cardinality(Executed(r2, c)) = n + 1
  BY <1>1, <1>3, FS_AddElement
<1>5. \A d : d # c => Executed(r2, d) = Executed(r, d)
  BY DEF Executed
<1>6. ASSUME NEW y \in r2.executions
      PROVE  y.number \in 1..Cardinality(Executed(r2, y.call))
  <2>1. CASE y = x
    BY <1>1, <1>4, <2>1
  <2>2. CASE y # x /\ y.call = c
    BY <1>1, <1>2, <1>4, <2>2
  <2>3. CASE y # x /\ y.call # c
    BY <1>5, <2>3 DEF NumbersFit
  <2>. QED
    BY <2>1, <2>2, <2>3
<1>7. ASSUME NEW y \in r2.executions, NEW z \in r2.executions,
             y.call = z.call, y.number = z.number
      PROVE  y = z
  <2>1. CASE y # x /\ z # x
    BY <1>7, <2>1 DEF NumbersFit
  <2>2. ASSUME NEW w \in r.executions, w.call = c  PROVE w.number # x.number
    BY <1>1, <1>2, <2>2
  <2>. QED
    BY <1>7, <2>1, <2>2
<1>8. NumbersFit(r2)
  BY <1>6, <1>7 DEF NumbersFit
<1>. QED
  BY <1>4, <1>8

\* An execution that settles keeps its number.
LEMMA NumberStays ==
  ASSUME NEW r, NumbersFit(r), IsFiniteSet(r.executions), NEW x \in r.executions,
         NEW y, y.call = x.call, y.number = x.number,
         NEW r2, r2.executions = (r.executions \ {x}) \cup {y}
  PROVE  /\ NumbersFit(r2)
         /\ \A c : Cardinality(Executed(r2, c)) = Cardinality(Executed(r, c))
<1>. DEFINE E == Executed(r, x.call)
<1>1. \A c : IsFiniteSet(Executed(r, c)) /\ Cardinality(Executed(r, c)) \in Nat
  BY ExecutedFinite
<1>2. CASE y = x
  <2>1. r2.executions = r.executions
    BY <1>2
  <2>2. \A c : Executed(r2, c) = Executed(r, c)
    BY <2>1 DEF Executed
  <2>. QED
    BY <2>1, <2>2, NumbersKept
<1>3. CASE y # x
  <2>1. y \notin r.executions
    BY <1>3 DEF NumbersFit
  <2>2. /\ Executed(r2, x.call) = (E \ {x}) \cup {y} /\ x \in E /\ y \notin E \ {x}
        /\ \A c : c # x.call => Executed(r2, c) = Executed(r, c)
    BY <2>1 DEF Executed
  <2>3. Cardinality((E \ {x}) \cup {y}) = Cardinality(E)
    <3>. HIDE DEF E
    <3>1. IsFiniteSet(E) /\ Cardinality(E) \in Nat
      BY <1>1 DEF E
    <3>2. IsFiniteSet(E \ {x}) /\ Cardinality(E \ {x}) = Cardinality(E) - 1
      BY <2>2, <3>1, FS_RemoveElement
    <3>3. Cardinality((E \ {x}) \cup {y}) = Cardinality(E \ {x}) + 1
      BY <2>2, <3>2, FS_AddElement
    <3>. QED
      BY <3>1, <3>2, <3>3
  <2>4. \A c : Cardinality(Executed(r2, c)) = Cardinality(Executed(r, c))
    BY <2>2, <2>3
  <2>5. ASSUME NEW w \in r2.executions
        PROVE  w.number \in 1..Cardinality(Executed(r2, w.call))
    <3>1. CASE w = y
      BY <2>4, <3>1 DEF NumbersFit
    <3>2. CASE w # y
      BY <2>4, <3>2 DEF NumbersFit
    <3>. QED
      BY <3>1, <3>2
  <2>6. ASSUME NEW w \in r2.executions, NEW z \in r2.executions,
               w.call = z.call, w.number = z.number
        PROVE  w = z
    <3>1. CASE w # y /\ z # y
      BY <2>6, <3>1 DEF NumbersFit
    <3>2. ASSUME NEW v \in r.executions, v.call = y.call, v.number = y.number
          PROVE  v = x
      BY <3>2 DEF NumbersFit
    <3>. QED
      BY <2>6, <3>1, <3>2
  <2>7. NumbersFit(r2)
    BY <2>5, <2>6 DEF NumbersFit
  <2>. QED
    BY <2>4, <2>7
<1>. QED
  BY <1>2, <1>3

-----------------------------------------------------------------------------
(* One event of a session *)

LEMMA ToolSession ==
  ASSUME NEW r, RunInv(r), SessionRun(r), NEW e, FromSession(r, e), ToolAccepted(r, e),
         NEW r2, r2.turns = ToolReduced(r, e).turns,
         r2.pending = ToolReduced(r, e).pending, r2.status = ToolReduced(r, e).status,
         r2.executions = ToolReduced(r, e).executions
  PROVE  SessionRun(r2)
<1>1. /\ r \in Runs /\ r.status = "awaiting_tool_results" /\ e.call \in r.pending
      /\ IsFiniteSet(r.executions) /\ ExecutedCallsSettled(r) /\ AnswersFit(r) /\ NumbersFit(r)
  BY RunFields DEF ToolAccepted, AwaitingCall, SessionRun, RunInv
<1>2. SettledCall(r, e.call)
  BY <1>1, PendingSettled
<1>3. CASE e.type = "tool.execution_started"
  <2>1. /\ r2.turns = r.turns /\ r2.pending = r.pending /\ r2.status = r.status
        /\ r2.executions = r.executions \cup {Open(r, e)}
    BY <1>1, <1>3 DEF ToolReduced, Runs
  <2>2. Open(r, e).call = e.call /\ Open(r, e).number = Cardinality(Executed(r, e.call)) + 1
    BY <1>3 DEF Open, FromSession
  <2>3. NumbersFit(r2)
    BY <1>1, <2>1, <2>2, NumberTaken
  <2>4. ExecutedCallsSettled(r2)
    BY <1>1, <1>2, <2>1, <2>2 DEF ExecutedCallsSettled, SettledCall, Known, AttemptAt
  <2>. QED
    BY <1>1, <2>1, <2>3, <2>4, AnswersKept DEF SessionRun, WaitsOnlyForCalls
<1>4. CASE e.type \in {"tool.execution_completed", "tool.execution_failed"}
  <2>. DEFINE x == Open(r, e)
  <2>1. PICK s : /\ r2.turns = r.turns /\ r2.pending = r.pending /\ r2.status = r.status
                 /\ r2.executions = (r.executions \ {x}) \cup {[x EXCEPT !.status = s]}
    <3>1. CASE e.type = "tool.execution_completed"
      BY <1>1, <3>1 DEF ToolReduced, Runs
    <3>2. CASE e.type = "tool.execution_failed"
      BY <1>1, <3>2 DEF ToolReduced, Runs
    <3>. QED
      BY <1>4, <3>1, <3>2
  <2>. DEFINE y == [x EXCEPT !.status = s]
  <2>2. x \in r.executions /\ y.call = x.call /\ y.number = x.number
    BY <1>4 DEF ToolAccepted, Open
  <2>. HIDE DEF x, y
  <2>3. r2.executions = (r.executions \ {x}) \cup {y}
    BY <2>1 DEF y
  <2>4. NumbersFit(r2)
    BY <1>1, <2>2, <2>3, NumberStays
  <2>5. ExecutedCallsSettled(r2)
    BY <1>1, <2>1, <2>2, <2>3 DEF ExecutedCallsSettled, SettledCall, Known, AttemptAt
  <2>. QED
    BY <1>1, <2>1, <2>4, <2>5, AnswersKept DEF SessionRun, WaitsOnlyForCalls
<1>5. CASE e.type = "tool.result_supplied"
  <2>. DEFINE left == CallsOf(Current(r), LastAttempt(r)) \ (r.results \cup {e.call})
  <2>1. /\ r2.turns = r.turns /\ r2.pending = left /\ r2.executions = r.executions
        /\ r2.status = IF left = {} THEN "tool_results_ready" ELSE r.status
    BY <1>1, <1>5 DEF ToolReduced, Runs
  <2>. HIDE DEF left
  <2>2. ExecutedCallsSettled(r2) /\ WaitsOnlyForCalls(r2)
    BY <1>1, <2>1 DEF ExecutedCallsSettled, SettledCall, Known, AttemptAt, WaitsOnlyForCalls
  <2>. QED
    BY <1>1, <2>1, <2>2, AnswersKept, NumbersKept DEF SessionRun
<1>. QED
  BY <1>3, <1>4, <1>5 DEF ToolAccepted, ToolEvents

LEMMA QuietSession ==
  ASSUME NEW r, SessionRun(r), NEW r2, AnswersFit(r2), ContentFixed(r, r2), r \in Runs,
         r2.executions = r.executions, WaitsOnlyForCalls(r2)
  PROVE  SessionRun(r2)
<1>1. ExecutedCallsSettled(r2)
  <2>1. SUFFICES ASSUME NEW x \in r.executions  PROVE SettledCall(r2, x.call)
    BY DEF ExecutedCallsSettled
  <2>2. x.call \in CallIds /\ SettledCall(r, x.call)
    BY DEF Runs, Executions, SessionRun, ExecutedCallsSettled
  <2>. QED
    BY <2>2, CallIsPair, CallStaysSettled
<1>. QED
  BY <1>1, NumbersKept DEF SessionRun

\* What an event of a session leads to is a session's run.
LEMMA EventSession ==
  ASSUME NEW r, RunInv(r), SessionRun(r), NEW n \in Int, NEW e, FromCoordinator(r, e),
         FromSession(r, e), Accepts(r, n, e)
  PROVE  SessionRun(Reduced(r, n, e))
<1>. DEFINE next == NextRun(r, e)
            r2   == Reduced(r, n, e)
<1>1. /\ r \in Runs /\ r2 \in Runs /\ ContentFixed(r, r2)
      /\ WaitsOnlyForCalls(r) /\ AnswersFit(r)
  BY RunFields, ReducerKeepsRunSound, ReducedFixed DEF SessionRun
<1>2. /\ r2.status = next.status /\ r2.turns = next.turns /\ r2.pending = next.pending
      /\ r2.executions = next.executions
  BY <1>1, ReducedFields
<1>. SUFFICES SessionRun(r2)
  OBVIOUS
<1>. HIDE DEF r2, next
<1>3. CASE TurnAccepted(r, e)
  <2>0. /\ e.type \in {"turn.started", "turn.attempt_started", "turn.attempt_failed"}
        /\ r.status # "awaiting_tool_results" \/ e.type = "turn.attempt_failed"
    BY <1>3 DEF TurnAccepted
  <2>1. next = TurnReduced(r, e)
    BY <2>0 DEF next, NextRun, TurnEvents, ProviderEvents, ContentEvents, ToolEvents
  <2>2. AnswersFit(r2)
    BY <1>1, <1>2, <1>3, <2>1, TurnAnswers, AnswersKept
  <2>3. /\ next.executions = r.executions
        /\ next.pending = IF e.type = "turn.attempt_failed" THEN {} ELSE r.pending
    BY <1>1, <2>0, <2>1 DEF TurnReduced, Runs
  <2>4. WaitsOnlyForCalls(r2)
    BY <1>1, <1>2, <2>0, <2>1, <2>3 DEF WaitsOnlyForCalls
  <2>5. r2.executions = r.executions
    BY <1>2, <2>3
  <2>. QED
    BY <1>1, <2>2, <2>4, <2>5, QuietSession
<1>4. CASE ProviderAccepted(r, e)
  <2>1. e.type \in ProviderEvents /\ e.type \notin TurnEvents \cup ToolEvents
    BY <1>4 DEF ProviderAccepted, TurnEvents, ProviderEvents, ContentEvents, ToolEvents
  <2>2. next = ProviderReduced(r, e)
    BY <2>1 DEF next, NextRun
  <2>3. AnswersFit(r2)
    BY <1>1, <1>2, <1>4, <2>2, ProviderAnswers, AnswersKept
  <2>4. /\ next.executions = r.executions
        /\ \/ next.status = "awaiting_tool_results"
           \/ next.status = r.status /\ next.pending = r.pending
    BY <1>1, <2>2 DEF ProviderReduced, Runs
  <2>5. WaitsOnlyForCalls(r2)
    BY <1>1, <1>2, <2>4 DEF WaitsOnlyForCalls
  <2>6. r2.executions = r.executions
    BY <1>2, <2>4
  <2>. QED
    BY <1>1, <2>3, <2>5, <2>6, QuietSession
<1>5. CASE ToolAccepted(r, e)
  <2>1. e.type \in ToolEvents /\ e.type \notin TurnEvents \cup ProviderEvents
    BY <1>5 DEF ToolAccepted, TurnEvents, ProviderEvents, ContentEvents, ToolEvents
  <2>2. next = ToolReduced(r, e)
    BY <2>1 DEF next, NextRun
  <2>3. /\ r2.turns = ToolReduced(r, e).turns /\ r2.pending = ToolReduced(r, e).pending
        /\ r2.status = ToolReduced(r, e).status
        /\ r2.executions = ToolReduced(r, e).executions
    BY <1>2, <2>2
  <2>. QED
    BY <1>5, <2>3, ToolSession
<1>6. CASE RunAccepted(r, e)
  <2>1. next = RunReduced(r, e)
    BY <1>6 DEF next, RunAccepted, NextRun, TurnEvents, ProviderEvents, ContentEvents, ToolEvents
  <2>2. next.turns = r.turns /\ next.executions = r.executions /\ next.pending = {}
    BY <1>1, <2>1 DEF RunReduced, Runs
  <2>3. AnswersFit(r2) /\ WaitsOnlyForCalls(r2)
    BY <1>1, <1>2, <2>2, AnswersKept DEF WaitsOnlyForCalls
  <2>4. r2.executions = r.executions
    BY <1>2, <2>2
  <2>. QED
    BY <1>1, <2>3, <2>4, QuietSession
<1>. QED
  BY <1>3, <1>4, <1>5, <1>6 DEF Accepts

LEMMA SessionApplied ==
  ASSUME CoordinatorInv, SessionRun(run), NEW e, FromCoordinator(run, e),
         FromSession(run, e), Apply(e)
  PROVE  SessionRun(run') /\ (IsTerminal(run) => run' = run)
         /\ (~ InStep => run' = run /\ ~ InStep')
<1>1. RunInv(run) /\ sequence \in Int
  BY DEF CoordinatorInv
<1>2. SessionRun(run')
  BY <1>1, EventSession DEF Apply, Accepted
<1>3. IsTerminal(run) => run' = run
  BY DEF Apply, Accepted, Accepts
<1>. QED
  BY <1>2, <1>3, Dropped

-----------------------------------------------------------------------------
(* What each method of the coordinator does for a session *)

RunMoves ==
  /\ SoundStep /\ SessionRun(run')
  /\ IsTerminal(run) => run' = run
  /\ ~ InStep => run' = run /\ ~ InStep'

Quiet == run'.executions = run.executions /\ run'.results = run.results

LEMMA AcceptedInStep ==
  ASSUME CoordinatorInv, NEW e, FromCoordinator(run, e), Apply(e), Accepted(e)
  PROVE  InStep'
<1>1. RunInv(run) /\ sequence \in Nat
  BY DEF CoordinatorInv
<1>2. Reduced(run, sequence, e).lastSequence = sequence
  BY <1>1, ReducerKeepsRunSound DEF Accepted
<1>. QED
  BY <1>1, <1>2 DEF InStep, Apply

LEMMA StaysBegun ==
  ASSUME CoordinatorInv, SoundStep, run.turns # <<>>
  PROVE  run'.turns # <<>> /\ run' # NewRun /\ run # NewRun
<1>1. Current(run) \in Nat \X Nat /\ Known(run, Current(run))
  BY LastIsKnown DEF CoordinatorInv
<1>2. PICK t \in DOMAIN run.turns : \E a \in DOMAIN run.turns[t] : TRUE
  BY <1>1 DEF Known
<1>3. t \in DOMAIN run'.turns
  BY <1>2 DEF SoundStep, ContentFixed, Known
<1>. QED
  BY <1>3 DEF NewRun

LEMMA Unmoved ==
  ASSUME CoordinatorInv, SessionRun(run), UNCHANGED coordinatorVars
  PROVE  RunMoves /\ Quiet
BY SameTurnsFixed
   DEF coordinatorVars, RunMoves, Quiet, SoundStep, CoordinatorInv, StreamIsCurrent, InStep

LEMMA NotASessionEvent ==
  ASSUME NEW e, e.type \notin {"assistant.tool_call_delta", "assistant.completed",
                               "tool.execution_started"}
  PROVE  FromSession(run, e)
BY DEF FromSession

\* Fail, Cancel, and the end of a stream.
LEMMA SessionEnds ==
  ASSUME CoordinatorInv, SessionRun(run),
         NEW t \in {"run.completed", "run.cancelled", "run.failed"},
         Apply([type |-> t]), active' = None
  PROVE  /\ RunMoves /\ Quiet /\ run'.pending \subseteq run.pending
         /\ run' # run => IsTerminal(run') /\ InStep'
         /\ InStep' => IsTerminal(run') /\ run'.pending = {}
         /\ (/\ InStep /\ ~ IsTerminal(run) /\ run.turns # <<>>
             /\ t = "run.completed" => run.status = "running" /\ LastAttempt(run).status = "completed")
              => InStep'
         /\ InStep' /\ t = "run.failed" => run'.status = "failed"
<1>. DEFINE e == [type |-> t]
<1>1. /\ FromCoordinator(run, e) /\ FromSession(run, e) /\ run \in Runs /\ RunInv(run)
  BY RunEvents, NotASessionEvent, RunFields DEF CoordinatorInv
<1>2. RunMoves
  BY <1>1, StreamSettles, SessionApplied DEF RunMoves
<1>3. NextRun(run, e) = RunReduced(run, e)
  BY DEF NextRun, TurnEvents, ProviderEvents, ContentEvents, ToolEvents
<1>4. /\ RunReduced(run, e).executions = run.executions
      /\ RunReduced(run, e).results = run.results /\ RunReduced(run, e).pending = {}
      /\ RunReduced(run, e).status = CASE t = "run.completed" -> "completed"
                                       [] t = "run.cancelled" -> "cancelled"
                                       [] t = "run.failed"    -> "failed"
  BY <1>1 DEF RunReduced, Runs
<1>5. \/ ~ InStep' /\ run' = run
      \/ /\ InStep' /\ run'.executions = run.executions /\ run'.results = run.results
         /\ run'.pending = {} /\ run'.status = RunReduced(run, e).status
  BY <1>1, <1>3, <1>4, Outcome
<1>6. RunReduced(run, e).status \in TerminalStatuses
      /\ (t = "run.failed" => RunReduced(run, e).status = "failed")
  BY <1>4 DEF TerminalStatuses
<1>7. ASSUME InStep, ~ IsTerminal(run), run.turns # <<>>,
             t = "run.completed" => run.status = "running" /\ LastAttempt(run).status = "completed"
      PROVE  InStep'
  <2>1. /\ run.status # "not_started"
        /\ run.status = "running" /\ LastAttempt(run).status = "completed"
             => LastAttempt(run).calls = {}
    BY <1>1, <1>7 DEF RunInv, StatusFits
  <2>2. RunAccepted(run, e)
    BY <1>7, <2>1 DEF RunAccepted
  <2>3. Accepted(e)
    BY <1>7, <2>2 DEF Accepted, Accepts, InStep
  <2>. QED
    BY <1>1, <2>3, AcceptedInStep
<1>. HIDE DEF e
<1>8. Quiet /\ run'.pending \subseteq run.pending /\ (run' # run => IsTerminal(run') /\ InStep')
      /\ (InStep' => IsTerminal(run') /\ run'.pending = {})
      /\ (InStep' /\ t = "run.failed" => run'.status = "failed")
  BY <1>5, <1>6 DEF Quiet, IsTerminal
<1>. QED
  BY <1>2, <1>7, <1>8

\* An event of the stream may complete an answer, whose calls then wait.
LEMMA SessionStreams ==
  ASSUME CoordinatorInv, SessionRun(run), NEW e \in StreamEvents, AdapterSends(e),
         AcceptEvent(e)
  PROVE  /\ RunMoves /\ Quiet /\ active' = active
         /\ \A c \in run'.pending : c \in run.pending \/ ~ SettledCall(run, c)
         /\ InStep /\ run.status \in {"running", "awaiting_tool_results"}
              => InStep' /\ run'.status \in {"running", "awaiting_tool_results"}
<1>1. /\ e.type \in ProviderEvents /\ FromCoordinator(run, e) /\ Apply(e) /\ active' = active
      /\ run \in Runs /\ RunInv(run) /\ active # None /\ e.at = active
      /\ active \in Nat \X Nat
  <2>1. e.at = active /\ active \in Nat \X Nat /\ active # None
    BY DEF StreamEvents, CoordinatorInv
  <2>. QED
    BY <2>1, StreamedEvents, RunFields DEF CoordinatorInv, AcceptEvent
<1>2. /\ e.type \in {"exchange.requested", "exchange.response_started",
                     "assistant.tool_call_delta", "assistant.completed"}
      /\ e.type = "exchange.requested" => AttemptAt(run, active).exchange = "opened"
      /\ e.type = "exchange.response_started" => AttemptAt(run, active).exchange = "requested"
      /\ e.type = "assistant.tool_call_delta" =>
           e.hasName /\ AttemptAt(run, active).status = "streaming"
      /\ e.type = "assistant.completed" =>
           /\ AttemptAt(run, active).exchange = "responding"
           /\ AttemptAt(run, active).status = "streaming"
  BY DEF AdapterSends
<1>3. FromSession(run, e)
  BY <1>1, <1>2 DEF FromSession
<1>4. RunMoves
  BY <1>1, <1>3, StreamContinuing, SessionApplied DEF RunMoves
<1>5. NextRun(run, e) = ProviderReduced(run, e)
  BY <1>1 DEF NextRun, TurnEvents, ProviderEvents, ContentEvents, ToolEvents
<1>6. /\ ProviderReduced(run, e).executions = run.executions
      /\ ProviderReduced(run, e).results = run.results
      /\ ProviderReduced(run, e).status \in {run.status, "awaiting_tool_results"}
      /\ \/ ProviderReduced(run, e).pending = run.pending
         \/ /\ e.type = "assistant.completed"
            /\ ProviderReduced(run, e).pending = CallsOf(active, AttemptAt(run, active))
  BY <1>1 DEF ProviderReduced, Runs
<1>7. \A c \in CallsOf(active, AttemptAt(run, active)) :
        e.type = "assistant.completed" => ~ SettledCall(run, c)
  BY <1>2 DEF CallsOf, SettledCall
<1>8. \/ ~ InStep' /\ run' = run
      \/ /\ InStep' /\ run'.executions = run.executions /\ run'.results = run.results
         /\ run'.status \in {run.status, "awaiting_tool_results"}
         /\ \A c \in run'.pending : c \in run.pending \/ ~ SettledCall(run, c)
  BY <1>1, <1>5, <1>6, <1>7, Outcome
<1>9. ASSUME InStep, run.status \in {"running", "awaiting_tool_results"}
      PROVE  InStep'
  <2>1. run.turns # <<>> /\ ~ IsTerminal(run)
    BY <1>1, <1>9 DEF RunInv, TurnsBegun, IsTerminal, TerminalStatuses
  <2>2. /\ active = Current(run) /\ Known(run, active)
        /\ LastAttempt(run) = AttemptAt(run, active)
        /\ active[1] \in DOMAIN run.turns /\ active[2] \in DOMAIN run.turns[active[1]]
    BY <1>1, <1>9, <2>1, LastIsKnown DEF CoordinatorInv, StreamIsCurrent, Known
  <2>3. AttemptAt(run, active).status \in {"streaming", "completed"}
    BY <1>1, <1>9, <2>2 DEF RunInv, StatusFits
  <2>4. AnswerFits(AttemptAt(run, active))
    BY <2>2 DEF SessionRun, AnswersFit, AttemptAt
  <2>5. AttemptAt(run, active).status = "streaming"
    BY <1>2, <2>3, <2>4 DEF AnswerFits
  <2>6. ProviderAccepted(run, e)
    BY <1>1, <1>2, <2>2, <2>4, <2>5
       DEF ProviderAccepted, Streaming, AnswerFits, ContentEvents
  <2>7. Accepted(e)
    BY <1>9, <2>1, <2>6 DEF Accepted, Accepts, InStep
  <2>. QED
    BY <1>1, <2>7, AcceptedInStep
<1>. QED
  BY <1>1, <1>4, <1>8, <1>9 DEF Quiet

\* A failure that may be tried again pauses the run, any other ends it.
LEMMA SessionFails ==
  ASSUME CoordinatorInv, SessionRun(run), NEW retryable \in BOOLEAN, AcceptFailed(retryable)
  PROVE  /\ RunMoves /\ Quiet /\ run'.pending \subseteq run.pending /\ active' = None
         /\ InStep' => /\ run'.status = IF retryable THEN "attempt_failed" ELSE "failed"
                       /\ run'.pending = {}
         /\ InStep /\ run.status \in {"running", "awaiting_tool_results"} => InStep'
<1>0. ASSUME run.status \in {"running", "awaiting_tool_results"}
      PROVE  run.turns # <<>> /\ ~ IsTerminal(run)
  BY <1>0 DEF CoordinatorInv, RunInv, TurnsBegun, IsTerminal, TerminalStatuses
<1>1. CASE ~ retryable
  <2>1. Apply([type |-> "run.failed"]) /\ active' = None
    BY <1>1 DEF AcceptFailed
  <2>. QED
    BY <1>0, <1>1, <2>1, SessionEnds
<1>2. CASE retryable
  <2>. DEFINE e == [type |-> "turn.attempt_failed", at |-> <<active[1], active[2]>>]
  <2>1. active \in Nat \X Nat /\ active = <<active[1], active[2]>> /\ active' = None
    BY DEF AcceptFailed, CoordinatorInv
  <2>2. Apply(e)
    <3>1. Apply([type |-> "turn.attempt_failed", at |-> active])
      BY <1>2 DEF AcceptFailed
    <3>2. e = [type |-> "turn.attempt_failed", at |-> active]
      BY <2>1
    <3>. QED
      BY <3>1, <3>2
  <2>3. FromCoordinator(run, e) /\ FromSession(run, e) /\ run \in Runs /\ RunInv(run)
    <3>1. FromSession(run, e)
      BY DEF FromSession
    <3>. QED
      BY <2>1, <3>1, AttemptEvents, RunFields DEF CoordinatorInv
  <2>4. RunMoves
    BY <2>1, <2>2, <2>3, StreamSettles, SessionApplied DEF RunMoves
  <2>5. NextRun(run, e) = TurnReduced(run, e)
    BY DEF NextRun, TurnEvents, ProviderEvents, ContentEvents, ToolEvents
  <2>6. /\ TurnReduced(run, e).status = "attempt_failed"
        /\ TurnReduced(run, e).executions = run.executions
        /\ TurnReduced(run, e).results = run.results
        /\ TurnReduced(run, e).pending = {}
    BY <2>3 DEF TurnReduced, Runs
  <2>7. \/ ~ InStep' /\ run' = run
        \/ /\ InStep' /\ run'.executions = run.executions /\ run'.results = run.results
           /\ run'.status = "attempt_failed" /\ run'.pending = {}
    BY <2>2, <2>3, <2>5, <2>6, Outcome
  <2>8. ASSUME InStep, run.status \in {"running", "awaiting_tool_results"}
        PROVE  InStep'
    <3>1. run.turns # <<>> /\ ~ IsTerminal(run)
      BY <1>0, <2>8
    <3>2. /\ active = Current(run) /\ Known(run, active)
          /\ LastAttempt(run) = AttemptAt(run, active)
          /\ Current(run) = <<Len(run.turns), Len(run.turns[Len(run.turns)])>>
      BY <2>1, <2>3, <2>8, <3>1, LastIsKnown DEF CoordinatorInv, StreamIsCurrent, AcceptFailed
    <3>3. AttemptAt(run, active).status # "failed"
      BY <2>3, <2>8, <3>2 DEF RunInv, StatusFits
    <3>4. e.at = active /\ e.type = "turn.attempt_failed"
      BY <2>1
    <3>5. IsLatest(run, active) /\ active[1] = Len(run.turns)
      BY <3>2 DEF IsLatest
    <3>. HIDE DEF e
    <3>6. TurnAccepted(run, e)
      BY <2>8, <3>2, <3>3, <3>4, <3>5 DEF TurnAccepted
    <3>7. Accepted(e)
      BY <2>8, <3>1, <3>6 DEF Accepted, Accepts, InStep
    <3>. QED
      BY <2>2, <2>3, <3>7, AcceptedInStep
  <2>. HIDE DEF e
  <2>. QED
    BY <1>2, <2>1, <2>4, <2>7, <2>8 DEF Quiet
<1>. QED
  BY <1>1, <1>2

\* The end of a stream settles a running turn and leaves a paused one.
LEMMA SessionFinishes ==
  ASSUME CoordinatorInv, SessionRun(run), FinishTurnStream
  PROVE  /\ RunMoves /\ Quiet /\ run'.pending \subseteq run.pending /\ active' = None
         /\ InStep /\ run.turns # <<>> => InStep'
<1>1. CASE UNCHANGED <<run, sequence>>
  BY <1>1, SameTurnsFixed
     DEF FinishTurnStream, RunMoves, Quiet, SoundStep, CoordinatorInv, StreamIsCurrent, InStep
<1>2. CASE \E t \in {"run.completed", "run.failed"} :
             /\ Apply([type |-> t]) /\ ~ IsTerminal(run)
             /\ t = "run.completed" => run.status = "running" /\ LastAttempt(run).status = "completed"
  BY <1>2, SessionEnds DEF FinishTurnStream
<1>. QED
  BY <1>1, <1>2 DEF FinishTurnStream

-----------------------------------------------------------------------------
(* Turns begin *)

LEMMA SessionStarts ==
  ASSUME CoordinatorInv, run = NewRun, sequence = 0, Start
  PROVE  /\ RunMoves /\ Quiet /\ InStep' /\ run'.status = "running" /\ run'.pending = {}
         /\ run'.turns # <<>> /\ active' # None
<1>. DEFINE e    == [type |-> "run.started"]
            from == Reduced(run, sequence, e)
            at   == <<Len(from.turns) + 1, 1>>
            f    == [type |-> "turn.started", at |-> at]
<1>1. /\ RunInv(run) /\ run \in Runs /\ sequence \in Nat /\ FromCoordinator(run, e)
      /\ FromSession(run, e) /\ InStep /\ ~ IsTerminal(run) /\ SessionRun(run)
  <2>1. InStep /\ ~ IsTerminal(run)
    BY DEF InStep, IsTerminal, TerminalStatuses, NewRun
  <2>2. SessionRun(run)
    BY DEF SessionRun, WaitsOnlyForCalls, ExecutedCallsSettled, AnswersFit, NumbersFit, NewRun
  <2>. QED
    BY <2>1, <2>2, RunFields, RunEvents, NotASessionEvent DEF CoordinatorInv
<1>2. Accepted(e)
  BY <1>1 DEF Accepted, Accepts, RunAccepted, NewRun, InStep
<1>3. RunInv(from) /\ from.lastSequence = sequence /\ SessionRun(from)
  BY <1>1, <1>2, ReducerKeepsRunSound, EventSession DEF Accepted
<1>4. from.status = "starting" /\ from.turns = <<>> /\ from.executions = run.executions
      /\ from.results = run.results /\ from \in Runs /\ from.pending = {}
  <2>1. NextRun(run, e) = RunReduced(run, e)
    BY DEF NextRun, TurnEvents, ProviderEvents, ContentEvents, ToolEvents
  <2>2. RunReduced(run, e) = [run EXCEPT !.pending = {}, !.status = "starting"]
    BY DEF RunReduced
  <2>3. from \in Runs
    BY <1>3, RunFields
  <2>. QED
    BY <1>1, <2>1, <2>2, <2>3 DEF Reduced, Numbered, Runs, NewRun
<1>5. BeginTurn(from, sequence + 1)
  BY <1>2 DEF Start
<1>. HIDE DEF from
<1>6. at = <<1, 1>> /\ at \in Nat \X Nat
  BY <1>4
<1>7. FromCoordinator(from, f) /\ FromSession(from, f)
  BY <1>4, <1>6
     DEF FromCoordinator, FromSession, TurnEvents, ProviderEvents, ContentEvents, ToolEvents
<1>8. Accepts(from, sequence + 1, f)
  BY <1>3, <1>4 DEF Accepts, TurnAccepted, IsTerminal, TerminalStatuses
<1>9. run' = Reduced(from, sequence + 1, f) /\ active' = at /\ sequence' = sequence + 2
  BY <1>5, <1>8 DEF BeginTurn
<1>10. /\ RunInv(run') /\ run'.lastSequence = sequence + 1 /\ SessionRun(run') /\ run' \in Runs
  <2>1. sequence + 1 \in Int
    BY <1>1
  <2>. HIDE DEF f, at
  <2>. QED
    BY <1>3, <1>7, <1>8, <1>9, <2>1, ReducerKeepsRunSound, EventSession, RunFields
<1>11. /\ run'.status = "running" /\ run'.pending = {} /\ run'.turns # <<>>
       /\ run'.executions = from.executions /\ run'.results = from.results
  <2>1. NextRun(from, f) = TurnReduced(from, f)
    BY DEF NextRun, TurnEvents, ProviderEvents, ContentEvents, ToolEvents
  <2>2. /\ TurnReduced(from, f).status = "running" /\ TurnReduced(from, f).pending = {}
        /\ TurnReduced(from, f).turns = Append(from.turns, <<NewAttempt>>)
        /\ TurnReduced(from, f).executions = from.executions
        /\ TurnReduced(from, f).results = from.results
    BY <1>4 DEF TurnReduced, Runs
  <2>3. Reduced(from, sequence + 1, f) \in Runs
    BY <1>9, <1>10
  <2>4. TurnReduced(from, f).turns # <<>>
    <3>1. Append(<<>>, <<NewAttempt>>) # <<>>
      OBVIOUS
    <3>2. TurnReduced(from, f).turns = Append(<<>>, <<NewAttempt>>)
      BY <1>4, <2>2
    <3>. HIDE DEF f, at
    <3>. QED
      BY <3>1, <3>2
  <2>. HIDE DEF f, at
  <2>5. /\ run'.status = NextRun(from, f).status /\ run'.pending = NextRun(from, f).pending
        /\ run'.turns = NextRun(from, f).turns
        /\ run'.executions = NextRun(from, f).executions
        /\ run'.results = NextRun(from, f).results
    BY <1>9, <2>3, ReducedFields
  <2>. QED
    BY <2>1, <2>2, <2>4, <2>5
<1>12. SoundStep
  BY Started
<1>13. InStep' /\ active' # None
  BY <1>1, <1>6, <1>9, <1>10, BoundsAssumption DEF InStep
<1>. QED
  BY <1>1, <1>4, <1>10, <1>11, <1>12, <1>13 DEF RunMoves, Quiet

LEMMA SessionRetries ==
  ASSUME CoordinatorInv, SessionRun(run), Retry
  PROVE  /\ RunMoves /\ Quiet /\ run'.pending = {} /\ active' # None
         /\ InStep => InStep' /\ run'.status = "running"
<1>. DEFINE t == Current(run)[1]
            e == [type |-> "turn.attempt_started", at |-> <<t, Current(run)[2] + 1>>]
<1>1. /\ RunInv(run) /\ run \in Runs /\ run.status = "attempt_failed" /\ Apply(e)
      /\ active' = <<t, Current(run)[2] + 1>> /\ run.pending = {}
  BY RunFields DEF CoordinatorInv, Retry, SessionRun, WaitsOnlyForCalls
<1>2. <<t, Current(run)[2] + 1>> \in Nat \X Nat
  <2>1. run.turns # <<>>
    BY <1>1 DEF RunInv, TurnsBegun
  <2>. QED
    BY <1>1, <2>1, LastIsKnown
<1>3. FromCoordinator(run, e) /\ FromSession(run, e) /\ active' # None
  <2>1. FromSession(run, e)
    BY DEF FromSession
  <2>. QED
    BY <1>1, <1>2, <2>1, AttemptEvents, BoundsAssumption
<1>4. RunMoves
  BY <1>1, <1>3, AttemptRetried, SessionApplied DEF RunMoves
<1>5. NextRun(run, e) = TurnReduced(run, e)
  BY DEF NextRun, TurnEvents, ProviderEvents, ContentEvents, ToolEvents
<1>6. /\ TurnReduced(run, e).status = "running"
      /\ TurnReduced(run, e).executions = run.executions
      /\ TurnReduced(run, e).results = run.results
      /\ TurnReduced(run, e).pending = {}
  BY <1>1 DEF TurnReduced, Runs
<1>7. \/ ~ InStep' /\ run' = run
      \/ /\ InStep' /\ run'.executions = run.executions /\ run'.results = run.results
         /\ run'.status = "running" /\ run'.pending = {}
  BY <1>1, <1>3, <1>5, <1>6, Outcome
<1>8. ASSUME InStep  PROVE InStep'
  <2>1. LastAttempt(run).status = "failed" /\ ~ IsTerminal(run)
    BY <1>1 DEF RunInv, StatusFits, IsTerminal, TerminalStatuses
  <2>2. TurnAccepted(run, e)
    BY <1>1, <2>1 DEF TurnAccepted
  <2>3. Accepted(e)
    BY <1>8, <2>1, <2>2 DEF Accepted, Accepts, InStep
  <2>. QED
    BY <1>1, <1>3, <2>3, AcceptedInStep
<1>. QED
  BY <1>1, <1>3, <1>4, <1>7, <1>8 DEF Quiet

LEMMA SessionContinues ==
  ASSUME CoordinatorInv, SessionRun(run), Continue
  PROVE  /\ RunMoves /\ Quiet /\ run'.pending = {} /\ active' # None
         /\ InStep => InStep' /\ run'.status = "running"
<1>. DEFINE at == <<Len(run.turns) + 1, 1>>
            e  == [type |-> "turn.started", at |-> at]
<1>1. /\ RunInv(run) /\ run \in Runs /\ run.status = "tool_results_ready"
      /\ Len(run.turns) \in Nat /\ run.pending = {} /\ at \in Nat \X Nat
      /\ run.lastSequence \in Int /\ sequence \in Nat /\ sequence >= run.lastSequence + 1
      /\ ~ IsTerminal(run)
  <2>1. /\ RunInv(run) /\ run \in Runs /\ run.status = "tool_results_ready"
        /\ run.turns \in Seq(Seq(Attempts)) /\ run.pending = {}
        /\ run.lastSequence \in Int /\ sequence \in Nat /\ sequence >= run.lastSequence + 1
    BY RunFields DEF CoordinatorInv, Continue, SessionRun, WaitsOnlyForCalls
  <2>. QED
    BY <2>1 DEF IsTerminal, TerminalStatuses
<1>2. Apply(e) /\ active' = at
  BY DEF Continue, BeginTurn, Apply, Accepted
<1>3. FromCoordinator(run, e) /\ FromSession(run, e) /\ active' # None
  BY <1>1, <1>2, BoundsAssumption
     DEF FromCoordinator, FromSession, TurnEvents, ProviderEvents, ContentEvents, ToolEvents
<1>4. SoundStep
  BY <1>1, TurnBegun DEF Continue
<1>5. RunMoves
  BY <1>2, <1>3, <1>4, SessionApplied DEF RunMoves
<1>6. NextRun(run, e) = TurnReduced(run, e)
  BY DEF NextRun, TurnEvents, ProviderEvents, ContentEvents, ToolEvents
<1>7. /\ TurnReduced(run, e).status = "running"
      /\ TurnReduced(run, e).executions = run.executions
      /\ TurnReduced(run, e).results = run.results
      /\ TurnReduced(run, e).pending = {}
  BY <1>1 DEF TurnReduced, Runs
<1>8. \/ ~ InStep' /\ run' = run
      \/ /\ InStep' /\ run'.executions = run.executions /\ run'.results = run.results
         /\ run'.status = "running" /\ run'.pending = {}
  BY <1>2, <1>3, <1>6, <1>7, Outcome
<1>9. ASSUME InStep  PROVE InStep'
  <2>1. TurnAccepted(run, e)
    BY <1>1 DEF TurnAccepted
  <2>2. Accepted(e)
    BY <1>1, <1>9, <2>1 DEF Accepted, Accepts, InStep
  <2>. QED
    BY <1>2, <1>3, <2>2, AcceptedInStep
<1>. QED
  BY <1>1, <1>3, <1>5, <1>8, <1>9 DEF Quiet

-----------------------------------------------------------------------------
(* Tools *)

LEMMA SessionTool ==
  ASSUME CoordinatorInv, SessionRun(run), run.status = "awaiting_tool_results", NEW e,
         e.type \in ToolEvents, e.at = Current(run), Apply(e), active' = active,
         e.type # "tool.result_supplied" => e.number \in Nat, FromSession(run, e)
  PROVE  /\ RunMoves
         /\ \/ ~ InStep' /\ run' = run
            \/ /\ InStep' /\ ToolAccepted(run, e)
               /\ run'.status = ToolReduced(run, e).status
               /\ run'.turns = ToolReduced(run, e).turns
               /\ run'.pending = ToolReduced(run, e).pending
               /\ run'.executions = ToolReduced(run, e).executions
               /\ run'.results = ToolReduced(run, e).results
         /\ InStep /\ ToolAccepted(run, e) => InStep'
<1>1. FromCoordinator(run, e)
  BY WaitingIsKnown
     DEF FromCoordinator, TurnEvents, ProviderEvents, ContentEvents, ToolEvents
<1>2. RunMoves
  BY <1>1, StreamContinuing, SessionApplied DEF RunMoves
<1>3. NextRun(run, e) = ToolReduced(run, e)
  BY DEF NextRun, TurnEvents, ProviderEvents, ContentEvents, ToolEvents
<1>4. Accepts(run, sequence, e) => ToolAccepted(run, e)
  BY DEF Accepts, TurnAccepted, ProviderAccepted, RunAccepted, ContentEvents, ToolEvents
<1>5. \/ ~ InStep' /\ run' = run
      \/ /\ InStep' /\ ToolAccepted(run, e)
         /\ run'.status = ToolReduced(run, e).status
         /\ run'.turns = ToolReduced(run, e).turns
         /\ run'.pending = ToolReduced(run, e).pending
         /\ run'.executions = ToolReduced(run, e).executions
         /\ run'.results = ToolReduced(run, e).results
  BY <1>1, <1>3, <1>4, Outcome
<1>6. ASSUME InStep, ToolAccepted(run, e)  PROVE InStep'
  <2>1. Accepted(e)
    BY <1>6 DEF Accepted, Accepts, InStep, IsTerminal, TerminalStatuses
  <2>. QED
    BY <1>1, <2>1, AcceptedInStep
<1>. QED
  BY <1>2, <1>5, <1>6

\* An execution that the reducer accepts is open, and the last of its call.
LEMMA SessionExecutes ==
  ASSUME CoordinatorInv, SessionRun(run), NEW call, StartToolExecution(call),
         Accepted([type |-> "tool.execution_started", at |-> Current(run),
                   call |-> call, number |-> NextExecution(call)])
  PROVE  LET open == [call |-> call, number |-> NextExecution(call), status |-> "executing"] IN
         /\ RunMoves /\ InStep' /\ active' = active /\ call \in run.pending
         /\ run'.status = run.status /\ run'.turns = run.turns
         /\ run'.pending = run.pending /\ run'.results = run.results
         /\ run'.executions = run.executions \cup {open}
         /\ Cardinality(ExecutionsOf(call)') = NextExecution(call)
<1>. DEFINE n == NextExecution(call)
            e == [type |-> "tool.execution_started", at |-> Current(run),
                  call |-> call, number |-> n]
            open == [call |-> call, number |-> n, status |-> "executing"]
<1>1. /\ run.status = "awaiting_tool_results" /\ Apply(e) /\ active' = active
      /\ e.type \in ToolEvents /\ n \in Nat /\ Accepted(e)
      /\ e.at = Current(run) /\ e.number = n /\ e.call = call
      /\ e.type = "tool.execution_started"
  BY ExecutionNumber DEF StartToolExecution, ToolEvents, CoordinatorInv
<1>2. n = Cardinality(Executed(run, call)) + 1
  BY DEF NextExecution, ExecutionsOf, Executed
<1>3. FromSession(run, e)
  BY <1>2 DEF FromSession
<1>4. /\ ToolReduced(run, e).status = run.status
      /\ ToolReduced(run, e).turns = run.turns
      /\ ToolReduced(run, e).pending = run.pending
      /\ ToolReduced(run, e).results = run.results
      /\ ToolReduced(run, e).executions = run.executions \cup {open}
  BY <1>1, WaitingIsKnown DEF ToolReduced, Runs, Open
<1>5. InStep /\ ToolAccepted(run, e)
  <2>1. e.type \notin TurnEvents \cup ProviderEvents
    BY DEF TurnEvents, ProviderEvents, ContentEvents
  <2>. QED
    BY <1>1, <2>1 DEF Accepted, Accepts, InStep, TurnAccepted, ProviderAccepted, RunAccepted,
                      TurnEvents, ProviderEvents, ContentEvents
<1>6. call \in run.pending
  BY <1>5 DEF ToolAccepted, AwaitingCall
<1>. HIDE DEF e
<1>7. /\ RunMoves /\ InStep'
      /\ run'.status = run.status /\ run'.turns = run.turns
      /\ run'.pending = run.pending /\ run'.results = run.results
      /\ run'.executions = run.executions \cup {open}
  BY <1>1, <1>3, <1>4, <1>5, SessionTool
<1>8. Cardinality(Executed(run', call)) = n
  <2>1. NumbersFit(run) /\ IsFiniteSet(run.executions)
    BY DEF SessionRun, CoordinatorInv, RunInv
  <2>2. open.call = call /\ open.number = Cardinality(Executed(run, call)) + 1
    BY <1>2
  <2>. HIDE DEF open, n
  <2>. QED
    BY <1>2, <1>7, <2>1, <2>2, NumberTaken
<1>. QED
  BY <1>1, <1>6, <1>7, <1>8 DEF ExecutionsOf, Executed

\* The last execution of a call settles, if it is open.
LEMMA SessionSettles ==
  ASSUME CoordinatorInv, SessionRun(run), NEW call, NEW succeeded \in BOOLEAN,
         SettleToolExecution(call, NextExecution(call) - 1, succeeded)
  PROVE  LET open == [call |-> call, number |-> Cardinality(ExecutionsOf(call)),
                      status |-> "executing"]
             end  == IF succeeded THEN "completed" ELSE "failed" IN
         /\ RunMoves /\ active' = active
         /\ \/ ~ InStep' /\ run' = run
            \/ /\ InStep' /\ open \in run.executions /\ call \in run.pending
               /\ run'.status = run.status /\ run'.turns = run.turns
               /\ run'.pending = run.pending /\ run'.results = run.results
               /\ run'.executions =
                    (run.executions \ {open}) \cup {[open EXCEPT !.status = end]}
         /\ InStep /\ open \in run.executions /\ call \in run.pending => InStep'
<1>. DEFINE n    == Cardinality(ExecutionsOf(call))
            type == IF succeeded THEN "tool.execution_completed" ELSE "tool.execution_failed"
            e    == [type |-> type, at |-> Current(run), call |-> call, number |-> n]
            open == [call |-> call, number |-> n, status |-> "executing"]
            end  == IF succeeded THEN "completed" ELSE "failed"
<1>1. n \in Nat /\ NextExecution(call) - 1 = n
  <2>1. Executed(run, call) = ExecutionsOf(call)
    BY DEF Executed, ExecutionsOf
  <2>. QED
    BY <2>1, ExecutedFinite DEF CoordinatorInv, RunInv, NextExecution
<1>2. /\ run.status = "awaiting_tool_results" /\ Apply(e) /\ active' = active
      /\ e.type \in {"tool.execution_completed", "tool.execution_failed"}
      /\ e.at = Current(run) /\ e.number = n /\ e.call = call
  BY <1>1 DEF SettleToolExecution
<1>3. /\ ToolReduced(run, e).status = run.status
      /\ ToolReduced(run, e).turns = run.turns
      /\ ToolReduced(run, e).pending = run.pending
      /\ ToolReduced(run, e).results = run.results
      /\ ToolReduced(run, e).executions =
           (run.executions \ {open}) \cup {[open EXCEPT !.status = end]}
  <2>1. CASE succeeded
    BY <1>2, <2>1, WaitingIsKnown DEF ToolReduced, Runs, Open
  <2>2. CASE ~ succeeded
    BY <1>2, <2>2, WaitingIsKnown DEF ToolReduced, Runs, Open
  <2>. QED
    BY <2>1, <2>2
<1>4. ToolAccepted(run, e) <=> open \in run.executions /\ call \in run.pending
  BY <1>2 DEF ToolAccepted, AwaitingCall, Open, Current, ToolEvents
<1>5. FromSession(run, e)
  BY <1>2 DEF FromSession
<1>. HIDE DEF e, n, end
<1>6. e.type \in ToolEvents
  BY <1>2 DEF ToolEvents
<1>7. /\ RunMoves
      /\ \/ ~ InStep' /\ run' = run
         \/ /\ InStep' /\ ToolAccepted(run, e)
            /\ run'.status = ToolReduced(run, e).status
            /\ run'.turns = ToolReduced(run, e).turns
            /\ run'.pending = ToolReduced(run, e).pending
            /\ run'.executions = ToolReduced(run, e).executions
            /\ run'.results = ToolReduced(run, e).results
      /\ InStep /\ ToolAccepted(run, e) => InStep'
  BY <1>1, <1>2, <1>5, <1>6, SessionTool
<1>. QED
  BY <1>2, <1>3, <1>4, <1>7 DEF n, end

LEMMA SessionSupplies ==
  ASSUME CoordinatorInv, SessionRun(run), NEW call, SupplyToolResult(call),
         Accepted([type |-> "tool.result_supplied", at |-> Current(run), call |-> call])
  PROVE  /\ RunMoves /\ InStep' /\ active' = active /\ call \in run.pending
         /\ run'.executions = run.executions /\ run'.results = run.results \cup {call}
         /\ run'.pending = run.pending \ {call}
         /\ run'.status = IF run'.pending = {} THEN "tool_results_ready"
                                               ELSE "awaiting_tool_results"
<1>. DEFINE e    == [type |-> "tool.result_supplied", at |-> Current(run), call |-> call]
            left == CallsOf(Current(run), LastAttempt(run)) \ (run.results \cup {call})
<1>1. /\ run.status = "awaiting_tool_results" /\ Apply(e) /\ active' = active
      /\ e.type = "tool.result_supplied" /\ Accepted(e) /\ e.at = Current(run)
      /\ e.call = call
  BY DEF SupplyToolResult
<1>2. left = run.pending \ {call}
  BY <1>1, WaitingIsKnown DEF Unanswered
<1>3. /\ ToolReduced(run, e).executions = run.executions
      /\ ToolReduced(run, e).results = run.results \cup {call}
      /\ ToolReduced(run, e).pending = left
      /\ ToolReduced(run, e).status = IF left = {} THEN "tool_results_ready"
                                                   ELSE "awaiting_tool_results"
  BY <1>1, WaitingIsKnown DEF ToolReduced, Runs
<1>. HIDE DEF left, e
<1>4. InStep /\ ToolAccepted(run, e)
  BY <1>1 DEF Accepted, Accepts, InStep, TurnAccepted, ProviderAccepted, RunAccepted,
              TurnEvents, ProviderEvents, ContentEvents
<1>5. call \in run.pending
  BY <1>1, <1>4 DEF ToolAccepted, AwaitingCall
<1>6. FromSession(run, e) /\ e.type \in ToolEvents
  BY <1>1, NotASessionEvent DEF ToolEvents
<1>7. /\ RunMoves /\ InStep'
      /\ run'.status = ToolReduced(run, e).status
      /\ run'.pending = ToolReduced(run, e).pending
      /\ run'.executions = ToolReduced(run, e).executions
      /\ run'.results = ToolReduced(run, e).results
  BY <1>1, <1>4, <1>6, SessionTool
<1>. QED
  BY <1>1, <1>2, <1>3, <1>5, <1>7

\* A refused event uses up its number, and cuts the coordinator off.
LEMMA SessionRefused ==
  ASSUME CoordinatorInv, SessionRun(run), run' = run,
         sequence' \in {sequence + 1, sequence + 2}, active' \in {active, None}
  PROVE  RunMoves /\ Quiet /\ ~ InStep'
<1>1. /\ run.lastSequence \in Int /\ sequence \in Nat /\ sequence >= run.lastSequence + 1
      /\ RunInv(run) /\ active \in (Nat \X Nat) \cup {None}
  BY RunFields DEF CoordinatorInv
<1>2. ~ InStep' /\ sequence' \in Nat /\ sequence' >= run.lastSequence + 1
  BY <1>1 DEF InStep
<1>3. CoordinatorInv'
  BY <1>1, <1>2 DEF CoordinatorInv, StreamIsCurrent
<1>. QED
  BY <1>2, <1>3, SameTurnsFixed DEF RunMoves, Quiet, SoundStep

-----------------------------------------------------------------------------
(* The state of a session *)

Phases == {"turn", "ended", "serving", "executing", "executed", "done"}
AtWork == {"executing", "executed"}
Serving == {"serving"} \cup AtWork
OnTheWire == {"turn", "ended"}

DraftSets == UNION { [some -> Drafts] : some \in SUBSET CallIds }

Tasks == [phase : Phases, aborted : BOOLEAN, automatic : BOOLEAN,
          todo : SUBSET CallIds, drafts : DraftSets]

\* The task of the latest generation.
Latest == IF generation = 0 THEN Idle ELSE tasks[generation]

TasksTyped ==
  /\ tasks \in [1..MaxGenerations -> Tasks]
  /\ \A g \in 1..MaxGenerations : g > generation => tasks[g] = Idle

CommandsTyped ==
  /\ generation \in 0..MaxGenerations /\ abortRef \in 0..generation
  /\ other \in 0..generation /\ requestActive \in BOOLEAN

ViewTyped ==
  /\ live \in BOOLEAN /\ shown \in {"none", "this", "other"} /\ workspace \in BOOLEAN
  /\ save \in {"none", "saving", "saved", "error"}
  /\ storage \in {"none", "unsaved", "saving", "saved", "error", "other"}

SessionTypes ==
  /\ TasksTyped /\ CommandsTyped /\ ViewTyped
  /\ drafts \in DraftSets /\ asked \subseteq CallIds

-----------------------------------------------------------------------------
(* Consent *)

CallIsServed(c) == ExecutionsOf(c) # {} \/ c \in run.results

\* The draft of a call that only a person's word can serve.
WaitsForWord(draft) ==
  \/ draft.serves = "mcp_ask" /\ ~ draft.approved
  \/ draft.serves = "hand" /\ draft.rejected /\ ~ draft.edited

CallOf(some) == CHOOSE call \in some : \A o \in some : call[2] <= o[2]

AskedFirst ==
  \A c \in asked : SettledCall(run, c) /\ (c \in decided \/ ~ CallIsServed(c))

DraftsAsk == \A c \in asked \cap DOMAIN drafts : c \in decided \/ WaitsForWord(drafts[c])

LatestAsks ==
  Latest.phase \in Serving =>
    \A c \in Latest.todo \cap asked \cap DOMAIN Latest.drafts :
      \/ c \in decided
      \/ Latest.automatic /\ Latest.drafts[c].serves # "mcp_automatic"

NewCallsUnasked ==
  Latest.phase \in OnTheWire =>
    \A c \in run.pending : c \notin asked /\ ~ CallIsServed(c)

WorkBegun ==
  \A g \in 1..MaxGenerations : tasks[g].phase \in AtWork =>
    tasks[g].todo # {} /\ ExecutionsOf(CallOf(tasks[g].todo)) # {}

Consent == AskedFirst /\ DraftsAsk /\ LatestAsks /\ NewCallsUnasked /\ WorkBegun

-----------------------------------------------------------------------------
(* What is shown and kept *)

Gone ==
  /\ live => shown = "this" /\ run # NewRun
  /\ run # NewRun => run.turns # <<>>
  /\ run # NewRun /\ ~ live => IsTerminal(run)
  /\ Latest.phase # "done" => live
  /\ run = NewRun => /\ generation = 0 /\ save = "none" /\ shown = "none"
                     /\ ~ stopped /\ sequence = 0

Kept ==
  /\ save # "none" <=> IsTerminal(run) /\ workspace
  /\ shown = "this" =>
       /\ storage \in {"saved", "error"} => storage = save
       /\ IsTerminal(run) => storage \in {"unsaved", "saving", "saved", "error"}

-----------------------------------------------------------------------------
(* Unless the user continues twice *)

Flags ==
  /\ requestActive = ((other # 0 /\ other = generation) \/ Latest.phase # "done")
  /\ Latest.phase # "done" => abortRef = generation /\ other # generation

StaleOver ==
  \A g \in 1..MaxGenerations : g # generation /\ tasks[g].phase # "done" =>
    tasks[g].phase = "ended" \/ (tasks[g].aborted /\ IsTerminal(run))

StopEnded == stopped /\ live => IsTerminal(run)

LatestFits ==
  /\ Latest.phase = "turn" =>
       run.status \in {"running", "awaiting_tool_results"} /\ active # None
  /\ Latest.phase = "ended" => run.status \in {"attempt_failed", "failed"}
  /\ Latest.phase = "serving" => run.status \in {"awaiting_tool_results", "tool_results_ready"}
  /\ Latest.phase \in AtWork => run.status = "awaiting_tool_results"
  /\ Latest.phase \in Serving => Latest.todo \subseteq run.pending \cap DOMAIN Latest.drafts

\* The execution of the call that the latest task is serving.
ExecutionFits ==
  /\ Latest.phase = "executing" =>
       [call |-> CallOf(Latest.todo), number |-> Cardinality(ExecutionsOf(CallOf(Latest.todo))),
        status |-> "executing"] \in run.executions
  /\ Latest.phase = "executed" =>
       \A x \in run.executions : x.call = CallOf(Latest.todo) => x.status # "executing"

DraftsReady == live /\ Latest.phase # "turn" => run.pending \subseteq DOMAIN drafts

OthersUnserved ==
  live => \A x \in run.executions : x.call \in run.pending =>
    \/ x.status = "failed"
    \/ Latest.phase \in AtWork /\ x.call = CallOf(Latest.todo)

Orderly ==
  /\ InStep /\ Flags /\ StaleOver /\ StopEnded /\ LatestFits /\ ExecutionFits
  /\ DraftsReady /\ OthersUnserved

SessionInv ==
  /\ CoordinatorInv /\ SessionRun(run) /\ SessionTypes
  /\ Consent /\ Gone /\ Kept /\ (~ hasty => Orderly)

\* What the session has put away stays away, unless it was saved.
StaysGone == run # NewRun /\ shown # "this" /\ shown' = "this" => save = "saved"

SessionStep == RunMoves /\ SessionInv' /\ StaysGone

-----------------------------------------------------------------------------
(* Calls and drafts *)

LEMMA CallOfIsOne ==
  ASSUME NEW some \in SUBSET CallIds, some # {}
  PROVE  CallOf(some) \in some
<1>. DEFINE Indices == { call[2] : call \in some }
<1>1. Indices \subseteq Nat /\ Indices # {}
  BY CallIndicesAssumption DEF CallIds
<1>2. PICK least \in Indices : \A o \in Indices : <<o, least>> \notin OpToRel(<, Nat)
  BY <1>1, NatLessThanWellFounded, WFMin
<1>3. least \in Nat /\ \A o \in Indices : o \in Nat /\ least <= o
  <2>1. SUFFICES ASSUME NEW o \in Indices  PROVE o \in Nat /\ least <= o
    BY <1>1
  <2>2. least \in Nat /\ o \in Nat /\ ~ o < least
    BY <1>1, <1>2 DEF OpToRel
  <2>. QED
    BY <2>2
<1>4. PICK call \in some : least = call[2]
  OBVIOUS
<1>5. \A o \in some : call[2] <= o[2]
  BY <1>3, <1>4
<1>. QED
  BY <1>5 DEF CallOf

LEMMA ServedIsCallOf ==
  ASSUME NEW g
  PROVE  CallServed(g) = CallOf(tasks[g].todo)
BY DEF CallServed, CallOf

LEMMA DraftTypes ==
  ASSUME NEW some \in DraftSets
  PROVE  /\ DOMAIN some \subseteq CallIds
         /\ \A c \in DOMAIN some : some[c] \in Drafts
<1>1. PICK domain \in SUBSET CallIds : some \in [domain -> Drafts]
  BY DEF DraftSets
<1>. QED
  BY <1>1

LEMMA DraftSetIs ==
  ASSUME NEW domain \in SUBSET CallIds, NEW some \in [domain -> Drafts]
  PROVE  some \in DraftSets
BY DEF DraftSets

LEMMA NoDrafts == <<>> \in DraftSets /\ DOMAIN <<>> = {}
<1>1. <<>> \in [{} -> Drafts] /\ DOMAIN <<>> = {}
  OBVIOUS
<1>. QED
  BY <1>1, DraftSetIs

-----------------------------------------------------------------------------
(* Tasks *)

LEMMA IdleTask == Idle \in Tasks /\ Idle.phase = "done" /\ Idle.aborted = FALSE
<1>1. {} \in SUBSET CallIds /\ <<>> \in DraftSets
  BY NoDrafts
<1>. HIDE DEF DraftSets
<1>. QED
  BY <1>1 DEF Idle, Tasks, Phases

LEMMA TaskTypes ==
  ASSUME NEW task \in Tasks
  PROVE  /\ task.phase \in Phases /\ task.aborted \in BOOLEAN /\ task.automatic \in BOOLEAN
         /\ task.todo \in SUBSET CallIds /\ task.drafts \in DraftSets
BY DEF Tasks

LEMMA TurnTask ==
  ASSUME NEW b \in BOOLEAN
  PROVE  /\ [Turn EXCEPT !.aborted = b] \in Tasks /\ [Turn EXCEPT !.aborted = b].phase = "turn"
         /\ Turn \in Tasks /\ Turn.phase = "turn"
<1>1. {} \in SUBSET CallIds /\ <<>> \in DraftSets
  BY NoDrafts
<1>. QED
  BY <1>1 DEF Turn, Idle, Tasks, Phases

LEMMA ServingTask ==
  ASSUME NEW b \in BOOLEAN, NEW t \in SUBSET CallIds, NEW d \in DraftSets
  PROVE  LET task == [Idle EXCEPT !.phase = "serving", !.automatic = b,
                                  !.todo = t, !.drafts = d]
         IN  task \in Tasks /\ task.phase = "serving" /\ task.automatic = b
             /\ task.todo = t /\ task.drafts = d
BY DEF Idle, Tasks, Phases

\* One task becomes another.
TaskBecomes(g, new) == tasks' = [tasks EXCEPT ![g] = new]

LEMMA Becomes ==
  ASSUME SessionTypes, NEW g \in 1..MaxGenerations, NEW new \in Tasks, TaskBecomes(g, new)
  PROVE  /\ tasks' \in [1..MaxGenerations -> Tasks] /\ tasks'[g] = new
         /\ \A h \in 1..MaxGenerations : h # g => tasks'[h] = tasks[h]
BY DEF SessionTypes, TasksTyped, CommandsTyped, TaskBecomes

LEMMA InFlightIsBegun ==
  ASSUME SessionTypes, NEW g \in 1..MaxGenerations, tasks[g].phase # "done"
  PROVE  /\ g <= generation /\ generation # 0 /\ Latest = tasks[generation]
         /\ generation \in 1..MaxGenerations /\ tasks[g] \in Tasks
         /\ generation \in Nat
<1>1. g <= generation
  BY IdleTask DEF SessionTypes, TasksTyped, CommandsTyped
<1>. QED
  BY <1>1, SessionAssumption DEF SessionTypes, TasksTyped, CommandsTyped, Latest

\* A step of a task that is in flight.
LEMMA LatestBecomes ==
  ASSUME SessionTypes, NEW g \in 1..MaxGenerations, NEW new \in Tasks, TaskBecomes(g, new),
         generation' = generation, tasks[g].phase # "done"
  PROVE  /\ tasks' \in [1..MaxGenerations -> Tasks]
         /\ \A h \in 1..MaxGenerations : h > generation' => tasks'[h] = Idle
         /\ Latest' = IF g = generation THEN new ELSE Latest
         /\ g = generation => Latest = tasks[g]
         /\ tasks'[g] = new
         /\ \A h \in 1..MaxGenerations : h # g => tasks'[h] = tasks[h]
<1>1. /\ g <= generation /\ generation # 0 /\ Latest = tasks[generation]
      /\ generation \in 1..MaxGenerations
  BY InFlightIsBegun
<1>2. /\ tasks' \in [1..MaxGenerations -> Tasks] /\ tasks'[g] = new
      /\ \A h \in 1..MaxGenerations : h # g => tasks'[h] = tasks[h]
  BY Becomes
<1>3. Latest' = tasks'[generation]
  BY <1>1 DEF Latest
<1>4. ASSUME NEW h \in 1..MaxGenerations, h > generation
      PROVE  tasks'[h] = Idle
  BY <1>1, <1>2, <1>4 DEF SessionTypes, TasksTyped, CommandsTyped
<1>. QED
  BY <1>1, <1>2, <1>3, <1>4

\* A task begins in the next generation.
LEMMA LatestBegins ==
  ASSUME SessionTypes, NEW new \in Tasks, Begins(new)
  PROVE  /\ tasks' \in [1..MaxGenerations -> Tasks]
         /\ \A h \in 1..MaxGenerations : h > generation' => tasks'[h] = Idle
         /\ generation' = generation + 1 /\ generation' \in 1..MaxGenerations
         /\ abortRef' = generation' /\ requestActive' = TRUE
         /\ Latest' = new /\ generation \in Nat
         /\ tasks'[generation'] = new
         /\ \A h \in 1..MaxGenerations : h # generation' => tasks'[h] = tasks[h]
<1>1. /\ generation \in Nat /\ generation + 1 \in 1..MaxGenerations
      /\ generation' = generation + 1 /\ abortRef' = generation + 1 /\ requestActive' = TRUE
      /\ TaskBecomes(generation + 1, new)
  BY SessionAssumption DEF SessionTypes, TasksTyped, CommandsTyped, Begins, TaskBecomes
<1>2. /\ tasks' \in [1..MaxGenerations -> Tasks] /\ tasks'[generation + 1] = new
      /\ \A h \in 1..MaxGenerations : h # generation + 1 => tasks'[h] = tasks[h]
  BY <1>1, Becomes
<1>3. Latest' = new
  BY <1>1, <1>2 DEF Latest
<1>4. ASSUME NEW h \in 1..MaxGenerations, h > generation + 1
      PROVE  tasks'[h] = Idle
  BY <1>1, <1>2, <1>4 DEF SessionTypes, TasksTyped, CommandsTyped
<1>. QED
  BY <1>1, <1>2, <1>3, <1>4

SameWork(s, t) == s.phase = t.phase /\ s.todo = t.todo

\* Stop, and another run's start: the task that abortRef names is aborted.
LEMMA LatestAborted ==
  ASSUME SessionTypes, tasks' = Aborted, generation < MaxGenerations,
         generation' = generation + 1
  PROVE  /\ tasks' \in [1..MaxGenerations -> Tasks]
         /\ \A h \in 1..MaxGenerations : h > generation' => tasks'[h] = Idle
         /\ generation' \in 1..MaxGenerations /\ Latest' = Idle /\ generation \in Nat
         /\ \A h \in 1..MaxGenerations :
              SameWork(tasks'[h], tasks[h]) /\ tasks'[h].aborted = (tasks[h].aborted \/ h = abortRef)
<1>1. /\ generation \in Nat /\ generation + 1 \in 1..MaxGenerations
      /\ abortRef \in Nat /\ abortRef <= generation
  BY SessionAssumption DEF SessionTypes, TasksTyped, CommandsTyped
<1>2. DOMAIN tasks = 1..MaxGenerations
  BY DEF SessionTypes, TasksTyped, CommandsTyped
<1>3. ASSUME NEW h \in 1..MaxGenerations
      PROVE  /\ tasks'[h] = [tasks[h] EXCEPT !.aborted = @ \/ (h = abortRef)]
             /\ tasks'[h] \in Tasks /\ SameWork(tasks'[h], tasks[h])
             /\ tasks'[h].aborted = (tasks[h].aborted \/ h = abortRef)
             /\ h > generation => tasks'[h] = Idle
  <2>1. tasks'[h] = [tasks[h] EXCEPT !.aborted = @ \/ (h = abortRef)]
    BY <1>2 DEF Aborted
  <2>2. tasks[h] \in Tasks
    BY DEF SessionTypes, TasksTyped, CommandsTyped
  <2>3. tasks'[h] \in Tasks
    BY <2>1, <2>2 DEF Tasks
  <2>4. SameWork(tasks'[h], tasks[h]) /\ tasks'[h].aborted = (tasks[h].aborted \/ h = abortRef)
    BY <2>1, <2>2 DEF Tasks, SameWork
  <2>5. ASSUME h > generation  PROVE tasks'[h] = Idle
    <3>1. tasks[h] = Idle /\ (h = abortRef) = FALSE
      BY <1>1, <2>5 DEF SessionTypes, TasksTyped, CommandsTyped
    <3>2. tasks'[h] = [Idle EXCEPT !.aborted = @ \/ FALSE]
      BY <2>1, <3>1
    <3>3. (Idle.aborted \/ FALSE) = FALSE
      BY IdleTask
    <3>4. tasks'[h] = [Idle EXCEPT !.aborted = FALSE]
      BY <3>2, <3>3
    <3>. QED
      BY <3>4 DEF Idle
  <2>. QED
    BY <2>1, <2>3, <2>4, <2>5
<1>4. tasks' = [h \in 1..MaxGenerations |-> tasks'[h]]
  BY <1>2 DEF Aborted
<1>5. tasks' \in [1..MaxGenerations -> Tasks]
  BY <1>3, <1>4
<1>6. Latest' = Idle
  <2>0. \A h \in 1..MaxGenerations : h > generation => tasks'[h] = Idle
    BY <1>3
  <2>1. generation + 1 \in 1..MaxGenerations /\ generation + 1 > generation /\ generation + 1 # 0
    BY <1>1
  <2>2. generation + 1 # 0 /\ tasks'[generation + 1] = Idle
    BY <2>0, <2>1
  <2>. QED
    BY <2>2 DEF Latest
<1>. QED
  BY <1>1, <1>3, <1>5, <1>6

-----------------------------------------------------------------------------
(* What keeps consent *)

LEMMA InvParts ==
  ASSUME SessionInv
  PROVE  /\ CoordinatorInv /\ SessionRun(run) /\ SessionTypes
         /\ Consent /\ Gone /\ Kept /\ (~ hasty => Orderly)
         /\ RunInv(run) /\ TasksTyped /\ CommandsTyped /\ ViewTyped
         /\ drafts \in DraftSets /\ asked \subseteq CallIds /\ sequence \in Nat
BY DEF SessionInv, SessionTypes, CoordinatorInv

\* No call but those given is served by the step.
ServedOf(some) ==
  \A c : /\ ExecutionsOf(c) # {} => ExecutionsOf(c)' # {}
         /\ CallIsServed(c)' => CallIsServed(c) \/ c \in some

LEMMA QuietServes ==
  ASSUME Quiet
  PROVE  ServedOf({})
BY DEF Quiet, ServedOf, CallIsServed, ExecutionsOf

LEMMA AskedKept ==
  ASSUME SessionInv, RunMoves, NEW some, ServedOf(some), some \cap asked \subseteq decided',
         asked' = asked, decided \subseteq decided'
  PROVE  AskedFirst'
<1>1. AskedFirst /\ asked \subseteq CallIds
  BY InvParts DEF Consent
<1>2. SUFFICES ASSUME NEW c \in asked
               PROVE  SettledCall(run', c) /\ (c \in decided' \/ ~ CallIsServed(c)')
  BY DEF AskedFirst
<1>3. SettledCall(run, c) /\ c \in CallIds /\ ContentFixed(run, run')
  BY <1>1 DEF AskedFirst, RunMoves, SoundStep
<1>4. SettledCall(run', c)
  BY <1>3, CallIsPair, CallStaysSettled
<1>5. c \in decided' \/ ~ CallIsServed(c)'
  BY <1>1 DEF AskedFirst, ServedOf
<1>. QED
  BY <1>4, <1>5

LEMMA DraftsAskKept ==
  ASSUME SessionInv, asked' = asked, decided \subseteq decided', drafts' \in {drafts, <<>>}
  PROVE  DraftsAsk'
<1>1. DraftsAsk
  BY InvParts DEF Consent
<1>2. CASE drafts' = drafts
  BY <1>1, <1>2 DEF DraftsAsk
<1>3. CASE drafts' = <<>>
  <2>1. DOMAIN drafts' = {}
    BY <1>3
  <2>. QED
    BY <2>1 DEF DraftsAsk
<1>. QED
  BY <1>2, <1>3

\* One draft changes.
LEMMA DraftAsks ==
  ASSUME SessionInv, asked' = asked, decided \subseteq decided', NEW call, NEW draft,
         drafts' = [drafts EXCEPT ![call] = draft],
         call \in asked => call \in decided' \/ WaitsForWord(draft)
  PROVE  DraftsAsk'
<1>1. DraftsAsk
  BY InvParts DEF Consent
<1>2. DOMAIN drafts' = DOMAIN drafts
  OBVIOUS
<1>3. SUFFICES ASSUME NEW c \in asked, c \in DOMAIN drafts
               PROVE  c \in decided' \/ WaitsForWord(drafts'[c])
  BY <1>2 DEF DraftsAsk, WaitsForWord
<1>4. CASE c = call
  BY <1>3, <1>4
<1>5. CASE c # call
  <2>1. drafts'[c] = drafts[c]
    BY <1>3, <1>5
  <2>. QED
    BY <1>1, <1>3, <2>1 DEF DraftsAsk
<1>. QED
  BY <1>4, <1>5

\* The task that serves goes on as it was set out.
ServingKept ==
  Latest'.phase \in Serving =>
    /\ Latest.phase \in Serving /\ Latest'.todo \subseteq Latest.todo
    /\ Latest'.drafts = Latest.drafts /\ Latest'.automatic = Latest.automatic

LEMMA LatestAsksKept ==
  ASSUME SessionInv, asked' = asked, decided \subseteq decided', ServingKept
  PROVE  LatestAsks'
<1>1. LatestAsks
  BY InvParts DEF Consent
<1>2. SUFFICES ASSUME Latest'.phase \in Serving,
                      NEW c \in Latest'.todo \cap asked \cap DOMAIN Latest'.drafts
               PROVE  \/ c \in decided'
                      \/ Latest'.automatic /\ Latest'.drafts[c].serves # "mcp_automatic"
  <2>1. LatestAsks' = (Latest'.phase \in Serving =>
          \A c \in Latest'.todo \cap asked' \cap DOMAIN Latest'.drafts :
            \/ c \in decided'
            \/ Latest'.automatic /\ Latest'.drafts[c].serves # "mcp_automatic")
    BY DEF LatestAsks, Serving, AtWork
  <2>. QED
    BY <2>1
<1>3. /\ Latest.phase \in Serving /\ c \in Latest.todo
      /\ Latest'.drafts = Latest.drafts /\ Latest'.automatic = Latest.automatic
  BY <1>2 DEF ServingKept
<1>. QED
  BY <1>1, <1>2, <1>3 DEF LatestAsks

\* While a turn is read, a call that comes to wait is one of its answer.
WireKept ==
  Latest'.phase \in OnTheWire =>
    \/ run'.pending = {}
    \/ /\ Latest.phase \in OnTheWire
       /\ \A c \in run'.pending : c \in run.pending \/ ~ SettledCall(run, c)

LEMMA NewCallsKept ==
  ASSUME SessionInv, asked' = asked, NEW some, ServedOf(some), WireKept,
         some \cap run'.pending = {} \/ Latest'.phase \notin OnTheWire
  PROVE  NewCallsUnasked'
<1>1. /\ NewCallsUnasked /\ AskedFirst /\ ExecutedCallsSettled(run) /\ RunInv(run)
  BY InvParts DEF Consent, SessionRun
<1>2. SUFFICES ASSUME Latest'.phase \in OnTheWire, NEW c \in run'.pending
               PROVE  c \notin asked /\ ~ CallIsServed(c)'
  <2>1. NewCallsUnasked' = (Latest'.phase \in OnTheWire =>
          \A c \in run'.pending : c \notin asked' /\ ~ CallIsServed(c)')
    BY DEF NewCallsUnasked, OnTheWire
  <2>. QED
    BY <2>1
<1>3. Latest.phase \in OnTheWire /\ (c \in run.pending \/ ~ SettledCall(run, c))
  BY <1>2 DEF WireKept
<1>4. c \notin asked /\ ~ CallIsServed(c)
  <2>1. CASE c \in run.pending
    BY <1>1, <1>3, <2>1 DEF NewCallsUnasked
  <2>2. CASE ~ SettledCall(run, c)
    BY <1>1, <2>2
       DEF AskedFirst, ExecutedCallsSettled, ExecutionsOf, RunInv, ResultsSettled, SettledCall,
           CallIsServed
  <2>. QED
    BY <1>3, <2>1, <2>2
<1>5. c \notin some
  BY <1>2
<1>. QED
  BY <1>4, <1>5 DEF ServedOf

WorkKept ==
  \A g \in 1..MaxGenerations : tasks'[g].phase \in AtWork =>
    tasks[g].phase \in AtWork /\ tasks'[g].todo = tasks[g].todo

LEMMA WorkBegunKept ==
  ASSUME SessionInv, NEW some, ServedOf(some), WorkKept
  PROVE  WorkBegun'
<1>1. WorkBegun
  BY InvParts DEF Consent
<1>2. SUFFICES ASSUME NEW g \in 1..MaxGenerations, tasks'[g].phase \in AtWork
               PROVE  tasks'[g].todo # {} /\ ExecutionsOf(CallOf(tasks[g].todo))' # {}
  BY DEF WorkBegun, AtWork
<1>3. tasks[g].phase \in AtWork /\ tasks'[g].todo = tasks[g].todo
  BY <1>2 DEF WorkKept
<1>4. tasks[g].todo # {} /\ ExecutionsOf(CallOf(tasks[g].todo)) # {}
  BY <1>1, <1>3 DEF WorkBegun
<1>5. { x \in run'.executions : x.call = CallOf(tasks[g].todo) } # {}
  BY <1>4 DEF ServedOf, ExecutionsOf
<1>. QED
  BY <1>3, <1>4, <1>5 DEF ExecutionsOf, CallOf

LEMMA ConsentKept ==
  ASSUME SessionInv, RunMoves, Quiet, asked' = asked, decided \subseteq decided',
         drafts' \in {drafts, <<>>}, ServingKept, WireKept, WorkKept
  PROVE  Consent'
<1>1. ServedOf({}) /\ {} \cap asked \subseteq decided' /\ {} \cap run'.pending = {}
  BY QuietServes
<1>2. AskedFirst'
  BY <1>1, AskedKept
<1>3. NewCallsUnasked' /\ WorkBegun'
  BY <1>1, NewCallsKept, WorkBegunKept
<1>4. DraftsAsk' /\ LatestAsks'
  BY DraftsAskKept, LatestAsksKept
<1>. QED
  BY <1>2, <1>3, <1>4 DEF Consent

-----------------------------------------------------------------------------
(* What keeps the view *)

\* A run that has not ended is live and shown.
LEMMA OpenIsShown ==
  ASSUME SessionInv, run # NewRun, ~ IsTerminal(run)
  PROVE  live /\ shown = "this"
BY InvParts DEF Gone, ViewTyped

LEMMA HasBegun ==
  ASSUME SessionInv,
         live \/ shown = "this" \/ save # "none" \/ other # 0 \/ generation # 0
  PROVE  run # NewRun
BY InvParts DEF Gone, CommandsTyped

LEMMA TaskHasBegun ==
  ASSUME SessionInv, NEW g \in 1..MaxGenerations, tasks[g].phase # "done"
  PROVE  run # NewRun
BY InFlightIsBegun, InvParts, HasBegun

\* What the latest task does, it does to a live run on the screen.
LEMMA LatestIsShown ==
  ASSUME SessionInv, NEW g \in 1..MaxGenerations, tasks[g].phase # "done", g = generation
  PROVE  Latest = tasks[g] /\ live /\ shown = "this" /\ run # NewRun
BY InFlightIsBegun, InvParts DEF Gone

LEMMA GoneKept ==
  ASSUME SessionInv, RunMoves, run # NewRun, live' => shown' = "this",
         ~ live' => ~ live \/ IsTerminal(run'), Latest'.phase # "done" => live'
  PROVE  Gone'
<1>1. Gone /\ CoordinatorInv /\ SoundStep
  BY InvParts DEF RunMoves
<1>2. run'.turns # <<>> /\ run' # NewRun
  BY <1>1, StaysBegun DEF Gone
<1>3. ~ live' => IsTerminal(run')
  <2>1. CASE ~ live
    BY <1>1, <2>1 DEF Gone, RunMoves
  <2>. QED
    BY <2>1
<1>. QED
  BY <1>2, <1>3 DEF Gone

LEMMA KeptSame ==
  ASSUME SessionInv, RunMoves, UNCHANGED <<save, storage, workspace>>,
         shown' = "this" => shown = "this", IsTerminal(run') => IsTerminal(run)
  PROVE  Kept'
<1>1. Kept /\ (IsTerminal(run) => run' = run)
  BY InvParts DEF RunMoves
<1>2. IsTerminal(run') <=> IsTerminal(run)
  BY <1>1
<1>. QED
  BY <1>1, <1>2 DEF Kept

LEMMA KeptShown ==
  ASSUME SessionInv, RunMoves, shown = "this", Shows, workspace' = workspace
  PROVE  Kept'
<1>1. Kept /\ (IsTerminal(run) => run' = run) /\ workspace \in BOOLEAN
  BY InvParts DEF RunMoves, ViewTyped
<1>2. CASE ~ IsTerminal(run')
  <2>1. UNCHANGED <<save, storage>> /\ ~ IsTerminal(run)
    BY <1>1, <1>2 DEF Shows
  <2>. QED
    BY <1>1, <1>2, <2>1 DEF Kept
<1>3. CASE IsTerminal(run') /\ ~ workspace
  <2>1. storage' = "unsaved" /\ save' = save
    BY <1>3 DEF Shows
  <2>2. save = "none"
    BY <1>1, <1>3 DEF Kept
  <2>. QED
    BY <1>3, <2>1, <2>2 DEF Kept
<1>4. CASE IsTerminal(run') /\ workspace /\ save \in {"saving", "saved"}
  <2>1. UNCHANGED <<save, storage>>
    BY <1>4 DEF Shows
  <2>2. IsTerminal(run)
    BY <1>1, <1>4 DEF Kept
  <2>. QED
    BY <1>1, <1>4, <2>1, <2>2 DEF Kept
<1>5. CASE IsTerminal(run') /\ workspace /\ save \notin {"saving", "saved"}
  <2>1. save' = "saving" /\ storage' = "saving"
    BY <1>5 DEF Shows
  <2>. QED
    BY <1>5, <2>1 DEF Kept
<1>. QED
  BY <1>2, <1>3, <1>4, <1>5

LEMMA ShownTypes ==
  ASSUME SessionInv, Shows, live' \in BOOLEAN, workspace' = workspace
  PROVE  ViewTyped' /\ shown' = "this"
<1>1. ViewTyped
  BY InvParts
<1>. QED
  BY <1>1 DEF ViewTyped, Shows

\* A step that shows the run, or leaves the view alone.
ViewKept ==
  /\ live' = live /\ workspace' = workspace
  /\ \/ shown = "this" /\ Shows
     \/ /\ UNCHANGED <<shown, save, storage>>
        /\ IsTerminal(run') => IsTerminal(run)

LEMMA ViewStep ==
  ASSUME SessionInv, RunMoves, ViewKept, run # NewRun, Latest'.phase # "done" => live
  PROVE  ViewTyped' /\ Gone' /\ Kept' /\ StaysGone
<1>1. ViewTyped /\ Gone
  BY InvParts
<1>2. CASE shown = "this" /\ Shows
  <2>1. ViewTyped' /\ shown' = "this" /\ Kept'
    BY <1>1, <1>2, ShownTypes, KeptShown DEF ViewKept, ViewTyped
  <2>2. Gone'
    BY <2>1, GoneKept DEF ViewKept
  <2>. QED
    BY <1>2, <2>1, <2>2 DEF StaysGone
<1>3. CASE UNCHANGED <<shown, save, storage>> /\ (IsTerminal(run') => IsTerminal(run))
  <2>1. ViewTyped' /\ Kept'
    BY <1>1, <1>3, KeptSame DEF ViewKept, ViewTyped
  <2>2. Gone'
    BY <1>1, <1>3, GoneKept DEF ViewKept, Gone
  <2>. QED
    BY <1>3, <2>1, <2>2 DEF StaysGone
<1>. QED
  BY <1>2, <1>3 DEF ViewKept

LEMMA SessionStepFrom ==
  ASSUME RunMoves, TasksTyped', CommandsTyped', ViewTyped', drafts' \in DraftSets,
         asked' \subseteq CallIds, Consent', Gone', Kept', ~ hasty' => Orderly', StaysGone
  PROVE  SessionStep
BY DEF SessionStep, SessionInv, SessionTypes, RunMoves, SoundStep

-----------------------------------------------------------------------------
(* What keeps a session orderly *)

LEMMA OrderlyParts ==
  ASSUME SessionInv, ~ hasty
  PROVE  /\ InStep /\ Flags /\ StaleOver /\ StopEnded /\ LatestFits /\ ExecutionFits
         /\ DraftsReady /\ OthersUnserved
BY DEF SessionInv, Orderly

LEMMA OrderlyFrom ==
  ASSUME InStep', Flags', StaleOver', StopEnded', LatestFits', ExecutionFits',
         DraftsReady', OthersUnserved'
  PROVE  Orderly'
BY DEF Orderly

LEMMA FlagsSame ==
  ASSUME SessionInv, ~ hasty, UNCHANGED <<generation, abortRef, requestActive, other>>,
         (Latest'.phase # "done") = (Latest.phase # "done")
  PROVE  Flags'
BY OrderlyParts DEF Flags

LEMMA FlagsEnded ==
  ASSUME SessionInv, ~ hasty, Latest.phase # "done", Latest'.phase = "done",
         generation' = generation, requestActive' = FALSE, other' = other
  PROVE  Flags'
BY OrderlyParts DEF Flags

LEMMA FlagsBegun ==
  ASSUME SessionInv, generation' = generation + 1, abortRef' = generation',
         requestActive' = TRUE, other' \in {other, 0}, Latest'.phase # "done"
  PROVE  Flags'
<1>1. generation \in Nat /\ other \in 0..generation
  BY InvParts, SessionAssumption DEF CommandsTyped
<1>2. other' # generation'
  BY <1>1
<1>. QED
  BY <1>2 DEF Flags

LEMMA FlagsStopped ==
  ASSUME SessionInv, generation' = generation + 1, requestActive' = FALSE, other' = other,
         Latest'.phase = "done"
  PROVE  Flags'
<1>1. generation \in Nat /\ other \in 0..generation
  BY InvParts, SessionAssumption DEF CommandsTyped
<1>2. other' # generation'
  BY <1>1
<1>. QED
  BY <1>2 DEF Flags

LEMMA StaleSame ==
  ASSUME SessionInv, RunMoves, ~ hasty, generation' = generation,
         \A h \in 1..MaxGenerations : h # generation =>
           tasks'[h].phase = "done" \/ tasks'[h] = tasks[h]
  PROVE  StaleOver'
<1>1. StaleOver /\ (IsTerminal(run) => run' = run)
  BY OrderlyParts DEF RunMoves
<1>. QED
  BY <1>1 DEF StaleOver

LEMMA StaleBegun ==
  ASSUME SessionInv, RunMoves, ~ hasty, generation' = generation + 1, Latest.phase \in {"done", "ended"},
         \A h \in 1..MaxGenerations : h # generation' => tasks'[h] = tasks[h]
  PROVE  StaleOver'
<1>1. StaleOver /\ (IsTerminal(run) => run' = run) /\ generation \in Nat
  BY OrderlyParts, InvParts, SessionAssumption DEF RunMoves, CommandsTyped
<1>2. SUFFICES ASSUME NEW h \in 1..MaxGenerations, h # generation', tasks'[h].phase # "done"
               PROVE  tasks'[h].phase = "ended" \/ (tasks'[h].aborted /\ IsTerminal(run'))
  BY DEF StaleOver
<1>3. tasks'[h] = tasks[h]
  BY <1>2
<1>4. h = generation => tasks'[h].phase = "ended"
  BY <1>2, <1>3, SessionAssumption DEF Latest
<1>. QED
  BY <1>1, <1>2, <1>3, <1>4 DEF StaleOver

LEMMA StaleStopped ==
  ASSUME SessionInv, RunMoves, ~ hasty, generation' = generation + 1,
         Latest.phase # "done" => IsTerminal(run'),
         \A h \in 1..MaxGenerations :
           SameWork(tasks'[h], tasks[h]) /\ tasks'[h].aborted = (tasks[h].aborted \/ h = abortRef)
  PROVE  StaleOver'
<1>1. /\ StaleOver /\ (IsTerminal(run) => run' = run) /\ generation \in Nat
      /\ Latest.phase # "done" => abortRef = generation
  BY OrderlyParts, InvParts, SessionAssumption DEF RunMoves, CommandsTyped, Flags
<1>2. SUFFICES ASSUME NEW h \in 1..MaxGenerations, h # generation', tasks'[h].phase # "done"
               PROVE  tasks'[h].phase = "ended" \/ (tasks'[h].aborted /\ IsTerminal(run'))
  BY DEF StaleOver
<1>3. /\ tasks'[h].phase = tasks[h].phase
      /\ tasks'[h].aborted = (tasks[h].aborted \/ h = abortRef)
  BY DEF SameWork
<1>4. CASE h = generation
  <2>1. Latest = tasks[h]
    BY <1>4, SessionAssumption DEF Latest
  <2>. QED
    BY <1>1, <1>2, <1>3, <1>4, <2>1
<1>5. CASE h # generation
  <2>1. tasks[h].phase = "ended" \/ (tasks[h].aborted /\ IsTerminal(run))
    BY <1>1, <1>2, <1>3, <1>5 DEF StaleOver
  <2>. QED
    BY <1>1, <1>3, <2>1
<1>. QED
  BY <1>4, <1>5

LEMMA StopKept ==
  ASSUME SessionInv, RunMoves, ~ hasty, stopped' = stopped, live' => live
  PROVE  StopEnded'
BY OrderlyParts DEF StopEnded, RunMoves

LEMMA IdleFits ==
  ASSUME Latest'.phase = "done"
  PROVE  LatestFits' /\ ExecutionFits'
BY DEF LatestFits, ExecutionFits, Serving, AtWork

LEMMA NothingWaits ==
  ASSUME run'.pending = {}
  PROVE  DraftsReady' /\ OthersUnserved'
BY DEF DraftsReady, OthersUnserved

LEMMA DraftsReadyKept ==
  ASSUME SessionInv, ~ hasty, DOMAIN drafts' = DOMAIN drafts, run'.pending \subseteq run.pending,
         live' => live, Latest.phase # "turn"
  PROVE  DraftsReady'
BY OrderlyParts DEF DraftsReady

LEMMA OthersKept ==
  ASSUME SessionInv, ~ hasty, Quiet, live' => live,
         \A c \in run'.pending : c \in run.pending \/ ~ SettledCall(run, c),
         Latest.phase \in AtWork => Latest'.phase \in AtWork /\ Latest'.todo = Latest.todo
  PROVE  OthersUnserved'
<1>1. OthersUnserved /\ ExecutedCallsSettled(run) /\ run'.executions = run.executions
  BY OrderlyParts, InvParts DEF SessionRun, Quiet
<1>2. SUFFICES ASSUME live', NEW x \in run.executions, x.call \in run'.pending
               PROVE  \/ x.status = "failed"
                      \/ Latest'.phase \in AtWork /\ x.call = CallOf(Latest'.todo)
  <2>1. OthersUnserved' = (live' => \A x \in run'.executions : x.call \in run'.pending =>
          \/ x.status = "failed"
          \/ Latest'.phase \in AtWork /\ x.call = CallOf(Latest'.todo))
    BY DEF OthersUnserved, AtWork, CallOf
  <2>. QED
    BY <1>1, <2>1
<1>3. x.call \in run.pending
  BY <1>1, <1>2 DEF ExecutedCallsSettled
<1>4. x.status = "failed" \/ (Latest.phase \in AtWork /\ x.call = CallOf(Latest.todo))
  BY <1>1, <1>2, <1>3 DEF OthersUnserved
<1>. QED
  BY <1>4

-----------------------------------------------------------------------------
(* The commands that begin something *)

LEMMA LatestType ==
  ASSUME SessionInv
  PROVE  Latest \in Tasks
<1>1. generation \in 0..MaxGenerations /\ tasks \in [1..MaxGenerations -> Tasks]
  BY InvParts DEF TasksTyped, CommandsTyped
<1>. QED
  BY <1>1, IdleTask, SessionAssumption DEF Latest

LEMMA Offered ==
  ASSUME SessionInv, ~ hasty, ~ requestActive
  PROVE  Latest.phase = "done"
BY OrderlyParts DEF Flags

LEMMA NoWork == Idle.phase \notin Serving \cup OnTheWire /\ Turn.phase = "turn"
BY DEF Idle, Turn, Serving, AtWork, OnTheWire

\* A turn begins in the next generation, with nothing pending.
LEMMA TurnTakesOver ==
  ASSUME SessionInv, RunMoves, Quiet, run'.pending = {}, Begins(Turn), drafts' = <<>>,
         UNCHANGED history, other' \in {other, 0}
  PROVE  /\ TasksTyped' /\ CommandsTyped' /\ drafts' \in DraftSets /\ asked' \subseteq CallIds
         /\ Consent' /\ Latest' = Turn /\ hasty' = hasty /\ stopped' = stopped
         /\ (/\ ~ hasty /\ Latest.phase \in {"done", "ended"} /\ InStep' /\ run'.status = "running"
             /\ active' # None /\ StopEnded')
              => Orderly'
<1>1. Turn \in Tasks /\ Turn.phase = "turn"
  BY NoDrafts, {} \in SUBSET CallIds DEF Turn, Idle, Tasks, Phases
<1>2. /\ tasks' \in [1..MaxGenerations -> Tasks]
      /\ \A h \in 1..MaxGenerations : h > generation' => tasks'[h] = Idle
      /\ generation' = generation + 1 /\ generation' \in 1..MaxGenerations
      /\ abortRef' = generation' /\ requestActive' = TRUE
      /\ Latest' = Turn /\ generation \in Nat
      /\ tasks'[generation'] = Turn
      /\ \A h \in 1..MaxGenerations : h # generation' => tasks'[h] = tasks[h]
  BY <1>1, InvParts, LatestBegins
<1>3. TasksTyped' /\ CommandsTyped' /\ drafts' \in DraftSets /\ asked' \subseteq CallIds
  BY <1>2, InvParts, NoDrafts, SessionAssumption DEF TasksTyped, CommandsTyped, history
<1>4. /\ ServingKept /\ WireKept
  BY <1>1, <1>2 DEF ServingKept, WireKept, Serving, AtWork, OnTheWire
<1>5. WorkKept
  BY <1>1, <1>2 DEF WorkKept, AtWork
<1>6. Consent'
  BY <1>4, <1>5, ConsentKept DEF history
<1>7. ASSUME ~ hasty, Latest.phase \in {"done", "ended"}, InStep', run'.status = "running",
             active' # None, StopEnded'
      PROVE  Orderly'
  <2>1. Flags' /\ StaleOver'
    BY <1>1, <1>2, <1>7, FlagsBegun, StaleBegun
  <2>2. LatestFits' /\ ExecutionFits'
    BY <1>1, <1>2, <1>7 DEF LatestFits, ExecutionFits, Serving, AtWork
  <2>. QED
    BY <1>7, <2>1, <2>2, NothingWaits, OrderlyFrom
<1>. QED
  BY <1>2, <1>3, <1>6, <1>7 DEF history

LEMMA SessionStartStep ==
  ASSUME SessionInv, SessionStart
  PROVE  SessionStep
<1>1. /\ run = NewRun /\ OffersRun /\ Start /\ Begins(Turn) /\ drafts' = <<>> /\ live' = TRUE
      /\ shown' = "this" /\ other' = 0 /\ storage' = "none"
      /\ UNCHANGED <<workspace, save, history>>
  BY DEF SessionStart
<1>2. /\ CoordinatorInv /\ sequence = 0 /\ save = "none" /\ generation = 0 /\ ~ stopped
      /\ ViewTyped
  BY <1>1, InvParts DEF Gone
<1>3. /\ RunMoves /\ Quiet /\ InStep' /\ run'.status = "running" /\ run'.pending = {}
      /\ run'.turns # <<>> /\ active' # None
  BY <1>1, <1>2, SessionStarts
<1>4. /\ TasksTyped' /\ CommandsTyped' /\ drafts' \in DraftSets /\ asked' \subseteq CallIds
      /\ Consent' /\ Latest' = Turn /\ hasty' = hasty /\ stopped' = stopped
      /\ (/\ ~ hasty /\ Latest.phase \in {"done", "ended"} /\ InStep' /\ run'.status = "running"
          /\ active' # None /\ StopEnded')
           => Orderly'
  <2>1. UNCHANGED history /\ other' \in {other, 0}
    BY <1>1 DEF history
  <2>2. /\ SessionInv /\ RunMoves /\ Quiet /\ run'.pending = {} /\ Begins(Turn)
        /\ drafts' = <<>>
    BY <1>1, <1>3
  <2>. QED
    BY <2>1, <2>2, TurnTakesOver, Zenon
<1>5. ~ IsTerminal(run') /\ run' # NewRun
  BY <1>3 DEF IsTerminal, TerminalStatuses, NewRun
<1>6. ViewTyped' /\ Gone' /\ Kept' /\ StaysGone
  <2>1. ViewTyped'
    BY <1>1, <1>2 DEF ViewTyped
  <2>2. Gone'
    BY <1>1, <1>3, <1>5 DEF Gone
  <2>3. Kept'
    BY <1>1, <1>2, <1>5 DEF Kept
  <2>. QED
    BY <1>1, <2>1, <2>2, <2>3 DEF StaysGone
<1>7. ASSUME ~ hasty  PROVE Orderly'
  <2>1. Latest.phase = "done"
    BY <1>2, IdleTask DEF Latest
  <2>2. StopEnded'
    BY <1>2, <1>4 DEF StopEnded
  <2>. QED
    BY <1>3, <1>4, <1>7, <2>1, <2>2
<1>. QED
  BY <1>3, <1>4, <1>6, <1>7, SessionStepFrom

LEMMA SessionRetryStep ==
  ASSUME SessionInv, SessionRetry
  PROVE  SessionStep
<1>1. /\ live /\ shown = "this" /\ run.status = "attempt_failed" /\ Retry /\ Begins(Turn)
      /\ drafts' = <<>> /\ Shows /\ UNCHANGED <<live, other, workspace, history>>
  BY DEF SessionRetry
<1>2. CoordinatorInv /\ SessionRun(run) /\ run # NewRun
  BY <1>1, InvParts, HasBegun
<1>3. /\ RunMoves /\ Quiet /\ run'.pending = {} /\ active' # None
      /\ InStep => InStep' /\ run'.status = "running"
  BY <1>1, <1>2, SessionRetries
<1>4. /\ TasksTyped' /\ CommandsTyped' /\ drafts' \in DraftSets /\ asked' \subseteq CallIds
      /\ Consent' /\ Latest' = Turn /\ hasty' = hasty /\ stopped' = stopped
      /\ (/\ ~ hasty /\ Latest.phase \in {"done", "ended"} /\ InStep' /\ run'.status = "running"
          /\ active' # None /\ StopEnded')
           => Orderly'
  <2>1. UNCHANGED history /\ other' \in {other, 0}
    BY <1>1 DEF history
  <2>2. /\ SessionInv /\ RunMoves /\ Quiet /\ run'.pending = {} /\ Begins(Turn)
        /\ drafts' = <<>>
    BY <1>1, <1>3
  <2>. QED
    BY <2>1, <2>2, TurnTakesOver, Zenon
<1>5. ViewTyped' /\ Gone' /\ Kept' /\ StaysGone
  <2>1. ViewKept
    BY <1>1 DEF ViewKept
  <2>. QED
    BY <1>1, <1>2, <1>3, <2>1, ViewStep
<1>6. ASSUME ~ hasty  PROVE Orderly'
  <2>1. InStep /\ StopEnded'
    BY <1>1, <1>3, <1>4, <1>6, OrderlyParts, StopKept
  <2>2. Latest.phase \in {"done", "ended"}
    <3>1. LatestFits /\ Latest \in Tasks
      BY <1>6, OrderlyParts, LatestType
    <3>. QED
      BY <1>1, <3>1 DEF LatestFits, Tasks, Phases, Serving, AtWork
  <2>. QED
    BY <1>3, <1>4, <1>6, <2>1, <2>2
<1>. QED
  BY <1>3, <1>4, <1>5, <1>6, SessionStepFrom

-----------------------------------------------------------------------------
(* The commands that put the latest task behind them *)

LEMMA AbortTakesOver ==
  ASSUME SessionInv, RunMoves, Quiet, run'.pending \subseteq run.pending, tasks' = Aborted,
         generation < MaxGenerations, generation' = generation + 1,
         abortRef' \in {0, generation'}, requestActive' \in BOOLEAN,
         other' \in {other, generation'}, drafts' \in {drafts, <<>>},
         asked' = asked, decided' = decided
  PROVE  /\ TasksTyped' /\ CommandsTyped' /\ drafts' \in DraftSets /\ asked' \subseteq CallIds
         /\ Consent' /\ Latest' = Idle
         /\ ~ hasty /\ (Latest.phase # "done" => IsTerminal(run')) => StaleOver'
<1>1. /\ tasks' \in [1..MaxGenerations -> Tasks]
      /\ \A h \in 1..MaxGenerations : h > generation' => tasks'[h] = Idle
      /\ generation' \in 1..MaxGenerations /\ Latest' = Idle /\ generation \in Nat
      /\ \A h \in 1..MaxGenerations :
           SameWork(tasks'[h], tasks[h]) /\ tasks'[h].aborted = (tasks[h].aborted \/ h = abortRef)
  BY InvParts, LatestAborted
<1>2. TasksTyped' /\ CommandsTyped' /\ drafts' \in DraftSets /\ asked' \subseteq CallIds
  <2>1. CommandsTyped /\ asked \subseteq CallIds /\ drafts' \in DraftSets
    BY InvParts, NoDrafts
  <2>2. CommandsTyped'
    BY <1>1, <2>1 DEF CommandsTyped
  <2>. QED
    BY <1>1, <2>1, <2>2 DEF TasksTyped
<1>3. ServingKept /\ WireKept
  BY <1>1, NoWork DEF ServingKept, WireKept
<1>4. WorkKept
  BY <1>1 DEF WorkKept, SameWork
<1>5. Consent'
  BY <1>3, <1>4, ConsentKept
<1>6. ASSUME ~ hasty, Latest.phase # "done" => IsTerminal(run')
      PROVE  StaleOver'
  BY <1>1, <1>6, StaleStopped
<1>. QED
  BY <1>1, <1>2, <1>5, <1>6

LEMMA StartOtherStep ==
  ASSUME SessionInv, StartOther
  PROVE  SessionStep
<1>1. /\ run # NewRun /\ OffersRun /\ generation < MaxGenerations
      /\ generation' = generation + 1 /\ abortRef' = generation + 1 /\ tasks' = Aborted
      /\ requestActive' = TRUE /\ drafts' = <<>> /\ live' = FALSE /\ shown' = "other"
      /\ other' = generation + 1 /\ storage' = "other"
      /\ UNCHANGED <<coordinatorVars, workspace, save, history>>
  BY DEF StartOther
<1>2. RunMoves /\ Quiet /\ run' = run /\ (InStep => InStep')
  BY <1>1, InvParts, Unmoved DEF coordinatorVars, InStep
<1>3. asked' = asked /\ decided' = decided /\ stopped' = stopped /\ hasty' = hasty
  BY <1>1 DEF history
<1>4. /\ TasksTyped' /\ CommandsTyped' /\ drafts' \in DraftSets /\ asked' \subseteq CallIds
      /\ Consent' /\ Latest' = Idle
      /\ ~ hasty /\ (Latest.phase # "done" => IsTerminal(run')) => StaleOver'
  BY <1>1, <1>2, <1>3, AbortTakesOver
<1>5. live => IsTerminal(run)
  BY <1>1, InvParts DEF OffersRun, Gone
<1>6. ViewTyped' /\ Gone' /\ Kept' /\ StaysGone
  <2>1. ViewTyped'
    BY <1>1, InvParts DEF ViewTyped
  <2>2. Gone'
    BY <1>1, <1>2, <1>4, <1>5, IdleTask, GoneKept
  <2>3. Kept'
    BY <1>1, <1>2, InvParts DEF Kept
  <2>. QED
    BY <1>1, <2>1, <2>2, <2>3 DEF StaysGone
<1>7. ASSUME ~ hasty  PROVE Orderly'
  <2>1. Latest.phase = "done" /\ InStep /\ generation \in Nat
    BY <1>1, <1>7, Offered, OrderlyParts, InvParts, SessionAssumption DEF OffersRun, CommandsTyped
  <2>2. StaleOver' /\ LatestFits' /\ ExecutionFits'
    BY <1>4, <1>7, <2>1, IdleTask, IdleFits
  <2>3. Flags'
    <3>1. other' # 0 /\ other' = generation' /\ requestActive' = TRUE /\ Latest'.phase = "done"
      BY <1>1, <1>4, <2>1, IdleTask
    <3>. QED
      BY <3>1 DEF Flags
  <2>4. StopEnded' /\ DraftsReady' /\ OthersUnserved'
    BY <1>1 DEF StopEnded, DraftsReady, OthersUnserved
  <2>. QED
    BY <1>2, <2>1, <2>2, <2>3, <2>4, OrderlyFrom
<1>. QED
  BY <1>2, <1>3, <1>4, <1>6, <1>7, SessionStepFrom

\* Stop, Reset and an adoption take a generation of their own.
LEMMA StopTakesOver ==
  ASSUME SessionInv, Aborts, EndsLive, other' = other, drafts' \in {drafts, <<>>}
  PROVE  /\ RunMoves /\ Quiet /\ run # NewRun
         /\ run' # run => live /\ IsTerminal(run')
         /\ ~ InStep' => run' = run
         /\ TasksTyped' /\ CommandsTyped' /\ drafts' \in DraftSets /\ asked' \subseteq CallIds
         /\ Consent' /\ Latest' = Idle /\ hasty' = hasty
         /\ InStep' /\ live => IsTerminal(run') /\ run'.pending = {}
         /\ ~ hasty => InStep' /\ Flags' /\ StaleOver' /\ LatestFits' /\ ExecutionFits'
<1>1. /\ run # NewRun /\ generation < MaxGenerations
      /\ generation' = generation + 1 /\ tasks' = Aborted
      /\ abortRef' = 0 /\ requestActive' = FALSE
      /\ asked' = asked /\ decided' = decided /\ hasty' = hasty
  BY DEF Aborts
<1>2. /\ CoordinatorInv /\ SessionRun(run) /\ Gone
      /\ run.turns # <<>>
  BY <1>1, InvParts DEF Gone
<1>3. /\ RunMoves /\ Quiet /\ run'.pending \subseteq run.pending
      /\ run' # run => live /\ IsTerminal(run') /\ InStep'
      /\ InStep => InStep'
      /\ InStep' /\ live => IsTerminal(run') /\ run'.pending = {}
  <2>1. CASE ~ live \/ IsTerminal(run)
    <3>1. UNCHANGED coordinatorVars
      BY <2>1 DEF EndsLive
    <3>2. RunMoves /\ Quiet /\ run' = run /\ (InStep => InStep')
      BY <1>2, <3>1, Unmoved DEF coordinatorVars, InStep
    <3>3. IsTerminal(run) => run.pending = {}
      BY <1>2 DEF SessionRun, WaitsOnlyForCalls, IsTerminal, TerminalStatuses
    <3>. QED
      BY <2>1, <3>2, <3>3
  <2>2. CASE live /\ ~ IsTerminal(run)
    <3>1. PICK t \in {"run.cancelled", "run.failed"} : Apply([type |-> t]) /\ active' = None
      BY <2>2 DEF EndsLive, Fail, Cancel
    <3>2. t \in {"run.completed", "run.cancelled", "run.failed"} /\ t # "run.completed"
      OBVIOUS
    <3>3. /\ RunMoves /\ Quiet /\ run'.pending \subseteq run.pending
          /\ run' # run => IsTerminal(run') /\ InStep'
          /\ InStep' => IsTerminal(run') /\ run'.pending = {}
          /\ (/\ InStep /\ ~ IsTerminal(run) /\ run.turns # <<>>
              /\ t = "run.completed" => run.status = "running" /\ LastAttempt(run).status = "completed")
               => InStep'
      BY <1>2, <3>1, <3>2, SessionEnds
    <3>. QED
      BY <1>2, <2>2, <3>2, <3>3
  <2>. QED
    BY <2>1, <2>2
<1>4. /\ TasksTyped' /\ CommandsTyped' /\ drafts' \in DraftSets /\ asked' \subseteq CallIds
      /\ Consent' /\ Latest' = Idle
      /\ ~ hasty /\ (Latest.phase # "done" => IsTerminal(run')) => StaleOver'
  BY <1>1, <1>3, AbortTakesOver
<1>5. ASSUME ~ hasty
      PROVE  InStep' /\ Flags' /\ StaleOver' /\ LatestFits' /\ ExecutionFits'
  <2>1. InStep'
    BY <1>3, <1>5, OrderlyParts
  <2>2. Flags' /\ LatestFits' /\ ExecutionFits'
    BY <1>1, <1>4, IdleTask, FlagsStopped, IdleFits
  <2>3. Latest.phase # "done" => live
    BY <1>2 DEF Gone
  <2>. QED
    BY <1>3, <1>4, <1>5, <2>1, <2>2, <2>3
<1>. QED
  BY <1>1, <1>3, <1>4, <1>5

LEMMA StopStep ==
  ASSUME SessionInv, Stop
  PROVE  SessionStep
<1>1. /\ Aborts /\ EndsLive /\ UNCHANGED <<drafts, live, other, workspace>>
      /\ run' # run => Shows
      /\ run' = run => UNCHANGED <<shown, save, storage>>
  BY DEF Stop
<1>2. /\ RunMoves /\ Quiet /\ run # NewRun
      /\ run' # run => live /\ IsTerminal(run')
      /\ TasksTyped' /\ CommandsTyped' /\ drafts' \in DraftSets /\ asked' \subseteq CallIds
      /\ Consent' /\ Latest' = Idle /\ hasty' = hasty
      /\ InStep' /\ live => IsTerminal(run') /\ run'.pending = {}
      /\ ~ hasty => InStep' /\ Flags' /\ StaleOver' /\ LatestFits' /\ ExecutionFits'
  BY <1>1, StopTakesOver
<1>3. ViewTyped' /\ Gone' /\ Kept' /\ StaysGone
  <2>1. ViewKept
    <3>1. CASE run' = run
      BY <1>1, <3>1 DEF ViewKept
    <3>2. CASE run' # run
      BY <1>1, <1>2, <3>2, InvParts DEF ViewKept, Gone
    <3>. QED
      BY <3>1, <3>2
  <2>. QED
    BY <1>2, <2>1, IdleTask, ViewStep
<1>4. ASSUME ~ hasty  PROVE Orderly'
  <2>1. StopEnded'
    BY <1>1, <1>2, <1>4 DEF StopEnded
  <2>2. DraftsReady' /\ OthersUnserved'
    BY <1>1, <1>2, <1>4 DEF DraftsReady, OthersUnserved
  <2>. QED
    BY <1>2, <1>4, <2>1, <2>2, OrderlyFrom
<1>. QED
  BY <1>2, <1>3, <1>4, SessionStepFrom

LEMMA StopAndShowStep ==
  ASSUME SessionInv, NEW whose, NEW notice, StopAndShow(whose, notice),
         \/ <<whose, notice>> = <<"none", "none">>
         \/ <<whose, notice>> = <<"other", "other">>
         \/ <<whose, notice>> = <<"this", "saved">> /\ save = "saved"
  PROVE  SessionStep
<1>1. /\ Aborts /\ EndsLive /\ UNCHANGED <<other, workspace>>
      /\ InStep' => /\ live' = FALSE /\ drafts' = <<>> /\ shown' = whose /\ storage' = notice
                    /\ save' = IF run' # run /\ workspace THEN "saving" ELSE save
      /\ ~ InStep' => UNCHANGED <<live, drafts, shown, storage, save>>
  BY DEF StopAndShow
<1>2. /\ RunMoves /\ Quiet /\ run # NewRun
      /\ run' # run => live /\ IsTerminal(run')
      /\ ~ InStep' => run' = run
      /\ TasksTyped' /\ CommandsTyped' /\ drafts' \in DraftSets /\ asked' \subseteq CallIds
      /\ Consent' /\ Latest' = Idle /\ hasty' = hasty
      /\ InStep' /\ live => IsTerminal(run') /\ run'.pending = {}
      /\ ~ hasty => InStep' /\ Flags' /\ StaleOver' /\ LatestFits' /\ ExecutionFits'
  BY <1>1, StopTakesOver
<1>3. ViewTyped' /\ Gone' /\ Kept' /\ StaysGone
  <2>0. ViewTyped /\ Gone /\ Kept /\ (IsTerminal(run) => run' = run)
    BY <1>2, InvParts DEF RunMoves
  <2>1. CASE ~ InStep'
    <3>1. ViewKept
      BY <1>1, <1>2, <2>1 DEF ViewKept
    <3>. QED
      BY <1>2, <3>1, IdleTask, ViewStep
  <2>2. CASE InStep'
    <3>1. /\ live' = FALSE /\ shown' = whose /\ storage' = notice /\ workspace' = workspace
          /\ save' = IF run' # run /\ workspace THEN "saving" ELSE save
      BY <1>1, <2>2
    <3>2. ViewTyped'
      BY <2>0, <3>1 DEF ViewTyped
    <3>3. Gone'
      <4>1. ~ live \/ IsTerminal(run')
        BY <1>2, <2>2
      <4>. QED
        BY <1>2, <3>1, <4>1, IdleTask, GoneKept
    <3>4. whose = "this" => save = "saved" /\ IsTerminal(run) /\ run' = run /\ notice = "saved"
      BY <2>0 DEF Kept
    <3>5. Kept'
      <4>1. CASE run' = run
        BY <2>0, <3>1, <3>4, <4>1 DEF Kept
      <4>2. CASE run' # run
        BY <1>2, <2>0, <3>1, <3>4, <4>2 DEF Kept, ViewTyped
      <4>. QED
        BY <4>1, <4>2
    <3>. QED
      BY <3>1, <3>2, <3>3, <3>4, <3>5 DEF StaysGone
  <2>. QED
    BY <2>1, <2>2
<1>4. ASSUME ~ hasty  PROVE Orderly'
  <2>1. live' = FALSE
    BY <1>1, <1>2, <1>4
  <2>2. StopEnded' /\ DraftsReady' /\ OthersUnserved'
    BY <2>1 DEF StopEnded, DraftsReady, OthersUnserved
  <2>. QED
    BY <1>2, <1>4, <2>2, OrderlyFrom
<1>. QED
  BY <1>2, <1>3, <1>4, SessionStepFrom

-----------------------------------------------------------------------------
(* What moves neither the run nor a task *)

LEMMA TasksUnmoved ==
  ASSUME SessionInv, UNCHANGED coordinatorVars, tasks' = tasks, generation' = generation
  PROVE  /\ RunMoves /\ Quiet /\ run' = run /\ TasksTyped' /\ Latest' = Latest
         /\ ServingKept /\ WireKept /\ WorkKept
         /\ (/\ ~ hasty /\ Flags' /\ stopped' = stopped /\ live' = live
             /\ DOMAIN drafts' = DOMAIN drafts)
              => Orderly'
<1>1. RunMoves /\ Quiet /\ run' = run /\ sequence' = sequence /\ active' = active
  BY InvParts, Unmoved DEF coordinatorVars
<1>2. TasksTyped'
  BY InvParts DEF TasksTyped
<1>3. Latest' = Latest
  BY DEF Latest
<1>4. ServingKept /\ WireKept /\ WorkKept
  <2>1. WireKept
    BY <1>1, <1>3 DEF WireKept
  <2>2. ServingKept /\ WorkKept
    BY <1>3 DEF ServingKept, WorkKept
  <2>. QED
    BY <2>1, <2>2
<1>5. ASSUME ~ hasty, Flags', stopped' = stopped, live' = live, DOMAIN drafts' = DOMAIN drafts
      PROVE  Orderly'
  <2>1. /\ InStep /\ Flags /\ StaleOver /\ StopEnded /\ LatestFits /\ ExecutionFits
        /\ DraftsReady /\ OthersUnserved
    BY <1>5, OrderlyParts
  <2>2. InStep' /\ StaleOver' /\ StopEnded'
    BY <1>1, <1>5, <2>1 DEF InStep, StaleOver, StopEnded
  <2>3. LatestFits'
    BY <1>1, <1>3, <2>1 DEF LatestFits, Serving, AtWork
  <2>4. ExecutionFits'
    BY <1>1, <1>3, <2>1 DEF ExecutionFits, ExecutionsOf, CallOf
  <2>5. DraftsReady' /\ OthersUnserved'
    BY <1>1, <1>3, <1>5, <2>1 DEF DraftsReady, OthersUnserved, AtWork, CallOf
  <2>. QED
    BY <1>5, <2>2, <2>3, <2>4, <2>5, OrderlyFrom
<1>. QED
  BY <1>1, <1>2, <1>3, <1>4, <1>5

LEMMA OtherEndsStep ==
  ASSUME SessionInv, OtherEnds
  PROVE  SessionStep
<1>1. /\ other # 0 /\ other' = 0 /\ UNCHANGED coordinatorVars
      /\ tasks' = tasks /\ generation' = generation /\ drafts' = drafts
      /\ live' = live /\ shown' = shown /\ workspace' = workspace
      /\ save' = save /\ storage' = storage
      /\ asked' = asked /\ decided' = decided /\ stopped' = stopped /\ hasty' = hasty
      /\ \/ other = generation /\ abortRef' = 0 /\ requestActive' = FALSE
         \/ other # generation /\ abortRef' = abortRef /\ requestActive' = requestActive
  BY DEF OtherEnds, history
<1>2. /\ RunMoves /\ Quiet /\ run' = run /\ TasksTyped' /\ Latest' = Latest
      /\ ServingKept /\ WireKept /\ WorkKept
      /\ (/\ ~ hasty /\ Flags' /\ stopped' = stopped /\ live' = live
          /\ DOMAIN drafts' = DOMAIN drafts)
           => Orderly'
  BY <1>1, TasksUnmoved
<1>3. CommandsTyped' /\ drafts' \in DraftSets /\ asked' \subseteq CallIds
  <2>1. /\ generation \in 0..MaxGenerations /\ abortRef \in 0..generation
        /\ requestActive \in BOOLEAN /\ drafts \in DraftSets /\ asked \subseteq CallIds
    BY InvParts DEF CommandsTyped
  <2>2. 0 \in 0..generation
    BY <2>1, SessionAssumption
  <2>3. abortRef' \in 0..generation /\ requestActive' \in BOOLEAN
    BY <1>1, <2>1, <2>2
  <2>. QED
    BY <1>1, <2>1, <2>2, <2>3 DEF CommandsTyped
<1>4. Consent'
  BY <1>1, <1>2, ConsentKept
<1>5. ViewTyped' /\ Gone' /\ Kept' /\ StaysGone
  <2>1. ViewKept /\ run # NewRun
    BY <1>1, <1>2, HasBegun DEF ViewKept
  <2>. QED
    BY <1>2, <2>1, InvParts, ViewStep DEF Gone
<1>6. ASSUME ~ hasty  PROVE Orderly'
  <2>1. Flags'
    <3>1. /\ requestActive = ((other # 0 /\ other = generation) \/ Latest.phase # "done")
          /\ Latest.phase # "done" => abortRef = generation /\ other # generation
      BY <1>6, OrderlyParts DEF Flags
    <3>2. Latest'.phase # "done" => generation # 0
      BY <1>2, IdleTask DEF Latest
    <3>3. CASE other = generation
      BY <1>1, <1>2, <3>1, <3>3 DEF Flags
    <3>4. CASE other # generation
      <4>1. requestActive' = (Latest'.phase # "done")
        BY <1>1, <1>2, <3>1, <3>4
      <4>. QED
        BY <1>1, <1>2, <3>1, <3>2, <3>4, <4>1 DEF Flags
    <3>. QED
      BY <3>3, <3>4
  <2>. QED
    BY <1>1, <1>2, <1>6, <2>1
<1>. QED
  BY <1>1, <1>2, <1>3, <1>4, <1>5, <1>6, SessionStepFrom

LEMMA SaveEndsStep ==
  ASSUME SessionInv, NEW outcome \in {"saved", "error"}, SaveEnds(outcome)
  PROVE  SessionStep
<1>1. /\ save = "saving" /\ save' = outcome
      /\ storage' = IF shown = "this" THEN outcome ELSE storage
      /\ UNCHANGED coordinatorVars
      /\ tasks' = tasks /\ generation' = generation /\ drafts' = drafts
      /\ abortRef' = abortRef /\ requestActive' = requestActive
      /\ live' = live /\ shown' = shown /\ workspace' = workspace /\ other' = other
      /\ asked' = asked /\ decided' = decided /\ stopped' = stopped /\ hasty' = hasty
  BY DEF SaveEnds, history, commands
<1>2. /\ RunMoves /\ Quiet /\ run' = run /\ TasksTyped' /\ Latest' = Latest
      /\ ServingKept /\ WireKept /\ WorkKept
      /\ (/\ ~ hasty /\ Flags' /\ stopped' = stopped /\ live' = live
          /\ DOMAIN drafts' = DOMAIN drafts)
           => Orderly'
  BY <1>1, TasksUnmoved
<1>3. CommandsTyped' /\ drafts' \in DraftSets /\ asked' \subseteq CallIds
  BY <1>1, InvParts DEF CommandsTyped
<1>4. Consent'
  BY <1>1, <1>2, ConsentKept
<1>5. ViewTyped' /\ Gone' /\ Kept' /\ StaysGone
  <2>1. ViewTyped /\ Gone /\ Kept /\ run # NewRun
    BY <1>1, InvParts, HasBegun
  <2>2. ViewTyped' /\ StaysGone
    BY <1>1, <2>1 DEF ViewTyped, StaysGone
  <2>3. Gone'
    BY <1>1, <1>2, <2>1, GoneKept DEF Gone
  <2>4. Kept'
    BY <1>1, <1>2, <2>1 DEF Kept
  <2>. QED
    BY <2>2, <2>3, <2>4
<1>6. ASSUME ~ hasty  PROVE Orderly'
  BY <1>1, <1>2, <1>6, FlagsSame
<1>. QED
  BY <1>1, <1>2, <1>3, <1>4, <1>5, <1>6, SessionStepFrom

-----------------------------------------------------------------------------
(* The drafts *)

LEMMA DraftStep ==
  ASSUME SessionInv, NEW call \in DOMAIN drafts, NEW draft \in Drafts, OnDraft(call, draft),
         decided \subseteq decided',
         call \in asked => call \in decided' \/ WaitsForWord(draft)
  PROVE  SessionStep
<1>1. /\ shown = "this" /\ drafts' = [drafts EXCEPT ![call] = draft]
      /\ UNCHANGED coordinatorVars
      /\ tasks' = tasks /\ generation' = generation
      /\ abortRef' = abortRef /\ requestActive' = requestActive
      /\ live' = live /\ shown' = shown /\ workspace' = workspace /\ other' = other
      /\ save' = save /\ storage' = storage
      /\ asked' = asked /\ stopped' = stopped /\ hasty' = hasty
  BY DEF OnDraft, commands, view
<1>2. /\ RunMoves /\ Quiet /\ run' = run /\ TasksTyped' /\ Latest' = Latest
      /\ ServingKept /\ WireKept /\ WorkKept
      /\ (/\ ~ hasty /\ Flags' /\ stopped' = stopped /\ live' = live
          /\ DOMAIN drafts' = DOMAIN drafts)
           => Orderly'
  BY <1>1, TasksUnmoved
<1>3. CommandsTyped' /\ asked' \subseteq CallIds /\ DOMAIN drafts' = DOMAIN drafts
  BY <1>1, InvParts DEF CommandsTyped
<1>4. drafts' \in DraftSets
  <2>1. PICK domain \in SUBSET CallIds : drafts \in [domain -> Drafts]
    BY InvParts DEF DraftSets
  <2>2. drafts' \in [domain -> Drafts]
    BY <1>1, <2>1
  <2>. QED
    BY <2>2, DraftSetIs
<1>5. Consent'
  <2>1. DraftsAsk'
    BY <1>1, DraftAsks
  <2>2. ServedOf({}) /\ {} \cap asked \subseteq decided' /\ {} \cap run'.pending = {}
    BY <1>2, QuietServes
  <2>3. AskedFirst'
    BY <1>1, <1>2, <2>2, AskedKept
  <2>4. NewCallsUnasked' /\ WorkBegun'
    BY <1>1, <1>2, <2>2, NewCallsKept, WorkBegunKept
  <2>5. LatestAsks'
    BY <1>1, <1>2, LatestAsksKept
  <2>. QED
    BY <2>1, <2>3, <2>4, <2>5 DEF Consent
<1>6. ViewTyped' /\ Gone' /\ Kept' /\ StaysGone
  <2>1. ViewKept /\ run # NewRun
    BY <1>1, <1>2, HasBegun DEF ViewKept
  <2>. QED
    BY <1>2, <2>1, InvParts, ViewStep DEF Gone
<1>7. ASSUME ~ hasty  PROVE Orderly'
  BY <1>1, <1>2, <1>3, <1>7, FlagsSame
<1>. QED
  BY <1>1, <1>2, <1>3, <1>4, <1>5, <1>6, <1>7, SessionStepFrom

LEMMA DraftSteps ==
  ASSUME SessionInv, NEW call \in DOMAIN drafts, Approve(call) \/ Reject(call) \/ Type(call)
  PROVE  SessionStep
<1>1. drafts[call] \in Drafts
  BY InvParts, DraftTypes
<1>2. DraftsAsk
  BY InvParts DEF Consent
<1>3. CASE Approve(call)
  <2>. DEFINE draft == [drafts[call] EXCEPT !.approved = TRUE]
  <2>1. OnDraft(call, draft) /\ decided' = decided \cup {call}
    BY <1>3 DEF Approve
  <2>2. draft \in Drafts
    BY <1>1 DEF Drafts
  <2>. HIDE DEF draft
  <2>. QED
    BY <2>1, <2>2, DraftStep
<1>4. CASE Reject(call)
  <2>. DEFINE draft == [Draft("hand") EXCEPT !.rejected = TRUE]
  <2>1. OnDraft(call, draft) /\ decided' = decided
    BY <1>4 DEF Reject
  <2>2. draft \in Drafts /\ WaitsForWord(draft)
    BY DEF Drafts, Draft, WaitsForWord
  <2>. HIDE DEF draft
  <2>. QED
    BY <2>1, <2>2, DraftStep
<1>5. CASE Type(call)
  <2>. DEFINE draft == [drafts[call] EXCEPT !.edited = TRUE]
  <2>1. /\ OnDraft(call, draft)
        /\ decided' = IF drafts[call].serves = "hand" THEN decided \cup {call} ELSE decided
    BY <1>5 DEF Type
  <2>2. draft \in Drafts /\ draft.serves = drafts[call].serves /\ draft.approved = drafts[call].approved
    BY <1>1 DEF Drafts
  <2>3. call \in asked => call \in decided' \/ WaitsForWord(draft)
    <3>1. ASSUME call \in asked, call \notin decided'  PROVE WaitsForWord(draft)
      <4>1. WaitsForWord(drafts[call]) /\ drafts[call].serves # "hand"
        BY <1>2, <2>1, <3>1 DEF DraftsAsk
      <4>. QED
        BY <2>2, <4>1 DEF WaitsForWord
    <3>. QED
      BY <3>1
  <2>. HIDE DEF draft
  <2>. QED
    BY <2>1, <2>2, <2>3, DraftStep
<1>. QED
  BY <1>3, <1>4, <1>5

-----------------------------------------------------------------------------
(* continueRun begins *)

LEMMA ServingBegins ==
  ASSUME SessionInv, NEW b \in BOOLEAN, BeginsServing(b), live, shown = "this",
         run.status = "awaiting_tool_results",
         \A c \in run.pending \cap asked \cap DOMAIN drafts :
           c \in decided \/ (b /\ drafts[c].serves # "mcp_automatic"),
         ~ hasty' => ~ hasty /\ ~ requestActive
  PROVE  SessionStep
<1>. DEFINE new == [Idle EXCEPT !.phase = "serving", !.automatic = b,
                                !.todo = run.pending, !.drafts = drafts]
<1>1. /\ Begins(new) /\ UNCHANGED coordinatorVars /\ drafts' = drafts
      /\ live' = live /\ shown' = shown /\ workspace' = workspace /\ other' = other
      /\ save' = save /\ storage' = storage
      /\ asked' = asked /\ decided' = decided /\ stopped' = stopped
  BY DEF BeginsServing, view
<1>2. /\ SessionTypes /\ Consent /\ Gone /\ drafts \in DraftSets /\ run.pending \in SUBSET CallIds
      /\ ViewTyped /\ CommandsTyped /\ asked \subseteq CallIds
  BY InvParts, RunFields
<1>3. /\ new \in Tasks /\ new.phase = "serving" /\ new.automatic = b
      /\ new.todo = run.pending /\ new.drafts = drafts
  BY <1>2 DEF Idle, Tasks, Phases
<1>. HIDE DEF new
<1>4. /\ tasks' \in [1..MaxGenerations -> Tasks]
      /\ \A h \in 1..MaxGenerations : h > generation' => tasks'[h] = Idle
      /\ generation' = generation + 1 /\ generation' \in 1..MaxGenerations
      /\ abortRef' = generation' /\ requestActive' = TRUE
      /\ Latest' = new /\ generation \in Nat
      /\ tasks'[generation'] = new
      /\ \A h \in 1..MaxGenerations : h # generation' => tasks'[h] = tasks[h]
  BY <1>1, <1>2, <1>3, LatestBegins
<1>5. /\ RunMoves /\ Quiet /\ run' = run /\ active' = active /\ sequence' = sequence
  BY <1>1, InvParts, Unmoved DEF coordinatorVars
<1>6. TasksTyped' /\ CommandsTyped' /\ drafts' \in DraftSets /\ asked' \subseteq CallIds
  BY <1>1, <1>2, <1>4, SessionAssumption DEF TasksTyped, CommandsTyped
<1>7. Consent'
  <2>1. WireKept /\ WorkKept
    BY <1>3, <1>4 DEF WireKept, WorkKept, AtWork, OnTheWire
  <2>2. ServedOf({}) /\ {} \cap asked \subseteq decided' /\ {} \cap run'.pending = {}
    BY <1>5, QuietServes
  <2>3. AskedFirst' /\ DraftsAsk'
    BY <1>1, <1>5, <2>2, AskedKept, DraftsAskKept
  <2>4. NewCallsUnasked' /\ WorkBegun'
    BY <1>1, <1>5, <2>1, <2>2, NewCallsKept, WorkBegunKept
  <2>5. LatestAsks'
    <3>1. \A c \in new.todo \cap asked \cap DOMAIN new.drafts :
            \/ c \in decided
            \/ new.automatic /\ new.drafts[c].serves # "mcp_automatic"
      BY <1>3
    <3>. QED
      BY <1>1, <1>4, <3>1 DEF LatestAsks
  <2>. QED
    BY <2>3, <2>4, <2>5 DEF Consent
<1>8. ViewTyped' /\ Gone' /\ Kept' /\ StaysGone
  <2>1. ViewKept /\ run # NewRun
    BY <1>1, <1>5, HasBegun DEF ViewKept
  <2>. QED
    BY <1>5, <2>1, ViewStep
<1>9. ASSUME ~ hasty'  PROVE Orderly'
  <2>1. /\ ~ hasty /\ Latest.phase = "done" /\ InStep /\ DraftsReady /\ OthersUnserved
    BY <1>9, Offered, OrderlyParts
  <2>2. Flags' /\ StaleOver' /\ StopEnded'
    BY <1>1, <1>3, <1>4, <1>5, <2>1, FlagsBegun, StaleBegun, StopKept
  <2>3. run.pending \subseteq DOMAIN drafts
    BY <2>1 DEF DraftsReady
  <2>4. LatestFits' /\ ExecutionFits'
    BY <1>3, <1>4, <1>5, <2>3 DEF LatestFits, ExecutionFits, Serving, AtWork
  <2>5. DraftsReady'
    BY <1>1, <1>5, <2>3 DEF DraftsReady
  <2>6. OthersUnserved'
    BY <1>1, <1>5, <2>1 DEF OthersUnserved, AtWork
  <2>7. InStep'
    BY <1>5, <2>1 DEF InStep
  <2>. QED
    BY <2>2, <2>4, <2>5, <2>6, <2>7, OrderlyFrom
<1>. QED
  BY <1>5, <1>6, <1>7, <1>8, <1>9, SessionStepFrom

LEMMA SessionContinueStep ==
  ASSUME SessionInv, SessionContinue
  PROVE  SessionStep
<1>1. /\ live /\ shown = "this" /\ run.status = "awaiting_tool_results"
      /\ hasty' = (hasty \/ requestActive)
      /\ \A call \in run.pending : ~ Undecided(call)
      /\ BeginsServing(FALSE)
  BY DEF SessionContinue
<1>2. DraftsAsk
  BY InvParts DEF Consent
<1>3. ASSUME NEW c \in run.pending \cap asked \cap DOMAIN drafts
      PROVE  c \in decided
  <2>1. ~ WaitsForWord(drafts[c])
    BY <1>1 DEF Undecided, WaitsForWord
  <2>. QED
    BY <1>2, <2>1 DEF DraftsAsk
<1>. QED
  BY <1>1, <1>3, ServingBegins

LEMMA AutoContinueStep ==
  ASSUME SessionInv, AutoContinue
  PROVE  SessionStep
<1>1. /\ live /\ shown = "this" /\ run.status = "awaiting_tool_results" /\ ~ requestActive
      /\ BeginsServing(TRUE) /\ hasty' = hasty
  BY DEF AutoContinue
<1>2. DraftsAsk
  BY InvParts DEF Consent
<1>3. ASSUME NEW c \in run.pending \cap asked \cap DOMAIN drafts
      PROVE  c \in decided \/ (TRUE /\ drafts[c].serves # "mcp_automatic")
  BY <1>2 DEF DraftsAsk, WaitsForWord
<1>. QED
  BY <1>1, <1>3, ServingBegins

-----------------------------------------------------------------------------
(* A task goes on, or ends *)

LEMMA GoesOn ==
  ASSUME SessionInv, NEW g \in 1..MaxGenerations, tasks[g].phase # "done",
         NEW p \in Phases, Goes(g, p), generation' = generation
  PROVE  /\ TasksTyped' /\ Latest \in Tasks /\ tasks[g] \in Tasks
         /\ tasks'[g].phase = p /\ tasks'[g].todo = tasks[g].todo
         /\ tasks'[g].drafts = tasks[g].drafts /\ tasks'[g].automatic = tasks[g].automatic
         /\ Latest' = IF g = generation THEN tasks'[g] ELSE Latest
         /\ g = generation => Latest = tasks[g]
         /\ \A h \in 1..MaxGenerations : h # g => tasks'[h] = tasks[h]
<1>. DEFINE new == [tasks[g] EXCEPT !.phase = p]
<1>1. SessionTypes /\ tasks[g] \in Tasks /\ Latest \in Tasks
  BY InvParts, LatestType DEF TasksTyped
<1>2. /\ new \in Tasks /\ new.phase = p /\ new.todo = tasks[g].todo
      /\ new.drafts = tasks[g].drafts /\ new.automatic = tasks[g].automatic
  BY <1>1 DEF Tasks
<1>3. TaskBecomes(g, new)
  BY DEF TaskBecomes, Goes
<1>. HIDE DEF new
<1>4. /\ tasks' \in [1..MaxGenerations -> Tasks]
      /\ \A h \in 1..MaxGenerations : h > generation' => tasks'[h] = Idle
      /\ Latest' = IF g = generation THEN new ELSE Latest
      /\ g = generation => Latest = tasks[g]
      /\ tasks'[g] = new
      /\ \A h \in 1..MaxGenerations : h # g => tasks'[h] = tasks[h]
  BY <1>1, <1>2, <1>3, LatestBecomes
<1>. QED
  BY <1>1, <1>2, <1>4 DEF TasksTyped

LEMMA TaskEnds ==
  ASSUME SessionInv, NEW g \in 1..MaxGenerations, tasks[g].phase # "done", Ends(g),
         generation' = generation
  PROVE  /\ TasksTyped' /\ tasks'[g] = Idle
         /\ Latest' = IF g = generation THEN Idle ELSE Latest
         /\ g = generation => Latest = tasks[g]
         /\ \A h \in 1..MaxGenerations : h # g => tasks'[h] = tasks[h]
         /\ ServingKept /\ WorkKept
         /\ run'.pending \subseteq run.pending => WireKept
<1>1. /\ tasks' \in [1..MaxGenerations -> Tasks]
      /\ \A h \in 1..MaxGenerations : h > generation' => tasks'[h] = Idle
      /\ Latest' = IF g = generation THEN Idle ELSE Latest
      /\ g = generation => Latest = tasks[g]
      /\ tasks'[g] = Idle
      /\ \A h \in 1..MaxGenerations : h # g => tasks'[h] = tasks[h]
  <2>1. TaskBecomes(g, Idle) /\ Idle \in Tasks /\ SessionTypes
    BY IdleTask, InvParts DEF Ends, TaskBecomes
  <2>. QED
    BY <2>1, LatestBecomes
<1>2. WorkKept
  <2>1. SUFFICES ASSUME NEW h \in 1..MaxGenerations, tasks'[h].phase \in AtWork
                 PROVE  tasks[h].phase \in AtWork /\ tasks'[h].todo = tasks[h].todo
    BY DEF WorkKept
  <2>2. h # g
    BY <1>1, <2>1, NoWork DEF Serving
  <2>. QED
    BY <1>1, <2>1, <2>2
<1>3. ServingKept
  BY <1>1, NoWork DEF ServingKept
<1>4. run'.pending \subseteq run.pending => WireKept
  BY <1>1, NoWork DEF WireKept
<1>5. TasksTyped'
  BY <1>1 DEF TasksTyped
<1>. QED
  BY <1>1, <1>2, <1>3, <1>4, <1>5

\* What a task changes besides the run when it is over.
TaskOver(g) ==
  /\ Ends(g) /\ generation' = generation /\ other' = other
  /\ \/ abortRef' = abortRef /\ requestActive' = requestActive
     \/ g = generation /\ abortRef' = 0 /\ requestActive' = FALSE

LEMMA OverCommands ==
  ASSUME SessionInv, NEW g \in 1..MaxGenerations, TaskOver(g)
  PROVE  CommandsTyped'
<1>1. /\ generation \in 0..MaxGenerations /\ abortRef \in 0..generation
      /\ requestActive \in BOOLEAN /\ other \in 0..generation
  BY InvParts DEF CommandsTyped
<1>2. 0 \in 0..generation
  BY <1>1, SessionAssumption
<1>3. abortRef' \in 0..generation /\ requestActive' \in BOOLEAN
  BY <1>1, <1>2 DEF TaskOver
<1>. QED
  BY <1>1, <1>3 DEF CommandsTyped, TaskOver

\* A task that a later one has taken over from ends.
LEMMA StaleOrderly ==
  ASSUME SessionInv, ~ hasty, NEW g \in 1..MaxGenerations, tasks[g].phase # "done",
         g # generation, Ends(g), UNCHANGED coordinatorVars,
         UNCHANGED <<generation, abortRef, requestActive, other, drafts, live, stopped>>
  PROVE  Orderly'
<1>1. /\ RunMoves /\ run' = run /\ sequence' = sequence /\ active' = active
      /\ generation' = generation /\ drafts' = drafts /\ live' = live /\ stopped' = stopped
  BY InvParts, Unmoved DEF coordinatorVars
<1>2. /\ tasks'[g] = Idle /\ Latest' = Latest
      /\ \A h \in 1..MaxGenerations : h # g => tasks'[h] = tasks[h]
  BY <1>1, TaskEnds
<1>3. /\ InStep /\ Flags /\ StaleOver /\ StopEnded /\ LatestFits /\ ExecutionFits
      /\ DraftsReady /\ OthersUnserved
  BY OrderlyParts
<1>4. Flags' /\ StaleOver' /\ StopEnded'
  <2>1. \A h \in 1..MaxGenerations : h # generation =>
          tasks'[h].phase = "done" \/ tasks'[h] = tasks[h]
    BY <1>2, IdleTask
  <2>. QED
    BY <1>1, <1>2, <2>1, FlagsSame, StaleSame, StopKept
<1>5. InStep' /\ LatestFits'
  BY <1>1, <1>2, <1>3 DEF InStep, LatestFits, Serving, AtWork
<1>6. ExecutionFits'
  BY <1>1, <1>2, <1>3 DEF ExecutionFits, ExecutionsOf, CallOf
<1>7. DraftsReady' /\ OthersUnserved'
  BY <1>1, <1>2, <1>3 DEF DraftsReady, OthersUnserved, AtWork, CallOf
<1>. QED
  BY <1>4, <1>5, <1>6, <1>7, OrderlyFrom

\* The latest task ends, with its turn or its loop.
LEMMA LatestOrderly ==
  ASSUME SessionInv, ~ hasty, RunMoves, NEW g \in 1..MaxGenerations, tasks[g].phase # "done",
         g = generation, Ends(g), generation' = generation, requestActive' = FALSE,
         other' = other, stopped' = stopped, live' = live,
         InStep', DraftsReady', OthersUnserved'
  PROVE  Orderly'
<1>1. /\ Latest' = Idle /\ Latest = tasks[g]
      /\ \A h \in 1..MaxGenerations : h # g => tasks'[h] = tasks[h]
  BY TaskEnds
<1>2. Flags' /\ StaleOver' /\ StopEnded'
  BY <1>1, IdleTask, FlagsEnded, StaleSame, StopKept
<1>3. LatestFits' /\ ExecutionFits'
  BY <1>1, IdleTask, IdleFits
<1>. QED
  BY <1>2, <1>3, OrderlyFrom

\* A task ends without a word to the drafts or the history.
LEMMA TaskOverStep ==
  ASSUME SessionInv, NEW g \in 1..MaxGenerations, tasks[g].phase # "done", TaskOver(g),
         RunMoves, Quiet, run'.pending \subseteq run.pending, ViewKept,
         UNCHANGED <<drafts, decided, asked, stopped, hasty>>, ~ hasty => Orderly'
  PROVE  SessionStep
<1>1. Ends(g) /\ generation' = generation /\ CommandsTyped'
  BY OverCommands DEF TaskOver
<1>2. /\ TasksTyped' /\ Latest' = IF g = generation THEN Idle ELSE Latest
      /\ ServingKept /\ WorkKept /\ WireKept
  BY <1>1, TaskEnds
<1>3. Consent'
  BY <1>2, ConsentKept
<1>4. ViewTyped' /\ Gone' /\ Kept' /\ StaysGone
  <2>1. run # NewRun /\ (Latest'.phase # "done" => live)
    BY <1>2, TaskHasBegun, IdleTask, InvParts DEF Gone
  <2>. QED
    BY <2>1, ViewStep
<1>. QED
  BY <1>1, <1>2, <1>3, <1>4, InvParts, SessionStepFrom

\* A superseded exchange, and a loop that another command has superseded.
LEMMA StaleEnds ==
  ASSUME SessionInv, NEW g \in 1..MaxGenerations, tasks[g].phase # "done", g # generation,
         Ends(g), UNCHANGED <<generation, abortRef, requestActive>>,
         UNCHANGED <<coordinatorVars, drafts, view, history>>
  PROVE  SessionStep
<1>1. /\ UNCHANGED coordinatorVars /\ drafts' = drafts /\ generation' = generation
      /\ abortRef' = abortRef /\ requestActive' = requestActive
      /\ live' = live /\ shown' = shown /\ workspace' = workspace /\ other' = other
      /\ save' = save /\ storage' = storage
      /\ asked' = asked /\ decided' = decided /\ stopped' = stopped /\ hasty' = hasty
  BY DEF view, history
<1>2. RunMoves /\ Quiet /\ run' = run
  BY <1>1, InvParts, Unmoved DEF coordinatorVars
<1>3. TaskOver(g) /\ ViewKept
  BY <1>1, <1>2 DEF TaskOver, ViewKept
<1>4. ~ hasty => Orderly'
  BY <1>1, StaleOrderly
<1>. QED
  BY <1>1, <1>2, <1>3, <1>4, TaskOverStep

-----------------------------------------------------------------------------
(* The turn driver *)

LEMMA TurnEmitsStep ==
  ASSUME SessionInv, NEW g \in 1..MaxGenerations, TurnEmits(g)
  PROVE  SessionStep
<1>1. /\ tasks[g].phase = "turn" /\ g = generation /\ Shows
      /\ tasks' = tasks /\ generation' = generation /\ drafts' = drafts
      /\ abortRef' = abortRef /\ requestActive' = requestActive
      /\ live' = live /\ workspace' = workspace /\ other' = other
      /\ asked' = asked /\ decided' = decided /\ stopped' = stopped /\ hasty' = hasty
  BY DEF TurnEmits, commands, history
<1>2. PICK e \in StreamEvents : AdapterSends(e) /\ AcceptEvent(e)
  BY DEF TurnEmits
<1>3. Latest = tasks[g] /\ live /\ shown = "this" /\ run # NewRun /\ Latest' = Latest
  BY <1>1, LatestIsShown DEF Latest
<1>4. /\ RunMoves /\ Quiet /\ active' = active
      /\ \A c \in run'.pending : c \in run.pending \/ ~ SettledCall(run, c)
      /\ InStep /\ run.status \in {"running", "awaiting_tool_results"}
           => InStep' /\ run'.status \in {"running", "awaiting_tool_results"}
  BY <1>2, InvParts, SessionStreams
<1>5. TasksTyped' /\ CommandsTyped' /\ drafts' \in DraftSets /\ asked' \subseteq CallIds
  BY <1>1, InvParts DEF TasksTyped, CommandsTyped
<1>6. Consent'
  <2>1. ServingKept /\ WorkKept
    BY <1>1, <1>3 DEF ServingKept, WorkKept
  <2>2. WireKept
    BY <1>1, <1>3, <1>4 DEF WireKept, OnTheWire
  <2>. QED
    BY <1>1, <1>4, <2>1, <2>2, ConsentKept
<1>7. ViewTyped' /\ Gone' /\ Kept' /\ StaysGone
  <2>1. ViewKept
    BY <1>1, <1>3 DEF ViewKept
  <2>. QED
    BY <1>3, <1>4, <2>1, ViewStep
<1>8. ASSUME ~ hasty  PROVE Orderly'
  <2>1. InStep /\ LatestFits
    BY <1>8, OrderlyParts
  <2>2. InStep' /\ run'.status \in {"running", "awaiting_tool_results"} /\ active # None
    BY <1>1, <1>3, <1>4, <2>1 DEF LatestFits
  <2>3. Flags' /\ StaleOver' /\ StopEnded'
    BY <1>1, <1>3, <1>4, <1>8, FlagsSame, StaleSame, StopKept
  <2>4. Latest'.phase = "turn" /\ "turn" \notin Serving
    BY <1>1, <1>3 DEF Serving, AtWork
  <2>5. LatestFits' /\ ExecutionFits'
    BY <1>4, <2>2, <2>4 DEF LatestFits, ExecutionFits, Serving, AtWork
  <2>6. DraftsReady'
    BY <2>4 DEF DraftsReady
  <2>7. OthersUnserved'
    BY <1>1, <1>3, <1>4, <1>8, OthersKept DEF AtWork
  <2>. QED
    BY <2>2, <2>3, <2>5, <2>6, <2>7, OrderlyFrom
<1>. QED
  BY <1>1, <1>4, <1>5, <1>6, <1>7, <1>8, SessionStepFrom

LEMMA TurnFailsStep ==
  ASSUME SessionInv, NEW g \in 1..MaxGenerations, TurnFails(g)
  PROVE  SessionStep
<1>1. /\ tasks[g].phase = "turn" /\ g = generation /\ Shows /\ Goes(g, "ended")
      /\ generation' = generation /\ drafts' = drafts
      /\ abortRef' = abortRef /\ requestActive' = requestActive
      /\ live' = live /\ workspace' = workspace /\ other' = other
      /\ asked' = asked /\ decided' = decided /\ stopped' = stopped /\ hasty' = hasty
  BY DEF TurnFails, history
<1>2. PICK retryable \in BOOLEAN : AcceptFailed(retryable)
  BY DEF TurnFails
<1>3. Latest = tasks[g] /\ live /\ shown = "this" /\ run # NewRun
  BY <1>1, LatestIsShown
<1>4. /\ RunMoves /\ Quiet /\ run'.pending \subseteq run.pending
      /\ InStep' => /\ run'.status \in {"attempt_failed", "failed"}
                    /\ run'.pending = {}
      /\ InStep /\ run.status \in {"running", "awaiting_tool_results"} => InStep'
  BY <1>2, InvParts, SessionFails
<1>5. /\ TasksTyped' /\ tasks'[g].phase = "ended" /\ Latest' = tasks'[g]
      /\ \A h \in 1..MaxGenerations : h # g => tasks'[h] = tasks[h]
  <2>1. "ended" \in Phases /\ tasks[g].phase # "done"
    BY <1>1 DEF Phases
  <2>. QED
    BY <1>1, <2>1, GoesOn
<1>6. CommandsTyped' /\ drafts' \in DraftSets /\ asked' \subseteq CallIds
  BY <1>1, InvParts DEF CommandsTyped
<1>7. Consent'
  <2>1. ServingKept
    BY <1>5 DEF ServingKept, Serving, AtWork
  <2>2. WorkKept
    BY <1>5 DEF WorkKept, AtWork
  <2>3. WireKept
    BY <1>1, <1>3, <1>4 DEF WireKept, OnTheWire
  <2>. QED
    BY <1>1, <1>4, <2>1, <2>2, <2>3, ConsentKept
<1>8. ViewTyped' /\ Gone' /\ Kept' /\ StaysGone
  <2>1. ViewKept
    BY <1>1, <1>3 DEF ViewKept
  <2>. QED
    BY <1>3, <1>4, <2>1, ViewStep
<1>9. ASSUME ~ hasty  PROVE Orderly'
  <2>1. InStep /\ LatestFits
    BY <1>9, OrderlyParts
  <2>2. InStep' /\ run'.status \in {"attempt_failed", "failed"} /\ run'.pending = {}
    BY <1>1, <1>3, <1>4, <2>1 DEF LatestFits
  <2>3. Flags' /\ StaleOver' /\ StopEnded'
    BY <1>1, <1>3, <1>4, <1>5, <1>9, FlagsSame, StaleSame, StopKept
  <2>4. LatestFits' /\ ExecutionFits'
    BY <1>5, <2>2 DEF LatestFits, ExecutionFits, Serving, AtWork
  <2>. QED
    BY <2>2, <2>3, <2>4, NothingWaits, OrderlyFrom
<1>. QED
  BY <1>1, <1>4, <1>5, <1>6, <1>7, <1>8, <1>9, SessionStepFrom

LEMMA AskingDraft == Draft("mcp_ask").serves = "mcp_ask" /\ ~ Draft("mcp_ask").approved
<1>1. ("mcp_ask" = "mcp_automatic") = FALSE
  OBVIOUS
<1>2. Draft("mcp_ask") = [serves |-> "mcp_ask", approved |-> FALSE,
                          edited |-> FALSE, rejected |-> FALSE]
  BY <1>1 DEF Draft
<1>. QED
  BY <1>2

\* The calls of the answer that has just ended get their drafts.
LEMMA DraftedConsent ==
  ASSUME SessionInv, Latest.phase \in OnTheWire, RunMoves, Quiet,
         run'.pending \subseteq run.pending, Drafted, ServingKept, WorkKept,
         Latest'.phase \notin OnTheWire
  PROVE  /\ Consent' /\ drafts' \in DraftSets /\ asked' \subseteq CallIds
         /\ DOMAIN drafts' = run'.pending
         /\ decided' = decided /\ stopped' = stopped /\ hasty' = hasty
<1>1. PICK serving \in [run'.pending -> {"hand", "device", "mcp_ask", "mcp_automatic"}] :
        /\ drafts' = [call \in run'.pending |-> Draft(serving[call])]
        /\ asked' = asked \cup { call \in run'.pending : serving[call] = "mcp_ask" }
        /\ decided' = decided /\ stopped' = stopped /\ hasty' = hasty
  BY DEF Drafted
<1>2. /\ run'.pending \subseteq CallIds /\ asked \subseteq CallIds /\ RunInv(run')
      /\ SessionRun(run')
  BY InvParts, RunFields DEF RunMoves, SoundStep, CoordinatorInv
<1>3. drafts' \in DraftSets
  <2>1. \A s \in {"hand", "device", "mcp_ask", "mcp_automatic"} : Draft(s) \in Drafts
    BY DEF Draft, Drafts
  <2>2. drafts' \in [run'.pending -> Drafts]
    BY <1>1, <2>1
  <2>. QED
    BY <1>2, <2>2, DraftSetIs
<1>4. \A c \in run'.pending : c \notin asked /\ ~ CallIsServed(c)
  BY InvParts DEF Consent, NewCallsUnasked
<1>5. \A c : CallIsServed(c)' => CallIsServed(c)
  BY QuietServes DEF ServedOf
<1>6. AskedFirst'
  <2>1. SUFFICES ASSUME NEW c \in asked'
                 PROVE  SettledCall(run', c) /\ (c \in decided' \/ ~ CallIsServed(c)')
    BY DEF AskedFirst
  <2>2. CASE c \in asked
    <3>1. SettledCall(run, c) /\ (c \in decided \/ ~ CallIsServed(c)) /\ ContentFixed(run, run')
      BY <2>2, InvParts DEF Consent, AskedFirst, RunMoves, SoundStep
    <3>2. SettledCall(run', c)
      BY <1>2, <2>2, <3>1, CallIsPair, CallStaysSettled
    <3>. QED
      BY <1>1, <1>5, <3>1, <3>2
  <2>3. CASE c \in run'.pending
    <3>1. run'.status = "awaiting_tool_results"
      BY <1>2, <2>3 DEF SessionRun, WaitsOnlyForCalls
    <3>2. SettledCall(run', c)
      BY <1>2, <2>3, <3>1, PendingSettled
    <3>. QED
      BY <1>4, <1>5, <2>3, <3>2
  <2>. QED
    BY <1>1, <2>1, <2>2, <2>3
<1>7. DraftsAsk'
  <2>1. SUFFICES ASSUME NEW c \in asked', c \in DOMAIN drafts'
                 PROVE  WaitsForWord(drafts'[c])
    BY DEF DraftsAsk, WaitsForWord
  <2>2. c \in run'.pending /\ serving[c] = "mcp_ask"
    BY <1>1, <1>4, <2>1
  <2>3. drafts'[c] = Draft("mcp_ask")
    BY <1>1, <2>2
  <2>4. drafts'[c].serves = "mcp_ask" /\ ~ drafts'[c].approved
    BY <2>3, AskingDraft
  <2>. QED
    BY <2>4 DEF WaitsForWord
<1>8. LatestAsks' /\ NewCallsUnasked'
  <2>1. Latest'.phase \notin Serving
    BY DEF ServingKept, OnTheWire, Serving, AtWork
  <2>. QED
    BY <2>1 DEF LatestAsks, NewCallsUnasked, Serving, AtWork, OnTheWire
<1>9. WorkBegun'
  BY QuietServes, WorkBegunKept
<1>. QED
  BY <1>1, <1>2, <1>3, <1>6, <1>7, <1>8, <1>9 DEF Consent

LEMMA FailsShown ==
  ASSUME SessionInv, run # NewRun, FailsAndShows
  PROVE  /\ RunMoves /\ Quiet /\ run'.pending \subseteq run.pending
         /\ InStep => InStep'
         /\ \/ shown = "this" /\ Shows
            \/ UNCHANGED <<shown, save, storage>> /\ run' = run
         /\ IsTerminal(run) => UNCHANGED coordinatorVars
<1>1. CoordinatorInv /\ SessionRun(run) /\ run.turns # <<>>
  BY InvParts DEF Gone
<1>2. CASE IsTerminal(run)
  <2>1. UNCHANGED <<coordinatorVars, shown, save, storage>>
    BY <1>2 DEF FailsAndShows
  <2>2. RunMoves /\ Quiet /\ run' = run /\ (InStep => InStep')
    BY <1>1, <2>1, Unmoved DEF coordinatorVars, InStep
  <2>. QED
    BY <2>1, <2>2
<1>3. CASE ~ IsTerminal(run)
  <2>1. Apply([type |-> "run.failed"]) /\ active' = None /\ Shows
    BY <1>3 DEF FailsAndShows, Fail
  <2>2. shown = "this"
    BY <1>3, OpenIsShown
  <2>3. "run.failed" \in {"run.completed", "run.cancelled", "run.failed"}
    OBVIOUS
  <2>4. /\ RunMoves /\ Quiet /\ run'.pending \subseteq run.pending
        /\ InStep /\ ~ IsTerminal(run) /\ run.turns # <<>> => InStep'
    BY <1>1, <2>1, <2>3, SessionEnds
  <2>. QED
    BY <1>1, <1>3, <2>1, <2>2, <2>4
<1>. QED
  BY <1>2, <1>3

\* The turn of the latest task is over, and its calls get their drafts.
LEMMA TurnSettles ==
  ASSUME SessionInv, NEW g \in 1..MaxGenerations, tasks[g].phase \in OnTheWire, g = generation,
         RunMoves, Quiet, run'.pending \subseteq run.pending, Shows, Drafted, Finishes(g),
         UNCHANGED <<live, other, workspace>>,
         ~ hasty => InStep'
  PROVE  SessionStep
<1>1. /\ tasks[g].phase # "done" /\ Ends(g) /\ generation' = generation /\ abortRef' = 0
      /\ requestActive' = FALSE
      /\ live' = live /\ other' = other /\ workspace' = workspace
  BY DEF OnTheWire, Finishes
<1>2. Latest = tasks[g] /\ live /\ shown = "this" /\ run # NewRun
  BY <1>1, LatestIsShown
<1>3. /\ TasksTyped' /\ Latest' = Idle /\ ServingKept /\ WorkKept
  BY <1>1, TaskEnds
<1>4. /\ Consent' /\ drafts' \in DraftSets /\ asked' \subseteq CallIds
      /\ DOMAIN drafts' = run'.pending
      /\ decided' = decided /\ stopped' = stopped /\ hasty' = hasty
  BY <1>2, <1>3, NoWork, DraftedConsent
<1>5. CommandsTyped'
  BY <1>1, OverCommands DEF TaskOver
<1>6. ViewTyped' /\ Gone' /\ Kept' /\ StaysGone
  <2>1. ViewKept
    BY <1>1, <1>2 DEF ViewKept
  <2>. QED
    BY <1>2, <2>1, ViewStep
<1>7. ASSUME ~ hasty  PROVE Orderly'
  <2>1. DraftsReady'
    BY <1>4 DEF DraftsReady
  <2>2. OthersUnserved'
    BY <1>1, <1>2, <1>7, OthersKept DEF OnTheWire, AtWork
  <2>. QED
    BY <1>1, <1>4, <1>7, <2>1, <2>2, LatestOrderly
<1>. QED
  BY <1>3, <1>4, <1>5, <1>6, <1>7, SessionStepFrom

LEMMA TurnEndsStep ==
  ASSUME SessionInv, NEW g \in 1..MaxGenerations, TurnEnds(g)
  PROVE  SessionStep
<1>1. tasks[g].phase \in OnTheWire /\ tasks[g].phase # "done"
  BY DEF TurnEnds, OnTheWire
<1>2. CASE g # generation
  <2>1. /\ Ends(g) /\ UNCHANGED <<generation, abortRef, requestActive>>
        /\ UNCHANGED <<coordinatorVars, drafts, view, history>>
    BY <1>2 DEF TurnEnds, Superseded, Finishes
  <2>. QED
    BY <1>1, <1>2, <2>1, StaleEnds
<1>3. CASE g = generation
  <2>1. /\ FinishTurnStream /\ Shows /\ Drafted /\ Finishes(g)
        /\ UNCHANGED <<live, other, workspace>>
    BY <1>3 DEF TurnEnds
  <2>2. run # NewRun /\ CoordinatorInv /\ SessionRun(run) /\ run.turns # <<>>
    BY <1>1, TaskHasBegun, InvParts DEF Gone
  <2>3. /\ RunMoves /\ Quiet /\ run'.pending \subseteq run.pending
        /\ InStep => InStep'
    BY <2>1, <2>2, SessionFinishes
  <2>4. ~ hasty => InStep'
    BY <2>3, OrderlyParts
  <2>. QED
    BY <1>1, <1>3, <2>1, <2>3, <2>4, TurnSettles
<1>. QED
  BY <1>2, <1>3

LEMMA TurnBreaksStep ==
  ASSUME SessionInv, NEW g \in 1..MaxGenerations, TurnBreaks(g)
  PROVE  SessionStep
<1>1. tasks[g].phase \in OnTheWire /\ tasks[g].phase # "done"
  BY DEF TurnBreaks, OnTheWire
<1>2. CASE g # generation
  <2>1. /\ Ends(g) /\ UNCHANGED <<generation, abortRef, requestActive>>
        /\ UNCHANGED <<coordinatorVars, drafts, view, history>>
    BY <1>2 DEF TurnBreaks, Superseded, Finishes
  <2>. QED
    BY <1>1, <1>2, <2>1, StaleEnds
<1>3. CASE g = generation /\ tasks[g].phase = "turn"
  <2>1. /\ Shows /\ Drafted /\ Finishes(g) /\ UNCHANGED <<live, other, workspace>>
    BY <1>3 DEF TurnBreaks
  <2>2. PICK retryable \in BOOLEAN : AcceptFailed(retryable)
    BY <1>3 DEF TurnBreaks
  <2>3. /\ RunMoves /\ Quiet /\ run'.pending \subseteq run.pending
        /\ InStep /\ run.status \in {"running", "awaiting_tool_results"} => InStep'
    BY <2>2, InvParts, SessionFails
  <2>4. ASSUME ~ hasty  PROVE InStep'
    <3>1. Latest = tasks[g]
      BY <1>1, <1>3, LatestIsShown
    <3>2. InStep /\ run.status \in {"running", "awaiting_tool_results"}
      BY <1>3, <2>4, <3>1, OrderlyParts DEF LatestFits
    <3>. QED
      BY <2>3, <3>2
  <2>. QED
    BY <1>1, <1>3, <2>1, <2>3, <2>4, TurnSettles
<1>4. CASE g = generation /\ tasks[g].phase # "turn"
  <2>1. /\ FailsAndShows /\ Finishes(g) /\ drafts' = drafts
        /\ live' = live /\ other' = other /\ workspace' = workspace
        /\ decided' = decided /\ asked' = asked /\ stopped' = stopped /\ hasty' = hasty
    BY <1>4 DEF TurnBreaks, history
  <2>2. Latest = tasks[g] /\ live /\ shown = "this" /\ run # NewRun
    BY <1>1, <1>4, LatestIsShown
  <2>3. /\ RunMoves /\ Quiet /\ run'.pending \subseteq run.pending
        /\ InStep => InStep'
        /\ \/ shown = "this" /\ Shows
           \/ UNCHANGED <<shown, save, storage>> /\ run' = run
    BY <2>1, <2>2, FailsShown
  <2>4. /\ Ends(g) /\ generation' = generation /\ requestActive' = FALSE /\ TaskOver(g)
    BY <1>4, <2>1 DEF Finishes, TaskOver
  <2>5. ViewKept
    BY <2>1, <2>3 DEF ViewKept
  <2>6. ASSUME ~ hasty  PROVE Orderly'
    <3>1. InStep' /\ run.status \in {"attempt_failed", "failed"}
      BY <1>1, <1>4, <2>2, <2>3, <2>6, OrderlyParts DEF LatestFits, OnTheWire
    <3>2. run'.pending = {}
      BY <2>3, <3>1, InvParts DEF SessionRun, WaitsOnlyForCalls
    <3>. QED
      BY <1>1, <1>4, <2>1, <2>3, <2>4, <2>6, <3>1, <3>2, NothingWaits, LatestOrderly
  <2>. QED
    BY <1>1, <2>1, <2>3, <2>4, <2>5, <2>6, TaskOverStep
<1>. QED
  BY <1>2, <1>3, <1>4

-----------------------------------------------------------------------------
(* The ways out of the loop of continueRun *)

LEMMA LeavesLoopIsOver ==
  ASSUME NEW g, LeavesLoop(g), other' = other
  PROVE  TaskOver(g)
BY DEF LeavesLoop, TaskOver

LEMMA LoopRaisesStep ==
  ASSUME SessionInv, NEW g \in 1..MaxGenerations, tasks[g].phase \in Serving, LoopRaises(g),
         ~ hasty => g # generation /\ tasks[g].aborted
  PROVE  SessionStep
<1>1. /\ LeavesLoop(g) /\ drafts' = drafts /\ live' = live /\ other' = other
      /\ workspace' = workspace
      /\ asked' = asked /\ decided' = decided /\ stopped' = stopped /\ hasty' = hasty
      /\ tasks[g].phase # "done" /\ run # NewRun
  BY TaskHasBegun DEF LoopRaises, history, Serving, AtWork
<1>2. /\ RunMoves /\ Quiet /\ run'.pending \subseteq run.pending
      /\ \/ shown = "this" /\ Shows
         \/ UNCHANGED <<shown, save, storage>> /\ run' = run
  <2>1. CASE tasks[g].aborted
    <3>1. UNCHANGED coordinatorVars /\ UNCHANGED <<shown, save, storage>>
      BY <2>1 DEF LoopRaises
    <3>2. RunMoves /\ Quiet /\ run' = run
      BY <3>1, InvParts, Unmoved DEF coordinatorVars
    <3>. QED
      BY <3>1, <3>2
  <2>2. CASE ~ tasks[g].aborted
    <3>1. FailsAndShows
      BY <2>2 DEF LoopRaises
    <3>. QED
      BY <1>1, <3>1, FailsShown
  <2>. QED
    BY <2>1, <2>2
<1>3. TaskOver(g) /\ ViewKept
  BY <1>1, <1>2, LeavesLoopIsOver DEF ViewKept
<1>4. ASSUME ~ hasty  PROVE Orderly'
  <2>1. UNCHANGED coordinatorVars /\ g # generation
    BY <1>4 DEF LoopRaises
  <2>2. Ends(g) /\ UNCHANGED <<generation, abortRef, requestActive, other, drafts, live, stopped>>
    BY <1>1, <2>1 DEF LeavesLoop
  <2>. QED
    BY <1>1, <1>4, <2>1, <2>2, StaleOrderly
<1>. QED
  BY <1>1, <1>2, <1>3, <1>4, TaskOverStep

LEMMA RefusedStep ==
  ASSUME SessionInv, hasty, NEW g \in 1..MaxGenerations, tasks[g].phase \in Serving, Refused(g)
  PROVE  SessionStep
<1>1. /\ LeavesLoop(g) /\ run' = run /\ drafts' = drafts
      /\ live' = live /\ shown' = shown /\ workspace' = workspace /\ other' = other
      /\ save' = save /\ storage' = storage
      /\ asked' = asked /\ decided' = decided /\ stopped' = stopped /\ hasty' = hasty
      /\ tasks[g].phase # "done"
  BY DEF Refused, view, history, Serving, AtWork
<1>2. sequence' \in {sequence + 1, sequence + 2} /\ active' \in {active, None}
  BY DEF Refused
<1>3. RunMoves /\ Quiet
  BY <1>1, <1>2, InvParts, SessionRefused
<1>4. TaskOver(g) /\ ViewKept
  BY <1>1, LeavesLoopIsOver DEF ViewKept
<1>. QED
  BY <1>1, <1>3, <1>4, TaskOverStep

LEMMA LoopSupersededStep ==
  ASSUME SessionInv, NEW g \in 1..MaxGenerations, LoopSuperseded(g)
  PROVE  SessionStep
<1>1. /\ tasks[g].phase # "done" /\ g # generation /\ Ends(g)
      /\ UNCHANGED <<generation, abortRef, requestActive>>
      /\ UNCHANGED <<coordinatorVars, drafts, view, history>>
  BY DEF LoopSuperseded
<1>. QED
  BY <1>1, StaleEnds

-----------------------------------------------------------------------------
(* The loop *)

\* What the latest task has yet to serve waits, with a draft.
LEMMA LatestServes ==
  ASSUME SessionInv, NEW g \in 1..MaxGenerations, tasks[g].phase \in Serving, tasks[g].todo # {}
  PROVE  /\ CallServed(g) \in tasks[g].todo /\ CallServed(g) = CallOf(tasks[g].todo)
         /\ tasks[g].phase # "done" /\ run # NewRun
         /\ g = generation => Latest = tasks[g] /\ live /\ shown = "this"
         /\ g = generation /\ ~ hasty =>
              /\ InStep /\ run.status = "awaiting_tool_results"
              /\ tasks[g].todo \subseteq run.pending \cap DOMAIN tasks[g].drafts
              /\ \A x \in run.executions : x.call = CallServed(g) =>
                   x.status = "failed" \/ tasks[g].phase \in AtWork
         /\ g # generation /\ ~ hasty => tasks[g].aborted /\ IsTerminal(run)
<1>1. tasks[g].phase # "done" /\ tasks[g].phase # "ended"
  BY DEF Serving, AtWork
<1>2. tasks[g].todo \in SUBSET CallIds
  BY <1>1, InvParts, InFlightIsBegun, TaskTypes
<1>3. CallServed(g) \in tasks[g].todo /\ CallServed(g) = CallOf(tasks[g].todo)
  BY <1>2, CallOfIsOne, ServedIsCallOf
<1>4. run # NewRun
  BY <1>1, TaskHasBegun
<1>5. g = generation => Latest = tasks[g] /\ live /\ shown = "this"
  BY <1>1, LatestIsShown
<1>6. ASSUME g = generation, ~ hasty
      PROVE  /\ InStep /\ run.status = "awaiting_tool_results"
             /\ tasks[g].todo \subseteq run.pending \cap DOMAIN tasks[g].drafts
             /\ \A x \in run.executions : x.call = CallServed(g) =>
                  x.status = "failed" \/ tasks[g].phase \in AtWork
  <2>1. InStep /\ LatestFits /\ OthersUnserved /\ Latest = tasks[g] /\ live
    BY <1>5, <1>6, OrderlyParts
  <2>2. tasks[g].todo \subseteq run.pending \cap DOMAIN tasks[g].drafts
    BY <2>1 DEF LatestFits
  <2>3. CallServed(g) \in run.pending
    BY <1>3, <2>2
  <2>4. run.status = "awaiting_tool_results"
    BY <2>3, InvParts DEF SessionRun, WaitsOnlyForCalls
  <2>5. \A x \in run.executions : x.call = CallServed(g) =>
          x.status = "failed" \/ tasks[g].phase \in AtWork
    BY <2>1, <2>3 DEF OthersUnserved
  <2>. QED
    BY <2>1, <2>2, <2>4, <2>5
<1>7. ASSUME g # generation, ~ hasty  PROVE tasks[g].aborted /\ IsTerminal(run)
  BY <1>1, <1>7, OrderlyParts DEF StaleOver
<1>. QED
  BY <1>1, <1>3, <1>4, <1>5, <1>6, <1>7

\* A task that goes on to what is left once a call is served or skipped.
Left(g, c) == [tasks[g] EXCEPT !.phase = "serving", !.todo = @ \ {c}]

LEMMA ServesOn ==
  ASSUME SessionInv, NEW g \in 1..MaxGenerations, tasks[g].phase \in Serving, NEW c,
         TaskBecomes(g, Left(g, c)), generation' = generation
  PROVE  /\ TasksTyped' /\ tasks'[g].phase = "serving" /\ tasks'[g].todo = tasks[g].todo \ {c}
         /\ tasks'[g].drafts = tasks[g].drafts
         /\ Latest' = IF g = generation THEN tasks'[g] ELSE Latest
         /\ g = generation => Latest = tasks[g]
         /\ \A h \in 1..MaxGenerations : h # g => tasks'[h] = tasks[h]
         /\ ServingKept /\ WorkKept
<1>1. SessionTypes /\ tasks[g] \in Tasks /\ tasks[g].phase # "done"
  BY InvParts DEF TasksTyped, Serving, AtWork
<1>2. /\ Left(g, c) \in Tasks /\ Left(g, c).phase = "serving"
      /\ Left(g, c).todo = tasks[g].todo \ {c}
      /\ Left(g, c).drafts = tasks[g].drafts /\ Left(g, c).automatic = tasks[g].automatic
  BY <1>1 DEF Tasks, Phases, Left
<1>3. /\ tasks' \in [1..MaxGenerations -> Tasks]
      /\ \A h \in 1..MaxGenerations : h > generation' => tasks'[h] = Idle
      /\ Latest' = IF g = generation THEN Left(g, c) ELSE Latest
      /\ g = generation => Latest = tasks[g]
      /\ tasks'[g] = Left(g, c)
      /\ \A h \in 1..MaxGenerations : h # g => tasks'[h] = tasks[h]
  BY <1>1, <1>2, LatestBecomes
<1>4. ServingKept
  BY <1>2, <1>3 DEF ServingKept
<1>5. WorkKept
  BY <1>2, <1>3 DEF WorkKept, AtWork
<1>. QED
  BY <1>2, <1>3, <1>4, <1>5 DEF TasksTyped

LEMMA SkipsStep ==
  ASSUME SessionInv, NEW g \in 1..MaxGenerations, Skips(g)
  PROVE  SessionStep
<1>1. /\ tasks[g].phase = "serving" /\ tasks[g].todo # {} /\ g = generation
      /\ UNCHANGED coordinatorVars /\ generation' = generation /\ drafts' = drafts
      /\ abortRef' = abortRef /\ requestActive' = requestActive
      /\ live' = live /\ shown' = shown /\ workspace' = workspace /\ other' = other
      /\ save' = save /\ storage' = storage
      /\ asked' = asked /\ decided' = decided /\ stopped' = stopped /\ hasty' = hasty
  BY DEF Skips, view, history
<1>2. TaskBecomes(g, Left(g, CallServed(g)))
  <2>1. tasks[g] \in Tasks
    BY InvParts DEF TasksTyped
  <2>2. [tasks[g] EXCEPT !.todo = @ \ {CallServed(g)}] = Left(g, CallServed(g))
    BY <1>1, <2>1 DEF Tasks, Left
  <2>3. tasks' = [tasks EXCEPT ![g] = [tasks[g] EXCEPT !.todo = @ \ {CallServed(g)}]]
    BY DEF Skips
  <2>. QED
    BY <2>2, <2>3 DEF TaskBecomes
<1>3. tasks[g].phase \in Serving /\ tasks[g].phase \notin AtWork
  BY <1>1 DEF Serving, AtWork
<1>4. /\ TasksTyped' /\ tasks'[g].phase = "serving"
      /\ tasks'[g].todo = tasks[g].todo \ {CallServed(g)}
      /\ tasks'[g].drafts = tasks[g].drafts
      /\ Latest' = tasks'[g] /\ Latest = tasks[g]
      /\ \A h \in 1..MaxGenerations : h # g => tasks'[h] = tasks[h]
      /\ ServingKept /\ WorkKept
  BY <1>1, <1>2, <1>3, ServesOn
<1>5. RunMoves /\ Quiet /\ run' = run /\ active' = active /\ sequence' = sequence
  BY <1>1, InvParts, Unmoved DEF coordinatorVars
<1>6. CommandsTyped' /\ drafts' \in DraftSets /\ asked' \subseteq CallIds
  BY <1>1, InvParts DEF CommandsTyped
<1>7. Consent'
  <2>1. WireKept
    BY <1>4 DEF WireKept, OnTheWire
  <2>. QED
    BY <1>1, <1>4, <1>5, <2>1, ConsentKept
<1>8. run # NewRun /\ live
  BY <1>1, <1>3, LatestServes
<1>9. ViewTyped' /\ Gone' /\ Kept' /\ StaysGone
  <2>1. ViewKept
    BY <1>1, <1>5 DEF ViewKept
  <2>. QED
    BY <1>5, <1>8, <2>1, ViewStep
<1>10. ASSUME ~ hasty  PROVE Orderly'
  <2>1. InStep /\ LatestFits
    BY <1>10, OrderlyParts
  <2>2. Flags' /\ StaleOver' /\ StopEnded'
    BY <1>1, <1>4, <1>5, <1>10, FlagsSame, StaleSame, StopKept
  <2>3. LatestFits' /\ ExecutionFits' /\ InStep'
    BY <1>1, <1>4, <1>5, <2>1 DEF LatestFits, ExecutionFits, Serving, AtWork, InStep
  <2>4. DraftsReady'
    BY <1>1, <1>4, <1>5, <1>10, DraftsReadyKept
  <2>5. OthersUnserved'
    BY <1>1, <1>3, <1>4, <1>5, <1>10, OthersKept
  <2>. QED
    BY <2>2, <2>3, <2>4, <2>5, OrderlyFrom
<1>. QED
  BY <1>1, <1>4, <1>5, <1>6, <1>7, <1>9, <1>10, SessionStepFrom

LEMMA LoopEndsStep ==
  ASSUME SessionInv, NEW g \in 1..MaxGenerations, LoopEnds(g)
  PROVE  SessionStep
<1>1. /\ tasks[g].phase = "serving" /\ tasks[g].todo = {} /\ tasks[g].phase # "done"
      /\ tasks[g].phase \in Serving /\ run # NewRun
  BY TaskHasBegun DEF LoopEnds, Serving
<1>2. CASE run.status # "tool_results_ready"
  <2>1. /\ UNCHANGED coordinatorVars /\ LeavesLoop(g) /\ drafts' = drafts
        /\ live' = live /\ shown' = shown /\ workspace' = workspace /\ other' = other
        /\ save' = save /\ storage' = storage
        /\ asked' = asked /\ decided' = decided /\ stopped' = stopped /\ hasty' = hasty
    BY <1>2 DEF LoopEnds, view, history
  <2>2. /\ RunMoves /\ Quiet /\ run' = run /\ active' = active /\ sequence' = sequence
    BY <2>1, InvParts, Unmoved DEF coordinatorVars
  <2>3. TaskOver(g) /\ ViewKept
    BY <2>1, <2>2, LeavesLoopIsOver DEF ViewKept
  <2>4. ASSUME ~ hasty  PROVE Orderly'
    <3>1. CASE g # generation
      <4>1. Ends(g) /\ UNCHANGED <<generation, abortRef, requestActive, other, drafts, live, stopped>>
        BY <2>1, <3>1 DEF LeavesLoop
      <4>. QED
        BY <1>1, <2>1, <2>4, <3>1, <4>1, StaleOrderly
    <3>2. CASE g = generation
      <4>1. /\ InStep /\ LatestFits /\ DraftsReady /\ OthersUnserved /\ Latest = tasks[g]
        BY <1>1, <2>4, <3>2, OrderlyParts, LatestIsShown
      <4>2. run.status = "awaiting_tool_results"
        BY <1>1, <1>2, <4>1 DEF LatestFits
      <4>3. Ends(g) /\ generation' = generation /\ requestActive' = FALSE
        BY <2>1, <2>2, <3>2, <4>2 DEF LeavesLoop
      <4>4. InStep' /\ DraftsReady'
        BY <1>1, <2>1, <2>2, <2>4, <4>1, DraftsReadyKept DEF InStep
      <4>5. OthersUnserved'
        BY <1>1, <2>1, <2>2, <2>4, <4>1, OthersKept DEF AtWork
      <4>. QED
        BY <1>1, <2>1, <2>2, <2>4, <3>2, <4>3, <4>4, <4>5, LatestOrderly
    <3>. QED
      BY <3>1, <3>2
  <2>. QED
    BY <1>1, <2>1, <2>2, <2>3, <2>4, TaskOverStep
<1>3. CASE run.status = "tool_results_ready"
  <2>1. live /\ shown = "this" /\ ~ IsTerminal(run)
    BY <1>1, <1>3, OpenIsShown DEF IsTerminal, TerminalStatuses
  <2>2. /\ Continue /\ Shows /\ drafts' = <<>>
        /\ tasks' = [tasks EXCEPT ![g] = [Turn EXCEPT !.aborted = tasks[g].aborted]]
        /\ generation' = generation /\ abortRef' = abortRef /\ requestActive' = requestActive
        /\ live' = live /\ workspace' = workspace /\ other' = other
        /\ asked' = asked /\ decided' = decided /\ stopped' = stopped /\ hasty' = hasty
    BY <1>3, <2>1 DEF LoopEnds, history
  <2>. DEFINE new == [Turn EXCEPT !.aborted = tasks[g].aborted]
  <2>3. new \in Tasks /\ new.phase = "turn" /\ TaskBecomes(g, new) /\ SessionTypes
    <3>1. tasks[g].aborted \in BOOLEAN
      BY <1>1, InvParts, InFlightIsBegun, TaskTypes
    <3>. QED
      BY <2>2, <3>1, InvParts, TurnTask DEF TaskBecomes
  <2>. HIDE DEF new
  <2>4. /\ tasks' \in [1..MaxGenerations -> Tasks]
        /\ \A h \in 1..MaxGenerations : h > generation' => tasks'[h] = Idle
        /\ Latest' = IF g = generation THEN new ELSE Latest
        /\ g = generation => Latest = tasks[g]
        /\ tasks'[g] = new
        /\ \A h \in 1..MaxGenerations : h # g => tasks'[h] = tasks[h]
    BY <1>1, <2>2, <2>3, LatestBecomes
  <2>5. /\ RunMoves /\ Quiet /\ run'.pending = {} /\ active' # None
        /\ InStep => InStep' /\ run'.status = "running"
    BY <2>2, InvParts, SessionContinues
  <2>6. /\ TasksTyped' /\ CommandsTyped' /\ drafts' \in DraftSets /\ asked' \subseteq CallIds
    BY <2>2, <2>4, InvParts, NoDrafts DEF TasksTyped, CommandsTyped
  <2>7. Consent'
    <3>1. ServingKept
      BY <2>3, <2>4 DEF ServingKept, Serving, AtWork
    <3>2. WorkKept
      BY <2>3, <2>4 DEF WorkKept, AtWork
    <3>3. WireKept
      BY <2>5 DEF WireKept
    <3>. QED
      BY <2>2, <2>5, <3>1, <3>2, <3>3, ConsentKept
  <2>8. ViewTyped' /\ Gone' /\ Kept' /\ StaysGone
    <3>1. ViewKept
      BY <2>1, <2>2 DEF ViewKept
    <3>. QED
      BY <1>1, <2>1, <2>5, <3>1, ViewStep
  <2>9. ASSUME ~ hasty  PROVE Orderly'
    <3>1. InStep /\ StaleOver
      BY <2>9, OrderlyParts
    <3>2. g = generation
      BY <1>1, <2>1, <3>1 DEF StaleOver
    <3>3. Latest' = new /\ Latest = tasks[g] /\ InStep' /\ run'.status = "running"
      BY <2>4, <2>5, <3>1, <3>2
    <3>4. Flags' /\ StaleOver' /\ StopEnded'
      BY <1>1, <2>2, <2>3, <2>4, <2>5, <2>9, <3>2, <3>3, FlagsSame, StaleSame, StopKept
    <3>5. LatestFits' /\ ExecutionFits'
      BY <2>3, <2>5, <3>3 DEF LatestFits, ExecutionFits, Serving, AtWork
    <3>. QED
      BY <2>5, <3>3, <3>4, <3>5, NothingWaits, OrderlyFrom
  <2>. QED
    BY <2>2, <2>5, <2>6, <2>7, <2>8, <2>9, SessionStepFrom
<1>. QED
  BY <1>2, <1>3

-----------------------------------------------------------------------------
(* What the reducer accepts of an orderly session *)

\* A call whose executions have all failed may be executed once more.
LEMMA MayExecute ==
  ASSUME CoordinatorInv, SessionRun(run), InStep, run.status = "awaiting_tool_results",
         NEW c \in run.pending, \A x \in run.executions : x.call = c => x.status = "failed"
  PROVE  Accepted([type |-> "tool.execution_started", at |-> Current(run),
                   call |-> c, number |-> NextExecution(c)])
<1>. DEFINE e == [type |-> "tool.execution_started", at |-> Current(run),
                  call |-> c, number |-> NextExecution(c)]
<1>1. /\ e.type = "tool.execution_started" /\ e.at = Current(run) /\ e.call = c
      /\ e.number = Cardinality(Executed(run, c)) + 1
  BY DEF NextExecution, ExecutionsOf, Executed
<1>. HIDE DEF e
<1>2. Cardinality(Executed(run, c)) \in Nat
  BY ExecutedFinite DEF CoordinatorInv, RunInv
<1>3. \A x \in run.executions : ~ (x.call = e.call /\ x.number = e.number)
  BY <1>1, <1>2 DEF SessionRun, NumbersFit
<1>4. AwaitingCall(run, e)
  BY <1>1 DEF AwaitingCall, Current
<1>5. ToolAccepted(run, e)
  BY <1>1, <1>3, <1>4 DEF ToolAccepted, ToolEvents
<1>. QED
  BY <1>5 DEF Accepted, Accepts, InStep, IsTerminal, TerminalStatuses, e

\* A call of which no execution is open may be given its result.
LEMMA MaySupply ==
  ASSUME CoordinatorInv, InStep, run.status = "awaiting_tool_results",
         NEW c \in run.pending, \A x \in run.executions : x.call = c => x.status # "executing"
  PROVE  Accepted([type |-> "tool.result_supplied", at |-> Current(run), call |-> c])
<1>. DEFINE e == [type |-> "tool.result_supplied", at |-> Current(run), call |-> c]
<1>1. e.type = "tool.result_supplied" /\ e.at = Current(run) /\ e.call = c
  OBVIOUS
<1>2. c \notin run.results
  BY PendingSettled DEF CoordinatorInv
<1>. HIDE DEF e
<1>3. ToolAccepted(run, e)
  BY <1>1, <1>2 DEF ToolAccepted, ToolEvents, AwaitingCall, Current
<1>. QED
  BY <1>3 DEF Accepted, Accepts, InStep, IsTerminal, TerminalStatuses, e

LEMMA ResolvesFacts ==
  ASSUME SessionInv, NEW g \in 1..MaxGenerations, Resolves(g)
  PROVE  /\ tasks[g].phase = "serving" /\ tasks[g].phase \in Serving
         /\ tasks[g].phase \notin AtWork /\ tasks[g].todo # {} /\ g = generation
         /\ CallServed(g) \in asked \cap DOMAIN tasks[g].drafts => CallServed(g) \in decided
<1>1. /\ tasks[g].phase = "serving" /\ tasks[g].todo # {} /\ g = generation
      /\ tasks[g].automatic => Automatic(tasks[g].drafts, CallServed(g))
  BY DEF Resolves
<1>2. tasks[g].phase \in Serving /\ tasks[g].phase \notin AtWork
  BY <1>1 DEF Serving, AtWork
<1>3. CallServed(g) \in tasks[g].todo /\ Latest = tasks[g] /\ LatestAsks
  BY <1>1, <1>2, LatestServes, InvParts DEF Consent
<1>. QED
  BY <1>1, <1>2, <1>3 DEF LatestAsks, Automatic

LEMMA NoDraftStep ==
  ASSUME SessionInv, NEW g \in 1..MaxGenerations, NoDraft(g)
  PROVE  SessionStep
<1>1. Resolves(g) /\ CallServed(g) \notin DOMAIN tasks[g].drafts /\ LoopRaises(g)
  BY DEF NoDraft
<1>2. tasks[g].phase \in Serving /\ tasks[g].todo # {} /\ g = generation
  BY <1>1, ResolvesFacts
<1>3. hasty
  BY <1>1, <1>2, LatestServes
<1>. QED
  BY <1>1, <1>2, <1>3, LoopRaisesStep

MayBegin(c) == Accepted([type |-> "tool.execution_started", at |-> Current(run),
                         call |-> c, number |-> NextExecution(c)])

BeginsExecuting(g, c) ==
  /\ c = CallServed(g) /\ c \in DOMAIN tasks[g].drafts
  /\ StartToolExecution(c) /\ Goes(g, "executing")
  /\ UNCHANGED <<generation, abortRef, requestActive, drafts, view, history>>

LEMMA SessionExecutionBegins ==
  ASSUME SessionInv, NEW g \in 1..MaxGenerations, Resolves(g), NEW c,
         MayBegin(c), BeginsExecuting(g, c)
  PROVE  SessionStep
<1>. DEFINE open == [call |-> c, number |-> NextExecution(c), status |-> "executing"]
<1>1. /\ generation' = generation /\ drafts' = drafts
      /\ abortRef' = abortRef /\ requestActive' = requestActive
      /\ live' = live /\ shown' = shown /\ workspace' = workspace /\ other' = other
      /\ save' = save /\ storage' = storage
      /\ asked' = asked /\ decided' = decided /\ stopped' = stopped /\ hasty' = hasty
      /\ c = CallServed(g) /\ c \in DOMAIN tasks[g].drafts
      /\ StartToolExecution(c) /\ Goes(g, "executing")
  BY DEF BeginsExecuting, view, history
<1>2. /\ tasks[g].phase = "serving" /\ tasks[g].phase \in Serving
      /\ tasks[g].phase \notin AtWork /\ tasks[g].todo # {} /\ g = generation
      /\ c \in asked => c \in decided
  BY <1>1, ResolvesFacts
<1>3. /\ c \in tasks[g].todo /\ c = CallOf(tasks[g].todo)
      /\ tasks[g].phase # "done" /\ run # NewRun
      /\ Latest = tasks[g] /\ live /\ shown = "this"
      /\ ~ hasty =>
           /\ InStep /\ run.status = "awaiting_tool_results"
           /\ tasks[g].todo \subseteq run.pending \cap DOMAIN tasks[g].drafts
           /\ \A x \in run.executions : x.call = c => x.status = "failed" \/ tasks[g].phase \in AtWork
  BY <1>1, <1>2, LatestServes
<1>4. /\ RunMoves /\ InStep' /\ active' = active /\ c \in run.pending
      /\ run'.status = run.status /\ run'.turns = run.turns
      /\ run'.pending = run.pending /\ run'.results = run.results
      /\ run'.executions = run.executions \cup {open}
      /\ Cardinality(ExecutionsOf(c)') = NextExecution(c)
  <2>1. Accepted([type |-> "tool.execution_started", at |-> Current(run),
                  call |-> c, number |-> NextExecution(c)])
    BY DEF MayBegin
  <2>. QED
    BY <1>1, <2>1, InvParts, SessionExecutes
<1>5. /\ TasksTyped' /\ tasks'[g].phase = "executing" /\ tasks'[g].todo = tasks[g].todo
      /\ tasks'[g].drafts = tasks[g].drafts /\ tasks'[g].automatic = tasks[g].automatic
      /\ Latest' = tasks'[g]
      /\ \A h \in 1..MaxGenerations : h # g => tasks'[h] = tasks[h]
  <2>1. "executing" \in Phases
    BY DEF Phases
  <2>. QED
    BY <1>1, <1>2, <1>3, <2>1, GoesOn
<1>6. CommandsTyped' /\ drafts' \in DraftSets /\ asked' \subseteq CallIds
  BY <1>1, InvParts DEF CommandsTyped
<1>7. open.call = c /\ open.status = "executing" /\ open.number = NextExecution(c)
  OBVIOUS
<1>. HIDE DEF open
<1>8. Consent'
  <2>1. ServedOf({c})
    BY <1>4, <1>7 DEF ServedOf, CallIsServed, ExecutionsOf
  <2>2. {c} \cap asked \subseteq decided'
    BY <1>1, <1>2
  <2>3. AskedFirst' /\ DraftsAsk'
    BY <1>1, <1>4, <2>1, <2>2, AskedKept, DraftsAskKept
  <2>4. ServingKept /\ WireKept /\ Latest'.phase \notin OnTheWire
    BY <1>2, <1>3, <1>5 DEF ServingKept, WireKept, OnTheWire
  <2>5. LatestAsks' /\ NewCallsUnasked'
    BY <1>1, <1>4, <2>1, <2>4, LatestAsksKept, NewCallsKept
  <2>6. WorkBegun'
    <3>1. SUFFICES ASSUME NEW h \in 1..MaxGenerations, tasks'[h].phase \in AtWork
                   PROVE  tasks'[h].todo # {} /\ ExecutionsOf(CallOf(tasks[h].todo))' # {}
      BY DEF WorkBegun, AtWork
    <3>2. CASE h = g
      <4>1. { x \in run'.executions : x.call = c } # {}
        BY <1>4, <1>7
      <4>2. ExecutionsOf(c)' # {} /\ tasks'[g].todo # {}
        BY <1>2, <1>5, <4>1 DEF ExecutionsOf
      <4>3. CallOf(tasks'[h].todo) = c
        BY <1>3, <1>5, <3>2
      <4>. QED
        BY <3>2, <4>2, <4>3 DEF ExecutionsOf, CallOf
    <3>3. CASE h # g
      <4>1. tasks'[h] = tasks[h]
        BY <1>5, <3>3
      <4>2. tasks[h].todo # {} /\ ExecutionsOf(CallOf(tasks[h].todo)) # {}
        BY <3>1, <4>1, InvParts DEF Consent, WorkBegun
      <4>3. { x \in run'.executions : x.call = CallOf(tasks[h].todo) } # {}
        BY <1>4, <4>2 DEF ExecutionsOf
      <4>. QED
        BY <4>1, <4>2, <4>3 DEF ExecutionsOf, CallOf
    <3>. QED
      BY <3>2, <3>3
  <2>. QED
    BY <2>3, <2>5, <2>6 DEF Consent
<1>9. ViewTyped' /\ Gone' /\ Kept' /\ StaysGone
  <2>1. ViewKept
    BY <1>1, <1>4 DEF ViewKept, IsTerminal
  <2>. QED
    BY <1>3, <1>4, <2>1, ViewStep
<1>10. ASSUME ~ hasty  PROVE Orderly'
  <2>1. /\ run.status = "awaiting_tool_results"
        /\ tasks[g].todo \subseteq run.pending \cap DOMAIN tasks[g].drafts
        /\ OthersUnserved
    BY <1>3, <1>10, OrderlyParts
  <2>2. Flags' /\ StaleOver' /\ StopEnded'
    BY <1>1, <1>2, <1>3, <1>4, <1>5, <1>10, FlagsSame, StaleSame, StopKept
  <2>3. LatestFits'
    BY <1>4, <1>5, <2>1 DEF LatestFits, Serving, AtWork
  <2>4. ExecutionFits'
    <3>1. [call |-> CallOf(tasks'[g].todo), number |-> Cardinality(ExecutionsOf(c)'),
           status |-> "executing"] \in run'.executions
      BY <1>3, <1>4, <1>5 DEF open
    <3>2. ExecutionsOf(c)' = ExecutionsOf(CallOf(Latest.todo))'
      BY <1>3, <1>5 DEF CallOf
    <3>. QED
      BY <1>5, <3>1, <3>2 DEF ExecutionFits, CallOf
  <2>5. DraftsReady'
    BY <1>1, <1>2, <1>3, <1>4, <1>10, DraftsReadyKept
  <2>6. OthersUnserved'
    <3>1. SUFFICES ASSUME NEW x \in run'.executions, x.call \in run.pending
                   PROVE  x.status = "failed" \/ x.call = CallOf(tasks[g].todo)
      BY <1>4, <1>5 DEF OthersUnserved, AtWork, CallOf
    <3>2. CASE x = open
      BY <1>3, <1>7, <3>2
    <3>3. CASE x \in run.executions
      BY <1>2, <1>3, <2>1, <3>1, <3>3 DEF OthersUnserved
    <3>. QED
      BY <1>4, <3>2, <3>3
  <2>. QED
    BY <1>4, <2>2, <2>3, <2>4, <2>5, <2>6, OrderlyFrom
<1>. QED
  BY <1>1, <1>4, <1>5, <1>6, <1>8, <1>9, <1>10, SessionStepFrom

LEMMA BeginExecutionStep ==
  ASSUME SessionInv, NEW g \in 1..MaxGenerations, BeginExecution(g)
  PROVE  SessionStep
<1>. DEFINE e == [type |-> "tool.execution_started", at |-> Current(run),
                  call |-> CallServed(g), number |-> NextExecution(CallServed(g))]
<1>1. Resolves(g) /\ CallServed(g) \in DOMAIN tasks[g].drafts
  BY DEF BeginExecution
<1>2. /\ tasks[g].phase \in Serving /\ tasks[g].phase \notin AtWork
      /\ tasks[g].todo # {} /\ g = generation
  BY <1>1, ResolvesFacts
<1>3. ASSUME ~ hasty  PROVE run.status = "awaiting_tool_results" /\ Accepted(e)
  <2>1. /\ CallServed(g) \in run.pending /\ InStep /\ run.status = "awaiting_tool_results"
        /\ \A x \in run.executions : x.call = CallServed(g) => x.status = "failed"
    BY <1>2, <1>3, LatestServes
  <2>. QED
    BY <2>1, InvParts, MayExecute
<1>4. CASE run.status # "awaiting_tool_results"
  <2>1. LoopRaises(g)
    BY <1>4 DEF BeginExecution
  <2>. QED
    BY <1>2, <1>3, <1>4, <2>1, LoopRaisesStep
<1>5. CASE run.status = "awaiting_tool_results" /\ Accepted(e)
  <2>1. MayBegin(CallServed(g)) /\ BeginsExecuting(g, CallServed(g))
    BY <1>1, <1>5 DEF BeginExecution, BeginsExecuting, MayBegin
  <2>. QED
    BY <1>1, <1>5, <2>1, SessionExecutionBegins
<1>6. CASE run.status = "awaiting_tool_results" /\ ~ Accepted(e)
  <2>1. Refused(g)
    BY <1>6 DEF BeginExecution
  <2>. QED
    BY <1>2, <1>3, <1>6, <2>1, RefusedStep
<1>. QED
  BY <1>4, <1>5, <1>6

MaySupplyNow(c) ==
  Accepted([type |-> "tool.result_supplied", at |-> Current(run), call |-> c])

TakesResult(g, c) ==
  /\ c = CallServed(g) /\ SupplyToolResult(c) /\ Shows /\ TaskBecomes(g, Left(g, c))
  /\ UNCHANGED <<generation, abortRef, requestActive, drafts, live, other, workspace, history>>

LEMMA ResultTaken ==
  ASSUME SessionInv, NEW g \in 1..MaxGenerations, tasks[g].phase \in Serving,
         tasks[g].todo # {}, run.status = "awaiting_tool_results",
         NEW c, MaySupplyNow(c), TakesResult(g, c), c \in asked => c \in decided
  PROVE  SessionStep
<1>1. /\ generation' = generation /\ drafts' = drafts
      /\ abortRef' = abortRef /\ requestActive' = requestActive
      /\ live' = live /\ workspace' = workspace /\ other' = other
      /\ asked' = asked /\ decided' = decided /\ stopped' = stopped /\ hasty' = hasty
      /\ c = CallServed(g) /\ SupplyToolResult(c) /\ Shows /\ TaskBecomes(g, Left(g, c))
  BY DEF TakesResult, history
<1>2. /\ c \in tasks[g].todo /\ c = CallOf(tasks[g].todo)
      /\ tasks[g].phase # "done" /\ run # NewRun
  BY <1>1, LatestServes
<1>3. ~ IsTerminal(run)
  BY DEF IsTerminal, TerminalStatuses
<1>4. live /\ shown = "this"
  BY <1>2, <1>3, OpenIsShown
<1>5. /\ RunMoves /\ InStep' /\ active' = active /\ c \in run.pending
      /\ run'.executions = run.executions /\ run'.results = run.results \cup {c}
      /\ run'.pending = run.pending \ {c}
      /\ run'.status = IF run'.pending = {} THEN "tool_results_ready"
                                            ELSE "awaiting_tool_results"
  <2>1. Accepted([type |-> "tool.result_supplied", at |-> Current(run), call |-> c])
    BY DEF MaySupplyNow
  <2>. QED
    BY <1>1, <2>1, InvParts, SessionSupplies
<1>6. /\ TasksTyped' /\ tasks'[g].phase = "serving" /\ tasks'[g].todo = tasks[g].todo \ {c}
      /\ tasks'[g].drafts = tasks[g].drafts
      /\ Latest' = IF g = generation THEN tasks'[g] ELSE Latest
      /\ g = generation => Latest = tasks[g]
      /\ \A h \in 1..MaxGenerations : h # g => tasks'[h] = tasks[h]
      /\ ServingKept /\ WorkKept
  BY <1>1, ServesOn
<1>7. CommandsTyped' /\ drafts' \in DraftSets /\ asked' \subseteq CallIds
  BY <1>1, InvParts DEF CommandsTyped
<1>8. Consent'
  <2>1. ServedOf({c})
    BY <1>5 DEF ServedOf, CallIsServed, ExecutionsOf
  <2>2. {c} \cap asked \subseteq decided' /\ {c} \cap run'.pending = {}
    BY <1>1, <1>5
  <2>3. AskedFirst' /\ DraftsAsk' /\ LatestAsks'
    BY <1>1, <1>5, <1>6, <2>1, <2>2, AskedKept, DraftsAskKept, LatestAsksKept
  <2>4. WireKept
    BY <1>5, <1>6 DEF WireKept, OnTheWire
  <2>5. NewCallsUnasked'
    BY <1>1, <2>1, <2>2, <2>4, NewCallsKept
  <2>6. WorkBegun'
    BY <1>6, <2>1, WorkBegunKept
  <2>. QED
    BY <2>3, <2>5, <2>6 DEF Consent
<1>9. ViewTyped' /\ Gone' /\ Kept' /\ StaysGone
  <2>1. ViewKept
    BY <1>1, <1>4 DEF ViewKept
  <2>. QED
    BY <1>2, <1>4, <1>5, <2>1, ViewStep
<1>10. ASSUME ~ hasty  PROVE Orderly'
  <2>1. /\ g = generation /\ tasks[g].todo \subseteq run.pending \cap DOMAIN tasks[g].drafts
        /\ Latest = tasks[g] /\ Latest' = tasks'[g] /\ OthersUnserved
    BY <1>2, <1>3, <1>6, <1>10, LatestServes, OrderlyParts
  <2>2. Flags' /\ StaleOver' /\ StopEnded'
    BY <1>1, <1>2, <1>4, <1>5, <1>6, <1>10, <2>1, FlagsSame, StaleSame, StopKept
  <2>3. LatestFits' /\ ExecutionFits'
    <3>1. tasks'[g].todo \subseteq run'.pending \cap DOMAIN tasks'[g].drafts
      BY <1>5, <1>6, <2>1
    <3>. QED
      BY <1>5, <1>6, <2>1, <3>1 DEF LatestFits, ExecutionFits, Serving, AtWork
  <2>4. DraftsReady'
    <3>1. Latest.phase # "turn"
      BY <2>1 DEF Serving, AtWork
    <3>. QED
      BY <1>1, <1>4, <1>5, <1>10, <3>1, DraftsReadyKept
  <2>5. OthersUnserved'
    <3>1. SUFFICES ASSUME NEW x \in run.executions, x.call \in run.pending, x.call # c
                   PROVE  x.status = "failed"
      BY <1>5 DEF OthersUnserved
    <3>. QED
      BY <1>2, <1>4, <2>1, <3>1 DEF OthersUnserved
  <2>. QED
    BY <1>5, <2>2, <2>3, <2>4, <2>5, OrderlyFrom
<1>. QED
  BY <1>1, <1>5, <1>6, <1>7, <1>8, <1>9, <1>10, SessionStepFrom

LEMMA SuppliesStep ==
  ASSUME SessionInv, NEW g \in 1..MaxGenerations, tasks[g].phase \in {"serving", "executed"},
         tasks[g].todo # {}, Supplies(g), CallServed(g) \in asked => CallServed(g) \in decided
  PROVE  SessionStep
<1>. DEFINE e == [type |-> "tool.result_supplied", at |-> Current(run), call |-> CallServed(g)]
<1>1. /\ tasks[g].phase \in Serving
      /\ tasks[g].phase # "executed" => tasks[g].phase \notin AtWork
  BY DEF Serving, AtWork
<1>2. CASE run.status # "awaiting_tool_results"
  <2>1. LoopRaises(g)
    BY <1>2 DEF Supplies
  <2>2. ~ hasty => g # generation /\ tasks[g].aborted
    BY <1>1, <1>2, LatestServes
  <2>. QED
    BY <1>1, <2>1, <2>2, LoopRaisesStep
<1>3. CASE run.status = "awaiting_tool_results" /\ Accepted(e)
  <2>1. [tasks EXCEPT ![g].phase = "serving", ![g].todo = @ \ {CallServed(g)}]
          = [tasks EXCEPT ![g] = Left(g, CallServed(g))]
    <3>1. tasks \in [1..MaxGenerations -> Tasks]
      BY InvParts DEF TasksTyped
    <3>. QED
      BY <3>1 DEF Left, Tasks
  <2>2. MaySupplyNow(CallServed(g)) /\ TakesResult(g, CallServed(g))
    BY <1>3, <2>1 DEF Supplies, MaySupplyNow, TakesResult, TaskBecomes
  <2>. QED
    BY <1>1, <1>3, <2>2, ResultTaken
<1>4. CASE run.status = "awaiting_tool_results" /\ ~ Accepted(e)
  <2>1. Refused(g)
    BY <1>4 DEF Supplies
  <2>2. ASSUME ~ hasty  PROVE Accepted(e)
    <3>1. ~ IsTerminal(run)
      BY <1>4 DEF IsTerminal, TerminalStatuses
    <3>2. /\ g = generation /\ InStep /\ Latest = tasks[g] /\ CallServed(g) = CallOf(tasks[g].todo)
          /\ CallServed(g) \in run.pending
          /\ \A x \in run.executions : x.call = CallServed(g) =>
               x.status = "failed" \/ tasks[g].phase \in AtWork
      BY <1>1, <2>2, <3>1, LatestServes
    <3>3. \A x \in run.executions : x.call = CallServed(g) => x.status # "executing"
      <4>1. CASE tasks[g].phase = "executed"
        BY <2>2, <3>2, <4>1, OrderlyParts DEF ExecutionFits
      <4>2. CASE tasks[g].phase # "executed"
        BY <1>1, <3>2, <4>2
      <4>. QED
        BY <4>1, <4>2
    <3>. QED
      BY <1>4, <3>2, <3>3, InvParts, MaySupply
  <2>. QED
    BY <1>1, <1>4, <2>1, <2>2, RefusedStep
<1>. QED
  BY <1>2, <1>3, <1>4

\* The call a task is executing, or has executed, has a begun execution.
LEMMA WorkIsDecided ==
  ASSUME SessionInv, NEW g \in 1..MaxGenerations, tasks[g].phase \in AtWork
  PROVE  /\ tasks[g].todo # {} /\ tasks[g].phase \in Serving
         /\ CallServed(g) \in asked => CallServed(g) \in decided
<1>1. /\ tasks[g].todo # {} /\ ExecutionsOf(CallOf(tasks[g].todo)) # {}
      /\ tasks[g].phase \in Serving /\ AskedFirst
  BY InvParts DEF Consent, WorkBegun, Serving
<1>2. CallServed(g) = CallOf(tasks[g].todo)
  BY ServedIsCallOf
<1>. QED
  BY <1>1, <1>2 DEF AskedFirst, CallIsServed

LEMMA SupplyExecutedStep ==
  ASSUME SessionInv, NEW g \in 1..MaxGenerations, SupplyExecuted(g)
  PROVE  SessionStep
<1>1. tasks[g].phase = "executed" /\ tasks[g].phase \in AtWork /\ Supplies(g)
  BY DEF SupplyExecuted, AtWork
<1>2. tasks[g].todo # {} /\ (CallServed(g) \in asked => CallServed(g) \in decided)
  BY <1>1, WorkIsDecided
<1>. QED
  BY <1>1, <1>2, SuppliesStep

LEMMA SupplyByHandStep ==
  ASSUME SessionInv, NEW g \in 1..MaxGenerations, SupplyByHand(g)
  PROVE  SessionStep
<1>1. Resolves(g) /\ CallServed(g) \in DOMAIN tasks[g].drafts /\ Supplies(g)
  BY DEF SupplyByHand
<1>2. /\ tasks[g].phase = "serving" /\ tasks[g].todo # {}
      /\ CallServed(g) \in asked => CallServed(g) \in decided
  BY <1>1, ResolvesFacts
<1>. QED
  BY <1>1, <1>2, SuppliesStep

\* A tool that returns closes the one execution of its call that is open.
LEMMA ToolSettles ==
  ASSUME SessionInv, NEW g \in 1..MaxGenerations, tasks[g].phase = "executing",
         run.status = "awaiting_tool_results", NEW c, c = CallServed(g),
         NEW succeeded \in BOOLEAN,
         SettleToolExecution(c, NextExecution(c) - 1, succeeded)
  PROVE  /\ RunMoves /\ ServedOf({}) /\ active' = active
         /\ run'.pending = run.pending /\ run'.status = run.status
         /\ live /\ shown = "this" /\ run # NewRun
         /\ ~ hasty =>
              /\ InStep' /\ g = generation /\ Latest = tasks[g] /\ c = CallOf(tasks[g].todo)
              /\ \A x \in run'.executions :
                   /\ x.call = c => x.status # "executing"
                   /\ x.call \in run.pending => x.status = "failed" \/ (succeeded /\ x.call = c)
<1>. DEFINE open == [call |-> c, number |-> Cardinality(ExecutionsOf(c)), status |-> "executing"]
            end  == IF succeeded THEN "completed" ELSE "failed"
            closed == [open EXCEPT !.status = end]
<1>1. tasks[g].phase \in AtWork /\ tasks[g].phase \in Serving /\ tasks[g].todo # {}
  <2>1. tasks[g].phase \in AtWork
    BY DEF AtWork
  <2>. QED
    BY <2>1, WorkIsDecided
<1>2. run # NewRun /\ ~ IsTerminal(run) /\ live /\ shown = "this"
  BY <1>1, LatestServes, OpenIsShown DEF IsTerminal, TerminalStatuses
<1>3. /\ RunMoves /\ active' = active
      /\ \/ ~ InStep' /\ run' = run
         \/ /\ InStep' /\ open \in run.executions /\ c \in run.pending
            /\ run'.status = run.status /\ run'.turns = run.turns
            /\ run'.pending = run.pending /\ run'.results = run.results
            /\ run'.executions = (run.executions \ {open}) \cup {closed}
      /\ InStep /\ open \in run.executions /\ c \in run.pending => InStep'
  BY InvParts, SessionSettles
<1>4. /\ open.call = c /\ open.status = "executing"
      /\ closed.call = c /\ closed.status = end
  OBVIOUS
<1>5. end # "executing" /\ (~ succeeded => end = "failed")
  OBVIOUS
<1>. HIDE DEF open, closed, end
<1>6. ServedOf({})
  <2>1. SUFFICES ASSUME NEW d
                 PROVE  /\ ExecutionsOf(d) # {} <=> ExecutionsOf(d)' # {}
                        /\ run'.results = run.results
    BY DEF ServedOf, CallIsServed
  <2>2. CASE run' = run
    BY <2>2 DEF ExecutionsOf
  <2>3. CASE run' # run
    BY <1>3, <1>4, <2>3 DEF ExecutionsOf
  <2>. QED
    BY <2>2, <2>3
<1>7. ASSUME ~ hasty
      PROVE  /\ InStep' /\ g = generation /\ Latest = tasks[g] /\ c = CallOf(tasks[g].todo)
             /\ \A x \in run'.executions :
                  /\ x.call = c => x.status # "executing"
                  /\ x.call \in run.pending => x.status = "failed" \/ (succeeded /\ x.call = c)
  <2>1. /\ g = generation /\ Latest = tasks[g] /\ InStep /\ c \in run.pending
        /\ c = CallOf(tasks[g].todo)
    BY <1>1, <1>2, <1>7, LatestServes
  <2>2. ExecutionFits /\ OthersUnserved /\ ServedOnce(run)
    BY <1>7, OrderlyParts, InvParts DEF RunInv
  <2>3. open \in run.executions
    BY <2>1, <2>2 DEF ExecutionFits, open
  <2>4. InStep' /\ run'.executions = (run.executions \ {open}) \cup {closed}
    BY <1>3, <2>1, <2>3
  <2>5. ASSUME NEW x \in run'.executions
        PROVE  /\ x.call = c => x.status # "executing"
               /\ x.call \in run.pending => x.status = "failed" \/ (succeeded /\ x.call = c)
    <3>1. CASE x = closed
      BY <1>4, <1>5, <3>1
    <3>2. CASE x # closed
      <4>1. x \in run.executions /\ x # open
        BY <2>4, <2>5, <3>2
      <4>2. x.call = c => x.status = "failed"
        BY <1>4, <2>2, <2>3, <4>1 DEF ServedOnce
      <4>3. x.call \in run.pending /\ x.call # c => x.status = "failed"
        BY <1>2, <2>1, <2>2, <4>1 DEF OthersUnserved
      <4>. QED
        BY <4>2, <4>3
    <3>. QED
      BY <3>1, <3>2
  <2>. QED
    BY <2>1, <2>4, <2>5
<1>. QED
  BY <1>2, <1>3, <1>6, <1>7

LEMMA ToolAnswers ==
  ASSUME SessionInv, NEW g \in 1..MaxGenerations, tasks[g].phase = "executing",
         run.status = "awaiting_tool_results", NEW c, c = CallServed(g),
         SettleToolExecution(c, NextExecution(c) - 1, TRUE), Shows, Goes(g, "executed"),
         UNCHANGED <<generation, abortRef, requestActive, drafts>>,
         UNCHANGED <<live, other, workspace, history>>
  PROVE  SessionStep
<1>1. /\ generation' = generation /\ drafts' = drafts
      /\ abortRef' = abortRef /\ requestActive' = requestActive
      /\ live' = live /\ workspace' = workspace /\ other' = other
      /\ asked' = asked /\ decided' = decided /\ stopped' = stopped /\ hasty' = hasty
  BY DEF history
<1>2. /\ RunMoves /\ ServedOf({}) /\ active' = active
      /\ run'.pending = run.pending /\ run'.status = run.status
      /\ live /\ shown = "this" /\ run # NewRun
      /\ ~ hasty =>
           /\ InStep' /\ g = generation /\ Latest = tasks[g] /\ c = CallOf(tasks[g].todo)
           /\ \A x \in run'.executions :
                /\ x.call = c => x.status # "executing"
                /\ x.call \in run.pending => x.status = "failed" \/ (TRUE /\ x.call = c)
  BY ToolSettles
<1>3. /\ TasksTyped' /\ tasks'[g].phase = "executed" /\ tasks'[g].todo = tasks[g].todo
      /\ tasks'[g].drafts = tasks[g].drafts /\ tasks'[g].automatic = tasks[g].automatic
      /\ Latest' = IF g = generation THEN tasks'[g] ELSE Latest
      /\ g = generation => Latest = tasks[g]
      /\ \A h \in 1..MaxGenerations : h # g => tasks'[h] = tasks[h]
  <2>1. "executed" \in Phases /\ tasks[g].phase # "done"
    BY DEF Phases
  <2>. QED
    BY <1>1, <2>1, GoesOn
<1>4. /\ tasks[g].phase \in AtWork /\ tasks'[g].phase \in AtWork
      /\ tasks[g].phase \in Serving /\ tasks'[g].phase \in Serving
  BY <1>3 DEF AtWork, Serving
<1>5. CommandsTyped' /\ drafts' \in DraftSets /\ asked' \subseteq CallIds
  BY <1>1, InvParts DEF CommandsTyped
<1>6. Consent'
  <2>1. ServingKept /\ WorkKept
    BY <1>3, <1>4 DEF ServingKept, WorkKept
  <2>2. WireKept
    BY <1>2, <1>3 DEF WireKept, OnTheWire
  <2>3. {} \cap asked \subseteq decided' /\ {} \cap run'.pending = {}
    OBVIOUS
  <2>4. AskedFirst' /\ DraftsAsk' /\ LatestAsks'
    BY <1>1, <1>2, <2>1, <2>3, AskedKept, DraftsAskKept, LatestAsksKept
  <2>5. NewCallsUnasked' /\ WorkBegun'
    BY <1>1, <1>2, <2>1, <2>2, <2>3, NewCallsKept, WorkBegunKept
  <2>. QED
    BY <2>4, <2>5 DEF Consent
<1>7. ViewTyped' /\ Gone' /\ Kept' /\ StaysGone
  <2>1. ViewKept
    BY <1>1, <1>2 DEF ViewKept
  <2>. QED
    BY <1>2, <2>1, ViewStep
<1>8. ASSUME ~ hasty  PROVE Orderly'
  <2>1. /\ g = generation /\ Latest = tasks[g] /\ Latest' = tasks'[g]
        /\ c = CallOf(tasks[g].todo) /\ InStep' /\ LatestFits
    BY <1>2, <1>3, <1>8, OrderlyParts
  <2>2. Flags' /\ StaleOver' /\ StopEnded'
    BY <1>1, <1>2, <1>3, <1>8, <2>1, FlagsSame, StaleSame, StopKept
  <2>3. LatestFits'
    BY <1>2, <1>3, <1>4, <2>1 DEF LatestFits
  <2>4. ExecutionFits'
    <3>1. \A x \in run'.executions : x.call = c => x.status # "executing"
      BY <1>2, <1>8
    <3>2. Latest'.phase = "executed" /\ CallOf(Latest.todo)' = c
      BY <1>3, <2>1 DEF CallOf
    <3>. QED
      BY <3>1, <3>2 DEF ExecutionFits
  <2>5. DraftsReady'
    BY <1>1, <1>2, <1>8, <2>1, DraftsReadyKept
  <2>6. OthersUnserved'
    <3>1. SUFFICES ASSUME NEW x \in run'.executions, x.call \in run.pending
                   PROVE  x.status = "failed" \/ x.call = CallOf(tasks[g].todo)
      BY <1>2, <1>3, <1>4, <2>1 DEF OthersUnserved, AtWork, CallOf
    <3>. QED
      BY <1>2, <1>8, <2>1, <3>1
  <2>. QED
    BY <2>1, <2>2, <2>3, <2>4, <2>5, <2>6, OrderlyFrom
<1>. QED
  BY <1>1, <1>2, <1>3, <1>5, <1>6, <1>7, <1>8, SessionStepFrom

\* The draft of a call whose tool failed, for a person to answer.
HandDraft(c) == [Draft("hand") EXCEPT !.edited = drafts[c].edited]

HandsOver(c) ==
  drafts' = IF c \in DOMAIN drafts THEN [drafts EXCEPT ![c] = HandDraft(c)] ELSE drafts

LEMMA HandedOver ==
  ASSUME SessionInv, NEW c, HandsOver(c), c \in asked => c \in decided,
         asked' = asked, decided' = decided
  PROVE  drafts' \in DraftSets /\ DOMAIN drafts' = DOMAIN drafts /\ DraftsAsk'
<1>1. CASE c \notin DOMAIN drafts
  <2>1. drafts' = drafts
    BY <1>1 DEF HandsOver
  <2>. QED
    BY <2>1, InvParts, DraftsAskKept
<1>2. CASE c \in DOMAIN drafts
  <2>1. drafts' = [drafts EXCEPT ![c] = HandDraft(c)]
    BY <1>2 DEF HandsOver
  <2>2. PICK domain \in SUBSET CallIds : drafts \in [domain -> Drafts]
    BY InvParts DEF DraftSets
  <2>3. drafts[c] \in Drafts
    BY <1>2, <2>2
  <2>4. HandDraft(c) \in Drafts
    BY <2>3 DEF HandDraft, Draft, Drafts
  <2>5. drafts' \in [domain -> Drafts]
    BY <2>1, <2>2, <2>4
  <2>6. drafts' \in DraftSets
    BY <2>5, DraftSetIs
  <2>7. DraftsAsk'
    BY <2>1, DraftAsks
  <2>. QED
    BY <2>1, <2>6, <2>7
<1>. QED
  BY <1>1, <1>2

LEMMA ToolFails ==
  ASSUME SessionInv, NEW g \in 1..MaxGenerations, tasks[g].phase = "executing",
         run.status = "awaiting_tool_results", NEW c, c = CallServed(g),
         SettleToolExecution(c, NextExecution(c) - 1, FALSE), Shows, HandsOver(c),
         LeavesLoop(g), UNCHANGED <<live, other, workspace, history>>
  PROVE  SessionStep
<1>1. /\ live' = live /\ workspace' = workspace /\ other' = other
      /\ asked' = asked /\ decided' = decided /\ stopped' = stopped /\ hasty' = hasty
  BY DEF history
<1>2. /\ RunMoves /\ ServedOf({}) /\ active' = active
      /\ run'.pending = run.pending /\ run'.status = run.status
      /\ live /\ shown = "this" /\ run # NewRun
      /\ ~ hasty =>
           /\ InStep' /\ g = generation /\ Latest = tasks[g] /\ c = CallOf(tasks[g].todo)
           /\ \A x \in run'.executions :
                /\ x.call = c => x.status # "executing"
                /\ x.call \in run.pending => x.status = "failed" \/ (FALSE /\ x.call = c)
  BY ToolSettles
<1>3. TaskOver(g) /\ CommandsTyped' /\ Ends(g) /\ generation' = generation
  BY <1>1, LeavesLoopIsOver, OverCommands DEF LeavesLoop
<1>4. /\ TasksTyped' /\ Latest' = IF g = generation THEN Idle ELSE Latest
      /\ ServingKept /\ WorkKept /\ WireKept
  BY <1>2, <1>3, TaskEnds
<1>5. drafts' \in DraftSets /\ DOMAIN drafts' = DOMAIN drafts /\ DraftsAsk'
  <2>1. c \in asked => c \in decided
    BY WorkIsDecided DEF AtWork
  <2>. QED
    BY <1>1, <2>1, HandedOver
<1>6. Consent'
  <2>1. {} \cap asked \subseteq decided' /\ {} \cap run'.pending = {}
    OBVIOUS
  <2>2. AskedFirst' /\ LatestAsks'
    BY <1>1, <1>2, <1>4, <2>1, AskedKept, LatestAsksKept
  <2>3. NewCallsUnasked' /\ WorkBegun'
    BY <1>1, <1>2, <1>4, <2>1, NewCallsKept, WorkBegunKept
  <2>. QED
    BY <1>5, <2>2, <2>3 DEF Consent
<1>7. ViewTyped' /\ Gone' /\ Kept' /\ StaysGone
  <2>1. ViewKept
    BY <1>1, <1>2 DEF ViewKept
  <2>. QED
    BY <1>2, <2>1, ViewStep
<1>8. ASSUME ~ hasty  PROVE Orderly'
  <2>1. /\ g = generation /\ Latest = tasks[g] /\ InStep'
        /\ \A x \in run'.executions : x.call \in run'.pending => x.status = "failed"
    BY <1>2, <1>8
  <2>2. requestActive' = FALSE
    BY <1>2, <2>1 DEF LeavesLoop
  <2>3. OthersUnserved'
    BY <2>1 DEF OthersUnserved
  <2>4. DraftsReady'
    BY <1>1, <1>2, <1>5, <1>8, <2>1, DraftsReadyKept
  <2>. QED
    BY <1>1, <1>2, <1>3, <1>8, <2>1, <2>2, <2>3, <2>4, LatestOrderly
<1>9. asked' \subseteq CallIds
  BY <1>1, InvParts
<1>. QED
  BY <1>1, <1>2, <1>3, <1>4, <1>5, <1>6, <1>7, <1>8, <1>9, SessionStepFrom

LEMMA ToolReturnsStep ==
  ASSUME SessionInv, NEW g \in 1..MaxGenerations, ToolReturns(g)
  PROVE  SessionStep
<1>1. tasks[g].phase = "executing" /\ tasks[g].phase \in AtWork
  BY DEF ToolReturns, AtWork
<1>2. tasks[g].phase \in Serving /\ tasks[g].todo # {}
  BY <1>1, WorkIsDecided
<1>3. CASE run.status # "awaiting_tool_results"
  <2>1. LoopRaises(g)
    BY <1>3 DEF ToolReturns
  <2>2. ~ hasty => g # generation /\ tasks[g].aborted
    BY <1>2, <1>3, LatestServes
  <2>. QED
    BY <1>2, <2>1, <2>2, LoopRaisesStep
<1>4. CASE run.status = "awaiting_tool_results" /\ ~ InStep
  <2>1. Refused(g) /\ hasty
    BY <1>4, OrderlyParts DEF ToolReturns
  <2>. QED
    BY <1>2, <2>1, RefusedStep
<1>5. CASE run.status = "awaiting_tool_results" /\ InStep
  <2>. DEFINE c == CallServed(g)
  <2>1. PICK succeeded \in BOOLEAN :
          /\ SettleToolExecution(c, NextExecution(c) - 1, succeeded)
          /\ Shows
          /\ IF succeeded
             THEN /\ Goes(g, "executed")
                  /\ UNCHANGED <<generation, abortRef, requestActive, drafts>>
             ELSE HandsOver(c) /\ LeavesLoop(g)
          /\ UNCHANGED <<live, other, workspace, history>>
    BY <1>5 DEF ToolReturns, HandsOver, HandDraft
  <2>2. c = CallServed(g)
    OBVIOUS
  <2>. HIDE DEF c
  <2>3. CASE succeeded
    <3>1. /\ SettleToolExecution(c, NextExecution(c) - 1, TRUE) /\ Shows /\ Goes(g, "executed")
          /\ UNCHANGED <<generation, abortRef, requestActive, drafts>>
          /\ UNCHANGED <<live, other, workspace, history>>
      <4>1. succeeded = TRUE
        BY <2>3
      <4>. QED
        BY <2>1, <4>1
    <3>. QED
      BY <1>1, <1>5, <2>2, <3>1, ToolAnswers
  <2>4. CASE ~ succeeded
    <3>1. /\ SettleToolExecution(c, NextExecution(c) - 1, FALSE) /\ Shows
          /\ HandsOver(c) /\ LeavesLoop(g)
          /\ UNCHANGED <<live, other, workspace, history>>
      <4>1. succeeded = FALSE
        BY <2>4
      <4>. QED
        BY <2>1, <4>1
    <3>. QED
      BY <1>1, <1>5, <2>2, <3>1, ToolFails
  <2>. QED
    BY <2>3, <2>4
<1>. QED
  BY <1>3, <1>4, <1>5

-----------------------------------------------------------------------------

LEMMA SessionStutters ==
  ASSUME SessionInv, UNCHANGED sessionVars
  PROVE  SessionStep
<1>1. /\ UNCHANGED coordinatorVars /\ tasks' = tasks /\ drafts' = drafts
      /\ generation' = generation /\ abortRef' = abortRef /\ requestActive' = requestActive
      /\ live' = live /\ shown' = shown /\ workspace' = workspace /\ other' = other
      /\ save' = save /\ storage' = storage
      /\ asked' = asked /\ decided' = decided /\ stopped' = stopped /\ hasty' = hasty
  BY DEF sessionVars, commands, view, history
<1>2. /\ RunMoves /\ Quiet /\ run' = run /\ TasksTyped' /\ Latest' = Latest
      /\ ServingKept /\ WireKept /\ WorkKept
      /\ (/\ ~ hasty /\ Flags' /\ stopped' = stopped /\ live' = live
          /\ DOMAIN drafts' = DOMAIN drafts)
           => Orderly'
  BY <1>1, TasksUnmoved
<1>3. CommandsTyped' /\ ViewTyped' /\ asked' \subseteq CallIds /\ drafts' \in DraftSets
  BY <1>1, InvParts DEF CommandsTyped, ViewTyped
<1>4. Consent'
  BY <1>1, <1>2, ConsentKept
<1>5. Gone' /\ Kept'
  <2>1. Gone /\ Kept
    BY InvParts
  <2>2. Gone'
    BY <1>1, <1>2, <2>1 DEF Gone, coordinatorVars
  <2>3. Kept'
    BY <1>1, <1>2, <2>1 DEF Kept
  <2>. QED
    BY <2>2, <2>3
<1>6. ~ hasty => Orderly'
  BY <1>1, <1>2, FlagsSame
<1>. QED
  BY <1>1, <1>2, <1>3, <1>4, <1>5, <1>6, SessionStepFrom DEF StaysGone

LEMMA SessionBegins ==
  ASSUME SessionInit
  PROVE  SessionInv
<1>1. /\ run = NewRun /\ sequence = 0 /\ active = None /\ tasks = [g \in 1..MaxGenerations |-> Idle]
      /\ generation = 0 /\ abortRef = 0 /\ requestActive = FALSE
      /\ drafts = <<>> /\ live = FALSE /\ shown = "none" /\ other = 0
      /\ workspace \in BOOLEAN /\ save = "none" /\ storage = "none"
      /\ decided = {} /\ asked = {} /\ stopped = FALSE /\ hasty = FALSE /\ CoordinatorInv
  BY InitInv DEF SessionInit, Init, NewRun
<1>2. SessionRun(run) /\ InStep /\ ~ IsTerminal(run) /\ run.pending = {} /\ run.executions = {}
  BY <1>1 DEF SessionRun, WaitsOnlyForCalls, ExecutedCallsSettled, AnswersFit, NumbersFit,
              InStep, IsTerminal, TerminalStatuses, NewRun
<1>3. Latest = Idle /\ Idle \in Tasks /\ Idle.phase = "done"
  BY <1>1, IdleTask DEF Latest
<1>4. SessionTypes
  <2>1. TasksTyped
    BY <1>1, <1>3 DEF TasksTyped
  <2>2. CommandsTyped
    <3>1. 0 \in 0..0 /\ 0 \in 0..MaxGenerations
      BY SessionAssumption
    <3>2. generation = 0 /\ abortRef = 0 /\ other = 0 /\ requestActive \in BOOLEAN
      BY <1>1
    <3>. QED
      BY <3>1, <3>2 DEF CommandsTyped
  <2>3. ViewTyped
    BY <1>1 DEF ViewTyped
  <2>. QED
    BY <1>1, <2>1, <2>2, <2>3, NoDrafts DEF SessionTypes
<1>5. Consent
  <2>1. AskedFirst /\ DraftsAsk /\ LatestAsks
    BY <1>1, <1>3 DEF AskedFirst, DraftsAsk, LatestAsks
  <2>2. NewCallsUnasked
    BY <1>2 DEF NewCallsUnasked
  <2>3. WorkBegun
    BY <1>1, <1>3 DEF WorkBegun, AtWork
  <2>. QED
    BY <2>1, <2>2, <2>3 DEF Consent
<1>6. Gone /\ Kept
  BY <1>1, <1>2, <1>3 DEF Gone, Kept
<1>7. Orderly
  <2>1. Flags /\ StaleOver /\ StopEnded
    BY <1>1, <1>3 DEF Flags, StaleOver, StopEnded
  <2>2. LatestFits /\ ExecutionFits
    BY <1>3 DEF LatestFits, ExecutionFits, Serving, AtWork
  <2>3. DraftsReady /\ OthersUnserved
    BY <1>1 DEF DraftsReady, OthersUnserved
  <2>. QED
    BY <1>2, <2>1, <2>2, <2>3 DEF Orderly
<1>. QED
  BY <1>1, <1>2, <1>4, <1>5, <1>6, <1>7 DEF SessionInv

LEMMA TaskStepsKeep ==
  ASSUME SessionInv, NEW g \in 1..MaxGenerations, TaskSteps(g)
  PROVE  SessionStep
BY TurnEmitsStep, TurnFailsStep, TurnEndsStep, TurnBreaksStep, ToolReturnsStep, SkipsStep,
   LoopSupersededStep, BeginExecutionStep, SupplyExecutedStep, SupplyByHandStep, NoDraftStep,
   LoopEndsStep
   DEF TaskSteps

LEMMA CommandsKeep ==
  ASSUME SessionInv, Commands
  PROVE  SessionStep
<1>1. CASE Reset
  <2>1. StopAndShow("none", "none")
    BY <1>1 DEF Reset
  <2>. QED
    BY <2>1, StopAndShowStep
<1>2. CASE AdoptOther
  <2>1. StopAndShow("other", "other")
    BY <1>2 DEF AdoptOther
  <2>. QED
    BY <2>1, StopAndShowStep
<1>3. CASE AdoptThis
  <2>1. StopAndShow("this", "saved") /\ save = "saved"
    BY <1>3 DEF AdoptThis
  <2>. QED
    BY <2>1, StopAndShowStep
<1>4. CASE \E call \in DOMAIN drafts : Approve(call) \/ Reject(call) \/ Type(call)
  BY <1>4, DraftSteps
<1>. QED
  BY <1>1, <1>2, <1>3, <1>4, SessionStartStep, StartOtherStep, SessionRetryStep,
     SessionContinueStep, StopStep
     DEF Commands

LEMMA SessionKeeps ==
  ASSUME SessionInv, [SessionNext]_sessionVars
  PROVE  SessionStep
BY CommandsKeep, AutoContinueStep, OtherEndsStep, TaskStepsKeep, SaveEndsStep, SessionStutters
   DEF SessionNext

-----------------------------------------------------------------------------
(* What follows *)

LEMMA SessionIsTyped ==
  ASSUME SessionInv
  PROVE  SessionTypeOK
<1>1. /\ CoordinatorInv /\ TasksTyped /\ CommandsTyped /\ ViewTyped
      /\ drafts \in DraftSets
  BY InvParts
<1>2. TypeOK
  BY <1>1 DEF CoordinatorInv, RunInv, TypeOK
<1>3. ASSUME NEW g \in 1..MaxGenerations
      PROVE  /\ tasks[g].phase \in Phases
             /\ tasks[g].aborted \in BOOLEAN /\ tasks[g].automatic \in BOOLEAN
             /\ tasks[g].todo \subseteq CallIds
  <2>1. tasks[g] \in Tasks
    BY <1>1 DEF TasksTyped
  <2>. QED
    BY <2>1, TaskTypes
<1>4. DOMAIN drafts \subseteq CallIds /\ \A call \in DOMAIN drafts : drafts[call] \in Drafts
  BY <1>1, DraftTypes
<1>. QED
  BY <1>1, <1>2, <1>3, <1>4 DEF SessionTypeOK, CommandsTyped, ViewTyped, Phases

LEMMA SessionIsReal ==
  ASSUME SessionInv
  PROVE  ExecutingIsReal
<1>1. SUFFICES ASSUME ~ hasty
               PROVE  /\ requestActive = ((other # 0 /\ other = generation)
                                           \/ (generation # 0 /\ InFlight(generation)))
                      /\ \A g \in 1..generation :
                           tasks[g].phase \in {"turn", "serving", "executing", "executed"} =>
                             g = abortRef \/ tasks[g].aborted
                               \/ (tasks[g].phase = "turn" /\ g # generation)
  BY DEF ExecutingIsReal
<1>2. /\ requestActive = ((other # 0 /\ other = generation) \/ Latest.phase # "done")
      /\ Latest.phase # "done" => abortRef = generation
      /\ StaleOver /\ generation \in 0..MaxGenerations
  BY <1>1, OrderlyParts, InvParts DEF Flags, CommandsTyped
<1>3. (Latest.phase # "done") = (generation # 0 /\ InFlight(generation))
  BY IdleTask DEF Latest, InFlight
<1>4. ASSUME NEW g \in 1..generation,
             tasks[g].phase \in {"turn", "serving", "executing", "executed"}
      PROVE  g = abortRef \/ tasks[g].aborted
  <2>1. g \in 1..MaxGenerations /\ generation # 0
    BY <1>2, SessionAssumption
  <2>2. CASE g = generation
    BY <1>2, <1>4, <2>1, <2>2 DEF Latest
  <2>3. CASE g # generation
    BY <1>2, <1>4, <2>1, <2>3 DEF StaleOver
  <2>. QED
    BY <2>2, <2>3
<1>. QED
  BY <1>2, <1>3, <1>4

LEMMA SessionReachesDisk ==
  ASSUME SessionInv
  PROVE  EndedRunsReachDisk
BY InvParts DEF Kept, EndedRunsReachDisk

LEMMA SessionAsks ==
  ASSUME SessionInv
  PROVE  NeverCutOff /\ AskedBeforeServed
<1>1. NeverCutOff
  BY OrderlyParts DEF NeverCutOff, StopEnded
<1>2. AskedBeforeServed
  BY InvParts DEF Consent, AskedFirst, CallIsServed, AskedBeforeServed
<1>. QED
  BY <1>1, <1>2

-----------------------------------------------------------------------------
(* The state of a decision session *)

DriveTasks == [run : DecisionRuns, generation : 1..MaxDrives,
               aborted : BOOLEAN, driving : BOOLEAN]

\* A drive that can still report.
Reports(task) == task.driving /\ task.generation = drive

DriveFits(i) ==
  /\ decisionTasks[i].generation <= drive
  /\ decisionTasks[i].generation = drive => decisionOther # drive /\ ~ decisionTasks[i].aborted
  /\ decisionTasks[i].driving /\ decisionTasks[i].generation # drive => decisionTasks[i].aborted
  /\ Reports(decisionTasks[i]) =>
       /\ i = Len(decisionTasks) /\ decisionTasks[i].run = decisionRun
       /\ decisionShown = "this" /\ decisionRun.status = "running"

DrivesTyped ==
  /\ decisionTasks \in Seq(DriveTasks)
  /\ drive \in 0..MaxDrives /\ decisionOther \in 0..drive /\ executing \in BOOLEAN

SomeReports == \E i \in 1..Len(decisionTasks) : Reports(decisionTasks[i])

DrivesFit ==
  /\ DrivesTyped
  /\ \A i \in 1..Len(decisionTasks) : DriveFits(i)
  /\ executing = ((decisionOther # 0 /\ decisionOther = drive) \/ SomeReports)

DecisionHeld ==
  /\ decisionRun = NewDecisionRun \/ RunOK(decisionRun, time)
  /\ decisionRun = NewDecisionRun =>
       decisionTasks = <<>> /\ decisionShown # "this" /\ decisionSave = "none" /\ due = 0
  /\ decisionShown \in {"none", "this", "other"}

DecisionKept ==
  /\ decisionWorkspace \in BOOLEAN /\ persisted \in BOOLEAN
  /\ decisionSave \in {"none", "saving", "saved", "failed"}
  /\ decisionStorage \in {"none", "unsaved", "saving", "saved", "error", "other"}
  /\ persisted <=> decisionSave \in {"saving", "saved"}
  /\ decisionSave # "none" <=> IsTerminalDecision(decisionRun) /\ decisionWorkspace
  /\ decisionShown = "this" =>
       /\ decisionStorage = "saved" => decisionSave = "saved"
       /\ decisionStorage = "error" => decisionSave = "failed"
       /\ IsTerminalDecision(decisionRun) =>
            decisionStorage \in {"unsaved", "saving", "saved", "error"}
  /\ decisionShown # "this" => decisionStorage \in {"none", "other"}

DecisionWaits ==
  /\ time \in 0..MaxTime /\ due \in Nat /\ retryAt \in Nat \cup {Unset}
  /\ decisionRun.status \in {"not_started", "running"} => due <= time
  /\ decisionShown = "this" /\ decisionRun.status = "paused" =>
       \/ retryAt = Unset /\ due <= time
       \/ retryAt = due

DecisionInv == DrivesFit /\ DecisionHeld /\ DecisionKept /\ DecisionWaits

LEMMA DecisionParts ==
  ASSUME DecisionInv
  PROVE  /\ DrivesTyped /\ DrivesFit /\ DecisionHeld /\ DecisionKept /\ DecisionWaits
         /\ time \in Nat /\ MaxTime \in Nat /\ MaxDrives \in Nat /\ drive \in Nat
BY SessionsAssumption DEF DecisionInv, DrivesFit, DrivesTyped, DecisionWaits

\* What the session's run is moved by is DecisionRun.
LEMMA SameOperators ==
  ASSUME NEW r, NEW at, NEW e
  PROVE  /\ Decision!Begun(r, at) = Begun(r, at)
         /\ Decision!Applied(r, e, at) = Applied(r, e, at)
         /\ Decision!FinishedStream(r, at) = FinishedStream(r, at)
         /\ Decision!FailedAttempt(r, e, at) = FailedAttempt(r, e, at)
         /\ Decision!Stopped(r, at) = Stopped(r, at)
<1>. USE DEF Decision!Begun, Begun, Decision!NewDecisionAttempt, NewDecisionAttempt,
         Decision!FailedAttempt, FailedAttempt, Decision!WithLast, WithLast, Decision!Last, Last,
         Decision!Ended, Ended, Decision!CancelledAttempt, CancelledAttempt,
         Decision!CompletedAttempt, CompletedAttempt, Decision!ProtocolError, ProtocolError
<1>1. Decision!Begun(r, at) = Begun(r, at)
  OBVIOUS
<1>2. Decision!Applied(r, e, at) = Applied(r, e, at)
  BY DEF Decision!Applied, Applied
<1>3. Decision!FinishedStream(r, at) = FinishedStream(r, at)
  BY DEF Decision!FinishedStream, FinishedStream
<1>4. Decision!FailedAttempt(r, e, at) = FailedAttempt(r, e, at)
  OBVIOUS
<1>5. Decision!Stopped(r, at) = Stopped(r, at)
  BY DEF Decision!Stopped, Stopped
<1>. QED
  BY <1>1, <1>2, <1>3, <1>4, <1>5

LEMMA SameTests ==
  ASSUME NEW r
  PROVE  /\ Decision!IsTerminalDecision(r) = IsTerminalDecision(r)
         /\ Decision!Saveable(r) = Saveable(r)
         /\ Decision!NewDecisionRun = NewDecisionRun
         /\ Decision!HostEvents = HostEvents /\ Decision!ThrownErrors = ThrownErrors
<1>1. Decision!IsTerminalDecision(r) = IsTerminalDecision(r)
  BY DEF Decision!IsTerminalDecision, IsTerminalDecision, Decision!TerminalDecisions,
         TerminalDecisions
<1>2. Decision!AttemptsSaveable(r) = AttemptsSaveable(r)
  BY DEF Decision!AttemptsSaveable, AttemptsSaveable
<1>3. Decision!StatusSaveable(r) = StatusSaveable(r)
  BY DEF Decision!StatusSaveable, StatusSaveable, Decision!Last, Last
<1>4. Decision!Saveable(r) = Saveable(r)
  BY <1>1, <1>2, <1>3 DEF Decision!Saveable, Saveable
<1>5. Decision!NewDecisionRun = NewDecisionRun
  BY DEF Decision!NewDecisionRun, NewDecisionRun
<1>6. Decision!HostEvents = HostEvents /\ Decision!ThrownErrors = ThrownErrors
  BY DEF Decision!HostEvents, HostEvents, Decision!ThrownErrors, ThrownErrors,
         Decision!Errors, Errors
<1>. QED
  BY <1>1, <1>4, <1>5, <1>6

\* The statuses of a run that has begun.
LEMMA BegunStatus ==
  ASSUME NEW at, NEW r, RunOK(r, at)
  PROVE  /\ r.status \in {"running", "paused"} \/ IsTerminalDecision(r)
         /\ r # NewDecisionRun /\ r.status # "not_started"
         /\ IsTerminalDecision(r) => Saveable(r) /\ r.status \notin {"running", "paused"}
<1>1. r.status \in DecisionStatuses /\ r.status # "not_started"
  BY DEF RunOK, DecisionRuns
<1>2. NewDecisionRun.status = "not_started"
  BY DEF NewDecisionRun
<1>. QED
  BY <1>1, <1>2, EndedIsSaveable DEF DecisionStatuses, IsTerminalDecision, TerminalDecisions

-----------------------------------------------------------------------------
(* The run is replaced *)

LEMMA ReplacementWaits ==
  ASSUME DecisionInv, NEW next, RunOK(next, time), Decision!SetsWait(next),
         decisionRun' = next, decisionShown' = "this", time' = time,
         next.status = "running" => due <= time,
         next.status = "paused" => decisionRun.status = "running"
  PROVE  DecisionWaits'
<1>1. /\ time \in 0..MaxTime /\ due \in Nat /\ time \in Nat /\ Waits \subseteq Nat
      /\ decisionRun.status = "running" => due <= time
      /\ next.status # "not_started"
  BY DecisionParts, BegunStatus, SessionsAssumption DEF DecisionWaits
<1>2. CASE next.status # "paused"
  <2>1. retryAt' = Unset /\ due' = due
    BY <1>2 DEF Decision!SetsWait
  <2>. QED
    BY <1>1, <1>2, <2>1 DEF DecisionWaits
<1>3. CASE next.status = "paused"
  <2>1. decisionRun.status # "paused" /\ due <= time
    BY <1>1, <1>3
  <2>2. \/ \E wait \in Waits : retryAt' = time + wait /\ due' = time + wait
        \/ retryAt' = Unset /\ due' = due
    BY <1>3, <2>1 DEF Decision!SetsWait
  <2>3. /\ due' \in Nat /\ retryAt' \in Nat \cup {Unset}
        /\ (retryAt' = Unset /\ due' <= time) \/ retryAt' = due'
    BY <1>1, <2>1, <2>2
  <2>. QED
    BY <1>1, <1>3, <2>3 DEF DecisionWaits
<1>. QED
  BY <1>2, <1>3

LEMMA ReplacementKept ==
  ASSUME DecisionInv, NEW next, RunOK(next, time), Decision!AutosavesThis(next),
         decisionRun' = next, decisionShown' = "this", decisionWorkspace' = decisionWorkspace,
         ~ IsTerminalDecision(decisionRun)
  PROVE  DecisionKept'
<1>1. /\ DecisionKept /\ decisionSave = "none" /\ persisted = FALSE
      /\ decisionStorage \notin {"saved", "error"}
  BY DecisionParts DEF DecisionKept
<1>2. CASE ~ IsTerminalDecision(next)
  <2>1. UNCHANGED <<persisted, decisionSave, decisionStorage>>
    BY <1>2, SameTests DEF Decision!AutosavesThis
  <2>. QED
    BY <1>1, <1>2, <2>1 DEF DecisionKept
<1>3. CASE IsTerminalDecision(next) /\ ~ decisionWorkspace
  <2>1. decisionStorage' = "unsaved" /\ persisted' = persisted /\ decisionSave' = decisionSave
    BY <1>3, SameTests DEF Decision!AutosavesThis, Decision!saving
  <2>. QED
    BY <1>1, <1>3, <2>1 DEF DecisionKept
<1>4. CASE IsTerminalDecision(next) /\ decisionWorkspace
  <2>1. persisted' = TRUE /\ decisionSave' = "saving" /\ decisionStorage' = "saving"
    BY <1>1, <1>4, SameTests, BegunStatus DEF Decision!AutosavesThis
  <2>. QED
    BY <1>1, <1>4, <2>1 DEF DecisionKept
<1>. QED
  BY <1>2, <1>3, <1>4

LEMMA ThisReplaced ==
  ASSUME DecisionInv, NEW next, RunOK(next, time), Decision!ReplaceWithThis(next),
         decisionWorkspace' = decisionWorkspace, time' = time,
         ~ IsTerminalDecision(decisionRun),
         next.status = "running" => due <= time,
         next.status = "paused" => decisionRun.status = "running"
  PROVE  /\ DecisionHeld' /\ DecisionKept' /\ DecisionWaits'
         /\ decisionRun' = next /\ decisionShown' = "this"
<1>1. /\ decisionRun' = next /\ decisionShown' = "this"
      /\ Decision!SetsWait(next) /\ Decision!AutosavesThis(next)
  BY DEF Decision!ReplaceWithThis
<1>2. DecisionHeld'
  BY <1>1, BegunStatus DEF DecisionHeld
<1>. QED
  BY <1>1, <1>2, ReplacementWaits, ReplacementKept

-----------------------------------------------------------------------------
(* The drives *)

LEMMA DriveTypes ==
  ASSUME DecisionInv
  PROVE  /\ Len(decisionTasks) \in Nat /\ DOMAIN decisionTasks = 1..Len(decisionTasks)
         /\ \A i \in 1..Len(decisionTasks) :
              decisionTasks[i] \in DriveTasks /\ DriveFits(i)
BY DecisionParts DEF DrivesFit, DrivesTyped

LEMMA SupersededDrives ==
  ASSUME DecisionInv
  PROVE  /\ Decision!Superseded \in Seq(DriveTasks)
         /\ Len(Decision!Superseded) = Len(decisionTasks)
         /\ \A i \in 1..Len(decisionTasks) :
              /\ Decision!Superseded[i].generation = decisionTasks[i].generation
              /\ Decision!Superseded[i].driving => Decision!Superseded[i].aborted
<1>1. /\ Len(decisionTasks) \in Nat /\ DOMAIN decisionTasks = 1..Len(decisionTasks)
      /\ \A i \in 1..Len(decisionTasks) : decisionTasks[i] \in DriveTasks /\ DriveFits(i)
  BY DriveTypes
<1>. DEFINE over(i) == [decisionTasks[i] EXCEPT !.aborted = @ \/ Decision!InFlight(decisionTasks[i])]
<1>2. ASSUME NEW i \in 1..Len(decisionTasks)
      PROVE  /\ over(i) \in DriveTasks /\ over(i).generation = decisionTasks[i].generation
             /\ over(i).driving => over(i).aborted
  <2>1. /\ decisionTasks[i] \in DriveTasks
        /\ decisionTasks[i].driving /\ decisionTasks[i].generation # drive => decisionTasks[i].aborted
    BY <1>1 DEF DriveFits
  <2>2. /\ Decision!InFlight(decisionTasks[i]) \in BOOLEAN
        /\ decisionTasks[i].driving =>
             decisionTasks[i].aborted \/ Decision!InFlight(decisionTasks[i])
    BY <2>1 DEF Decision!InFlight
  <2>. QED
    BY <2>1, <2>2 DEF DriveTasks
<1>3. Decision!Superseded = [i \in 1..Len(decisionTasks) |-> over(i)]
  BY <1>1 DEF Decision!Superseded
<1>. HIDE DEF over
<1>. QED
  BY <1>1, <1>2, <1>3

\* Nothing that was begun before can report any more.
LEMMA DrivesGivenUp ==
  ASSUME DecisionInv, drive < MaxDrives, drive' = drive + 1,
         decisionTasks' = Decision!Superseded,
         decisionOther' \in {0, drive + 1}, executing' \in BOOLEAN,
         executing' <=> decisionOther' # 0
  PROVE  DrivesFit'
<1>1. drive \in Nat /\ drive' \in 1..MaxDrives /\ decisionOther' \in 0..drive'
  BY DecisionParts
<1>2. /\ decisionTasks' \in Seq(DriveTasks) /\ Len(decisionTasks') = Len(decisionTasks)
      /\ \A i \in 1..Len(decisionTasks) :
           /\ decisionTasks'[i].generation = decisionTasks[i].generation
           /\ decisionTasks'[i].driving => decisionTasks'[i].aborted
  BY SupersededDrives
<1>3. ASSUME NEW i \in 1..Len(decisionTasks)
      PROVE  /\ decisionTasks'[i].generation <= drive' /\ decisionTasks'[i].generation # drive'
             /\ decisionTasks'[i].driving => decisionTasks'[i].aborted
  <2>1. decisionTasks[i].generation \in 1..MaxDrives /\ decisionTasks[i].generation <= drive
    BY DriveTypes DEF DriveFits, DriveTasks
  <2>. QED
    BY <1>1, <1>2, <2>1
<1>4. \A i \in 1..Len(decisionTasks') : DriveFits(i)'
  BY <1>2, <1>3 DEF DriveFits, Reports
<1>5. ~ SomeReports'
  BY <1>2, <1>3 DEF SomeReports, Reports
<1>6. (decisionOther' # 0 /\ decisionOther' = drive') <=> decisionOther' # 0
  BY <1>1
<1>7. executing' = ((decisionOther' # 0 /\ decisionOther' = drive') \/ SomeReports')
  BY <1>5, <1>6
<1>8. drive' \in 0..MaxDrives
  BY <1>1
<1>9. DrivesTyped'
  BY <1>1, <1>2, <1>8 DEF DrivesTyped
<1>. QED
  BY <1>4, <1>7, <1>9 DEF DrivesFit

LEMMA DriveBegun ==
  ASSUME DecisionInv, drive < MaxDrives, drive' = drive + 1, NEW started,
         RunOK(started, time), started.status = "running",
         decisionTasks' = Append(Decision!Superseded, Decision!Task(started)),
         decisionOther' = 0, executing' = TRUE, decisionRun' = started, decisionShown' = "this"
  PROVE  DrivesFit'
<1>0. PICK n \in Nat : n = Len(decisionTasks)
  BY DriveTypes
<1>1. drive \in Nat /\ drive' \in 1..MaxDrives /\ decisionOther' \in 0..drive'
  BY DecisionParts
<1>2. /\ Decision!Task(started) \in DriveTasks /\ Decision!Task(started).run = started
      /\ Decision!Task(started).generation = drive' /\ ~ Decision!Task(started).aborted
      /\ Decision!Task(started).driving
  BY <1>1 DEF Decision!Task, DriveTasks, RunOK
<1>3. /\ decisionTasks' \in Seq(DriveTasks) /\ Len(decisionTasks') = n + 1
      /\ decisionTasks'[n + 1] = Decision!Task(started)
      /\ \A i \in 1..n : decisionTasks'[i] = Decision!Superseded[i]
  BY <1>0, <1>2, SupersededDrives
<1>4. ASSUME NEW i \in 1..n
      PROVE  /\ decisionTasks'[i].generation <= drive' /\ decisionTasks'[i].generation # drive'
             /\ decisionTasks'[i].driving => decisionTasks'[i].aborted
  <2>1. decisionTasks[i].generation \in 1..MaxDrives /\ decisionTasks[i].generation <= drive
    BY <1>0, DriveTypes DEF DriveFits, DriveTasks
  <2>2. /\ Decision!Superseded[i].generation = decisionTasks[i].generation
        /\ Decision!Superseded[i].driving => Decision!Superseded[i].aborted
    BY <1>0, SupersededDrives
  <2>. QED
    BY <1>1, <1>3, <2>1, <2>2
<1>5. \A i \in 1..n : DriveFits(i)'
  BY <1>4 DEF DriveFits, Reports
<1>6. DriveFits(n + 1)'
  <2>1. /\ decisionTasks'[n + 1].generation = drive' /\ ~ decisionTasks'[n + 1].aborted
        /\ decisionTasks'[n + 1].run = decisionRun' /\ decisionRun'.status = "running"
    BY <1>2, <1>3
  <2>2. decisionOther' # drive' /\ drive' <= drive'
    BY <1>1
  <2>. QED
    BY <1>3, <2>1, <2>2 DEF DriveFits, Reports
<1>7. \A i \in 1..Len(decisionTasks') : DriveFits(i)'
  <2>1. \A i \in 1..Len(decisionTasks') : i \in 1..n \/ i = n + 1
    BY <1>3
  <2>. QED
    BY <1>5, <1>6, <2>1
<1>8. SomeReports'
  <2>1. n + 1 \in 1..Len(decisionTasks')
    BY <1>3
  <2>2. decisionTasks'[n + 1].generation = drive' /\ decisionTasks'[n + 1].driving
    BY <1>2, <1>3
  <2>. QED
    BY <2>1, <2>2 DEF SomeReports, Reports
<1>9. drive' \in 0..MaxDrives
  BY <1>1
<1>10. DrivesTyped'
  BY <1>1, <1>3, <1>9 DEF DrivesTyped
<1>11. executing' = ((decisionOther' # 0 /\ decisionOther' = drive') \/ SomeReports')
  BY <1>8
<1>. QED
  BY <1>7, <1>10, <1>11 DEF DrivesFit

\* One drive goes on, or ends.
LEMMA OneDriveMoves ==
  ASSUME DecisionInv, NEW i \in 1..Len(decisionTasks), NEW t \in DriveTasks,
         t.generation = decisionTasks[i].generation, t.aborted = decisionTasks[i].aborted,
         t.driving => decisionTasks[i].driving,
         decisionTasks' = [decisionTasks EXCEPT ![i] = t],
         drive' = drive, decisionOther' = decisionOther,
         Reports(t) => /\ t.run = decisionRun' /\ decisionShown' = "this"
                       /\ decisionRun'.status = "running",
         Reports(decisionTasks[i])
           \/ (decisionRun' = decisionRun /\ decisionShown' = decisionShown),
         executing' = IF Reports(decisionTasks[i]) /\ ~ Reports(t) THEN FALSE ELSE executing
  PROVE  DrivesFit'
<1>1. /\ decisionTasks \in Seq(DriveTasks) /\ Len(decisionTasks) \in Nat
      /\ DOMAIN decisionTasks = 1..Len(decisionTasks)
      /\ drive \in 0..MaxDrives /\ decisionOther \in 0..drive /\ executing \in BOOLEAN
      /\ executing = ((decisionOther # 0 /\ decisionOther = drive) \/ SomeReports)
      /\ \A j \in 1..Len(decisionTasks) : DriveFits(j)
  BY DecisionParts, DriveTypes DEF DrivesFit, DrivesTyped
<1>2. /\ decisionTasks' \in Seq(DriveTasks) /\ Len(decisionTasks') = Len(decisionTasks)
      /\ decisionTasks'[i] = t
      /\ \A j \in 1..Len(decisionTasks) : j # i => decisionTasks'[j] = decisionTasks[j]
  BY <1>1
<1>3. DrivesTyped'
  <2>1. executing' \in BOOLEAN
    BY <1>1
  <2>. QED
    BY <1>1, <1>2, <2>1 DEF DrivesTyped
<1>4. Reports(t) => Reports(decisionTasks[i])
  BY DEF Reports
<1>5. DriveFits(i)'
  <2>1. /\ t.generation <= drive
        /\ t.generation = drive => decisionOther # drive /\ ~ t.aborted
        /\ t.driving /\ t.generation # drive => t.aborted
        /\ Reports(t) => i = Len(decisionTasks)
    BY <1>1, <1>4 DEF DriveFits
  <2>. QED
    BY <1>2, <2>1 DEF DriveFits, Reports
<1>6. ASSUME NEW j \in 1..Len(decisionTasks), j # i
      PROVE  DriveFits(j)' /\ (Reports(decisionTasks[i]) => ~ Reports(decisionTasks[j]))
  <2>1. /\ decisionTasks'[j] = decisionTasks[j] /\ DriveFits(j) /\ DriveFits(i)
    BY <1>1, <1>2, <1>6
  <2>2. Reports(decisionTasks[i]) => ~ Reports(decisionTasks[j])
    BY <1>6, <2>1 DEF DriveFits
  <2>3. CASE Reports(decisionTasks[i])
    BY <1>2, <2>1, <2>2, <2>3 DEF DriveFits, Reports
  <2>4. CASE ~ Reports(decisionTasks[i])
    BY <1>2, <2>1, <2>4 DEF DriveFits, Reports
  <2>. QED
    BY <2>2, <2>3, <2>4
<1>7. \A j \in 1..Len(decisionTasks') : DriveFits(j)'
  BY <1>2, <1>5, <1>6
<1>8. SomeReports' <=> (Reports(t) \/ \E j \in 1..Len(decisionTasks) : j # i /\ Reports(decisionTasks[j]))
  BY <1>2 DEF SomeReports, Reports
<1>9. executing' = ((decisionOther' # 0 /\ decisionOther' = drive') \/ SomeReports')
  <2>1. CASE Reports(decisionTasks[i])
    <3>1. ~ (\E j \in 1..Len(decisionTasks) : j # i /\ Reports(decisionTasks[j]))
      BY <1>6, <2>1
    <3>2. executing = TRUE /\ decisionOther # drive
      <4>1. SomeReports
        BY <2>1 DEF SomeReports
      <4>2. decisionTasks[i].generation = drive /\ DriveFits(i)
        BY <1>1, <2>1 DEF Reports
      <4>3. decisionOther # drive
        BY <4>2 DEF DriveFits
      <4>. QED
        BY <1>1, <4>1, <4>3
    <3>3. SomeReports' <=> Reports(t)
      BY <1>8, <3>1
    <3>. QED
      BY <2>1, <3>2, <3>3
  <2>2. CASE ~ Reports(decisionTasks[i])
    <3>1. ~ Reports(t) /\ executing' = executing
      BY <1>4, <2>2
    <3>2. SomeReports' <=> SomeReports
      BY <1>8, <2>2, <3>1 DEF SomeReports
    <3>. QED
      BY <1>1, <3>1, <3>2
  <2>. QED
    BY <2>1, <2>2
<1>. QED
  BY <1>3, <1>7, <1>9 DEF DrivesFit

\* A report that comes too late changes nothing of the run.
LEMMA StaleReport ==
  ASSUME DecisionInv, NEW next, NEW i \in DOMAIN decisionTasks, Decision!TaskReports(i, next),
         ~ Reports(decisionTasks[i])
  PROVE  /\ DrivesFit' /\ decisionRun' = decisionRun /\ decisionShown' = decisionShown
         /\ UNCHANGED <<retryAt, persisted, decisionSave, decisionStorage, due,
                        decisionWorkspace, time>>
<1>. DEFINE t == [decisionTasks[i] EXCEPT !.driving = FALSE]
<1>1. /\ i \in 1..Len(decisionTasks) /\ decisionTasks[i] \in DriveTasks /\ decisionTasks[i].driving
      /\ decisionTasks[i].generation # drive
  BY DriveTypes DEF Decision!TaskReports, Reports
<1>2. /\ decisionTasks' = [decisionTasks EXCEPT ![i] = t] /\ executing' = executing
      /\ UNCHANGED <<decisionRun, decisionShown, retryAt, persisted, decisionSave,
                     decisionStorage, due>>
      /\ UNCHANGED <<drive, decisionOther, decisionWorkspace, time>>
  BY <1>1 DEF Decision!TaskReports, Decision!Finishes
<1>3. /\ t \in DriveTasks /\ t.generation = decisionTasks[i].generation
      /\ t.aborted = decisionTasks[i].aborted /\ ~ t.driving
  BY <1>1 DEF DriveTasks
<1>. HIDE DEF t
<1>4. ~ Reports(t)
  BY <1>3 DEF Reports
<1>5. DrivesFit'
  BY <1>1, <1>2, <1>3, <1>4, OneDriveMoves
<1>. QED
  BY <1>2, <1>5

LEMMA LiveReport ==
  ASSUME DecisionInv, NEW next, RunOK(next, time), NEW i \in DOMAIN decisionTasks,
         Decision!TaskReports(i, next), Reports(decisionTasks[i])
  PROVE  /\ DrivesFit' /\ Decision!ReplaceWithThis(next)
         /\ UNCHANGED <<decisionWorkspace, time>>
<1>. DEFINE t == [[decisionTasks[i] EXCEPT !.run = next]
                    EXCEPT !.driving = (next.status = "running")]
<1>1. /\ i \in 1..Len(decisionTasks) /\ decisionTasks[i] \in DriveTasks /\ DriveFits(i)
      /\ decisionTasks[i].driving /\ decisionTasks[i].generation = drive
      /\ ~ decisionTasks[i].aborted /\ next \in DecisionRuns
  BY DriveTypes DEF Reports, DriveFits, RunOK
<1>2. /\ Decision!ReplaceWithThis(next) /\ decisionRun' = next /\ decisionShown' = "this"
      /\ UNCHANGED <<drive, decisionOther, decisionWorkspace, time>>
      /\ IF next.status # "running"
         THEN Decision!Finishes(i, [decisionTasks[i] EXCEPT !.run = next])
         ELSE /\ decisionTasks' = [decisionTasks EXCEPT ![i] = [decisionTasks[i] EXCEPT !.run = next]]
              /\ executing' = executing
  BY <1>1 DEF Decision!TaskReports, Decision!ReplaceWithThis
<1>3. /\ t \in DriveTasks /\ t.generation = decisionTasks[i].generation
      /\ t.aborted = decisionTasks[i].aborted /\ t.run = next
      /\ t.driving = (next.status = "running")
  BY <1>1 DEF DriveTasks
<1>4. /\ decisionTasks' = [decisionTasks EXCEPT ![i] = t]
      /\ executing' = IF next.status = "running" THEN executing ELSE FALSE
  <2>1. CASE next.status = "running"
    <3>1. [decisionTasks[i] EXCEPT !.run = next] = t
      BY <1>1, <2>1 DEF DriveTasks
    <3>. QED
      BY <1>2, <2>1, <3>1
  <2>2. CASE next.status # "running"
    <3>1. [[decisionTasks[i] EXCEPT !.run = next] EXCEPT !.driving = FALSE] = t
      BY <1>1, <2>2 DEF DriveTasks
    <3>. QED
      BY <1>1, <1>2, <2>2, <3>1 DEF Decision!Finishes, DriveTasks
  <2>. QED
    BY <2>1, <2>2
<1>. HIDE DEF t
<1>5. Reports(t) <=> next.status = "running"
  BY <1>1, <1>3 DEF Reports
<1>6. DrivesFit'
  BY <1>1, <1>2, <1>3, <1>4, <1>5, OneDriveMoves
<1>. QED
  BY <1>2, <1>6

-----------------------------------------------------------------------------
(* What a step may do with the run *)

DecisionMoves ==
  /\ IsTerminalDecision(decisionRun) => decisionRun' = decisionRun
  /\ Len(decisionRun'.attempts) > Len(decisionRun.attempts) => time >= due

DecisionStep == DecisionInv' /\ DecisionMoves

LEMMA HeldRun ==
  ASSUME DecisionInv
  PROVE  /\ Len(decisionRun.attempts) \in Nat /\ decisionRun \in DecisionRuns
         /\ decisionRun # NewDecisionRun => RunOK(decisionRun, time) /\ decisionRun.attempts # <<>>
         /\ decisionShown = "this" => decisionRun # NewDecisionRun
<1>1. DecisionHeld
  BY DecisionParts
<1>2. CASE decisionRun = NewDecisionRun
  BY <1>1, <1>2, UnsetAssumption DEF DecisionHeld, NewDecisionRun, DecisionRuns, DecisionStatuses
<1>3. CASE decisionRun # NewDecisionRun
  BY <1>1, <1>3 DEF DecisionHeld, RunOK, DecisionRuns, AttemptsOK
<1>. QED
  BY <1>1, <1>2, <1>3 DEF DecisionHeld

LEMMA RunStays ==
  ASSUME DecisionInv, decisionRun' = decisionRun
  PROVE  DecisionMoves
BY HeldRun DEF DecisionMoves

LEMMA RunGoesOn ==
  ASSUME DecisionInv, ~ IsTerminalDecision(decisionRun), NEW next, decisionRun' = next,
         SameAttempts(decisionRun, next)
  PROVE  DecisionMoves
BY HeldRun DEF DecisionMoves, SameAttempts

\* A run that is not replaced, in a session that shows another or none.
LEMMA PutAway ==
  ASSUME DecisionInv, DrivesFit', decisionRun' = decisionRun, decisionShown' \in {"none", "other"},
         decisionRun = NewDecisionRun => decisionTasks' = <<>>,
         decisionStorage' \in {"none", "other"}, retryAt' = Unset,
         UNCHANGED <<due, time, decisionWorkspace, persisted, decisionSave>>
  PROVE  DecisionStep
<1>1. DecisionHeld /\ DecisionKept /\ DecisionWaits
  BY DecisionParts
<1>2. DecisionHeld'
  BY <1>1 DEF DecisionHeld
<1>3. DecisionKept'
  BY <1>1 DEF DecisionKept
<1>4. DecisionWaits'
  BY <1>1 DEF DecisionWaits
<1>. QED
  BY <1>2, <1>3, <1>4, RunStays DEF DecisionStep, DecisionInv

LEMMA NoDrives ==
  ASSUME DecisionInv, decisionRun = NewDecisionRun
  PROVE  Decision!Superseded = <<>>
<1>1. decisionTasks = <<>>
  BY DecisionParts DEF DecisionHeld
<1>. QED
  BY <1>1, SupersededDrives

-----------------------------------------------------------------------------
(* The commands *)

LEMMA DriveThisStep ==
  ASSUME DecisionInv, Decision!DriveThis(Begun(decisionRun, time)),
         \/ decisionRun = NewDecisionRun
         \/ decisionRun # NewDecisionRun /\ decisionRun.status = "paused",
         due <= time
  PROVE  DecisionStep
<1>1. PICK started : started = Begun(decisionRun, time)
  OBVIOUS
<1>2. /\ RunOK(started, time) /\ started.status = "running" /\ time \in Nat
      /\ ~ IsTerminalDecision(decisionRun)
  BY <1>1, DecisionParts, HeldRun, BegunOK
     DEF IsTerminalDecision, TerminalDecisions, NewDecisionRun
<1>3. /\ drive < MaxDrives /\ drive' = drive + 1
      /\ decisionTasks' = Append(Decision!Superseded, Decision!Task(started))
      /\ decisionOther' = 0 /\ executing' = TRUE
      /\ Decision!ReplaceWithThis(started)
      /\ decisionWorkspace' = decisionWorkspace /\ time' = time
  BY <1>1 DEF Decision!DriveThis
<1>4. /\ DecisionHeld' /\ DecisionKept' /\ DecisionWaits'
      /\ decisionRun' = started /\ decisionShown' = "this"
  BY <1>2, <1>3, ThisReplaced
<1>5. DrivesFit'
  BY <1>2, <1>3, <1>4, DriveBegun
<1>6. DecisionMoves
  BY <1>2, DecisionParts DEF DecisionMoves, DecisionWaits
<1>. QED
  BY <1>4, <1>5, <1>6 DEF DecisionStep, DecisionInv

LEMMA DecisionStartStep ==
  ASSUME DecisionInv, Decision!Start
  PROVE  DecisionStep
<1>1. decisionRun = NewDecisionRun /\ Decision!DriveThis(Begun(decisionRun, time))
  BY SameTests, SameOperators DEF Decision!Start
<1>2. due <= time
  BY <1>1, DecisionParts DEF DecisionHeld
<1>. QED
  BY <1>1, <1>2, DriveThisStep

LEMMA DecisionRetryStep ==
  ASSUME DecisionInv, Decision!Retry
  PROVE  DecisionStep
<1>1. /\ decisionShown = "this" /\ decisionRun.status = "paused"
      /\ retryAt # Unset => time >= retryAt
      /\ Decision!DriveThis(Begun(decisionRun, time))
  BY SameOperators DEF Decision!Retry
<1>2. decisionRun # NewDecisionRun
  BY <1>1, HeldRun
<1>3. due <= time
  BY <1>1, DecisionParts, UnsetAssumption DEF DecisionWaits
<1>. QED
  BY <1>1, <1>2, <1>3, DriveThisStep

LEMMA DecisionStartOtherStep ==
  ASSUME DecisionInv, Decision!StartOther
  PROVE  DecisionStep
<1>1. /\ decisionRun # NewDecisionRun /\ drive < MaxDrives /\ drive' = drive + 1
      /\ decisionTasks' = Decision!Superseded
      /\ decisionOther' = drive + 1 /\ executing' = TRUE
  BY SameTests DEF Decision!StartOther
<1>2. /\ decisionRun' = decisionRun /\ decisionShown' = "other" /\ decisionStorage' = "other"
      /\ retryAt' = Unset /\ UNCHANGED <<due, time, decisionWorkspace, persisted, decisionSave>>
  BY DEF Decision!StartOther, Decision!ReplaceWith, Decision!saving
<1>3. decisionOther' \in {0, drive + 1} /\ executing' \in BOOLEAN
      /\ (executing' <=> decisionOther' # 0)
  BY <1>1, DecisionParts
<1>4. DrivesFit'
  BY <1>1, <1>3, DrivesGivenUp
<1>. QED
  BY <1>1, <1>2, <1>4, PutAway

LEMMA Invalidated ==
  ASSUME DecisionInv, Decision!Invalidates
  PROVE  DrivesFit' /\ decisionTasks' = Decision!Superseded
<1>1. /\ drive < MaxDrives /\ drive' = drive + 1 /\ decisionTasks' = Decision!Superseded
      /\ decisionOther' = 0 /\ executing' = FALSE
  BY DEF Decision!Invalidates
<1>2. decisionOther' \in {0, drive + 1} /\ executing' \in BOOLEAN
      /\ (executing' <=> decisionOther' # 0)
  BY <1>1
<1>. QED
  BY <1>1, <1>2, DrivesGivenUp

LEMMA StoppedHeld ==
  ASSUME DecisionInv, decisionShown = "this", decisionRun.status \in {"running", "paused"}
  PROVE  /\ RunOK(Stopped(decisionRun, time), time)
         /\ IsTerminalDecision(Stopped(decisionRun, time))
         /\ SameAttempts(decisionRun, Stopped(decisionRun, time))
         /\ ~ IsTerminalDecision(decisionRun)
<1>1. RunOK(decisionRun, time) /\ decisionRun.attempts # <<>> /\ decisionRun \in DecisionRuns
      /\ time \in Nat
  BY HeldRun, DecisionParts
<1>. QED
  BY <1>1, StoppedOK, StoppedSame DEF IsTerminalDecision, TerminalDecisions

LEMMA DecisionStopStep ==
  ASSUME DecisionInv, Decision!Stop
  PROVE  DecisionStep
<1>1. DrivesFit' /\ decisionTasks' = Decision!Superseded
      /\ decisionWorkspace' = decisionWorkspace /\ time' = time
  BY Invalidated DEF Decision!Stop
<1>2. CASE decisionShown = "this" /\ decisionRun.status \in {"running", "paused"}
  <2>1. PICK next : next = Stopped(decisionRun, time)
    OBVIOUS
  <2>2. /\ RunOK(next, time) /\ IsTerminalDecision(next) /\ SameAttempts(decisionRun, next)
        /\ ~ IsTerminalDecision(decisionRun)
    BY <1>2, <2>1, StoppedHeld
  <2>3. Decision!ReplaceWithThis(next)
    BY <1>2, <2>1, SameOperators DEF Decision!Stop
  <2>4. (next.status = "running" => due <= time)
        /\ (next.status = "paused" => decisionRun.status = "running")
    BY <2>2, BegunStatus
  <2>5. DecisionHeld' /\ DecisionKept' /\ DecisionWaits' /\ decisionRun' = next
    BY <1>1, <2>2, <2>3, <2>4, ThisReplaced
  <2>6. DecisionMoves
    BY <2>2, <2>5, RunGoesOn
  <2>. QED
    BY <1>1, <2>5, <2>6 DEF DecisionStep, DecisionInv
<1>3. CASE ~ (decisionShown = "this" /\ decisionRun.status \in {"running", "paused"})
  <2>1. UNCHANGED <<decisionRun, decisionShown, retryAt, persisted, decisionSave,
                    decisionStorage, due>>
    BY <1>3 DEF Decision!Stop
  <2>2. DecisionHeld' /\ DecisionKept' /\ DecisionWaits'
    <3>1. DecisionHeld /\ DecisionKept /\ DecisionWaits
      BY DecisionParts
    <3>2. DecisionHeld'
      BY <1>1, <2>1, <3>1, NoDrives DEF DecisionHeld
    <3>3. DecisionKept'
      BY <1>1, <2>1, <3>1 DEF DecisionKept
    <3>4. DecisionWaits'
      BY <1>1, <2>1, <3>1 DEF DecisionWaits
    <3>. QED
      BY <3>2, <3>3, <3>4
  <2>. QED
    BY <1>1, <2>1, <2>2, RunStays DEF DecisionStep, DecisionInv
<1>. QED
  BY <1>2, <1>3

LEMMA DecisionStopAndShowStep ==
  ASSUME DecisionInv, NEW whose \in {"none", "other"}, Decision!StopAndShow(whose)
  PROVE  DecisionStep
<1>1. /\ DrivesFit' /\ decisionTasks' = Decision!Superseded
      /\ decisionShown' = whose /\ retryAt' = Unset /\ decisionStorage' \in {"none", "other"}
      /\ UNCHANGED <<decisionWorkspace, time, due>>
  BY Invalidated DEF Decision!StopAndShow
<1>2. CASE decisionShown = "this" /\ decisionRun.status \in {"running", "paused"}
  <2>1. PICK ended : ended = Stopped(decisionRun, time)
    OBVIOUS
  <2>2. /\ RunOK(ended, time) /\ IsTerminalDecision(ended) /\ SameAttempts(decisionRun, ended)
        /\ ~ IsTerminalDecision(decisionRun) /\ Saveable(ended) /\ ended # NewDecisionRun
    BY <1>2, <2>1, StoppedHeld, BegunStatus
  <2>3. /\ decisionRun' = ended
        /\ IF decisionWorkspace /\ ~ persisted /\ Saveable(ended)
           THEN persisted' = TRUE /\ decisionSave' = "saving"
           ELSE persisted' = persisted /\ decisionSave' = decisionSave
    BY <1>2, <2>1, SameOperators, SameTests DEF Decision!StopAndShow, Decision!saving
  <2>4. DecisionHeld'
    BY <1>1, <2>2, <2>3 DEF DecisionHeld
  <2>5. DecisionKept'
    <3>1. DecisionKept /\ decisionSave = "none" /\ persisted = FALSE
      BY <2>2, DecisionParts DEF DecisionKept
    <3>2. CASE decisionWorkspace
      <4>1. persisted' = TRUE /\ decisionSave' = "saving"
        BY <2>2, <2>3, <3>1, <3>2
      <4>. QED
        BY <1>1, <2>2, <2>3, <3>1, <3>2, <4>1 DEF DecisionKept
    <3>3. CASE ~ decisionWorkspace
      <4>1. persisted' = FALSE /\ decisionSave' = "none"
        BY <2>3, <3>1, <3>3
      <4>. QED
        BY <1>1, <2>2, <2>3, <3>1, <3>3, <4>1 DEF DecisionKept
    <3>. QED
      BY <3>2, <3>3
  <2>6. DecisionWaits'
    <3>1. ended.status \notin {"not_started", "running", "paused"}
      BY <2>2, BegunStatus
    <3>. QED
      BY <1>1, <2>3, <3>1, DecisionParts DEF DecisionWaits
  <2>7. DecisionMoves
    BY <2>2, <2>3, RunGoesOn
  <2>. QED
    BY <1>1, <2>4, <2>5, <2>6, <2>7 DEF DecisionStep, DecisionInv
<1>3. CASE ~ (decisionShown = "this" /\ decisionRun.status \in {"running", "paused"})
  <2>1. UNCHANGED <<decisionRun, persisted, decisionSave>>
    BY <1>3 DEF Decision!StopAndShow
  <2>2. decisionRun = NewDecisionRun => decisionTasks' = <<>>
    BY <1>1, NoDrives
  <2>. QED
    BY <1>1, <2>1, <2>2, PutAway
<1>. QED
  BY <1>2, <1>3

LEMMA DecisionAdoptThisStep ==
  ASSUME DecisionInv, Decision!AdoptThis
  PROVE  DecisionStep
<1>1. /\ DrivesFit' /\ decisionSave = "saved" /\ decisionShown' = "this"
      /\ decisionRun' = decisionRun /\ retryAt' = Unset
      /\ persisted' = TRUE /\ decisionStorage' = "saved"
      /\ UNCHANGED <<decisionWorkspace, decisionSave, time, due>>
  BY Invalidated DEF Decision!AdoptThis
<1>2. /\ IsTerminalDecision(decisionRun) /\ decisionWorkspace
      /\ DecisionHeld /\ DecisionKept /\ DecisionWaits
  BY <1>1, DecisionParts DEF DecisionKept
<1>3. decisionRun # NewDecisionRun
  BY <1>2 DEF NewDecisionRun, IsTerminalDecision, TerminalDecisions
<1>4. decisionRun.status \notin {"not_started", "running", "paused"}
  BY <1>2 DEF IsTerminalDecision, TerminalDecisions
<1>5. DecisionHeld'
  BY <1>1, <1>2, <1>3 DEF DecisionHeld
<1>6. DecisionKept'
  BY <1>1, <1>2 DEF DecisionKept
<1>7. DecisionWaits'
  BY <1>1, <1>2, <1>4 DEF DecisionWaits
<1>. QED
  BY <1>1, <1>5, <1>6, <1>7, RunStays DEF DecisionStep, DecisionInv

-----------------------------------------------------------------------------
(* What is in flight *)

\* Nothing but the drives changes.
LEMMA OnlyDrivesMove ==
  ASSUME DecisionInv, DrivesFit', decisionRun # NewDecisionRun,
         UNCHANGED <<decisionRun, decisionShown, retryAt, persisted, decisionSave,
                     decisionStorage, due, decisionWorkspace, time>>
  PROVE  DecisionStep
<1>1. DecisionHeld /\ DecisionKept /\ DecisionWaits
  BY DecisionParts
<1>2. DecisionHeld'
  BY <1>1 DEF DecisionHeld
<1>3. DecisionKept'
  BY <1>1 DEF DecisionKept
<1>4. DecisionWaits'
  BY <1>1 DEF DecisionWaits
<1>. QED
  BY <1>2, <1>3, <1>4, RunStays DEF DecisionStep, DecisionInv

\* A drive that can report drives the run that the session shows.
LEMMA LiveDrive ==
  ASSUME DecisionInv, NEW i \in DOMAIN decisionTasks
  PROVE  /\ decisionRun # NewDecisionRun
         /\ Reports(decisionTasks[i]) =>
              /\ decisionTasks[i].run = decisionRun /\ decisionRun.status = "running"
              /\ RunOK(decisionRun, time) /\ decisionRun \in DecisionRuns
              /\ decisionRun.attempts # <<>> /\ time \in Nat /\ due <= time
              /\ ~ IsTerminalDecision(decisionRun)
<1>1. decisionTasks # <<>> /\ DriveFits(i)
  BY DriveTypes
<1>2. decisionRun # NewDecisionRun
  BY <1>1, DecisionParts DEF DecisionHeld
<1>3. ASSUME Reports(decisionTasks[i])
      PROVE  decisionTasks[i].run = decisionRun /\ decisionRun.status = "running"
  BY <1>1, <1>3 DEF DriveFits
<1>4. ASSUME decisionRun.status = "running"
      PROVE  due <= time /\ ~ IsTerminalDecision(decisionRun)
  BY <1>4, DecisionParts DEF DecisionWaits, IsTerminalDecision, TerminalDecisions
<1>. QED
  BY <1>2, <1>3, <1>4, HeldRun, DecisionParts

LEMMA DecisionReportStep ==
  ASSUME DecisionInv, NEW next, NEW i \in DOMAIN decisionTasks, Decision!TaskReports(i, next),
         Reports(decisionTasks[i]) => RunOK(next, time) /\ SameAttempts(decisionRun, next)
  PROVE  DecisionStep
<1>1. CASE ~ Reports(decisionTasks[i])
  <2>1. /\ DrivesFit' /\ decisionRun # NewDecisionRun
        /\ UNCHANGED <<decisionRun, decisionShown, retryAt, persisted, decisionSave,
                       decisionStorage, due, decisionWorkspace, time>>
    BY <1>1, StaleReport, LiveDrive
  <2>. QED
    BY <2>1, OnlyDrivesMove
<1>2. CASE Reports(decisionTasks[i])
  <2>1. /\ RunOK(next, time) /\ SameAttempts(decisionRun, next)
        /\ ~ IsTerminalDecision(decisionRun)
        /\ next.status = "running" => due <= time
        /\ next.status = "paused" => decisionRun.status = "running"
    BY <1>2, LiveDrive
  <2>2. DrivesFit' /\ Decision!ReplaceWithThis(next)
        /\ decisionWorkspace' = decisionWorkspace /\ time' = time
    BY <1>2, <2>1, LiveReport
  <2>3. DecisionHeld' /\ DecisionKept' /\ DecisionWaits' /\ decisionRun' = next
    BY <2>1, <2>2, ThisReplaced
  <2>4. DecisionMoves
    BY <2>1, <2>3, RunGoesOn
  <2>. QED
    BY <2>2, <2>3, <2>4 DEF DecisionStep, DecisionInv
<1>. QED
  BY <1>1, <1>2

LEMMA HostSendsStep ==
  ASSUME DecisionInv, Decision!HostSends
  PROVE  DecisionStep
<1>1. PICK i \in DOMAIN decisionTasks, e \in HostEvents :
        Decision!TaskReports(i, Applied(decisionTasks[i].run, e, time))
  BY SameOperators, SameTests DEF Decision!HostSends
<1>2. PICK next : next = Applied(decisionTasks[i].run, e, time)
  OBVIOUS
<1>3. ASSUME Reports(decisionTasks[i])
      PROVE  RunOK(next, time) /\ SameAttempts(decisionRun, next)
  BY <1>2, <1>3, LiveDrive, AppliedOK, AppliedSame
<1>. QED
  BY <1>1, <1>2, <1>3, DecisionReportStep

LEMMA StreamEndsStep ==
  ASSUME DecisionInv, Decision!StreamEnds
  PROVE  DecisionStep
<1>1. PICK i \in DOMAIN decisionTasks :
        Decision!TaskReports(i, FinishedStream(decisionTasks[i].run, time))
  BY SameOperators DEF Decision!StreamEnds
<1>2. PICK next : next = FinishedStream(decisionTasks[i].run, time)
  OBVIOUS
<1>3. ASSUME Reports(decisionTasks[i])
      PROVE  RunOK(next, time) /\ SameAttempts(decisionRun, next)
  <2>1. next = FailedAttempt(decisionRun, ProtocolError, time)
    BY <1>2, <1>3, LiveDrive DEF FinishedStream
  <2>2. ProtocolError \in Errors
    BY DEF ProtocolError, Errors
  <2>. QED
    BY <1>3, <2>1, <2>2, LiveDrive, FailedOK, FailedSame
<1>. QED
  BY <1>1, <1>2, <1>3, DecisionReportStep

LEMMA HostBreaksStep ==
  ASSUME DecisionInv, Decision!HostBreaks
  PROVE  DecisionStep
<1>1. PICK i \in DOMAIN decisionTasks, error \in ThrownErrors :
        Decision!TaskReports(i, FailedAttempt(decisionTasks[i].run, error, time))
  BY SameOperators, SameTests DEF Decision!HostBreaks
<1>2. PICK next : next = FailedAttempt(decisionTasks[i].run, error, time)
  OBVIOUS
<1>3. ASSUME Reports(decisionTasks[i])
      PROVE  RunOK(next, time) /\ SameAttempts(decisionRun, next)
  <2>1. error \in Errors
    BY DEF ThrownErrors, Errors
  <2>. QED
    BY <1>2, <1>3, <2>1, LiveDrive, FailedOK, FailedSame
<1>. QED
  BY <1>1, <1>2, <1>3, DecisionReportStep

LEMMA DecisionOtherEndsStep ==
  ASSUME DecisionInv, Decision!OtherEnds
  PROVE  DecisionStep
<1>1. /\ decisionOther # 0 /\ decisionOther' = 0
      /\ executing' = IF decisionOther = drive THEN FALSE ELSE executing
      /\ UNCHANGED <<decisionRun, decisionShown, retryAt, persisted, decisionSave,
                     decisionStorage, due, decisionWorkspace, time, drive, decisionTasks>>
  BY DEF Decision!OtherEnds
<1>2. /\ DecisionHeld /\ DecisionKept /\ DecisionWaits /\ DrivesTyped /\ drive \in Nat
      /\ \A i \in 1..Len(decisionTasks) : DriveFits(i)
      /\ executing = ((decisionOther # 0 /\ decisionOther = drive) \/ SomeReports)
  BY DecisionParts DEF DrivesFit
<1>3. DrivesTyped'
  <2>1. executing' \in BOOLEAN
    BY <1>1, <1>2 DEF DrivesTyped
  <2>2. decisionOther' \in 0..drive'
    BY <1>1, <1>2
  <2>. QED
    BY <1>1, <1>2, <2>1, <2>2 DEF DrivesTyped
<1>4. SomeReports' <=> SomeReports
  BY <1>1 DEF SomeReports, Reports
<1>5. ASSUME NEW i \in 1..Len(decisionTasks)
      PROVE  DriveFits(i)'
  <2>1. DriveFits(i) /\ decisionTasks[i].generation \in 1..MaxDrives
    BY DriveTypes DEF DriveTasks
  <2>2. decisionTasks[i].generation = drive => drive # 0
    BY <2>1, DecisionParts
  <2>. QED
    BY <1>1, <2>1, <2>2 DEF DriveFits, Reports
<1>6. executing' = SomeReports'
  <2>1. CASE decisionOther = drive
    <3>1. ASSUME NEW i \in 1..Len(decisionTasks)
          PROVE  ~ Reports(decisionTasks[i])
      BY <1>2, <2>1 DEF DriveFits, Reports
    <3>. QED
      BY <1>1, <1>4, <2>1, <3>1 DEF SomeReports
  <2>2. CASE decisionOther # drive
    <3>0. ((decisionOther # 0 /\ decisionOther = drive) \/ SomeReports) = SomeReports
      BY <2>2 DEF SomeReports
    <3>1. executing' = executing /\ executing = SomeReports
      BY <1>1, <1>2, <2>2, <3>0, Zenon
    <3>2. SomeReports' = SomeReports
      BY <1>4 DEF SomeReports
    <3>. QED
      BY <3>1, <3>2
  <2>. QED
    BY <2>1, <2>2
<1>7. DrivesFit'
  <2>1. \A i \in 1..Len(decisionTasks') : DriveFits(i)'
    BY <1>1, <1>5
  <2>2. ~ (decisionOther' # 0 /\ decisionOther' = drive')
    BY <1>1
  <2>3. ((decisionOther' # 0 /\ decisionOther' = drive') \/ SomeReports') = SomeReports'
    BY <2>2 DEF SomeReports
  <2>4. executing' = ((decisionOther' # 0 /\ decisionOther' = drive') \/ SomeReports')
    BY <1>6, <2>3, Zenon
  <2>. QED
    BY <1>3, <2>1, <2>4 DEF DrivesFit
<1>8. DecisionHeld'
  BY <1>1, <1>2 DEF DecisionHeld
<1>9. DecisionKept'
  BY <1>1, <1>2 DEF DecisionKept
<1>10. DecisionWaits'
  BY <1>1, <1>2 DEF DecisionWaits
<1>. QED
  BY <1>1, <1>7, <1>8, <1>9, <1>10, RunStays DEF DecisionStep, DecisionInv

\* The drives stay as they are when they are not touched.
LEMMA DrivesStay ==
  ASSUME DecisionInv,
         UNCHANGED <<decisionRun, decisionShown, drive, decisionTasks, decisionOther, executing>>
  PROVE  DrivesFit'
<1>1. DrivesFit
  BY DecisionParts
<1>2. DrivesTyped' /\ (SomeReports' <=> SomeReports)
  BY <1>1 DEF DrivesFit, DrivesTyped, SomeReports, Reports
<1>3. \A i \in 1..Len(decisionTasks') : DriveFits(i)'
  BY <1>1 DEF DrivesFit, DriveFits, Reports
<1>. QED
  BY <1>1, <1>2, <1>3 DEF DrivesFit

LEMMA DecisionTickStep ==
  ASSUME DecisionInv, Decision!Tick
  PROVE  DecisionStep
<1>1. /\ time < MaxTime /\ time' = time + 1
      /\ UNCHANGED <<decisionRun, decisionShown, drive, decisionTasks, decisionOther, executing>>
      /\ UNCHANGED <<retryAt, decisionWorkspace, persisted, decisionSave, decisionStorage, due>>
  BY DEF Decision!Tick
<1>2. /\ DecisionHeld /\ DecisionKept /\ DecisionWaits /\ time \in Nat /\ MaxTime \in Nat
      /\ time' \in 0..MaxTime /\ time <= time'
  BY <1>1, DecisionParts
<1>3. DrivesFit'
  BY <1>1, DrivesStay
<1>4. DecisionHeld'
  <2>1. decisionRun # NewDecisionRun => RunOK(decisionRun, time')
    BY <1>1, <1>2, LaterOK DEF DecisionHeld
  <2>. QED
    BY <1>1, <1>2, <2>1 DEF DecisionHeld
<1>5. DecisionKept'
  BY <1>1, <1>2 DEF DecisionKept
<1>6. DecisionWaits'
  <2>1. due \in Nat /\ (due <= time => due <= time')
    BY <1>2 DEF DecisionWaits
  <2>. QED
    BY <1>1, <1>2, <2>1 DEF DecisionWaits
<1>. QED
  BY <1>1, <1>3, <1>4, <1>5, <1>6, RunStays DEF DecisionStep, DecisionInv

LEMMA DecisionWaitOverStep ==
  ASSUME DecisionInv, Decision!WaitOver
  PROVE  DecisionStep
<1>1. /\ retryAt # Unset /\ time >= retryAt /\ retryAt' = Unset
      /\ UNCHANGED <<decisionRun, decisionShown, drive, decisionTasks, decisionOther, executing>>
      /\ UNCHANGED <<time, decisionWorkspace, persisted, decisionSave, decisionStorage, due>>
  BY DEF Decision!WaitOver
<1>2. DecisionHeld /\ DecisionKept /\ DecisionWaits
  BY DecisionParts
<1>3. DrivesFit'
  BY <1>1, DrivesStay
<1>4. DecisionHeld'
  BY <1>1, <1>2 DEF DecisionHeld
<1>5. DecisionKept'
  BY <1>1, <1>2 DEF DecisionKept
<1>6. DecisionWaits'
  <2>1. decisionShown = "this" /\ decisionRun.status = "paused" => due <= time
    BY <1>1, <1>2 DEF DecisionWaits
  <2>. QED
    BY <1>1, <1>2, <2>1 DEF DecisionWaits
<1>. QED
  BY <1>1, <1>3, <1>4, <1>5, <1>6, RunStays DEF DecisionStep, DecisionInv

LEMMA DecisionSaveEndsStep ==
  ASSUME DecisionInv, NEW outcome \in {"saved", "error"}, Decision!SaveEnds(outcome)
  PROVE  DecisionStep
<1>1. /\ decisionSave = "saving"
      /\ decisionSave' = IF outcome = "saved" THEN "saved" ELSE "failed"
      /\ persisted' = (outcome = "saved")
      /\ decisionStorage' = IF decisionShown = "this" THEN outcome ELSE decisionStorage
      /\ UNCHANGED <<decisionRun, decisionShown, drive, decisionTasks, decisionOther, executing>>
      /\ UNCHANGED <<time, decisionWorkspace, retryAt, due>>
  BY DEF Decision!SaveEnds
<1>2. DecisionHeld /\ DecisionKept /\ DecisionWaits
  BY DecisionParts
<1>3. DrivesFit'
  BY <1>1, DrivesStay
<1>4. DecisionHeld'
  BY <1>1, <1>2 DEF DecisionHeld
<1>5. DecisionKept'
  <2>1. CASE outcome = "saved"
    BY <1>1, <1>2, <2>1 DEF DecisionKept
  <2>2. CASE outcome = "error"
    BY <1>1, <1>2, <2>2 DEF DecisionKept
  <2>. QED
    BY <2>1, <2>2
<1>6. DecisionWaits'
  BY <1>1, <1>2 DEF DecisionWaits
<1>. QED
  BY <1>1, <1>3, <1>4, <1>5, <1>6, RunStays DEF DecisionStep, DecisionInv

-----------------------------------------------------------------------------
(* The invariant and what follows from it *)

LEMMA DecisionStutters ==
  ASSUME DecisionInv, UNCHANGED decisionSessionVars
  PROVE  DecisionStep
<1>1. /\ UNCHANGED <<decisionRun, decisionShown, drive, decisionTasks, decisionOther, executing>>
      /\ UNCHANGED <<retryAt, decisionWorkspace, persisted, decisionSave, decisionStorage,
                     time, due>>
  BY DEF decisionSessionVars
<1>2. DecisionHeld /\ DecisionKept /\ DecisionWaits
  BY DecisionParts
<1>3. DrivesFit'
  BY <1>1, DrivesStay
<1>4. DecisionHeld'
  BY <1>1, <1>2 DEF DecisionHeld
<1>5. DecisionKept'
  BY <1>1, <1>2 DEF DecisionKept
<1>6. DecisionWaits'
  BY <1>1, <1>2 DEF DecisionWaits
<1>. QED
  BY <1>1, <1>3, <1>4, <1>5, <1>6, RunStays DEF DecisionStep, DecisionInv

LEMMA DecisionKeeps ==
  ASSUME DecisionInv, Decision!Next
  PROVE  DecisionStep
<1>1. CASE Decision!Reset
  <2>1. Decision!StopAndShow("none")
    BY <1>1 DEF Decision!Reset
  <2>. QED
    BY <2>1, DecisionStopAndShowStep
<1>2. CASE Decision!AdoptOther
  <2>1. Decision!StopAndShow("other")
    BY <1>2 DEF Decision!AdoptOther
  <2>. QED
    BY <2>1, DecisionStopAndShowStep
<1>. QED
  BY <1>1, <1>2, DecisionStartStep, DecisionStartOtherStep, DecisionRetryStep, DecisionStopStep,
     DecisionAdoptThisStep, HostSendsStep, StreamEndsStep, HostBreaksStep, DecisionOtherEndsStep,
     DecisionTickStep, DecisionWaitOverStep, DecisionSaveEndsStep
     DEF Decision!Next

LEMMA DecisionBegins ==
  ASSUME Decision!Init
  PROVE  DecisionInv
<1>1. /\ decisionRun = NewDecisionRun /\ decisionShown = "none" /\ drive = 0
      /\ decisionTasks = <<>> /\ decisionOther = 0 /\ executing = FALSE /\ retryAt = Unset
      /\ decisionWorkspace \in BOOLEAN
      /\ persisted = FALSE /\ decisionSave = "none" /\ decisionStorage = "none"
      /\ time = 0 /\ due = 0
  BY SameTests DEF Decision!Init
<1>2. /\ decisionRun.status = "not_started" /\ ~ IsTerminalDecision(decisionRun)
  BY <1>1 DEF NewDecisionRun, IsTerminalDecision, TerminalDecisions
<1>3. DrivesFit
  <2>1. /\ decisionTasks \in Seq(DriveTasks) /\ Len(decisionTasks) = 0
        /\ 0 \in 0..MaxDrives /\ 0 \in 0..0
    BY <1>1, SessionsAssumption
  <2>2. DrivesTyped
    BY <1>1, <2>1 DEF DrivesTyped
  <2>3. ~ SomeReports
    BY <2>1 DEF SomeReports
  <2>4. executing = ((decisionOther # 0 /\ decisionOther = drive) \/ SomeReports)
    BY <1>1, <2>3
  <2>5. \A i \in 1..Len(decisionTasks) : DriveFits(i)
    BY <2>1
  <2>. QED
    BY <2>2, <2>4, <2>5 DEF DrivesFit
<1>4. DecisionHeld
  BY <1>1 DEF DecisionHeld
<1>5. DecisionKept
  BY <1>1, <1>2 DEF DecisionKept
<1>6. DecisionWaits
  BY <1>1, <1>2, SessionsAssumption DEF DecisionWaits
<1>. QED
  BY <1>3, <1>4, <1>5, <1>6 DEF DecisionInv

LEMMA DecisionIsTyped ==
  ASSUME DecisionInv
  PROVE  Decision!SessionTypeOK
<1>1. decisionRun \in DecisionRuns
  BY HeldRun
<1>2. /\ decisionRun.status \in DecisionStatuses
      /\ \A i \in DOMAIN decisionRun.attempts : decisionRun.attempts[i] \in DecisionAttempts
  BY <1>1 DEF DecisionRuns
<1>3. /\ Decision!DecisionStatuses = DecisionStatuses
      /\ Decision!DecisionAttempts = DecisionAttempts
  BY DEF Decision!DecisionStatuses, DecisionStatuses, Decision!TerminalDecisions,
         TerminalDecisions, Decision!DecisionAttempts, DecisionAttempts, Decision!Errors, Errors
<1>4. drive \in 0..MaxDrives /\ decisionOther \in 0..MaxDrives /\ executing \in BOOLEAN
  BY DecisionParts DEF DrivesTyped
<1>. QED
  BY <1>2, <1>3, <1>4, DecisionParts DEF Decision!SessionTypeOK, DecisionHeld, DecisionKept

LEMMA DecisionIsReal ==
  ASSUME DecisionInv
  PROVE  Decision!ExecutingIsReal
<1>1. /\ DOMAIN decisionTasks = 1..Len(decisionTasks)
      /\ \A i \in 1..Len(decisionTasks) : DriveFits(i)
      /\ executing = ((decisionOther # 0 /\ decisionOther = drive) \/ SomeReports)
  BY DriveTypes, DecisionParts DEF DrivesFit
<1>2. ASSUME NEW i \in 1..Len(decisionTasks)
      PROVE  Decision!InFlight(decisionTasks[i]) <=> Reports(decisionTasks[i])
  BY <1>1 DEF DriveFits, Decision!InFlight, Reports
<1>3. SomeReports <=> \E i \in DOMAIN decisionTasks : Decision!InFlight(decisionTasks[i])
  BY <1>1, <1>2 DEF SomeReports
<1>4. \A i \in DOMAIN decisionTasks :
        decisionTasks[i].driving /\ decisionTasks[i].generation # drive => decisionTasks[i].aborted
  BY <1>1 DEF DriveFits
<1>. QED
  BY <1>1, <1>3, <1>4 DEF Decision!ExecutingIsReal

LEMMA DecisionReachesDisk ==
  ASSUME DecisionInv
  PROVE  Decision!EndedRunsReachDisk
BY DecisionParts, SameTests DEF DecisionKept, Decision!EndedRunsReachDisk

-----------------------------------------------------------------------------
(* The sessions side by side *)

SessionsInv ==
  /\ session = "coordinator" => CoordinatorInv
  /\ session # "coordinator" => SessionInv
  /\ DecisionInv

SessionsStep ==
  /\ SessionsInv' /\ ContentFixed(run, run') /\ DecisionMoves /\ StaysGone
  /\ ~ InStep => UNCHANGED run /\ ~ InStep'

LEMMA SessionsBegin ==
  ASSUME SessionsInit
  PROVE  SessionsInv
<1>1. SessionInit /\ Decision!Init
  BY DEF SessionsInit
<1>2. SessionInv /\ DecisionInv
  BY <1>1, SessionBegins, DecisionBegins
<1>. QED
  BY <1>2, InvParts DEF SessionsInv

\* A coordinator under its most general client.
LEMMA LoneStep ==
  ASSUME SessionsInv, session = "coordinator", session' = session, [Next]_coordinatorVars,
         UNCHANGED <<view, decisionSessionVars>>
  PROVE  SessionsStep
<1>1. CoordinatorInv /\ DecisionInv
  BY DEF SessionsInv
<1>2. SoundStep /\ (~ InStep => UNCHANGED run /\ ~ InStep')
  BY <1>1, NextInv, RefusedForGood
<1>3. DecisionStep
  BY <1>1, DecisionStutters
<1>4. StaysGone
  BY DEF view, StaysGone
<1>. QED
  BY <1>2, <1>3, <1>4 DEF SessionsStep, SessionsInv, SoundStep, DecisionStep

LEMMA SessionsKeep ==
  ASSUME SessionsInv, [SessionsNext]_<<session, sessionVars, decisionSessionVars>>
  PROVE  SessionsStep
<1>1. session' = session
  BY DEF SessionsNext
<1>2. CASE session = "coordinator"
  <2>1. /\ [Next]_coordinatorVars
        /\ UNCHANGED <<view, decisionSessionVars>>
    BY <1>2 DEF SessionsNext, sessionVars
  <2>. QED
    BY <1>1, <1>2, <2>1, LoneStep
<1>3. CASE session # "coordinator"
  <2>1. SessionInv /\ DecisionInv
    BY <1>3 DEF SessionsInv
  <2>2. /\ [SessionNext]_sessionVars
        /\ Decision!Next \/ UNCHANGED decisionSessionVars
    BY <1>3 DEF SessionsNext
  <2>3. SessionStep
    BY <2>1, <2>2, SessionKeeps
  <2>4. DecisionStep
    BY <2>1, <2>2, DecisionKeeps, DecisionStutters
  <2>. QED
    BY <1>1, <1>3, <2>3, <2>4
       DEF SessionsStep, SessionsInv, SessionStep, DecisionStep, RunMoves, SoundStep
<1>. QED
  BY <1>2, <1>3

LEMMA AlwaysSessionsInv == SessionsSpec => []SessionsInv
<1>1. SessionsInv /\ [SessionsNext]_<<session, sessionVars, decisionSessionVars>> => SessionsInv'
  BY SessionsKeep DEF SessionsStep
<1>. QED
  BY <1>1, SessionsBegin, PTL DEF SessionsSpec

\* What a session shows and keeps is true: a run that ended with a folder open was
\* handed to the autosave; and it says that it is executing exactly while something
\* in flight can still report to it, a chat session unless the user continued while
\* a request was in flight (useRunSession, useDecisionSession).
THEOREM SessionsTellTheTruthHolds == SessionsSpec => []SessionsTellTheTruth
<1>1. SessionsInv => SessionsTellTheTruth
  BY SessionIsTyped, SessionIsReal, SessionReachesDisk,
     DecisionIsTyped, DecisionIsReal, DecisionReachesDisk
     DEF SessionsInv, SessionsTellTheTruth, ExecutingIsRealInBoth, EndedRunsReachDiskInBoth
<1>. QED
  BY <1>1, AlwaysSessionsInv, PTL

\* A call that the user must be asked about is served only on his word; and unless
\* he continues while a request is in flight, Stop ends the run it is pressed for
\* (continueRun, stop).
THEOREM ContinuesAsAskedHolds == SessionsSpec => []ContinuesAsAsked
<1>1. SessionsInv => ContinuesAsAsked
  BY SessionAsks DEF SessionsInv, ContinuesAsAsked
<1>. QED
  BY <1>1, AlwaysSessionsInv, PTL

\* Whatever the commands and the tasks they left behind do to it, the run stays
\* one that the reducer could have made (reduceRunEvent).
THEOREM SessionsKeepTheRun ==
  SessionsSpec => [](RunConsistent /\ TurnsAnsweredInOrder /\ CallsServedOnce)
<1>1. SessionsInv => CoordinatorInv
  BY InvParts DEF SessionsInv
<1>2. CoordinatorInv => RunConsistent /\ TurnsAnsweredInOrder /\ CallsServedOnce
  BY DEF CoordinatorInv, RunInv, RunConsistent, TypeOK, StatusMatchesTurns,
         TurnsAnsweredInOrder, CallsServedOnce
<1>. QED
  BY <1>1, <1>2, AlwaysSessionsInv, PTL

\* In a session too what was said stays said, and a refused event is the last
\* thing that happens to a run (withExchangeAttempt, reduceRunEvent).
THEOREM SessionsKeepWhatWasSaid == SessionsSpec => SettledContentFixed /\ RefusalIsFinal
<1>. DEFINE Fixed ==
       \A t \in DOMAIN run.turns : \A a \in DOMAIN run.turns[t] :
         /\ Known(run', <<t, a>>)
         /\ run.turns[t][a].status # "streaming" =>
              /\ run'.turns[t][a].calls = run.turns[t][a].calls
              /\ run'.turns[t][a].status \in {run.turns[t][a].status, "failed"}
<1>1. SessionsInv /\ [SessionsNext]_<<session, sessionVars, decisionSessionVars>>
        => /\ [Fixed]_coordinatorVars
           /\ [~ InStep => UNCHANGED run /\ ~ InStep']_coordinatorVars
  BY SessionsKeep DEF SessionsStep, ContentFixed
<1>. QED
  BY <1>1, AlwaysSessionsInv, PTL DEF SessionsSpec, SettledContentFixed, RefusalIsFinal

\* Nothing that a replaced run left behind puts it back on the screen; only its
\* saved trace does (start, reset, adoptTrace).
THEOREM GoneStaysGoneHolds == SessionsSpec => GoneStaysGone
<1>1. SessionsInv /\ [SessionsNext]_<<session, sessionVars, decisionSessionVars>>
        => [run # NewRun /\ shown # "this" /\ shown' = "this" => save = "saved"]_sessionVars
  BY SessionsKeep DEF SessionsStep, StaysGone
<1>. QED
  BY <1>1, AlwaysSessionsInv, PTL DEF SessionsSpec, GoneStaysGone

\* The first end of a decision stands, and Retry sends nothing before the wait
\* that the last 429 asked for is over (driveDecisionAttempt, retry).
THEOREM DecisionsKeepFaithHolds == SessionsSpec => DecisionsKeepFaith
<1>1. SessionsInv /\ [SessionsNext]_<<session, sessionVars, decisionSessionVars>>
        => /\ [Decision!IsTerminalDecision(decisionRun) => UNCHANGED decisionRun]_(Decision!vars)
           /\ [Len(decisionRun'.attempts) > Len(decisionRun.attempts) => time >= due]_(Decision!vars)
  BY SessionsKeep, SameTests DEF SessionsStep, DecisionMoves
<1>. QED
  BY <1>1, AlwaysSessionsInv, PTL
     DEF SessionsSpec, DecisionsKeepFaith, Decision!OutcomeIsFinal, Decision!RetryWaits

=============================================================================
