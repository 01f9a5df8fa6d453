--------------------- MODULE WorkbenchPublication_proofs ---------------------
(***************************************************************************)
(* Proofs about WorkbenchPublication, for any contents and any number of   *)
(* Saves, edits, failures and windows that die.                            *)
(***************************************************************************)
EXTENDS WorkbenchPublication, TLAPS

-----------------------------------------------------------------------------
(* What is in the store's queue *)

Elements(q) == { q[i] : i \in 1..Len(q) }

\* The operation a step awaits, and those behind it.
SinceAwaited(q) == { q[i] : i \in { j \in 1..Len(q) : \E a \in 1..j : q[a].awaited } }

NoneAwaited(q) == \A i \in 1..Len(q) : ~ q[i].awaited

Awaits(q, p) ==
  \E a \in 1..Len(q) : /\ q[a].awaited /\ q[a].path = p
                       /\ \A b \in 1..Len(q) : q[b].awaited => b = a

LEMMA Pushed ==
  ASSUME NEW q \in Seq(Operations), NEW o \in Operations
  PROVE  /\ Append(q, o) \in Seq(Operations)
         /\ Elements(Append(q, o)) = Elements(q) \union {o}
         /\ SinceAwaited(Append(q, o)) \subseteq SinceAwaited(q) \union {o}
         /\ NoneAwaited(q) => SinceAwaited(Append(q, o)) \subseteq {o}
         /\ NoneAwaited(q) /\ ~ o.awaited => NoneAwaited(Append(q, o))
         /\ NoneAwaited(q) /\ o.awaited => Awaits(Append(q, o), o.path)
         /\ \A p : Awaits(q, p) /\ ~ o.awaited => Awaits(Append(q, o), p)
<1>. DEFINE r == Append(q, o)
<1>1. /\ r \in Seq(Operations) /\ Len(r) = Len(q) + 1 /\ Len(q) \in Nat
      /\ r[Len(r)] = o /\ \A i \in 1..Len(q) : r[i] = q[i]
  OBVIOUS
<1>. HIDE DEF r
<1>2. \A i \in 1..Len(r) : i \in 1..Len(q) \/ i = Len(r)
  BY <1>1
<1>3. Elements(r) = Elements(q) \union {o}
  BY <1>1, <1>2 DEF Elements
<1>4. SinceAwaited(r) \subseteq SinceAwaited(q) \union {o}
  <2>1. SUFFICES ASSUME NEW j \in 1..Len(r), NEW a \in 1..j, r[a].awaited, j # Len(r)
                 PROVE  r[j] \in SinceAwaited(q)
    BY <1>1 DEF SinceAwaited
  <2>2. j \in 1..Len(q) /\ a \in 1..Len(q) /\ q[a].awaited /\ r[j] = q[j]
    BY <1>1, <1>2, <2>1
  <2>. QED  BY <2>2 DEF SinceAwaited
<1>5. ASSUME NoneAwaited(q)  PROVE SinceAwaited(r) \subseteq {o}
  <2>1. SUFFICES ASSUME NEW j \in 1..Len(r), NEW a \in 1..j, r[a].awaited
                 PROVE  r[j] = o
    BY DEF SinceAwaited
  <2>2. a = Len(r)
    BY <1>1, <1>2, <1>5, <2>1 DEF NoneAwaited
  <2>. QED  BY <1>1, <2>2
<1>6. NoneAwaited(q) /\ ~ o.awaited => NoneAwaited(r)
  BY <1>1, <1>2 DEF NoneAwaited
<1>7. NoneAwaited(q) /\ o.awaited => Awaits(r, o.path)
  BY <1>1, <1>2 DEF NoneAwaited, Awaits
<1>8. ASSUME NEW p, Awaits(q, p), ~ o.awaited  PROVE Awaits(r, p)
  <2>1. PICK a \in 1..Len(q) : /\ q[a].awaited /\ q[a].path = p
                               /\ \A b \in 1..Len(q) : q[b].awaited => b = a
    BY <1>8 DEF Awaits
  <2>2. a \in 1..Len(r) /\ r[a] = q[a]
    BY <1>1
  <2>3. \A b \in 1..Len(r) : r[b].awaited => b = a
    BY <1>1, <1>2, <1>8, <2>1
  <2>. QED  BY <2>1, <2>2, <2>3 DEF Awaits
<1>. QED  BY <1>1, <1>3, <1>4, <1>5, <1>6, <1>7, <1>8 DEF r

LEMMA Popped ==
  ASSUME NEW q \in Seq(Operations), q # <<>>
  PROVE  /\ Tail(q) \in Seq(Operations) /\ Head(q) \in Operations
         /\ Elements(Tail(q)) \subseteq Elements(q) /\ Head(q) \in Elements(q)
         /\ SinceAwaited(Tail(q)) \subseteq SinceAwaited(q)
         /\ Head(q).awaited => Elements(q) \subseteq SinceAwaited(q)
         /\ NoneAwaited(q) => NoneAwaited(Tail(q)) /\ ~ Head(q).awaited
         /\ \A p : Awaits(q, p) =>
              IF Head(q).awaited THEN NoneAwaited(Tail(q)) /\ Head(q).path = p
              ELSE Awaits(Tail(q), p)
<1>. DEFINE t == Tail(q)
<1>1. /\ t \in Seq(Operations) /\ Len(q) = Len(t) + 1 /\ Len(t) \in Nat
      /\ Head(q) = q[1] /\ \A i \in 1..Len(t) : t[i] = q[i + 1]
  OBVIOUS
<1>. HIDE DEF t
<1>2. 1 \in 1..Len(q) /\ \A i \in 1..Len(t) : i + 1 \in 1..Len(q) /\ i + 1 # 1
  BY <1>1
<1>3. \A j \in 1..Len(q) : j = 1 \/ (j - 1 \in 1..Len(t) /\ t[j - 1] = q[j])
  BY <1>1
<1>4. Head(q) \in Operations
  BY <1>1, <1>2
<1>5. Elements(t) \subseteq Elements(q) /\ Head(q) \in Elements(q)
  BY <1>1, <1>2 DEF Elements
<1>6. SinceAwaited(t) \subseteq SinceAwaited(q)
  <2>1. SUFFICES ASSUME NEW j \in 1..Len(t), NEW a \in 1..j, t[a].awaited
                 PROVE  t[j] \in SinceAwaited(q)
    BY DEF SinceAwaited
  <2>2. a + 1 \in 1..(j + 1) /\ j + 1 \in 1..Len(q) /\ q[a + 1].awaited /\ t[j] = q[j + 1]
    BY <1>1, <2>1
  <2>. QED  BY <2>2 DEF SinceAwaited
<1>7. ASSUME Head(q).awaited  PROVE Elements(q) \subseteq SinceAwaited(q)
  <2>1. \A j \in 1..Len(q) : 1 \in 1..j /\ q[1].awaited
    BY <1>1, <1>7
  <2>. QED  BY <2>1 DEF Elements, SinceAwaited
<1>8. NoneAwaited(q) => NoneAwaited(t) /\ ~ Head(q).awaited
  BY <1>1, <1>2 DEF NoneAwaited
<1>9. ASSUME NEW p, Awaits(q, p)
      PROVE  IF Head(q).awaited THEN NoneAwaited(t) /\ Head(q).path = p ELSE Awaits(t, p)
  <2>1. PICK a \in 1..Len(q) : /\ q[a].awaited /\ q[a].path = p
                               /\ \A b \in 1..Len(q) : q[b].awaited => b = a
    BY <1>9 DEF Awaits
  <2>2. CASE Head(q).awaited
    <3>1. a = 1
      BY <1>1, <1>2, <2>1, <2>2
    <3>2. \A i \in 1..Len(t) : ~ t[i].awaited
      BY <1>1, <1>2, <2>1, <3>1
    <3>. QED  BY <1>1, <2>1, <2>2, <3>1, <3>2 DEF NoneAwaited
  <2>3. CASE ~ Head(q).awaited
    <3>1. a - 1 \in 1..Len(t) /\ t[a - 1] = q[a]
      BY <1>1, <1>3, <2>1, <2>3
    <3>2. \A b \in 1..Len(t) : t[b].awaited => b = a - 1
      <4>1. TAKE b \in 1..Len(t)
      <4>2. b + 1 \in 1..Len(q) /\ t[b] = q[b + 1]
        BY <1>1, <1>2
      <4>. QED  BY <2>1, <4>2
    <3>. QED  BY <2>1, <2>3, <3>1, <3>2 DEF Awaits
  <2>. QED  BY <2>2, <2>3
<1>. QED  BY <1>1, <1>4, <1>5, <1>6, <1>7, <1>8, <1>9 DEF t

-----------------------------------------------------------------------------
(* Which selection the queue leaves on disk, when disk holds d before it *)

Selects(o, s) == o.path = "SEL" /\ (o.value = "S" <=> s = "S")

\* Just before the j-th operation it does not name S.
LeavesBefore(q, d, j) ==
  /\ d # "S" \/ \E i \in 1..Len(q) : i < j /\ Selects(q[i], "other")
  /\ \A i \in 1..Len(q) : i < j /\ Selects(q[i], "S") =>
       \E k \in 1..Len(q) : i < k /\ k < j /\ Selects(q[k], "other")

LeavesS(q, d) == LeavesBefore(q, d, Len(q) + 1)

Deletes(o) == o.path = "S" /\ o.value = None

\* S is deleted only where the selection does not name it, then or later.
InOrder(q, d) ==
  \A j \in 1..Len(q) : Deletes(q[j]) =>
    LeavesBefore(q, d, j) /\ \A i \in 1..Len(q) : j < i => ~ Selects(q[i], "S")

LEMMA PushedSelection ==
  ASSUME NEW q \in Seq(Operations), NEW o \in Operations, NEW d
  PROVE  /\ LeavesS(q, d) /\ ~ Selects(o, "S") => LeavesS(Append(q, o), d)
         /\ Selects(o, "other") => LeavesS(Append(q, o), d)
         /\ InOrder(q, d) /\ ~ Selects(o, "S") /\ (Deletes(o) => LeavesS(q, d))
              => InOrder(Append(q, o), d)
         /\ (\A x \in Elements(q) : ~ Deletes(x)) /\ ~ Deletes(o) => InOrder(Append(q, o), d)
<1>. DEFINE r == Append(q, o)
<1>1. /\ Len(r) = Len(q) + 1 /\ Len(q) \in Nat
      /\ r[Len(r)] = o /\ \A i \in 1..Len(q) : r[i] = q[i]
  OBVIOUS
<1>. HIDE DEF r
<1>2. /\ \A i \in 1..Len(r) : i \in 1..Len(q) \/ i = Len(r)
      /\ \A i \in 1..Len(q) : i \in 1..Len(r) /\ i < Len(r)
  BY <1>1
<1>3. ASSUME NEW j \in 1..(Len(q) + 1), LeavesBefore(q, d, j)  PROVE LeavesBefore(r, d, j)
  <2>1. d # "S" \/ \E i \in 1..Len(r) : i < j /\ Selects(r[i], "other")
    BY <1>1, <1>2, <1>3 DEF LeavesBefore
  <2>2. ASSUME NEW i \in 1..Len(r), i < j, Selects(r[i], "S")
        PROVE  \E k \in 1..Len(r) : i < k /\ k < j /\ Selects(r[k], "other")
    <3>1. i \in 1..Len(q) /\ Selects(q[i], "S")
      BY <1>1, <1>2, <2>2
    <3>2. PICK k \in 1..Len(q) : i < k /\ k < j /\ Selects(q[k], "other")
      BY <1>3, <2>2, <3>1 DEF LeavesBefore
    <3>. QED  BY <1>1, <1>2, <3>2
  <2>. QED  BY <2>1, <2>2 DEF LeavesBefore
<1>4. ASSUME LeavesS(q, d), ~ Selects(o, "S")  PROVE LeavesS(r, d)
  <2>1. LeavesBefore(r, d, Len(r))
    BY <1>1, <1>3, <1>4 DEF LeavesS
  <2>2. d # "S" \/ \E i \in 1..Len(r) : i < Len(r) + 1 /\ Selects(r[i], "other")
    BY <1>1, <2>1 DEF LeavesBefore
  <2>3. ASSUME NEW i \in 1..Len(r), Selects(r[i], "S")
        PROVE  \E k \in 1..Len(r) : i < k /\ k < Len(r) + 1 /\ Selects(r[k], "other")
    <3>1. i < Len(r)
      BY <1>1, <1>2, <1>4, <2>3
    <3>2. PICK k \in 1..Len(r) : i < k /\ k < Len(r) /\ Selects(r[k], "other")
      BY <2>1, <2>3, <3>1 DEF LeavesBefore
    <3>. QED  BY <1>1, <3>2
  <2>. QED  BY <2>2, <2>3 DEF LeavesS, LeavesBefore
<1>5. ASSUME Selects(o, "other")  PROVE LeavesS(r, d)
  <2>1. Len(r) \in 1..Len(r) /\ Len(r) < Len(r) + 1 /\ Selects(r[Len(r)], "other")
    BY <1>1, <1>5
  <2>2. ASSUME NEW i \in 1..Len(r), Selects(r[i], "S")  PROVE i < Len(r)
    BY <1>1, <1>2, <1>5, <2>2 DEF Selects
  <2>. QED  BY <2>1, <2>2 DEF LeavesS, LeavesBefore
<1>6. ASSUME InOrder(q, d), ~ Selects(o, "S"), Deletes(o) => LeavesS(q, d)
      PROVE  InOrder(r, d)
  <2>1. SUFFICES ASSUME NEW j \in 1..Len(r), Deletes(r[j])
                 PROVE  /\ LeavesBefore(r, d, j)
                        /\ \A i \in 1..Len(r) : j < i => ~ Selects(r[i], "S")
    BY DEF InOrder
  <2>2. CASE j \in 1..Len(q)
    <3>1. LeavesBefore(q, d, j) /\ \A i \in 1..Len(q) : j < i => ~ Selects(q[i], "S")
      BY <1>1, <1>6, <2>1, <2>2 DEF InOrder
    <3>2. j \in 1..(Len(q) + 1)
      BY <1>1, <2>2
    <3>. QED  BY <1>1, <1>2, <1>3, <1>6, <3>1, <3>2
  <2>3. CASE j = Len(r)
    <3>1. LeavesBefore(r, d, j) /\ j \in Nat
      BY <1>1, <1>3, <1>6, <2>1, <2>3 DEF LeavesS
    <3>2. \A i \in 1..Len(r) : ~ j < i
      BY <1>1, <2>3
    <3>. QED  BY <3>1, <3>2
  <2>. QED  BY <1>2, <2>2, <2>3
<1>7. ASSUME \A x \in Elements(q) : ~ Deletes(x), ~ Deletes(o)  PROVE InOrder(r, d)
  <2>1. \A j \in 1..Len(r) : ~ Deletes(r[j])
    BY <1>1, <1>2, <1>7 DEF Elements
  <2>. QED  BY <2>1 DEF InOrder
<1>. QED  BY <1>4, <1>5, <1>6, <1>7 DEF r

LEMMA PoppedSelection ==
  ASSUME NEW q \in Seq(Operations), q # <<>>, NEW d,
         Head(q).path = "SEL" => d = Head(q).value
  PROVE  /\ LeavesS(q, d) => LeavesS(Tail(q), d)
         /\ InOrder(q, d) => InOrder(Tail(q), d)
<1>. DEFINE t == Tail(q)
<1>1. /\ Len(q) = Len(t) + 1 /\ Len(t) \in Nat
      /\ Head(q) = q[1] /\ \A i \in 1..Len(t) : t[i] = q[i + 1]
  OBVIOUS
<1>. HIDE DEF t
<1>2. /\ \A i \in 1..Len(t) : i \in Nat /\ i + 1 \in 1..Len(q)
      /\ \A i \in 1..Len(q) : i \in Nat /\ (i # 1 => i - 1 \in 1..Len(t) /\ t[i - 1] = q[i])
  BY <1>1
<1>3. ASSUME NEW j \in Nat, LeavesBefore(q, d, j + 1)  PROVE LeavesBefore(t, d, j)
  <2>1. d # "S" \/ \E i \in 1..Len(t) : i < j /\ Selects(t[i], "other")
    <3>1. SUFFICES ASSUME d = "S"  PROVE \E i \in 1..Len(t) : i < j /\ Selects(t[i], "other")
      OBVIOUS
    <3>2. PICK i \in 1..Len(q) : i < j + 1 /\ Selects(q[i], "other")
      BY <1>3, <3>1 DEF LeavesBefore
    <3>3. i # 1
      BY <1>1, <3>1, <3>2 DEF Selects
    <3>4. i - 1 \in 1..Len(t) /\ t[i - 1] = q[i] /\ i - 1 < j
      BY <1>2, <3>2, <3>3
    <3>. QED  BY <3>2, <3>4
  <2>2. ASSUME NEW i \in 1..Len(t), i < j, Selects(t[i], "S")
        PROVE  \E k \in 1..Len(t) : i < k /\ k < j /\ Selects(t[k], "other")
    <3>1. i + 1 \in 1..Len(q) /\ i + 1 < j + 1 /\ Selects(q[i + 1], "S") /\ i \in Nat
      BY <1>1, <1>2, <2>2
    <3>2. PICK k \in 1..Len(q) : i + 1 < k /\ k < j + 1 /\ Selects(q[k], "other")
      BY <1>3, <3>1 DEF LeavesBefore
    <3>3. k \in Nat /\ k # 1
      BY <1>2, <3>1, <3>2
    <3>4. k - 1 \in 1..Len(t) /\ t[k - 1] = q[k] /\ i < k - 1 /\ k - 1 < j
      BY <1>2, <3>1, <3>2, <3>3
    <3>. QED  BY <3>2, <3>4
  <2>. QED  BY <2>1, <2>2 DEF LeavesBefore
<1>4. LeavesS(q, d) => LeavesS(t, d)
  BY <1>1, <1>3 DEF LeavesS
<1>5. ASSUME InOrder(q, d)  PROVE InOrder(t, d)
  <2>1. SUFFICES ASSUME NEW j \in 1..Len(t), Deletes(t[j])
                 PROVE  /\ LeavesBefore(t, d, j)
                        /\ \A i \in 1..Len(t) : j < i => ~ Selects(t[i], "S")
    BY DEF InOrder
  <2>2. j \in Nat /\ j + 1 \in 1..Len(q) /\ Deletes(q[j + 1])
    BY <1>1, <1>2, <2>1
  <2>3. /\ LeavesBefore(q, d, j + 1)
        /\ \A i \in 1..Len(q) : j + 1 < i => ~ Selects(q[i], "S")
    BY <1>5, <2>2 DEF InOrder
  <2>4. \A i \in 1..Len(t) : j < i => j + 1 < i + 1 /\ i + 1 \in 1..Len(q) /\ t[i] = q[i + 1]
    BY <1>1, <1>2, <2>2
  <2>. QED  BY <1>3, <2>2, <2>3, <2>4
<1>. QED  BY <1>4, <1>5 DEF t

LEMMA LandedSelection ==
  ASSUME NEW q \in Seq(Operations), q # <<>>, NEW d, NEW e,
         IF Head(q).path = "SEL" THEN e = Head(q).value ELSE e = d
  PROVE  /\ LeavesS(q, d) => LeavesS(q, e)
         /\ InOrder(q, d) => InOrder(q, e)
<1>1. Len(q) \in Nat /\ Head(q) = q[1] /\ 1 \in 1..Len(q)
  OBVIOUS
<1>2. ASSUME NEW j \in Nat, 1 < j \/ e = d, LeavesBefore(q, d, j)  PROVE LeavesBefore(q, e, j)
  <2>1. SUFFICES ASSUME e = "S", e # d
                 PROVE  \E k \in 1..Len(q) : k < j /\ Selects(q[k], "other")
    BY <1>2 DEF LeavesBefore
  <2>2. Selects(q[1], "S") /\ 1 < j
    BY <1>1, <1>2, <2>1 DEF Selects
  <2>. QED  BY <1>1, <1>2, <2>2 DEF LeavesBefore
<1>3. LeavesS(q, d) => LeavesS(q, e)
  BY <1>1, <1>2 DEF LeavesS
<1>4. ASSUME InOrder(q, d)  PROVE InOrder(q, e)
  <2>1. ASSUME NEW j \in 1..Len(q), Deletes(q[j])  PROVE j \in Nat /\ (1 < j \/ e = d)
    BY <1>1, <2>1 DEF Deletes
  <2>. QED  BY <1>2, <1>4, <2>1 DEF InOrder
<1>. QED  BY <1>3, <1>4

LEMMA EmptyQueue ==
  /\ <<>> \in Seq(Operations) /\ Elements(<<>>) = {} /\ SinceAwaited(<<>>) = {}
  /\ NoneAwaited(<<>>)
  /\ \A d : InOrder(<<>>, d) /\ (LeavesS(<<>>, d) <=> d # "S")
  BY DEF Elements, SinceAwaited, NoneAwaited, InOrder, LeavesS, LeavesBefore

-----------------------------------------------------------------------------
(* What the steps of a cleanup do to memory and to the queue *)

ParentIsS(child) == child # None /\ child.parent = "S"

NewOp(p, awaited) == [path |-> p, value |-> records'[p], awaited |-> awaited]

Same(p) == records'[p] = records[p]

\* The child is on its way to disk under the published revision.
ToChildren(settles) ==
  /\ DOMAIN records' = Paths /\ Same("S") /\ Same("SEL")
  /\ records["C"] # None /\ records'["C"] = [records["C"] EXCEPT !.parent = "published"]
  /\ queue' = Append(queue, NewOp("C", TRUE))
  /\ dirty' = dirty \ {"C"} /\ timers' = timers \ {"C"} /\ deletions' = deletions
  /\ step' = "children" /\ settling' = settles /\ keep' = Kept(records["S"])

\* The selection is, after the operations of q.
ToSelection(settles, q) ==
  /\ DOMAIN records' = Paths /\ Same("S") /\ Same("C")
  /\ records'["SEL"] = IF records["SEL"] = "S" THEN "published" ELSE records["SEL"]
  /\ queue' = Append(q, NewOp("SEL", TRUE))
  /\ dirty' = dirty \ {"SEL"} /\ timers' = timers \ {"SEL"} /\ deletions' = deletions
  /\ step' = "selection" /\ settling' = settles /\ keep' = None

\* S has given way to k, and is on its way to disk unless a flush will write it.
ToEnd(settles, q, k) ==
  /\ DOMAIN records' = Paths /\ records'["S"] = k /\ Same("C") /\ Same("SEL")
  /\ dirty \ {"S"} \subseteq dirty' /\ dirty' \subseteq dirty \union {"S"}
  /\ timers' \subseteq Paths /\ deletions' \subseteq Paths
  /\ settling' = FALSE
  /\ IF settles THEN queue' = q /\ step' = "idle" /\ keep' = None
     ELSE queue' = Append(q, NewOp("S", TRUE)) /\ step' = "final" /\ keep' = k

LEMMA FinishShape ==
  ASSUME RecordsTypeOK, StoreTypeOK, NEW settles \in BOOLEAN, NEW q, NEW k,
         Finish(settles, records, dirty, q, k)
  PROVE  ToEnd(settles, q, k)
<1>1. records' = [records EXCEPT !["S"] = k] /\ settling' = FALSE
  BY DEF Finish
<1>2. DOMAIN records' = Paths /\ records'["S"] = k /\ Same("C") /\ Same("SEL")
  BY <1>1 DEF RecordsTypeOK, Paths, Same
<1>3. CASE settles
  BY <1>1, <1>2, <1>3 DEF Finish, Flush, StoreTypeOK, ToEnd, Paths
<1>4. CASE ~ settles
  BY <1>1, <1>2, <1>4 DEF Finish, StoreTypeOK, ToEnd, Op, NewOp
<1>. QED  BY <1>3, <1>4

LEMMA SelectionShape ==
  ASSUME RecordsTypeOK, StoreTypeOK, NEW settles \in BOOLEAN, NEW q, NEW k,
         AfterChildren(settles, records, dirty, q, k)
  PROVE  \/ k = None /\ ToSelection(settles, q)
         \/ /\ k = None => records["SEL"] # "S" /\ "SEL" \notin dirty
            /\ ToEnd(settles, q, k)
<1>. DEFINE moves  == records["SEL"] = "S"
            chosen == IF moves THEN [records EXCEPT !["SEL"] = "published"] ELSE records
<1>1. CASE k # None
  BY <1>1, FinishShape DEF AfterChildren
<1>2. CASE k = None /\ (moves \/ "SEL" \in dirty)
  <2>1. /\ records' = chosen /\ queue' = Append(q, Op("SEL", chosen, TRUE))
        /\ dirty' = dirty \ {"SEL"} /\ timers' = timers \ {"SEL"} /\ deletions' = deletions
        /\ step' = "selection" /\ settling' = settles /\ keep' = None
    BY <1>2 DEF AfterChildren, MoveSelection
  <2>2. /\ DOMAIN records' = Paths /\ Same("S") /\ Same("C")
        /\ records'["SEL"] = IF records["SEL"] = "S" THEN "published" ELSE records["SEL"]
    BY <2>1 DEF RecordsTypeOK, Paths, Same
  <2>3. Op("SEL", chosen, TRUE) = NewOp("SEL", TRUE)
    BY <2>1 DEF Op, NewOp
  <2>. QED  BY <1>2, <2>1, <2>2, <2>3 DEF ToSelection
<1>3. CASE k = None /\ ~ moves /\ "SEL" \notin dirty
  <2>1. Finish(settles, records, dirty, q, None)
    BY <1>3 DEF AfterChildren, MoveSelection
  <2>. QED  BY <1>3, <2>1, FinishShape
<1>. QED  BY <1>1, <1>2, <1>3

\* What a Save or a settlement begins its cleanup with.
Completes(settles) ==
  \/ ParentIsS(records["C"]) /\ ToChildren(settles)
  \/ /\ ~ ParentIsS(records["C"]) /\ Kept(records["S"]) = None
     /\ ToSelection(settles, queue)
  \/ /\ ~ ParentIsS(records["C"])
     /\ Kept(records["S"]) = None => records["SEL"] # "S" /\ "SEL" \notin dirty
     /\ ToEnd(settles, queue, Kept(records["S"]))

LEMMA CompleteShape ==
  ASSUME RecordsTypeOK, StoreTypeOK, NEW settles \in BOOLEAN, Complete(settles)
  PROVE  Completes(settles)
<1>1. CASE ParentIsS(records["C"])
  <2>. DEFINE moved == Reparented(records, "published")
  <2>1. /\ records' = moved /\ queue' = Append(queue, Op("C", moved, TRUE))
        /\ dirty' = dirty \ {"C"} /\ timers' = timers \ {"C"} /\ deletions' = deletions
        /\ step' = "children" /\ settling' = settles /\ keep' = Kept(records["S"])
    BY <1>1 DEF Complete, ParentIsS
  <2>2. moved = [records EXCEPT !["C"].parent = "published"]
    BY <1>1 DEF Reparented, ParentIsS
  <2>3. /\ DOMAIN records' = Paths /\ Same("S") /\ Same("SEL")
        /\ records'["C"] = [records["C"] EXCEPT !.parent = "published"]
    BY <2>1, <2>2 DEF RecordsTypeOK, Paths, Same
  <2>4. Op("C", moved, TRUE) = NewOp("C", TRUE)
    BY <2>1 DEF Op, NewOp
  <2>. QED  BY <1>1, <2>1, <2>3, <2>4 DEF ToChildren, Completes, ParentIsS
<1>2. CASE ~ ParentIsS(records["C"])
  <2>1. AfterChildren(settles, records, dirty, queue, Kept(records["S"]))
    BY <1>2 DEF Complete, ParentIsS
  <2>. QED  BY <1>2, <2>1, SelectionShape DEF Completes
<1>. QED  BY <1>1, <1>2
-----------------------------------------------------------------------------
(* What a settlement and an answer do *)

\* An interrupted Save whose revision never landed is dropped.
Forgets ==
  /\ HasIntent /\ shared[records["S"].intent.rev] = 0
  /\ records' = ClearIntent(records) /\ dirty' = dirty \union {"S"}
  /\ timers' \subseteq Paths
  /\ UNCHANGED <<deletions, queue, step, settling, keep>>

Settles ==
  \/ ~ HasIntent /\ UNCHANGED <<memory, queue, step, settling, keep>>
  \/ Forgets
  \/ HasIntent /\ shared[records["S"].intent.rev] # 0 /\ Completes(TRUE)

LEMMA SettleShape ==
  ASSUME RecordsTypeOK, StoreTypeOK,
         IF HasIntent THEN Settle ELSE UNCHANGED <<memory, queue, step, settling, keep>>
  PROVE  Settles
<1>1. CASE HasIntent /\ shared[records["S"].intent.rev] = 0
  BY <1>1 DEF Settle, Flush, StoreTypeOK, Forgets, Settles, Paths
<1>2. CASE HasIntent /\ shared[records["S"].intent.rev] # 0
  BY <1>2, CompleteShape DEF Settle, Settles
<1>. QED  BY <1>1, <1>2 DEF Settles

\* The step under way gives up: memory keeps its records.
GivesUp ==
  /\ step \in {"children", "selection"}
  /\ records' = records /\ queue' = Tail(queue) /\ deletions' = deletions
  /\ step' = "idle" /\ settling' = FALSE /\ keep' = None
  /\ dirty \subseteq dirty' /\ dirty' \subseteq Paths /\ timers' \subseteq Paths

Answers(ok) ==
  \/ ~ Head(queue).awaited /\ Unawaited(ok)
  \/ Head(queue).awaited /\ IntentWritten(ok)
  \/ Head(queue).awaited /\ UndoWritten(ok)
  \/ Head(queue).awaited /\ FinalWritten(ok)
  \/ Head(queue).awaited /\ ~ ok /\ GivesUp
  \/ /\ Head(queue).awaited /\ ok /\ step = "children"
     /\ keep = None /\ ToSelection(settling, Tail(queue))
  \/ /\ Head(queue).awaited /\ ok /\ step = "children"
     /\ keep = None => records["SEL"] # "S" /\ "SEL" \notin dirty
     /\ ToEnd(settling, Tail(queue), keep)
  \/ /\ Head(queue).awaited /\ ok /\ step = "selection"
     /\ ToEnd(settling, Tail(queue), None)

LEMMA AnswerShape ==
  ASSUME RecordsTypeOK, StoreTypeOK, SaveTypeOK, NEW ok \in BOOLEAN, Answer(ok)
  PROVE  Answers(ok)
<1>0. /\ IF Head(queue).awaited
         THEN \/ IntentWritten(ok) \/ UndoWritten(ok) \/ ChildWritten(ok)
              \/ SelectionWritten(ok) \/ FinalWritten(ok)
         ELSE Unawaited(ok)
      /\ settling \in BOOLEAN
  BY DEF Answer, SaveTypeOK
<1>1. ASSUME NEW p \in Paths, step \in {"children", "selection"}, GiveUp(p)  PROVE GivesUp
  BY <1>1 DEF GiveUp, GivesUp, Flush, StoreTypeOK
<1>2. CASE Head(queue).awaited /\ ChildWritten(ok)
  <2>1. CASE ok
    BY <1>0, <1>2, <2>1, SelectionShape DEF ChildWritten, Answers
  <2>2. CASE ~ ok
    BY <1>1, <1>2, <2>2 DEF ChildWritten, Answers, Paths
  <2>. QED  BY <2>1, <2>2
<1>3. CASE Head(queue).awaited /\ SelectionWritten(ok)
  <2>1. CASE ok
    BY <1>0, <1>3, <2>1, FinishShape DEF SelectionWritten, Answers
  <2>2. CASE ~ ok
    BY <1>1, <1>3, <2>2 DEF SelectionWritten, Answers, Paths
  <2>. QED  BY <2>1, <2>2
<1>. QED  BY <1>0, <1>2, <1>3 DEF Answers
-----------------------------------------------------------------------------
(* The inductive invariant, part by part *)

\* The host has changed the file of the operation it holds; a path is blocked
\* only by a failure.
StoreInv ==
  /\ landed => queue # <<>> /\ disk[Head(queue).path] = Head(queue).value
  /\ failures = 0 => blocked = {}

\* What each status of the window rules out.
StatusInv ==
  /\ status \in {"closed", "loading"} =>
       /\ queue = <<>> /\ step = "idle" /\ keep = None
       /\ dirty = {} /\ timers = {} /\ deletions = {}
  /\ status = "closed" => \A p \in Paths : records[p] = None
  /\ status = "loading" => records = disk
  /\ status # "closed" => records["SEL"] # None
  /\ status = "settled" /\ step # "idle" => settling
  /\ settling => step \in {"children", "selection"}
  /\ calm /\ settling => status = "settled"

PathOf(s) == IF s = "children" THEN "C" ELSE IF s = "selection" THEN "SEL" ELSE "S"

\* A step awaits one operation, on its own path.
AwaitInv ==
  IF step \in {"idle", "shared"} THEN NoneAwaited(queue)
                                 ELSE Awaits(queue, PathOf(step))

\* What each step knows of S and of its revision; S gives way to a record
\* without an intent.
StepInv ==
  /\ step \in {"intent", "shared", "undo"} => records["S"] # None
  /\ step \in {"intent", "shared"} => records["S"].intent # NoIntent
  /\ step = "intent" => shared[records["S"].intent.rev] = 0
  /\ keep # None => step \in {"children", "final"} /\ keep.intent = NoIntent

\* The records of S that memory, disk and the queue hold, and their intents.
SValues == ({disk["S"], records["S"]} \union
            { o.value : o \in { x \in Elements(queue) : x.path = "S" } }) \ {None}

KnownIntents == { v.intent : v \in SValues }

Dated(i) ==
  /\ i.rev <= saves
  /\ i.rev = 0 => i = NoIntent
  /\ i.rev # 0 => i.content # 0 /\ shared[i.rev] \in {0, i.content}

\* A revision has one intent, and holds its content or nothing.
IntentsInv ==
  /\ saves <= MaxSaves /\ \A r \in 1..MaxSaves : r > saves => shared[r] = 0
  /\ \A i \in KnownIntents : Dated(i) /\ \A j \in KnownIntents : i.rev = j.rev => i = j

Carries(v) == v # None /\ v.intent = records["S"].intent

\* While its intent is written, and then while the revision is, the file of S
\* is on its way to naming it, and then names it.
KnownInv ==
  /\ step = "intent" =>
       \A o \in SinceAwaited(queue) : o.path = "S" => Carries(o.value)
  /\ step = "shared" =>
       Carries(disk["S"]) /\ \A o \in Elements(queue) : o.path = "S" => Carries(o.value)

\* S was published as it stands, and nobody was told that it failed.
Published == standing.content # 0 /\ ~ standing.denied

\* Nothing forgets that what S holds was published.
OnceInv == Published =>
  /\ keep = None
  /\ \A i \in KnownIntents :
       i.rev # 0 /\ shared[i.rev] # 0 /\ i.content = standing.content
  /\ records["S"] # None => records["S"].content = standing.content
  /\ status = "closed" => disk["S"] # None /\ disk["S"].content = standing.content

\* What holds whatever the user does.
IInv ==
  /\ PublicationTypeOK /\ StoreInv /\ StatusInv /\ AwaitInv /\ StepInv
  /\ IntentsInv /\ KnownInv /\ OnceInv

\* A cleanup finds S there as long as nothing was discarded, and as it was
\* planned unless S was discarded or edited meanwhile.
CleanupInv == step \in {"children", "selection"} =>
  /\ calm => HasIntent
  /\ latest["S"] # 0 /\ ~ beside =>
       /\ HasIntent /\ shared[records["S"].intent.rev] # 0
       /\ keep = Kept(records["S"])

Holds(record, c) == record # None /\ record.content = c

\* What was typed last is in memory, or on disk while there is none, except
\* what was typed into S beside a cleanup.
EditsInv ==
  IF status = "closed"
  THEN \A p \in {"S", "C"} : latest[p] # 0 => Holds(disk[p], latest[p])
  ELSE /\ latest["C"] # 0 => Holds(records["C"], latest["C"])
       /\ latest["S"] # 0 /\ ~ beside =>
            \/ Holds(records["S"], latest["S"])
            \/ \E r \in 1..MaxSaves : shared[r] = latest["S"]

\* No file of C names S, now or after what the queue holds.
Moved ==
  ~ ParentIsS(disk["C"]) /\ \A o \in Elements(queue) : o.path = "C" => ~ ParentIsS(o.value)

\* S is gone from a window that is open.
Gone == records["S"] = None /\ status # "closed"

\* An intent that no step of this window works on.
LeftBehind == step = "idle" /\ HasIntent /\ status # "loading"

\* S is deleted only when its child has moved.
ChildInv == calm =>
  /\ status # "closed" /\ records["S"] # None =>
       disk["S"] # None /\ \A o \in Elements(queue) : ~ Deletes(o)
  /\ disk["S"] = None \/ Gone => Moved /\ ~ ParentIsS(records["C"])
  /\ step \in {"children", "selection"} => ~ ParentIsS(records["C"])
  /\ step = "children" => \A o \in SinceAwaited(queue) : o.path = "C" => ~ ParentIsS(o.value)
  /\ status # "closed" /\ records["S"] # None /\ ~ ParentIsS(records["C"])
     /\ step # "children" /\ ~ LeftBehind => Moved

\* S is deleted only where the selection does not name it.
SelectionInv == calm /\ failures = 0 =>
  /\ disk["S"] = None =>
       disk["SEL"] # "S" /\ \A o \in Elements(queue) : ~ Selects(o, "S")
  /\ Gone => records["SEL"] # "S" /\ LeavesS(queue, disk["SEL"])
  /\ InOrder(queue, disk["SEL"])
  /\ status # "closed" /\ "SEL" \notin dirty /\ records["SEL"] # "S" =>
       LeavesS(queue, disk["SEL"])
  /\ step = "selection" => records["SEL"] # "S" /\ LeavesS(queue, disk["SEL"])

\* An intent nobody works on was reported.
ReportInv ==
  /\ step \in {"undo", "final"} => ~ HasIntent
  /\ calm /\ status \in {"settled", "ready"} /\ step = "idle" /\ HasIntent => review # {}

\* What holds as well of the steps of a Save, of the edits and of the records.
CalmInv == CleanupInv /\ EditsInv /\ ChildInv /\ SelectionInv /\ ReportInv

LEMMA KeptType ==
  ASSUME NEW s \in Scratches
  PROVE  /\ Kept(s) \in Scratches \union {None}
         /\ Kept(s) # None => Kept(s).content = s.content /\ Kept(s).intent = NoIntent
         /\ NoIntent \in Intents /\ [s EXCEPT !.intent = NoIntent] \in Scratches
         /\ Kept(s) = None => s.content = s.intent.content
<1>1. NoIntent \in Intents
  BY PublicationAssumption DEF NoIntent, Intents
<1>2. Scratch(s.content, NoIntent) \in Scratches /\ [s EXCEPT !.intent = NoIntent] \in Scratches
  BY <1>1 DEF Scratches, Scratch
<1>3. Scratch(s.content, NoIntent) # None
  BY <1>2, NoneAssumption
<1>. QED  BY <1>1, <1>2, <1>3 DEF Kept, Scratch

LEMMA RecordsStep ==
  ASSUME IInv, Next
  PROVE  RecordsTypeOK'
<1>. DEFINE R(m) == /\ DOMAIN m = Paths
                    /\ m["S"] \in Scratches \union {None}
                    /\ m["C"] \in Children \union {None}
                    /\ m["SEL"] \in Selections \union {None}
            D(m) == R(m) /\ m["SEL"] \in Selections
<1>0. R(records) /\ D(disk) /\ RecordsTypeOK /\ StoreTypeOK /\ SaveTypeOK /\ keep \in Scratches \union {None}
  BY DEF IInv, PublicationTypeOK, RecordsTypeOK, SaveTypeOK
<1>a. StepInv /\ StatusInv
  BY DEF IInv
<1>b. ASSUME R(records'), D(disk')  PROVE RecordsTypeOK'
  BY <1>b DEF RecordsTypeOK
<1>c. None \notin Scratches /\ None \notin Children
  BY NoneAssumption
<1>d. records["S"] # None =>
        /\ Kept(records["S"]) \in Scratches \union {None}
        /\ [records["S"] EXCEPT !.intent = NoIntent] \in Scratches
  BY <1>0, KeptType
<1>e. "base" \in Selections /\ "C" \in Selections /\ "S" \in Selections /\ "published" \in Selections
  BY DEF Selections
<1>f. records["S"] # None => R(ClearIntent(records))
  BY <1>0, <1>d DEF ClearIntent, Paths
<1>g. ASSUME NEW t, ToChildren(t)  PROVE R(records')
  <2>1. records'["C"] \in Children
    BY <1>0, <1>g DEF ToChildren, Children
  <2>. QED  BY <1>0, <1>g, <2>1 DEF ToChildren, Same
<1>h. ASSUME NEW t, NEW q, ToSelection(t, q)  PROVE R(records')
  BY <1>0, <1>e, <1>h DEF ToSelection, Same
<1>i. ASSUME NEW t, NEW q, NEW k \in Scratches \union {None}, ToEnd(t, q, k)  PROVE R(records')
  BY <1>0, <1>i DEF ToEnd, Same
<1>j. ASSUME NEW t, records["S"] # None, Completes(t)  PROVE R(records')
  BY <1>d, <1>g, <1>h, <1>i, <1>j DEF Completes
<1>k. ASSUME Settles  PROVE R(records')
  BY <1>0, <1>f, <1>j, <1>k DEF Settles, Forgets, HasIntent, memory
<1>. HIDE DEF R, D
<1>1. ASSUME NEW c \in Contents, EditS(c)  PROVE RecordsTypeOK'
  <2>1. [records["S"] EXCEPT !.content = c] \in Scratches
    BY <1>0, <1>1 DEF EditS, R, Scratches
  <2>2. R(records')
    BY <1>0, <1>1, <2>1 DEF EditS, Schedule, R, Paths
  <2>. QED  BY <1>0, <1>1, <1>b, <2>2 DEF EditS
<1>2. ASSUME NEW c \in Contents, EditC(c)  PROVE RecordsTypeOK'
  <2>1. [records["C"] EXCEPT !.content = c] \in Children
    BY <1>0, <1>2 DEF EditC, R, Children
  <2>2. R(records')
    BY <1>0, <1>2, <2>1 DEF EditC, Schedule, R, Paths
  <2>. QED  BY <1>0, <1>2, <1>b, <2>2 DEF EditC
<1>3. ASSUME NEW c \in Contents, Branch(c)  PROVE RecordsTypeOK'
  <2>1. Child(c, "S") \in Children
    BY DEF Child, Children
  <2>2. R(records')
    BY <1>0, <1>3, <1>e, <2>1 DEF Branch, Schedule, R, Paths
  <2>. QED  BY <1>0, <1>3, <1>b, <2>2 DEF Branch
<1>4. ASSUME NEW s \in Selections, Select(s)  PROVE RecordsTypeOK'
  <2>2. R(records')
    BY <1>0, <1>4 DEF Select, Schedule, R, Paths
  <2>. QED  BY <1>0, <1>4, <1>b, <2>2 DEF Select
<1>5. CASE DiscardS
  <2>. DEFINE moved  == Reparented(records, "base")
              chosen == [moved EXCEPT !["S"] = None,
                           !["SEL"] = IF @ = "S" THEN "base" ELSE @]
  <2>1. R(moved)
    <3>1. records["C"] # None => [records["C"] EXCEPT !.parent = "base"] \in Children
      BY <1>0 DEF R, Children
    <3>. QED  BY <1>0, <3>1 DEF Reparented, R, Paths
  <2>2. R(chosen)
    BY <1>e, <2>1 DEF R, Paths
  <2>3. records' = chosen /\ disk' = disk
    BY <1>5 DEF DiscardS
  <2>. QED  BY <1>0, <1>b, <2>2, <2>3
<1>6. CASE DiscardC
  <2>. DEFINE chosen == [records EXCEPT !["C"] = None,
                           !["SEL"] = IF @ = "C" THEN records["C"].parent ELSE @]
  <2>1. records["C"].parent \in Selections
    BY <1>0, <1>6 DEF DiscardC, R, Children, Selections
  <2>2. R(chosen)
    BY <1>0, <2>1 DEF R, Paths
  <2>3. records' = chosen /\ disk' = disk
    BY <1>6 DEF DiscardC
  <2>. QED  BY <1>0, <1>b, <2>2, <2>3
<1>7. CASE Save
  <2>. DEFINE intent == [rev |-> saves + 1, content |-> records["S"].content]
  <2>1. saves + 1 \in 0..MaxSaves
    BY <1>7, PublicationAssumption DEF Save, IInv, PublicationTypeOK, SaveTypeOK
  <2>2. intent \in Intents /\ records["S"] \in Scratches
    BY <1>0, <1>7, <2>1 DEF Save, R, Scratches, Intents
  <2>3. [records["S"] EXCEPT !.intent = intent] \in Scratches
    BY <2>2 DEF Scratches
  <2>4. records' = [records EXCEPT !["S"].intent = intent] /\ disk' = disk
    BY <1>7 DEF Save, Persist
  <2>5. R(records')
    BY <1>0, <2>3, <2>4 DEF R, Paths
  <2>. QED  BY <1>0, <1>b, <2>4, <2>5
<1>8. CASE RetrySettle
  BY <1>0, <1>8, <1>b, <1>k, SettleShape DEF RetrySettle
<1>9. ASSUME NEW p \in Paths, RetryWrite(p)  PROVE RecordsTypeOK'
  BY <1>0, <1>9, <1>b DEF RetryWrite
<1>10. ASSUME NEW p \in Paths, Fire(p)  PROVE RecordsTypeOK'
  BY <1>0, <1>10, <1>b DEF Fire
<1>11. CASE Land
  <2>1. Head(queue) \in Operations
    BY <1>0, <1>11, Popped DEF Land, StoreTypeOK
  <2>2. D(disk')
    BY <1>0, <1>11, <2>1 DEF Land, Operations, D, R, Paths
  <2>. QED  BY <1>0, <1>11, <1>b, <2>2 DEF Land, memory
<1>12. ASSUME NEW ok \in BOOLEAN, Answer(ok)  PROVE RecordsTypeOK'
  <2>1. disk' = disk /\ Answers(ok)
    BY <1>0, <1>12, AnswerShape DEF Answer
  <2>2. CASE Head(queue).awaited /\ IntentWritten(ok)
    BY <1>0, <1>a, <1>b, <1>f, <2>1, <2>2 DEF IntentWritten, StepInv
  <2>3. CASE Head(queue).awaited /\ FinalWritten(ok)
    <3>1. R(records')
      BY <1>0, <1>e, <2>3 DEF FinalWritten, R, Paths
    <3>. QED  BY <1>0, <1>b, <2>1, <3>1
  <2>4. R(records') \/ (~ Head(queue).awaited /\ Unawaited(ok)) \/ (Head(queue).awaited /\ UndoWritten(ok)) \/ GivesUp
    BY <1>0, <1>h, <1>i, <2>1, <2>2, <2>3, <1>b DEF Answers, RecordsTypeOK, R
  <2>5. CASE Unawaited(ok) \/ UndoWritten(ok) \/ GivesUp
    BY <1>0, <1>b, <2>1, <2>5 DEF Unawaited, UndoWritten, GivesUp
  <2>. QED  BY <1>0, <1>b, <2>1, <2>4, <2>5
<1>13. CASE SharedLands
  BY <1>0, <1>13, <1>b DEF SharedLands, memory
<1>14. CASE SharedRefused
  BY <1>0, <1>14, <1>a, <1>b, <1>f DEF SharedRefused, Persist, StepInv
<1>15. CASE SharedConfirmed
  BY <1>0, <1>15, <1>a, <1>b, <1>j, CompleteShape DEF SharedConfirmed, StepInv
<1>16. CASE Crash
  <2>1. R(records') /\ disk' = disk
    BY <1>16 DEF Crash, R, Paths
  <2>. QED  BY <1>0, <1>b, <2>1
<1>17. CASE Open
  BY <1>0, <1>17, <1>b DEF Open, D
<1>18. CASE SettleAtOpen
  BY <1>0, <1>18, <1>b, <1>k, SettleShape DEF SettleAtOpen
<1>19. CASE Ready
  BY <1>0, <1>19, <1>b DEF Ready, memory
<1>. QED
  BY <1>1, <1>2, <1>3, <1>4, <1>5, <1>6, <1>7, <1>8, <1>9, <1>10, <1>11, <1>12,
     <1>13, <1>14, <1>15, <1>16, <1>17, <1>18, <1>19 DEF Next, User
LEMMA StatusStep ==
  ASSUME IInv, Next
  PROVE  StatusInv'
<1>0. /\ RecordsTypeOK /\ StoreTypeOK /\ SaveTypeOK /\ WindowTypeOK /\ StatusInv /\ StepInv
      /\ DOMAIN records = Paths /\ DOMAIN disk = Paths
      /\ None \notin Selections /\ disk["SEL"] # None
      /\ status \in {"closed", "loading", "settled", "ready"}
      /\ settling \in BOOLEAN /\ calm \in BOOLEAN
  BY NoneAssumption
     DEF IInv, PublicationTypeOK, RecordsTypeOK, SaveTypeOK, WindowTypeOK
<1>e. "base" \in Selections /\ "C" \in Selections /\ "S" \in Selections /\ "published" \in Selections
  BY DEF Selections
\* A window that was ready stays so.
<1>r. ASSUME status' = "ready", records'["SEL"] # None, settling' \in BOOLEAN,
             settling' => step' \in {"children", "selection"},
             calm' => settling' = FALSE
      PROVE  StatusInv'
  BY <1>r DEF StatusInv
<1>s. ASSUME status = "ready"
      PROVE  /\ records["SEL"] # None
             /\ settling => step \in {"children", "selection"}
             /\ calm => settling = FALSE
  BY <1>s, <1>0 DEF StatusInv
<1>k. ASSUME Settles, records["SEL"] # None, step = "idle"
      PROVE  /\ records'["SEL"] # None /\ settling' \in BOOLEAN
             /\ settling' => step' \in {"children", "selection"}
             /\ step' # "idle" => settling'
  <2>1. settling = FALSE
    BY <1>0, <1>k DEF StatusInv
  <2>2. CASE Forgets
    BY <1>0, <1>k, <2>1, <2>2 DEF Forgets, ClearIntent, Paths
  <2>3. CASE Completes(TRUE)
    BY <1>0, <1>k, <1>e, <2>3 DEF Completes, ToChildren, ToSelection, ToEnd, Same
  <2>. QED  BY <1>k, <2>1, <2>2, <2>3 DEF Settles, memory
<1>1. ASSUME NEW c \in Contents, EditS(c)  PROVE StatusInv'
  BY <1>0, <1>1, <1>r, <1>s DEF EditS, Schedule, Paths
<1>2. ASSUME NEW c \in Contents, EditC(c)  PROVE StatusInv'
  BY <1>0, <1>2, <1>r, <1>s DEF EditC, Schedule, Paths
<1>3. ASSUME NEW c \in Contents, Branch(c)  PROVE StatusInv'
  BY <1>0, <1>3, <1>r, <1>s, <1>e DEF Branch, Schedule, Paths
<1>4. ASSUME NEW s \in Selections, Select(s)  PROVE StatusInv'
  BY <1>0, <1>4, <1>r, <1>s DEF Select, Schedule, Paths
<1>5. CASE DiscardS
  <2>. DEFINE moved  == Reparented(records, "base")
              chosen == [moved EXCEPT !["S"] = None,
                           !["SEL"] = IF @ = "S" THEN "base" ELSE @]
  <2>1. DOMAIN moved = Paths /\ moved["SEL"] = records["SEL"]
    BY <1>0 DEF Reparented, Paths
  <2>2. chosen["SEL"] = IF moved["SEL"] = "S" THEN "base" ELSE moved["SEL"]
    BY <2>1 DEF Paths
  <2>3. records' = chosen /\ calm' = FALSE /\ UNCHANGED <<status, step, settling>> /\ status = "ready"
    BY <1>5 DEF DiscardS
  <2>. QED  BY <1>0, <1>e, <1>r, <1>s, <2>1, <2>2, <2>3
<1>6. CASE DiscardC
  <2>1. records["C"].parent \in Selections
    BY <1>6, <1>0 DEF DiscardC, RecordsTypeOK, Children, Selections
  <2>2. records'["SEL"] = IF records["SEL"] = "C" THEN records["C"].parent ELSE records["SEL"]
    BY <1>0, <1>6 DEF DiscardC, Paths
  <2>3. calm' = FALSE /\ UNCHANGED <<status, step, settling>> /\ status = "ready"
    BY <1>6 DEF DiscardC
  <2>. QED  BY <1>0, <1>r, <1>s, <2>1, <2>2, <2>3
<1>7. CASE Save
  <2>1. records'["SEL"] = records["SEL"]
    BY <1>0, <1>7 DEF Save, Persist, Paths
  <2>. QED  BY <1>0, <1>7, <1>r, <1>s, <2>1 DEF Save
<1>8. CASE RetrySettle
  <2>1. Settles /\ calm' = FALSE /\ status' = "ready" /\ status = "ready" /\ step = "idle"
    BY <1>0, <1>8, SettleShape DEF RetrySettle
  <2>. QED  BY <1>r, <1>s, <1>k, <2>1
<1>9. ASSUME NEW p \in Paths, RetryWrite(p)  PROVE StatusInv'
  BY <1>0, <1>9, <1>r, <1>s DEF RetryWrite
<1>10. ASSUME NEW p \in Paths, Fire(p)  PROVE StatusInv'
  BY <1>0, <1>10, <1>r, <1>s DEF Fire
<1>11. CASE Land
  BY <1>0, <1>11 DEF Land, memory, StatusInv
<1>12. ASSUME NEW ok \in BOOLEAN, Answer(ok)  PROVE StatusInv'
  <2>1. /\ Answers(ok) /\ status' = status /\ calm' = calm
        /\ status # "closed" /\ status # "loading" /\ records["SEL"] # None
    BY <1>0, <1>12, AnswerShape DEF Answer, StatusInv
  <2>. DEFINE Fine == /\ records'["SEL"] # None /\ settling' \in BOOLEAN
                      /\ settling' => settling /\ step' \in {"children", "selection"}
                      /\ step' # "idle" /\ settling => settling'
                      /\ step' # "idle" => step # "idle"
  <2>2. Fine
    <3>1. CASE IntentWritten(ok)
      BY <1>0, <2>1, <3>1 DEF IntentWritten, StatusInv, ClearIntent, Paths
    <3>2. CASE FinalWritten(ok)
      BY <1>0, <1>e, <2>1, <3>2 DEF FinalWritten, StatusInv, Paths
    <3>3. CASE UndoWritten(ok)
      BY <1>0, <2>1, <3>3 DEF UndoWritten, StatusInv
    <3>6. CASE Unawaited(ok)
      BY <1>0, <2>1, <3>6 DEF Unawaited, StatusInv
    <3>7. CASE GivesUp
      BY <1>0, <2>1, <3>7 DEF GivesUp, StatusInv
    <3>4. CASE step = "children" /\ ToSelection(settling, Tail(queue))
      BY <1>0, <1>e, <2>1, <3>4 DEF ToSelection, StatusInv
    <3>5. ASSUME NEW k, step \in {"children", "selection"}, ToEnd(settling, Tail(queue), k)
          PROVE  Fine
      BY <1>0, <2>1, <3>5 DEF ToEnd, Same, StatusInv
    <3>. HIDE DEF Fine
    <3>. QED  BY <2>1, <3>1, <3>2, <3>3, <3>4, <3>5, <3>6, <3>7 DEF Answers
  <2>. QED  BY <1>0, <2>1, <2>2 DEF StatusInv
<1>13. CASE SharedLands
  BY <1>0, <1>13, <1>r, <1>s DEF SharedLands, memory
<1>14. CASE SharedRefused
  <2>1. records'["SEL"] = records["SEL"]
    BY <1>0, <1>14 DEF SharedRefused, Persist, ClearIntent, Paths
  <2>. QED  BY <1>0, <1>14, <1>r, <1>s, <2>1 DEF SharedRefused, StatusInv
<1>15. CASE SharedConfirmed
  <2>1. /\ Completes(FALSE) /\ status = "ready" /\ status' = "ready" /\ calm' = calm
        /\ settling = FALSE
    BY <1>0, <1>15, CompleteShape DEF SharedConfirmed, StatusInv
  <2>. QED  BY <1>0, <1>e, <1>r, <1>s, <2>1
            DEF Completes, ToChildren, ToSelection, ToEnd, Same
<1>16. CASE Crash
  BY <1>0, <1>16 DEF Crash, StatusInv
<1>17. CASE Open
  BY <1>0, <1>17 DEF Open, StatusInv, store
<1>18. CASE SettleAtOpen
  <2>1. Settles /\ calm' = calm /\ status' = "settled" /\ status = "loading"
    BY <1>0, <1>18, SettleShape DEF SettleAtOpen
  <2>2. step = "idle" /\ records["SEL"] # None
    BY <1>0, <2>1 DEF StatusInv
  <2>. QED  BY <1>k, <2>1, <2>2 DEF StatusInv
<1>19. CASE Ready
  BY <1>0, <1>19 DEF Ready, StatusInv, memory
<1>. QED
  BY <1>1, <1>2, <1>3, <1>4, <1>5, <1>6, <1>7, <1>8, <1>9, <1>10, <1>11, <1>12,
     <1>13, <1>14, <1>15, <1>16, <1>17, <1>18, <1>19 DEF Next, User
-----------------------------------------------------------------------------
(* What a step does to the queue and to disk *)

QueueSteps ==
  \/ queue' = queue
  \/ queue' = <<>>
  \/ queue # <<>> /\ queue' = Tail(queue)
  \/ /\ status' # "closed"
     /\ \E p \in Paths, a \in BOOLEAN : queue' = Append(queue, NewOp(p, a))
  \/ /\ status' # "closed" /\ queue # <<>>
     /\ \E p \in Paths : queue' = Append(Tail(queue), NewOp(p, TRUE))

LEMMA QueueStep ==
  ASSUME IInv, Next
  PROVE  QueueSteps
<1>0. /\ RecordsTypeOK /\ StoreTypeOK /\ SaveTypeOK /\ StatusInv
      /\ "S" \in Paths /\ "C" \in Paths /\ "SEL" \in Paths
  BY DEF IInv, PublicationTypeOK, Paths
<1>a. ASSUME NEW p \in Paths, NEW a \in BOOLEAN, NEW m, records' = m
      PROVE  Op(p, m, a) = NewOp(p, a)
  BY <1>a DEF Op, NewOp
<1>b. ASSUME NEW p \in Paths, NEW a \in BOOLEAN, status' # "closed",
             queue' = Append(queue, NewOp(p, a))
      PROVE  QueueSteps
  BY <1>b DEF QueueSteps
<1>c. ASSUME NEW t \in BOOLEAN, status' # "closed", Completes(t)  PROVE QueueSteps
  BY <1>0, <1>b, <1>c DEF Completes, ToChildren, ToSelection, ToEnd, QueueSteps
<1>d. ASSUME Settles, status' # "closed"  PROVE QueueSteps
  BY <1>c, <1>d DEF Settles, Forgets, QueueSteps
<1>1. ASSUME NEW c \in Contents, EditS(c) \/ EditC(c) \/ Branch(c)  PROVE QueueSteps
  BY <1>1 DEF EditS, EditC, Branch, store, QueueSteps
<1>2. ASSUME NEW s \in Selections, Select(s)  PROVE QueueSteps
  BY <1>2 DEF Select, store, QueueSteps
<1>3. CASE DiscardS
  <2>1. queue' = Append(queue, Op("S", records', FALSE)) /\ status' = "ready"
    BY <1>3 DEF DiscardS
  <2>. QED  BY <1>0, <1>a, <1>b, <2>1
<1>4. CASE DiscardC
  <2>1. queue' = Append(queue, Op("C", records', FALSE)) /\ status' = "ready"
    BY <1>4 DEF DiscardC
  <2>. QED  BY <1>0, <1>a, <1>b, <2>1
<1>5. CASE Save
  <2>1. queue' = Append(queue, Op("S", records', TRUE)) /\ status' = "ready"
    BY <1>5 DEF Save, Persist
  <2>. QED  BY <1>0, <1>a, <1>b, <2>1
<1>6. CASE RetrySettle
  BY <1>0, <1>6, <1>d, SettleShape DEF RetrySettle
<1>7. ASSUME NEW p \in Paths, RetryWrite(p)  PROVE QueueSteps
  <2>1. queue = <<>> /\ records' = records /\ status' = "ready"
        /\ queue' = IF disk[p] = records[p] THEN queue ELSE <<Op(p, records, FALSE)>>
    BY <1>7 DEF RetryWrite
  <2>2. <<Op(p, records, FALSE)>> = Append(<<>>, Op(p, records, FALSE))
    OBVIOUS
  <2>3. Op(p, records, FALSE) = NewOp(p, FALSE)
    BY <2>1 DEF Op, NewOp
  <2>. QED  BY <1>b, <2>1, <2>2, <2>3 DEF QueueSteps
<1>8. ASSUME NEW p \in Paths, Fire(p)  PROVE QueueSteps
  <2>1. records' = records /\ status' = "ready"
        /\ queue' \in {queue, Append(queue, Op(p, records, FALSE))}
    BY <1>8 DEF Fire
  <2>2. Op(p, records, FALSE) = NewOp(p, FALSE)
    BY <2>1 DEF Op, NewOp
  <2>. QED  BY <1>b, <2>1, <2>2 DEF QueueSteps
<1>9. ASSUME NEW ok \in BOOLEAN, Answer(ok)  PROVE QueueSteps
  <2>1. Answers(ok) /\ queue # <<>> /\ status' # "closed"
    BY <1>0, <1>9, AnswerShape DEF Answer, StatusInv
  <2>. QED
    BY <1>0, <2>1 DEF Answers, IntentWritten, UndoWritten, FinalWritten, Unawaited,
                      GivesUp, ToSelection, ToEnd, QueueSteps
<1>10. CASE SharedRefused
  <2>1. queue' = Append(queue, Op("S", records', TRUE)) /\ status' = "ready"
    BY <1>10 DEF SharedRefused, Persist
  <2>. QED  BY <1>0, <1>a, <1>b, <2>1
<1>11. CASE SharedConfirmed
  BY <1>0, <1>11, <1>c, CompleteShape DEF SharedConfirmed
<1>12. CASE Land \/ SharedLands \/ Crash \/ Open \/ Ready
  BY <1>12 DEF Land, SharedLands, Crash, Open, Ready, store, QueueSteps
<1>13. CASE SettleAtOpen
  BY <1>0, <1>13, <1>d, SettleShape DEF SettleAtOpen
<1>. QED
  BY <1>1, <1>2, <1>3, <1>4, <1>5, <1>6, <1>7, <1>8, <1>9, <1>10, <1>11, <1>12,
     <1>13 DEF Next, User

LEMMA QueueType ==
  ASSUME IInv, Next
  PROVE  /\ queue' \in Seq(Operations) /\ queue \in Seq(Operations)
         /\ queue # <<>> => Tail(queue) \in Seq(Operations) /\ Head(queue) \in Operations
         /\ status' # "closed" => \A p \in Paths, a \in BOOLEAN : NewOp(p, a) \in Operations
<1>1. queue \in Seq(Operations)
  BY DEF IInv, PublicationTypeOK, StoreTypeOK
<1>2. queue # <<>> => Tail(queue) \in Seq(Operations) /\ Head(queue) \in Operations
  BY <1>1, Popped
<1>3. ASSUME NEW p \in Paths, NEW a \in BOOLEAN, status' # "closed"
      PROVE  NewOp(p, a) \in Operations
  BY <1>3, RecordsStep, StatusStep DEF RecordsTypeOK, StatusInv, NewOp, Operations, Paths
<1>4. queue' \in Seq(Operations)
  <2>1. \A q \in Seq(Operations), o \in Operations : Append(q, o) \in Seq(Operations)
    BY Pushed
  <2>2. <<>> \in Seq(Operations)
    OBVIOUS
  <2>. QED  BY <1>1, <1>2, <1>3, <2>1, <2>2, QueueStep DEF QueueSteps
<1>. QED  BY <1>1, <1>2, <1>3, <1>4

\* The queue grows by what memory holds, and disk by what the queue holds.
LEMMA Growth ==
  ASSUME IInv, Next
  PROVE  /\ \A o \in Elements(queue') : o \notin Elements(queue) =>
              /\ status' # "closed"
              /\ \E p \in Paths, a \in BOOLEAN : o = NewOp(p, a)
         /\ DOMAIN disk = Paths
         /\ \/ disk' = disk
            \/ /\ queue # <<>> /\ Head(queue) \in Elements(queue)
               /\ Head(queue) \in Operations
               /\ disk' = [disk EXCEPT ![Head(queue).path] = Head(queue).value]
<1>. DEFINE New(o) == /\ status' # "closed"
                      /\ \E p \in Paths, a \in BOOLEAN : o = NewOp(p, a)
<1>1. ASSUME NEW o \in Elements(queue'), o \notin Elements(queue)
      PROVE  New(o)
  <2>1. CASE queue' = queue \/ queue' = <<>>
    BY <1>1, <2>1, EmptyQueue
  <2>2. CASE queue # <<>> /\ queue' = Tail(queue)
    BY <1>1, <2>2, QueueType, Popped
  <2>3. ASSUME NEW p \in Paths, NEW a \in BOOLEAN, status' # "closed",
               queue' = Append(queue, NewOp(p, a))
        PROVE  New(o)
    BY <1>1, <2>3, QueueType, Pushed
  <2>4. ASSUME NEW p \in Paths, status' # "closed", queue # <<>>,
               queue' = Append(Tail(queue), NewOp(p, TRUE))
        PROVE  New(o)
    <3>1. Elements(queue') = Elements(Tail(queue)) \union {NewOp(p, TRUE)}
      BY <2>4, QueueType, Pushed
    <3>2. Elements(Tail(queue)) \subseteq Elements(queue)
      BY <2>4, QueueType, Popped
    <3>. QED  BY <1>1, <2>4, <3>1, <3>2
  <2>. QED  BY <2>1, <2>2, <2>3, <2>4, QueueStep DEF QueueSteps
<1>2. CASE Land
  BY <1>1, <1>2, QueueType, Popped DEF Land, IInv, PublicationTypeOK, RecordsTypeOK
<1>3. CASE ~ Land
  <2>1. disk' = disk
    BY <1>3 DEF Next, User, EditS, EditC, Branch, Select, DiscardS, DiscardC, Save,
                RetrySettle, RetryWrite, Fire, Answer, SharedLands, SharedRefused,
                SharedConfirmed, Crash, Open, SettleAtOpen, Ready
  <2>. QED  BY <1>1, <2>1 DEF IInv, PublicationTypeOK, RecordsTypeOK
<1>. QED  BY <1>2, <1>3
LEMMA StoreStep ==
  ASSUME IInv, Next
  PROVE  StoreTypeOK' /\ StoreInv'
<1>0. /\ RecordsTypeOK /\ StoreTypeOK /\ SaveTypeOK /\ StatusInv /\ StoreInv /\ DOMAIN disk = Paths
      /\ queue' \in Seq(Operations)
      /\ "S" \in Paths /\ "C" \in Paths /\ "SEL" \in Paths
      /\ failures \in Nat
  BY QueueType DEF IInv, PublicationTypeOK, RecordsTypeOK, SaveTypeOK, Paths
<1>q. /\ queue # <<>> => Head(queue) \in Operations /\ Head(queue).path \in Paths
      /\ \A x : queue # <<>> =>
           Append(queue, x) # <<>> /\ Head(Append(queue, x)) = Head(queue)
  BY <1>0, QueueType DEF Operations
<1>. DEFINE Sets == dirty' \subseteq Paths /\ deletions' \subseteq Paths /\ timers' \subseteq Paths
            Front == UNCHANGED <<disk, landed, blocked, failures>> /\
                       (queue # <<>> => queue' # <<>> /\ Head(queue') = Head(queue))
<1>a. ASSUME Sets, Front  PROVE StoreTypeOK' /\ StoreInv'
  BY <1>0, <1>a DEF StoreTypeOK, StoreInv
<1>b. ASSUME NEW t \in BOOLEAN, Completes(t)
      PROVE  Sets /\ (queue # <<>> => queue' # <<>> /\ Head(queue') = Head(queue))
  BY <1>0, <1>b, <1>q DEF Completes, ToChildren, ToSelection, ToEnd, StoreTypeOK
<1>c. ASSUME Settles
      PROVE  Sets /\ (queue # <<>> => queue' # <<>> /\ Head(queue') = Head(queue))
  BY <1>0, <1>b, <1>c DEF Settles, Forgets, StoreTypeOK, memory
<1>1. ASSUME NEW c \in Contents, EditS(c) \/ EditC(c) \/ Branch(c)  PROVE StoreTypeOK' /\ StoreInv'
  BY <1>0, <1>a, <1>1 DEF EditS, EditC, Branch, Schedule, store, StoreTypeOK
<1>2. ASSUME NEW s \in Selections, Select(s)  PROVE StoreTypeOK' /\ StoreInv'
  BY <1>0, <1>a, <1>2 DEF Select, Schedule, store, StoreTypeOK
<1>3. CASE DiscardS
  BY <1>0, <1>a, <1>q, <1>3 DEF DiscardS, StoreTypeOK
<1>4. CASE DiscardC
  BY <1>0, <1>a, <1>q, <1>4 DEF DiscardC, StoreTypeOK
<1>5. CASE Save
  BY <1>0, <1>a, <1>q, <1>5 DEF Save, Persist, StoreTypeOK
<1>6. CASE RetrySettle
  BY <1>0, <1>6, <1>a, <1>c, SettleShape DEF RetrySettle, bounds
<1>7. ASSUME NEW p \in Paths, RetryWrite(p)  PROVE StoreTypeOK' /\ StoreInv'
  BY <1>0, <1>7 DEF RetryWrite, StoreTypeOK, StoreInv, bounds
<1>8. ASSUME NEW p \in Paths, Fire(p)  PROVE StoreTypeOK' /\ StoreInv'
  <2>1. Sets
    BY <1>0, <1>8 DEF Fire, StoreTypeOK
  <2>2. Front
    BY <1>0, <1>8, <1>q DEF Fire, bounds
  <2>. QED  BY <1>a, <2>1, <2>2
<1>9. CASE Land
  BY <1>0, <1>9, <1>q DEF Land, memory, StoreTypeOK, StoreInv, bounds
<1>10. ASSUME NEW ok \in BOOLEAN, Answer(ok)  PROVE StoreTypeOK' /\ StoreInv'
  <2>1. /\ Answers(ok) /\ queue # <<>> /\ landed' = FALSE /\ disk' = disk
        /\ IF ok THEN UNCHANGED <<blocked, failures>>
           ELSE /\ blocked' = blocked \union {Head(queue).path}
                /\ Head(queue).path \in blocked \/ Fails
                /\ failures' = IF Head(queue).path \in blocked THEN failures ELSE failures + 1
    BY <1>0, <1>10, AnswerShape DEF Answer
  <2>2. Sets
    BY <1>0, <1>q, <2>1 DEF Answers, IntentWritten, UndoWritten, FinalWritten, Unawaited,
                      GivesUp, ToSelection, ToEnd, StoreTypeOK
  <2>3. blocked' \subseteq Paths /\ (failures' = 0 => blocked' = {})
    BY <1>0, <1>q, <2>1 DEF StoreTypeOK, StoreInv
  <2>. QED  BY <1>0, <2>1, <2>2, <2>3 DEF StoreTypeOK, StoreInv
<1>11. CASE SharedRefused
  BY <1>0, <1>a, <1>q, <1>11 DEF SharedRefused, Persist, StoreTypeOK, bounds
<1>12. CASE SharedConfirmed
  BY <1>0, <1>12, <1>a, <1>b, CompleteShape DEF SharedConfirmed, bounds
<1>13. CASE SharedLands \/ Open \/ Ready
  BY <1>0, <1>a, <1>13 DEF SharedLands, Open, Ready, memory, store, bounds, StoreTypeOK
<1>14. CASE Crash
  BY <1>0, <1>14 DEF Crash, StoreTypeOK, StoreInv
<1>15. CASE SettleAtOpen
  BY <1>0, <1>15, <1>a, <1>c, SettleShape DEF SettleAtOpen, bounds
<1>. QED
  BY <1>1, <1>2, <1>3, <1>4, <1>5, <1>6, <1>7, <1>8, <1>9, <1>10, <1>11, <1>12,
     <1>13, <1>14, <1>15 DEF Next, User

LEMMA WindowStep ==
  ASSUME IInv, Next
  PROVE  SaveTypeOK' /\ WindowTypeOK'
<1>0. /\ RecordsTypeOK /\ StoreTypeOK /\ SaveTypeOK /\ WindowTypeOK /\ StatusInv /\ StepInv
      /\ RecordsTypeOK' /\ StatusInv'
      /\ saves \in Nat /\ edits \in Nat /\ failures \in Nat /\ crashes \in Nat
      /\ shared \in [1..MaxSaves -> Contents \union {0}]
      /\ step \in Steps /\ settling \in BOOLEAN /\ keep \in Scratches \union {None}
  BY RecordsStep, StatusStep DEF IInv, PublicationTypeOK, SaveTypeOK
<1>1. status' \in {"closed", "loading", "settled", "ready"}
  BY <1>0 DEF Next, User, EditS, EditC, Branch, Select, DiscardS, DiscardC, Save,
              RetrySettle, RetryWrite, Fire, Land, Answer, SharedLands, SharedRefused,
              SharedConfirmed, Crash, Open, SettleAtOpen, Ready, WindowTypeOK
<1>7. calm' \in BOOLEAN
  <2>1. calm' = calm \/ calm' = FALSE \/ \E b \in BOOLEAN : calm' = (calm /\ b)
    BY DEF Next, User, EditS, EditC, Branch, Select, DiscardS, DiscardC, Save,
              RetrySettle, RetryWrite, Fire, Land, Answer, SharedLands, SharedRefused,
              SharedConfirmed, Crash, Open, SettleAtOpen, Ready
  <2>. QED  BY <1>0, <2>1 DEF WindowTypeOK
<1>8. saves' \in Nat /\ edits' \in Nat /\ failures' \in Nat /\ crashes' \in Nat
  <2>1. saves' \in {saves, saves + 1} /\ edits' \in {edits, edits + 1}
    BY DEF Next, User, EditS, EditC, Branch, Select, DiscardS, DiscardC, Save,
              RetrySettle, RetryWrite, Fire, Land, Answer, SharedLands, SharedRefused,
              SharedConfirmed, Crash, Open, SettleAtOpen, Ready, Edit, bounds
  <2>2. failures' \in {failures, failures + 1} /\ crashes' \in {crashes, crashes + 1}
    BY DEF Next, User, EditS, EditC, Branch, Select, DiscardS, DiscardC, Save,
              RetrySettle, RetryWrite, Fire, Land, Answer, SharedLands, SharedRefused,
              SharedConfirmed, Crash, Open, SettleAtOpen, Ready, bounds
  <2>. QED  BY <1>0, <2>1, <2>2
<1>2. review' \subseteq {"write", "children"}
  <2>1. CASE \E ok \in BOOLEAN : Answer(ok)
    <3>1. PICK ok \in BOOLEAN : Answer(ok)
      BY <2>1
    <3>2. review' \in {review, review \union {"write"} \union {}, review \union {"write"} \union {"children"}}
      BY <3>1 DEF Answer
    <3>. QED  BY <1>0, <3>2 DEF WindowTypeOK
  <2>2. CASE ~ \E ok \in BOOLEAN : Answer(ok)
    BY <1>0, <2>2 DEF Next, User, EditS, EditC, Branch, Select, DiscardS, DiscardC, Save,
              RetrySettle, RetryWrite, Fire, Land, SharedLands, SharedRefused,
              SharedConfirmed, Crash, Open, SettleAtOpen, Ready, WindowTypeOK
  <2>. QED  BY <2>1, <2>2
<1>3. latest' \in [{"S", "C"} -> Contents \union {0}]
  <2>1. CASE Crash
    <3>1. \A p \in {"S", "C"} : disk[p] # None => disk[p].content \in Contents
      BY <1>0 DEF RecordsTypeOK, Scratches, Children
    <3>. QED  BY <2>1, <3>1 DEF Crash
  <2>2. CASE ~ Crash
    BY <1>0, <2>2 DEF Next, User, EditS, EditC, Branch, Select, DiscardS, DiscardC, Save,
              RetrySettle, RetryWrite, Fire, Land, Answer, SharedLands, SharedRefused,
              SharedConfirmed, Open, SettleAtOpen, Ready, WindowTypeOK
  <2>. QED  BY <2>1, <2>2
<1>4. standing' \in Standings
  <2>1. Unpublished \in Standings /\ standing \in Standings
    BY <1>0 DEF Unpublished, Standings, WindowTypeOK
  <2>2. CASE SharedLands
    <3>1. records["S"].intent.content \in Contents \union {0}
      BY <1>0, <2>2 DEF SharedLands, StepInv, RecordsTypeOK, Scratches, Intents
    <3>2. [content |-> records["S"].intent.content, denied |-> FALSE] \in Standings
      BY <3>1 DEF Standings
    <3>. QED  BY <2>1, <2>2, <3>2 DEF SharedLands
  <2>3. CASE SharedRefused
    <3>1. [standing EXCEPT !.denied = standing.content # 0] \in Standings
      BY <2>1 DEF Standings
    <3>. QED  BY <2>3, <3>1 DEF SharedRefused
  <2>4. CASE ~ SharedLands /\ ~ SharedRefused
    BY <2>1, <2>4 DEF Next, User, EditS, EditC, Branch, Select, DiscardS, DiscardC, Save,
              RetrySettle, RetryWrite, Fire, Land, Answer,
              SharedConfirmed, Crash, Open, SettleAtOpen, Ready
  <2>. QED  BY <2>2, <2>3, <2>4
<1>9. outdated' \in BOOLEAN /\ beside' \in BOOLEAN
  <2>1. outdated' \in BOOLEAN
    <3>1. CASE SharedRefused
      BY <3>1 DEF SharedRefused
    <3>2. CASE ~ SharedRefused
      <4>1. outdated' = outdated \/ outdated' = FALSE
        BY <3>2 DEF Next, User, EditS, EditC, Branch, Select, DiscardS, DiscardC, Save,
                RetrySettle, RetryWrite, Fire, Land, Answer, SharedLands,
                SharedConfirmed, Crash, Open, SettleAtOpen, Ready
      <4>. QED  BY <1>0, <4>1 DEF WindowTypeOK
    <3>. QED  BY <3>1, <3>2
  <2>2. beside' \in BOOLEAN
    <3>1. ASSUME NEW c \in Contents, EditS(c)  PROVE beside' \in BOOLEAN
      BY <3>1 DEF EditS, Planned
    <3>2. CASE ~ \E c \in Contents : EditS(c)
      <4>1. beside' = beside \/ beside' = FALSE
        BY <3>2 DEF Next, User, EditC, Branch, Select, DiscardS, DiscardC, Save,
                RetrySettle, RetryWrite, Fire, Land, Answer, SharedLands, SharedRefused,
                SharedConfirmed, Crash, Open, SettleAtOpen, Ready
      <4>. QED  BY <1>0, <4>1 DEF WindowTypeOK
    <3>. QED  BY <3>1, <3>2
  <2>. QED  BY <1>0, <2>1, <2>2 DEF WindowTypeOK
<1>5. shared' \in [1..MaxSaves -> Contents \union {0}]
  <2>1. CASE SharedLands
    <3>1. records["S"].intent.content \in Contents \union {0}
      BY <1>0, <2>1 DEF SharedLands, StepInv, RecordsTypeOK, Scratches, Intents
    <3>. QED  BY <1>0, <2>1, <3>1 DEF SharedLands
  <2>2. CASE ~ SharedLands
    BY <1>0, <2>2 DEF Next, User, EditS, EditC, Branch, Select, DiscardS, DiscardC, Save,
              RetrySettle, RetryWrite, Fire, Land, Answer, SharedRefused,
              SharedConfirmed, Crash, Open, SettleAtOpen, Ready
  <2>. QED  BY <2>1, <2>2
<1>. DEFINE Typed == step' \in Steps /\ settling' \in BOOLEAN /\ keep' \in Scratches \union {None}
<1>6. Typed
  <2>a. ASSUME NEW t \in BOOLEAN, records["S"] # None, Completes(t)  PROVE Typed
    <3>1. Kept(records["S"]) \in Scratches \union {None}
      BY <1>0, <2>a, KeptType DEF RecordsTypeOK
    <3>. QED  BY <2>a, <3>1 DEF Completes, ToChildren, ToSelection, ToEnd, Steps
  <2>b. ASSUME Settles  PROVE Typed
    BY <1>0, <2>a, <2>b DEF Settles, Forgets, HasIntent
  <2>1. CASE RetrySettle \/ SettleAtOpen
    BY <1>0, <2>1, <2>b, SettleShape DEF RetrySettle, SettleAtOpen
  <2>2. CASE SharedConfirmed
    BY <1>0, <2>2, <2>a, CompleteShape DEF SharedConfirmed, StepInv
  <2>3. ASSUME NEW ok \in BOOLEAN, Answer(ok)  PROVE Typed
    <3>1. Answers(ok)
      BY <1>0, <2>3, AnswerShape
    <3>. QED  BY <1>0, <3>1 DEF Answers, IntentWritten, UndoWritten, FinalWritten, Unawaited,
                      GivesUp, ToSelection, ToEnd, Steps
  <2>4. CASE ~ (RetrySettle \/ SettleAtOpen \/ SharedConfirmed \/ \E ok \in BOOLEAN : Answer(ok))
    BY <1>0, <2>4 DEF Next, User, EditS, EditC, Branch, Select, DiscardS, DiscardC, Save,
              RetryWrite, Fire, Land, SharedLands, SharedRefused, Crash, Open, Ready, Steps
  <2>. HIDE DEF Typed
  <2>. QED  BY <2>1, <2>2, <2>3, <2>4
<1>. QED  BY <1>1, <1>2, <1>3, <1>4, <1>5, <1>6, <1>7, <1>8, <1>9 DEF SaveTypeOK, WindowTypeOK
-----------------------------------------------------------------------------
(* Steps, and what they await *)

LEMMA AwaitStep ==
  ASSUME IInv, Next
  PROVE  AwaitInv'
<1>0. /\ RecordsTypeOK /\ StoreTypeOK /\ SaveTypeOK /\ StatusInv /\ AwaitInv
      /\ queue \in Seq(Operations) /\ settling \in BOOLEAN
      /\ "S" \in Paths /\ "C" \in Paths /\ "SEL" \in Paths
  BY QueueType DEF IInv, PublicationTypeOK, SaveTypeOK, Paths
<1>a. ASSUME queue' = queue, step' = step  PROVE AwaitInv'
  BY <1>0, <1>a DEF AwaitInv
<1>b. ASSUME NEW q \in Seq(Operations), NEW p \in Paths, NoneAwaited(q), status' # "closed",
             queue' = Append(q, NewOp(p, TRUE)), step' \notin {"idle", "shared"},
             PathOf(step') = p
      PROVE  AwaitInv'
  <2>1. NewOp(p, TRUE) \in Operations /\ NewOp(p, TRUE).awaited /\ NewOp(p, TRUE).path = p
    BY <1>b, QueueType DEF NewOp
  <2>2. Awaits(queue', p)
    <3>1. PICK o \in Operations : o = NewOp(p, TRUE) /\ o.awaited /\ o.path = p
      BY <2>1
    <3>2. Awaits(Append(q, o), o.path)
      BY <1>b, <3>1, Pushed
    <3>. QED  BY <1>b, <3>1, <3>2
  <2>. QED  BY <1>b, <2>2 DEF AwaitInv
<1>c. ASSUME NEW p \in Paths, status' # "closed",
             queue' = Append(queue, NewOp(p, FALSE)), step' = step
      PROVE  AwaitInv'
  <2>1. NewOp(p, FALSE) \in Operations /\ ~ NewOp(p, FALSE).awaited
    BY <1>c, QueueType DEF NewOp
  <2>2. /\ NoneAwaited(queue) => NoneAwaited(queue')
        /\ \A x : Awaits(queue, x) => Awaits(queue', x)
    BY <1>0, <1>c, <2>1, Pushed
  <2>. QED  BY <1>0, <1>c, <2>2 DEF AwaitInv
<1>d. ASSUME NEW q \in Seq(Operations), NoneAwaited(q), queue' = q, step' \in {"idle", "shared"}
      PROVE  AwaitInv'
  BY <1>d DEF AwaitInv
<1>e. ASSUME NEW t, NEW q \in Seq(Operations), NoneAwaited(q), status' # "closed", NEW k,
             ToSelection(t, q) \/ ToEnd(t, q, k)
      PROVE  AwaitInv'
  BY <1>0, <1>b, <1>d, <1>e DEF ToSelection, ToEnd, PathOf
<1>f. ASSUME NEW t, NoneAwaited(queue), status' # "closed", Completes(t)
      PROVE  AwaitInv'
  <2>1. CASE ToChildren(t)
    BY <1>0, <1>b, <1>f, <2>1 DEF ToChildren, PathOf
  <2>. QED  BY <1>0, <1>e, <1>f, <2>1 DEF Completes
<1>g. ASSUME Settles, step = "idle", status' # "closed"  PROVE AwaitInv'
  BY <1>0, <1>a, <1>f, <1>g DEF Settles, Forgets, AwaitInv
<1>1. ASSUME NEW c \in Contents, EditS(c) \/ EditC(c) \/ Branch(c)  PROVE AwaitInv'
  BY <1>a, <1>1 DEF EditS, EditC, Branch, store
<1>2. ASSUME NEW s \in Selections, Select(s)  PROVE AwaitInv'
  BY <1>a, <1>2 DEF Select, store
<1>3. CASE DiscardS
  <2>1. queue' = Append(queue, NewOp("S", FALSE)) /\ status' = "ready" /\ step' = step
    BY <1>3 DEF DiscardS, Op, NewOp
  <2>. QED  BY <1>0, <1>c, <2>1
<1>4. CASE DiscardC
  <2>1. queue' = Append(queue, NewOp("C", FALSE)) /\ status' = "ready" /\ step' = step
    BY <1>4 DEF DiscardC, Op, NewOp
  <2>. QED  BY <1>0, <1>c, <2>1
<1>5. CASE Save
  <2>1. /\ queue' = Append(queue, NewOp("S", TRUE)) /\ status' = "ready"
        /\ step = "idle" /\ step' = "intent"
    BY <1>5 DEF Save, Persist, Op, NewOp
  <2>. QED  BY <1>0, <1>b, <2>1 DEF AwaitInv, PathOf
<1>6. CASE RetrySettle
  BY <1>0, <1>6, <1>g, SettleShape DEF RetrySettle
<1>7. ASSUME NEW p \in Paths, RetryWrite(p)  PROVE AwaitInv'
  <2>1. queue = <<>> /\ status' = "ready" /\ step' = step
        /\ queue' \in {queue, <<NewOp(p, FALSE)>>}
    BY <1>7 DEF RetryWrite, Op, NewOp
  <2>2. <<NewOp(p, FALSE)>> = Append(<<>>, NewOp(p, FALSE))
    OBVIOUS
  <2>. QED  BY <1>a, <1>c, <2>1, <2>2
<1>8. ASSUME NEW p \in Paths, Fire(p)  PROVE AwaitInv'
  <2>1. status' = "ready" /\ step' = step /\ queue' \in {queue, Append(queue, NewOp(p, FALSE))}
    BY <1>8 DEF Fire, Op, NewOp
  <2>. QED  BY <1>a, <1>c, <2>1
<1>9. CASE Land \/ SharedLands \/ Ready
  BY <1>9, <1>a DEF Land, SharedLands, Ready, store
<1>10. ASSUME NEW ok \in BOOLEAN, Answer(ok)  PROVE AwaitInv'
  <2>1. Answers(ok) /\ queue # <<>> /\ status' # "closed"
    BY <1>0, <1>10, AnswerShape DEF Answer, StatusInv
  <2>2. Tail(queue) \in Seq(Operations)
    BY <1>0, <2>1, Popped
  <2>3. CASE Head(queue).awaited
    <3>1. NoneAwaited(Tail(queue))
      BY <1>0, <2>1, <2>3, Popped DEF AwaitInv
    <3>. QED
      BY <1>d, <1>e, <2>1, <2>2, <2>3, <3>1
         DEF Answers, IntentWritten, UndoWritten, FinalWritten, GivesUp
  <2>4. CASE ~ Head(queue).awaited
    <3>1. queue' = Tail(queue) /\ step' = step
      BY <2>1, <2>4 DEF Answers, Unawaited
    <3>2. /\ NoneAwaited(queue) => NoneAwaited(Tail(queue))
          /\ \A p : Awaits(queue, p) => Awaits(Tail(queue), p)
      BY <1>0, <2>1, <2>4, Popped
    <3>. QED  BY <1>0, <3>1, <3>2 DEF AwaitInv
  <2>. QED  BY <2>3, <2>4
<1>11. CASE SharedRefused
  <2>1. /\ queue' = Append(queue, NewOp("S", TRUE)) /\ status' = "ready"
        /\ step = "shared" /\ step' = "undo"
    BY <1>11 DEF SharedRefused, Persist, Op, NewOp
  <2>. QED  BY <1>0, <1>b, <2>1 DEF AwaitInv, PathOf
<1>12. CASE SharedConfirmed
  BY <1>0, <1>12, <1>f, CompleteShape DEF SharedConfirmed, AwaitInv
<1>13. CASE Crash
  BY <1>13, EmptyQueue DEF Crash, AwaitInv
<1>14. CASE Open
  BY <1>14, <1>a DEF Open, store
<1>15. CASE SettleAtOpen
  BY <1>0, <1>15, <1>g, SettleShape DEF SettleAtOpen, StatusInv
<1>. QED
  BY <1>1, <1>2, <1>3, <1>4, <1>5, <1>6, <1>7, <1>8, <1>9, <1>10, <1>11, <1>12,
     <1>13, <1>14, <1>15 DEF Next, User
LEMMA SaveShape ==
  ASSUME RecordsTypeOK, SaveTypeOK, Save
  PROVE  /\ saves + 1 \in 1..MaxSaves
         /\ records'["S"] # None /\ records'["S"].content = records["S"].content
         /\ records'["S"].intent = [rev |-> saves + 1, content |-> records["S"].content]
         /\ records'["S"].intent # NoIntent /\ records["S"].content \in Contents
         /\ Same("C") /\ Same("SEL")
         /\ queue' = Append(queue, NewOp("S", TRUE))
<1>. DEFINE intent == [rev |-> saves + 1, content |-> records["S"].content]
<1>1. saves + 1 \in 1..MaxSaves /\ saves + 1 # 0
  BY PublicationAssumption DEF Save, SaveTypeOK
<1>2. records["S"] \in Scratches /\ records["S"].content \in Contents
  BY DEF RecordsTypeOK, Save, Scratches
<1>3. intent \in Intents
  BY <1>1, <1>2 DEF Intents
<1>4. [records["S"] EXCEPT !.intent = intent] \in Scratches
  BY <1>2, <1>3 DEF Scratches
<1>5. records' = [records EXCEPT !["S"].intent = intent] /\ queue' = Append(queue, Op("S", records', TRUE))
  BY DEF Save, Persist
<1>6. records'["S"] = [records["S"] EXCEPT !.intent = intent] /\ Same("C") /\ Same("SEL")
  BY <1>5 DEF RecordsTypeOK, Paths, Same
<1>7. records'["S"] # None
  BY <1>4, <1>6, NoneAssumption
<1>8. records'["S"].intent = intent /\ records'["S"].content = records["S"].content
  BY <1>2, <1>6 DEF Scratches
<1>9. intent # NoIntent
  BY <1>1 DEF NoIntent
<1>. QED  BY <1>1, <1>2, <1>5, <1>6, <1>7, <1>8, <1>9 DEF Op, NewOp

LEMMA EditShape ==
  ASSUME RecordsTypeOK, NEW c \in Contents, EditS(c)
  PROVE  /\ records["S"] # None /\ records'["S"] # None
         /\ records'["S"].content = c /\ records'["S"].intent = records["S"].intent
         /\ Same("C") /\ Same("SEL")
<1>1. records["S"] \in Scratches
  BY DEF RecordsTypeOK, EditS
<1>2. [records["S"] EXCEPT !.content = c] \in Scratches
  BY <1>1 DEF Scratches
<1>3. records' = [records EXCEPT !["S"].content = c]
  BY DEF EditS, Schedule
<1>4. records'["S"] = [records["S"] EXCEPT !.content = c] /\ Same("C") /\ Same("SEL")
  BY <1>3 DEF RecordsTypeOK, Paths, Same
<1>. QED  BY <1>1, <1>2, <1>4, NoneAssumption DEF Scratches, EditS

LEMMA ClearShape ==
  ASSUME RecordsTypeOK, records["S"] # None, records' = ClearIntent(records)
  PROVE  /\ records'["S"] # None
         /\ records'["S"].content = records["S"].content /\ records'["S"].intent = NoIntent
         /\ Same("C") /\ Same("SEL")
<1>1. records["S"] \in Scratches
  BY DEF RecordsTypeOK
<1>2. [records["S"] EXCEPT !.intent = NoIntent] \in Scratches
  BY <1>1, KeptType
<1>3. records'["S"] = [records["S"] EXCEPT !.intent = NoIntent] /\ Same("C") /\ Same("SEL")
  BY DEF RecordsTypeOK, Paths, Same, ClearIntent
<1>. QED  BY <1>1, <1>2, <1>3, NoneAssumption DEF Scratches

LEMMA StepsKnow ==
  ASSUME IInv, Next
  PROVE  StepInv'
<1>0. /\ RecordsTypeOK /\ StoreTypeOK /\ SaveTypeOK /\ StatusInv /\ StepInv /\ IntentsInv
      /\ DOMAIN records = Paths /\ saves \in Nat /\ settling \in BOOLEAN
      /\ records["S"] # None => records["S"] \in Scratches /\ records["S"].intent \in Intents
      /\ "S" \in Paths /\ "C" \in Paths /\ "SEL" \in Paths
  BY DEF IInv, PublicationTypeOK, RecordsTypeOK, SaveTypeOK, Paths, Scratches
<1>a. ASSUME Same("S"), shared' = shared, step' = step, keep' = keep  PROVE StepInv'
  BY <1>0, <1>a DEF StepInv, Same
<1>b. ASSUME step' = "idle", keep' = None  PROVE StepInv'
  BY <1>b DEF StepInv
<1>k. ASSUME records["S"] # None
      PROVE  Kept(records["S"]) # None => Kept(records["S"]).intent = NoIntent
  BY <1>0, <1>k, KeptType
<1>c. ASSUME NEW t \in BOOLEAN, records["S"] # None, Completes(t)
      PROVE  StepInv'
  BY <1>c, <1>k DEF Completes, ToChildren, ToSelection, ToEnd, StepInv
<1>d. ASSUME Settles, step = "idle", shared' = shared  PROVE StepInv'
  <2>1. keep = None
    BY <1>0, <1>d DEF StepInv
  <2>. QED  BY <1>b, <1>c, <1>d, <2>1 DEF Settles, Forgets, HasIntent
<1>1. ASSUME NEW c \in Contents, EditS(c)  PROVE StepInv'
  <2>2. records'["S"] # None /\ records'["S"].intent = records["S"].intent
    BY <1>0, <1>1, EditShape
  <2>. QED  BY <1>0, <1>1, <2>2 DEF EditS, StepInv
<1>2. ASSUME NEW c \in Contents, EditC(c) \/ Branch(c)  PROVE StepInv'
  <2>1. Same("S")
    BY <1>0, <1>2 DEF EditC, Branch, Schedule, Same, Paths
  <2>. QED  BY <1>2, <1>a, <2>1 DEF EditC, Branch
<1>3. ASSUME NEW s \in Selections, Select(s)  PROVE StepInv'
  <2>1. Same("S")
    BY <1>0, <1>3 DEF Select, Schedule, Same, Paths
  <2>. QED  BY <1>3, <1>a, <2>1 DEF Select
<1>4. CASE DiscardS
  <2>1. step \notin {"intent", "shared", "undo"}
    BY <1>0, <1>4 DEF DiscardS, Publishing, StatusInv
  <2>. QED  BY <1>0, <1>4, <2>1 DEF DiscardS, StepInv
<1>5. CASE DiscardC
  <2>1. Same("S")
    BY <1>0, <1>5 DEF DiscardC, Same, Paths
  <2>. QED  BY <1>5, <1>a, <2>1 DEF DiscardC
<1>6. CASE Save
  <2>2. records'["S"] # None /\ records'["S"].intent # NoIntent
        /\ records'["S"].intent.rev = saves + 1 /\ saves + 1 \in 1..MaxSaves
    BY <1>0, <1>6, SaveShape
  <2>3. shared[saves + 1] = 0
    BY <1>0, <2>2 DEF IntentsInv
  <2>4. keep = None
    BY <1>0, <1>6 DEF Save, StepInv
  <2>. QED  BY <1>6, <2>2, <2>3, <2>4 DEF Save, StepInv
<1>7. CASE RetrySettle
  BY <1>0, <1>7, <1>d, SettleShape DEF RetrySettle
<1>8. ASSUME NEW p \in Paths, RetryWrite(p) \/ Fire(p)  PROVE StepInv'
  BY <1>a, <1>8 DEF RetryWrite, Fire, Same
<1>9. CASE Land \/ Ready
  BY <1>9, <1>a DEF Land, Ready, memory, Same
<1>10. ASSUME NEW ok \in BOOLEAN, Answer(ok)  PROVE StepInv'
  <2>1. Answers(ok) /\ shared' = shared
    BY <1>0, <1>10, AnswerShape DEF Answer
  <2>2. CASE IntentWritten(ok)
    BY <1>0, <1>b, <2>1, <2>2 DEF IntentWritten, StepInv
  <2>3. CASE UndoWritten(ok) \/ FinalWritten(ok) \/ GivesUp
    BY <1>0, <1>b, <2>3 DEF UndoWritten, FinalWritten, GivesUp, StepInv
  <2>4. CASE Unawaited(ok)
    BY <1>a, <2>1, <2>4 DEF Unawaited, Same
  <2>5. CASE step = "children" /\ keep = None /\ ToSelection(settling, Tail(queue))
    BY <1>0, <2>1, <2>5 DEF ToSelection, StepInv, Same
  <2>6. CASE ToEnd(settling, Tail(queue), keep) \/ ToEnd(settling, Tail(queue), None)
    BY <1>0, <2>6 DEF ToEnd, StepInv
  <2>. QED  BY <2>1, <2>2, <2>3, <2>4, <2>5, <2>6 DEF Answers
<1>11. CASE SharedLands
  BY <1>0, <1>11 DEF SharedLands, StepInv, memory
<1>12. CASE SharedRefused
  <2>2. records'["S"] # None
    BY <1>0, <1>12, ClearShape DEF SharedRefused, Persist, StepInv
  <2>. QED  BY <1>0, <1>12, <2>2 DEF SharedRefused, StepInv
<1>13. CASE SharedConfirmed
  BY <1>0, <1>13, <1>c, CompleteShape DEF SharedConfirmed, StepInv
<1>14. CASE Crash
  BY <1>14, <1>b DEF Crash
<1>15. CASE Open
  BY <1>0, <1>15, <1>b DEF Open, StatusInv
<1>16. CASE SettleAtOpen
  BY <1>0, <1>16, <1>d, SettleShape DEF SettleAtOpen, StatusInv
<1>. QED
  BY <1>1, <1>2, <1>3, <1>4, <1>5, <1>6, <1>7, <1>8, <1>9, <1>10, <1>11, <1>12,
     <1>13, <1>14, <1>15, <1>16 DEF Next, User
-----------------------------------------------------------------------------
(* Intents and revisions *)

LEMMA IntentsGrow ==
  ASSUME IInv, Next
  PROVE  /\ \A v \in SValues' : v \in SValues \/ v = records'["S"]
         /\ \A i \in KnownIntents' : i \in KnownIntents \/ (records'["S"] # None /\ i = records'["S"].intent)
         /\ KnownIntents \subseteq Intents
         /\ records["S"] # None => records["S"].intent \in KnownIntents
         /\ disk["S"] # None => disk["S"].intent \in KnownIntents
<1>0. RecordsTypeOK /\ queue \in Seq(Operations)
  BY QueueType DEF IInv, PublicationTypeOK
<1>1. ASSUME NEW v \in SValues'  PROVE v \in SValues \/ v = records'["S"]
  <2>1. v # None
    BY <1>1 DEF SValues
  <2>2. CASE v = disk'["S"]
    <3>1. disk'["S"] = disk["S"] \/ \E o \in Elements(queue) : o.path = "S" /\ disk'["S"] = o.value
      BY Growth DEF Paths, Operations
    <3>. QED  BY <2>1, <2>2, <3>1 DEF SValues
  <2>3. CASE \E o \in Elements(queue') : o.path = "S" /\ v = o.value
    <3>1. PICK o \in Elements(queue') : o.path = "S" /\ v = o.value
      BY <2>3
    <3>2. CASE o \in Elements(queue)
      BY <2>1, <3>1, <3>2 DEF SValues
    <3>3. CASE o \notin Elements(queue)
      BY <3>1, <3>3, Growth DEF NewOp
    <3>. QED  BY <3>2, <3>3
  <2>. QED  BY <1>1, <2>2, <2>3 DEF SValues
<1>2. \A i \in KnownIntents' : i \in KnownIntents \/ (records'["S"] # None /\ i = records'["S"].intent)
  BY <1>1 DEF KnownIntents, SValues
<1>3. \A v \in SValues : v \in Scratches
  <2>1. \A o \in Elements(queue) : o \in Operations
    BY <1>0 DEF Elements
  <2>2. \A o \in Elements(queue) : o.path = "S" => o.value \in Scratches \union {None}
    BY <2>1 DEF Operations
  <2>. QED  BY <1>0, <2>2 DEF SValues, RecordsTypeOK
<1>4. KnownIntents \subseteq Intents
  BY <1>3 DEF KnownIntents, Scratches
<1>. QED  BY <1>1, <1>2, <1>4 DEF KnownIntents, SValues

\* S keeps an intent that is known, or loses it, unless a Save begins.
LEMMA IntentKept ==
  ASSUME IInv, Next, ~ Save
  PROVE  \/ records'["S"] = None
         \/ records'["S"].intent \in KnownIntents \union {NoIntent}
<1>. DEFINE Known == records'["S"] = None \/ records'["S"].intent \in KnownIntents \union {NoIntent}
<1>0. /\ RecordsTypeOK /\ StoreTypeOK /\ SaveTypeOK /\ StatusInv /\ StepInv
      /\ DOMAIN records = Paths /\ settling \in BOOLEAN
      /\ records["S"] # None => records["S"] \in Scratches /\ records["S"].intent \in KnownIntents
      /\ "S" \in Paths /\ "C" \in Paths /\ "SEL" \in Paths
  BY IntentsGrow DEF IInv, PublicationTypeOK, RecordsTypeOK, SaveTypeOK, Paths
<1>a. ASSUME Same("S")  PROVE Known
  BY <1>0, <1>a DEF Same
<1>b. ASSUME records["S"] # None, records' = ClearIntent(records)  PROVE Known
  BY <1>0, <1>b, ClearShape
<1>c. ASSUME NEW t, records["S"] # None, Completes(t)  PROVE Known
  <2>1. Kept(records["S"]) # None => Kept(records["S"]).intent = NoIntent
    BY <1>0, <1>c, KeptType
  <2>. QED  BY <1>a, <1>c, <2>1 DEF Completes, ToChildren, ToSelection, ToEnd
<1>d. ASSUME Settles  PROVE Known
  BY <1>a, <1>b, <1>c, <1>d DEF Settles, Forgets, HasIntent, memory, Same
<1>. HIDE DEF Known
<1>1. ASSUME NEW c \in Contents, EditS(c)  PROVE Known
  BY <1>0, <1>1, EditShape DEF Known
<1>2. ASSUME NEW c \in Contents, EditC(c) \/ Branch(c)  PROVE Known
  <2>1. Same("S")
    BY <1>0, <1>2 DEF EditC, Branch, Schedule, Same, Paths
  <2>. QED  BY <1>a, <2>1
<1>3. ASSUME NEW s \in Selections, Select(s)  PROVE Known
  <2>1. Same("S")
    BY <1>0, <1>3 DEF Select, Schedule, Same, Paths
  <2>. QED  BY <1>a, <2>1
<1>4. CASE DiscardS
  <2>1. DOMAIN Reparented(records, "base") = Paths
    BY <1>0 DEF Reparented
  <2>2. records'["S"] = None
    BY <1>4, <2>1 DEF DiscardS, Paths
  <2>. QED  BY <2>2 DEF Known
<1>5. CASE DiscardC
  <2>1. Same("S")
    BY <1>0, <1>5 DEF DiscardC, Same, Paths
  <2>. QED  BY <1>a, <2>1 DEF Known
<1>6. CASE RetrySettle \/ SettleAtOpen
  BY <1>0, <1>6, <1>d, SettleShape DEF RetrySettle, SettleAtOpen, Known
<1>7. ASSUME NEW p \in Paths, RetryWrite(p) \/ Fire(p)  PROVE Known
  BY <1>a, <1>7 DEF RetryWrite, Fire, Same
<1>8. CASE Land \/ SharedLands \/ Ready
  BY <1>a, <1>8 DEF Land, SharedLands, Ready, memory, Same, Known
<1>9. ASSUME NEW ok \in BOOLEAN, Answer(ok)  PROVE Known
  <2>1. Answers(ok)
    BY <1>0, <1>9, AnswerShape
  <2>2. CASE IntentWritten(ok)
    BY <1>0, <1>a, <1>b, <2>2 DEF IntentWritten, StepInv, Same
  <2>3. CASE UndoWritten(ok) \/ Unawaited(ok) \/ GivesUp
    BY <1>a, <2>3 DEF UndoWritten, Unawaited, GivesUp, Same
  <2>4. CASE FinalWritten(ok)
    <3>1. Same("S")
      BY <1>0, <2>4 DEF FinalWritten, Same, Paths
    <3>. QED  BY <1>a, <3>1
  <2>5. CASE ToSelection(settling, Tail(queue))
    BY <1>a, <2>5 DEF ToSelection
  <2>6. CASE step = "children" /\ ToEnd(settling, Tail(queue), keep)
    <3>1. keep # None => keep.intent = NoIntent
      BY <1>0 DEF StepInv
    <3>. QED  BY <2>6, <3>1 DEF ToEnd, Known
  <2>7. CASE ToEnd(settling, Tail(queue), None)
    BY <2>7 DEF ToEnd, Known
  <2>. QED  BY <2>1, <2>2, <2>3, <2>4, <2>5, <2>6, <2>7 DEF Answers
<1>10. CASE SharedRefused
  BY <1>0, <1>10, <1>b DEF SharedRefused, Persist, StepInv, Known
<1>11. CASE SharedConfirmed
  BY <1>0, <1>11, <1>c, CompleteShape DEF SharedConfirmed, StepInv, Known
<1>12. CASE Crash
  BY <1>12 DEF Crash, Known, Paths
<1>13. CASE Open
  BY <1>13, IntentsGrow DEF Open, Known
<1>. QED
  BY <1>1, <1>2, <1>3, <1>4, <1>5, <1>6, <1>7, <1>8, <1>9, <1>10, <1>11, <1>12,
     <1>13 DEF Next, User, Known

LEMMA IntentsStep ==
  ASSUME IInv, Next
  PROVE  IntentsInv'
<1>0. /\ RecordsTypeOK /\ SaveTypeOK /\ StepInv /\ IntentsInv
      /\ saves \in Nat /\ MaxSaves \in Nat /\ KnownIntents \subseteq Intents
      /\ shared \in [1..MaxSaves -> Contents \union {0}]
  BY PublicationAssumption, IntentsGrow DEF IInv, PublicationTypeOK, SaveTypeOK
<1>1. CASE Save
  <2>1. /\ saves + 1 \in 1..MaxSaves /\ records["S"].content \in Contents
        /\ records'["S"].intent = [rev |-> saves + 1, content |-> records["S"].content]
    BY <1>0, <1>1, SaveShape
  <2>2. saves' = saves + 1 /\ shared' = shared
    BY <1>1 DEF Save
  <2>. DEFINE new == [rev |-> saves + 1, content |-> records["S"].content]
  <2>3. \A i \in KnownIntents' : i \in KnownIntents \/ i = new
    BY <2>1, IntentsGrow
  <2>4. \A i \in KnownIntents : Dated(i)' /\ i.rev \in Nat /\ i.rev # saves + 1
    BY <1>0, <2>2 DEF IntentsInv, Dated, Intents
  <2>5. \A i : i = new => Dated(i)'
    BY <1>0, <2>1, <2>2, PublicationAssumption DEF IntentsInv, Dated
  <2>6. \A i \in KnownIntents' : Dated(i)'
    BY <2>3, <2>4, <2>5
  <2>7. \A i, j \in KnownIntents' : i.rev = j.rev => i = j
    BY <1>0, <2>3, <2>4 DEF IntentsInv
  <2>. QED  BY <1>0, <2>1, <2>2, <2>6, <2>7 DEF IntentsInv
<1>2. CASE SharedLands
  <2>. DEFINE i0 == records["S"].intent
  <2>1. i0 \in KnownIntents /\ records' = records /\ saves' = saves /\ records["S"] # None
        /\ i0 # NoIntent
    BY <1>0, <1>2, IntentsGrow DEF SharedLands, StepInv, memory, bounds
  <2>2. \A i \in KnownIntents' : i \in KnownIntents
    BY <2>1, IntentsGrow
  <2>3. i0.rev \in 1..MaxSaves /\ i0.rev <= saves /\ i0.content # 0
    BY <1>0, <2>1 DEF IntentsInv, Dated, Intents
  <2>4. shared' = [shared EXCEPT ![i0.rev] = i0.content]
    BY <1>2 DEF SharedLands
  <2>5. \A r \in 1..MaxSaves : shared'[r] = IF r = i0.rev THEN i0.content ELSE shared[r]
    BY <1>0, <2>4
  <2>6. \A i \in KnownIntents : i.rev \in 0..MaxSaves /\ (i.rev = i0.rev => i = i0)
    BY <1>0, <2>1 DEF IntentsInv, Intents
  <2>. HIDE DEF i0
  <2>7. \A i \in KnownIntents : Dated(i)'
    BY <1>0, <2>1, <2>3, <2>5, <2>6 DEF IntentsInv, Dated
  <2>. QED  BY <1>0, <2>1, <2>2, <2>3, <2>5, <2>7 DEF IntentsInv
<1>3. CASE ~ Save /\ ~ SharedLands
  <2>1. saves' = saves /\ shared' = shared
    BY <1>3 DEF Next, User, EditS, EditC, Branch, Select, DiscardS, DiscardC,
                RetrySettle, RetryWrite, Fire, Land, Answer, SharedRefused,
                SharedConfirmed, Crash, Open, SettleAtOpen, Ready, bounds
  <2>2. \A i \in KnownIntents' : i \in KnownIntents \/ i = NoIntent
    BY <1>3, IntentsGrow, IntentKept
  <2>3. \A i \in KnownIntents : Dated(i)'
    BY <1>0, <2>1 DEF IntentsInv, Dated
  <2>4. Dated(NoIntent)'
    BY <1>0, <2>1 DEF Dated, NoIntent
  <2>5. \A i \in KnownIntents' : Dated(i)'
    BY <2>2, <2>3, <2>4
  <2>6. \A i, j \in KnownIntents' : i.rev = j.rev => i = j
    BY <1>0, <2>2 DEF IntentsInv, Dated, NoIntent
  <2>. QED  BY <1>0, <2>1, <2>5, <2>6 DEF IntentsInv
<1>. QED  BY <1>1, <1>2, <1>3
LEMMA SinceGrows ==
  ASSUME IInv, Next
  PROVE  \A o \in SinceAwaited(queue') : o \in SinceAwaited(queue) \/
           (status' # "closed" /\ \E p \in Paths, a \in BOOLEAN : o = NewOp(p, a))
<1>. DEFINE New(o) == status' # "closed" /\ \E p \in Paths, a \in BOOLEAN : o = NewOp(p, a)
<1>. SUFFICES ASSUME NEW o \in SinceAwaited(queue'), o \notin SinceAwaited(queue)
              PROVE  New(o)
  OBVIOUS
<1>1. CASE queue' = queue \/ queue' = <<>>
  BY <1>1, EmptyQueue
<1>2. CASE queue # <<>> /\ queue' = Tail(queue)
  BY <1>2, QueueType, Popped
<1>3. ASSUME NEW p \in Paths, NEW a \in BOOLEAN, status' # "closed",
             queue' = Append(queue, NewOp(p, a))
      PROVE  New(o)
  BY <1>3, QueueType, Pushed
<1>4. ASSUME NEW p \in Paths, status' # "closed", queue # <<>>,
             queue' = Append(Tail(queue), NewOp(p, TRUE))
      PROVE  New(o)
  <2>1. SinceAwaited(queue') \subseteq SinceAwaited(Tail(queue)) \union {NewOp(p, TRUE)}
    BY <1>4, QueueType, Pushed
  <2>2. SinceAwaited(Tail(queue)) \subseteq SinceAwaited(queue)
    BY <1>4, QueueType, Popped
  <2>. QED  BY <1>4, <2>1, <2>2
<1>. QED  BY <1>1, <1>2, <1>3, <1>4, QueueStep DEF QueueSteps

LEMMA KnownStep ==
  ASSUME IInv, Next
  PROVE  KnownInv'
<1>0. /\ RecordsTypeOK /\ StoreTypeOK /\ SaveTypeOK /\ StatusInv /\ StepInv /\ KnownInv
      /\ AwaitInv /\ StoreInv
      /\ DOMAIN records = Paths /\ queue \in Seq(Operations)
  BY QueueType DEF IInv, PublicationTypeOK, RecordsTypeOK
<1>a. ASSUME step' = step,
             step \in {"intent", "shared"} =>
               records'["S"] # None /\ records'["S"].intent = records["S"].intent
      PROVE  KnownInv'
  <2>1. ASSUME step = "intent", NEW o \in SinceAwaited(queue'), o.path = "S"
        PROVE  Carries(o.value)'
    BY <1>0, <1>a, <2>1, SinceGrows DEF KnownInv, Carries, NewOp
  <2>2. ASSUME step = "shared", NEW o \in Elements(queue'), o.path = "S"
        PROVE  Carries(o.value)'
    BY <1>0, <1>a, <2>2, Growth DEF KnownInv, Carries, NewOp
  <2>3. ASSUME step = "shared"  PROVE Carries(disk["S"])'
    <3>1. disk'["S"] = disk["S"] \/ \E o \in Elements(queue) : o.path = "S" /\ disk'["S"] = o.value
      BY Growth DEF Paths, Operations
    <3>. QED  BY <1>0, <1>a, <2>3, <3>1 DEF KnownInv, Carries
  <2>. QED  BY <1>a, <2>1, <2>2, <2>3 DEF KnownInv
<1>b. ASSUME step' = step, Same("S")  PROVE KnownInv'
  BY <1>0, <1>a, <1>b DEF Same, StepInv
<1>c. ASSUME step' \notin {"intent", "shared"}  PROVE KnownInv'
  BY <1>c DEF KnownInv
<1>d. ASSUME NEW t, Completes(t)  PROVE KnownInv'
  BY <1>c, <1>d DEF Completes, ToChildren, ToSelection, ToEnd
<1>e. ASSUME Settles, step = "idle"  PROVE KnownInv'
  BY <1>c, <1>d, <1>e DEF Settles, Forgets
<1>1. ASSUME NEW c \in Contents, EditS(c)  PROVE KnownInv'
  BY <1>0, <1>1, <1>a, EditShape DEF EditS
<1>2. ASSUME NEW c \in Contents, EditC(c) \/ Branch(c)  PROVE KnownInv'
  <2>1. Same("S")
    BY <1>0, <1>2 DEF EditC, Branch, Schedule, Same, Paths
  <2>. QED  BY <1>b, <1>2, <2>1 DEF EditC, Branch
<1>3. ASSUME NEW s \in Selections, Select(s)  PROVE KnownInv'
  <2>1. Same("S")
    BY <1>0, <1>3 DEF Select, Schedule, Same, Paths
  <2>. QED  BY <1>b, <1>3, <2>1 DEF Select
<1>4. CASE DiscardS
  <2>1. step \notin {"intent", "shared"}
    BY <1>0, <1>4 DEF DiscardS, Publishing, StatusInv
  <2>. QED  BY <1>4, <1>c, <2>1 DEF DiscardS
<1>5. CASE DiscardC
  <2>1. Same("S")
    BY <1>0, <1>5 DEF DiscardC, Same, Paths
  <2>. QED  BY <1>b, <1>5, <2>1 DEF DiscardC
<1>6. CASE Save
  <2>1. /\ step = "idle" /\ step' = "intent" /\ status' = "ready" /\ records'["S"] # None
        /\ queue' = Append(queue, NewOp("S", TRUE))
    BY <1>0, <1>6, SaveShape DEF Save
  <2>2. SinceAwaited(queue') \subseteq {NewOp("S", TRUE)}
    <3>1. NewOp("S", TRUE) \in Operations
      BY <2>1, QueueType DEF Paths
    <3>2. NoneAwaited(queue)
      BY <1>0, <2>1 DEF AwaitInv
    <3>. QED  BY <1>0, <2>1, <3>1, <3>2, Pushed
  <2>. QED  BY <2>1, <2>2 DEF KnownInv, Carries, NewOp
<1>7. CASE RetrySettle
  BY <1>0, <1>7, <1>e, SettleShape DEF RetrySettle
<1>8. ASSUME NEW p \in Paths, RetryWrite(p) \/ Fire(p)  PROVE KnownInv'
  BY <1>b, <1>8 DEF RetryWrite, Fire, Same
<1>9. CASE Land \/ SharedLands \/ Ready
  BY <1>b, <1>9 DEF Land, SharedLands, Ready, memory, Same
<1>10. ASSUME NEW ok \in BOOLEAN, Answer(ok)  PROVE KnownInv'
  <2>1. Answers(ok) /\ queue # <<>> /\ (ok => landed) /\ disk' = disk
    BY <1>0, <1>10, AnswerShape DEF Answer
  <2>2. CASE Head(queue).awaited /\ ok /\ IntentWritten(ok)
    <3>1. step = "intent" /\ step' = "shared" /\ records' = records /\ queue' = Tail(queue)
      BY <2>2 DEF IntentWritten
    <3>2. Head(queue).path = "S"
      BY <1>0, <2>1, <2>2, <3>1, Popped DEF AwaitInv, PathOf
    <3>3. /\ Head(queue) \in SinceAwaited(queue) /\ Elements(Tail(queue)) \subseteq SinceAwaited(queue)
      BY <1>0, <2>1, <2>2, Popped
    <3>4. disk["S"] = Head(queue).value
      BY <1>0, <2>1, <2>2, <3>2 DEF StoreInv
    <3>. QED  BY <1>0, <2>1, <3>1, <3>2, <3>3, <3>4 DEF KnownInv, Carries
  <2>3. CASE Unawaited(ok)
    BY <1>b, <2>3 DEF Unawaited, Same
  <2>4. CASE ~ Unawaited(ok) /\ ~ (ok /\ IntentWritten(ok))
    BY <1>c, <2>1, <2>4 DEF Answers, IntentWritten, UndoWritten, FinalWritten, GivesUp,
                            ToSelection, ToEnd
  <2>. QED  BY <2>1, <2>2, <2>3, <2>4 DEF Answers
<1>11. CASE SharedRefused
  BY <1>11, <1>c DEF SharedRefused
<1>12. CASE SharedConfirmed
  BY <1>0, <1>12, <1>d, CompleteShape DEF SharedConfirmed
<1>13. CASE Crash
  BY <1>13, <1>c DEF Crash
<1>14. CASE Open
  BY <1>0, <1>14, <1>c DEF Open, StatusInv
<1>15. CASE SettleAtOpen
  BY <1>0, <1>15, <1>e, SettleShape DEF SettleAtOpen, StatusInv
<1>. QED
  BY <1>1, <1>2, <1>3, <1>4, <1>5, <1>6, <1>7, <1>8, <1>9, <1>10, <1>11, <1>12,
     <1>13, <1>14, <1>15 DEF Next, User
-----------------------------------------------------------------------------
(* What was typed, and what was published *)

KeepsContent(p) ==
  records[p] # None => records'[p] # None /\ records'[p].content = records[p].content

IsShared(c) == \E r \in 1..MaxSaves : shared[r] = c

\* A published S that gives way keeps its content, or holds nothing new.
LEMMA PublishedContent ==
  ASSUME RecordsTypeOK, IntentsInv, records["S"] # None, records["S"].intent \in KnownIntents,
         KnownIntents \subseteq Intents, records["S"].intent # NoIntent,
         shared[records["S"].intent.rev] # 0, saves \in Nat
  PROVE  IF Kept(records["S"]) = None THEN IsShared(records["S"].content)
         ELSE Kept(records["S"]).content = records["S"].content
<1>. DEFINE i0 == records["S"].intent
<1>1. i0.rev \in 1..MaxSaves /\ shared[i0.rev] = i0.content
  BY PublicationAssumption DEF IntentsInv, Dated, Intents
<1>2. records["S"] \in Scratches
  BY DEF RecordsTypeOK
<1>. QED  BY <1>1, <1>2, KeptType DEF IsShared

LEMMA MovedChild ==
  ASSUME NEW c \in Children, NEW x \in {"base", "published"}
  PROVE  LET m == [c EXCEPT !.parent = x]
         IN  m # None /\ m \in Children /\ m.content = c.content /\ ~ ParentIsS(m)
<1>1. [c EXCEPT !.parent = x] \in Children
  BY DEF Children
<1>. QED  BY <1>1, NoneAssumption DEF Children, ParentIsS

LEMMA EditsStep ==
  ASSUME IInv, CalmInv, Next
  PROVE  EditsInv'
<1>0. /\ RecordsTypeOK /\ StoreTypeOK /\ SaveTypeOK /\ StatusInv /\ StepInv /\ CleanupInv /\ EditsInv
      /\ RecordsTypeOK' /\ StatusInv' /\ IntentsInv
      /\ DOMAIN records = Paths /\ settling \in BOOLEAN /\ saves \in Nat
      /\ latest \in [{"S", "C"} -> Contents \union {0}]
      /\ shared \in [1..MaxSaves -> Contents \union {0}]
      /\ None \notin Children
  BY RecordsStep, StatusStep, NoneAssumption
     DEF IInv, CalmInv, PublicationTypeOK, RecordsTypeOK, SaveTypeOK, WindowTypeOK
<1>a. ASSUME status # "closed", status' # "closed", latest' = latest, shared' = shared,
             beside' = beside, KeepsContent("C"),
             latest["S"] # 0 /\ ~ beside =>
               KeepsContent("S") \/ (records["S"] # None /\ IsShared(records["S"].content))
      PROVE  EditsInv'
  BY <1>0, <1>a DEF EditsInv, Holds, KeepsContent, IsShared
<1>s. ASSUME NEW p, Same(p)  PROVE KeepsContent(p)
  BY <1>s DEF Same, KeepsContent
<1>c. ASSUME NEW x \in {"base", "published"},
             records["C"] # None, records'["C"] = [records["C"] EXCEPT !.parent = x]
      PROVE  KeepsContent("C")
  BY <1>0, <1>c, MovedChild DEF RecordsTypeOK, KeepsContent
<1>d. ASSUME NEW t, status # "closed", status' # "closed", latest' = latest, shared' = shared,
             beside' = beside, records["S"] # None, records["S"].intent # NoIntent,
             shared[records["S"].intent.rev] # 0, Completes(t)
      PROVE  EditsInv'
  <2>1. IF Kept(records["S"]) = None THEN IsShared(records["S"].content)
        ELSE Kept(records["S"]).content = records["S"].content
    BY <1>0, <1>d, IntentsGrow, PublishedContent
  <2>2. CASE ToChildren(t)
    BY <1>a, <1>c, <1>d, <1>s, <2>2 DEF ToChildren
  <2>3. CASE ToSelection(t, queue)
    BY <1>a, <1>d, <1>s, <2>3 DEF ToSelection
  <2>4. CASE ToEnd(t, queue, Kept(records["S"]))
    BY <1>a, <1>d, <1>s, <2>1, <2>4 DEF ToEnd, KeepsContent
  <2>. QED  BY <1>d, <2>2, <2>3, <2>4 DEF Completes
<1>e. ASSUME records["S"] # None, records' = ClearIntent(records)
      PROVE  KeepsContent("C") /\ KeepsContent("S")
  BY <1>0, <1>e, <1>s, ClearShape DEF KeepsContent
<1>f. ASSUME Settles, status # "closed", status' # "closed", latest' = latest, shared' = shared,
             beside' = beside
      PROVE  EditsInv'
  BY <1>a, <1>d, <1>e, <1>f, <1>s DEF Settles, Forgets, HasIntent, memory, Same
<1>1. ASSUME NEW c \in Contents, EditS(c)  PROVE EditsInv'
  BY <1>0, <1>1, EditShape DEF EditS, EditsInv, Holds, Same
<1>2. ASSUME NEW c \in Contents, EditC(c)  PROVE EditsInv'
  <2>1. records["C"] \in Children /\ [records["C"] EXCEPT !.content = c] \in Children
    BY <1>0, <1>2 DEF EditC, RecordsTypeOK, Children
  <2>2. records'["C"] = [records["C"] EXCEPT !.content = c] /\ Same("S")
    BY <1>0, <1>2 DEF EditC, Schedule, Same, Paths
  <2>3. records'["C"] # None /\ records'["C"].content = c
    BY <1>0, <2>1, <2>2 DEF Children
  <2>. QED  BY <1>0, <1>2, <2>2, <2>3 DEF EditC, EditsInv, Holds, Same
<1>3. ASSUME NEW c \in Contents, Branch(c)  PROVE EditsInv'
  <2>1. Child(c, "S") \in Children
    BY DEF Child, Children
  <2>2. records'["C"] = Child(c, "S") /\ Same("S")
    BY <1>0, <1>3 DEF Branch, Schedule, Same, Paths
  <2>3. records'["C"] # None /\ records'["C"].content = c
    BY <1>0, <2>1, <2>2 DEF Child
  <2>. QED  BY <1>0, <1>3, <2>2, <2>3 DEF Branch, EditsInv, Holds, Same
<1>4. ASSUME NEW s \in Selections, Select(s)  PROVE EditsInv'
  <2>1. Same("S") /\ Same("C")
    BY <1>0, <1>4 DEF Select, Schedule, Same, Paths
  <2>. QED  BY <1>4, <1>a, <1>s, <2>1 DEF Select
<1>5. CASE DiscardS
  <2>. DEFINE moved == Reparented(records, "base")
  <2>1. /\ DOMAIN moved = Paths
        /\ moved["C"] = records["C"] \/ (records["C"] # None /\ moved["C"] = [records["C"] EXCEPT !.parent = "base"])
    BY <1>0 DEF Reparented, Paths
  <2>2. records'["C"] = moved["C"]
    BY <1>5, <2>1 DEF DiscardS, Paths
  <2>3. KeepsContent("C")
    BY <1>c, <1>s, <2>1, <2>2 DEF Same
  <2>4. latest' = [latest EXCEPT !["S"] = 0] /\ status = "ready" /\ status' = "ready"
    BY <1>5 DEF DiscardS
  <2>. QED  BY <1>0, <2>3, <2>4 DEF EditsInv, Holds, KeepsContent
<1>6. CASE DiscardC
  <2>1. Same("S")
    BY <1>0, <1>6 DEF DiscardC, Same, Paths
  <2>2. latest' = [latest EXCEPT !["C"] = 0] /\ status = "ready" /\ status' = "ready"
        /\ shared' = shared
    BY <1>6 DEF DiscardC
  <2>3. beside' = beside
    BY <1>6 DEF DiscardC
  <2>. QED  BY <1>0, <2>1, <2>2, <2>3 DEF EditsInv, Holds, Same
<1>7. CASE Save
  <2>1. KeepsContent("S") /\ KeepsContent("C")
    BY <1>0, <1>7, <1>s, SaveShape DEF KeepsContent
  <2>. QED  BY <1>7, <1>a, <2>1 DEF Save
<1>8. CASE RetrySettle
  BY <1>0, <1>8, <1>f, SettleShape DEF RetrySettle
<1>9. ASSUME NEW p \in Paths, RetryWrite(p) \/ Fire(p)  PROVE EditsInv'
  BY <1>a, <1>s, <1>9 DEF RetryWrite, Fire, Same
<1>10. CASE Land \/ Ready
  <2>1. status # "closed" /\ status' # "closed"
    BY <1>0, <1>10 DEF Land, Ready, StatusInv
  <2>. QED  BY <1>a, <1>s, <1>10, <2>1 DEF Land, Ready, memory, Same
<1>11. ASSUME NEW ok \in BOOLEAN, Answer(ok)  PROVE EditsInv'
  <2>1. /\ Answers(ok) /\ latest' = latest /\ shared' = shared /\ beside' = beside
        /\ status # "closed" /\ status' # "closed"
    BY <1>0, <1>11, AnswerShape DEF Answer, StatusInv
  <2>2. CASE IntentWritten(ok)
    <3>1. CASE records' = records
      BY <1>a, <1>s, <2>1, <3>1 DEF Same
    <3>2. CASE records' = ClearIntent(records)
      BY <1>0, <1>a, <1>e, <2>1, <2>2, <3>2 DEF IntentWritten, StepInv, CleanupInv
    <3>. QED  BY <2>2, <3>1, <3>2 DEF IntentWritten
  <2>3. CASE UndoWritten(ok) \/ Unawaited(ok) \/ GivesUp
    BY <1>a, <1>s, <2>1, <2>3 DEF UndoWritten, Unawaited, GivesUp, Same
  <2>4. CASE FinalWritten(ok)
    <3>1. Same("S") /\ Same("C")
      BY <1>0, <2>4 DEF FinalWritten, Same, Paths
    <3>. QED  BY <1>a, <1>s, <2>1, <3>1
  <2>5. CASE ToSelection(settling, Tail(queue))
    BY <1>a, <1>s, <2>1, <2>5 DEF ToSelection
  <2>6. CASE step \in {"children", "selection"} /\ ToEnd(settling, Tail(queue), keep)
    <3>1. ASSUME latest["S"] # 0, ~ beside
          PROVE  /\ records["S"] # None
                 /\ IF keep = None THEN IsShared(records["S"].content)
                    ELSE keep.content = records["S"].content
      BY <1>0, <2>6, <3>1, IntentsGrow, PublishedContent DEF CleanupInv, HasIntent
    <3>2. Same("C") /\ records'["S"] = keep
      BY <2>6 DEF ToEnd
    <3>3. latest["S"] # 0 /\ ~ beside =>
            KeepsContent("S") \/ (records["S"] # None /\ IsShared(records["S"].content))
      BY <3>1, <3>2 DEF KeepsContent
    <3>. QED  BY <1>a, <1>s, <2>1, <3>2, <3>3
  <2>7. step = "selection" => keep = None
    BY <1>0 DEF StepInv
  <2>. QED  BY <2>1, <2>2, <2>3, <2>4, <2>5, <2>6, <2>7 DEF Answers
<1>12. CASE SharedLands
  <2>1. status = "ready" /\ status' = "ready" /\ records' = records /\ latest' = latest
        /\ beside' = beside
    BY <1>12 DEF SharedLands, memory
  <2>2. \A r \in 1..MaxSaves : shared[r] # 0 => shared'[r] = shared[r]
    BY <1>0, <1>12 DEF SharedLands
  <2>. QED  BY <1>0, <2>1, <2>2 DEF EditsInv, Holds
<1>13. CASE SharedRefused
  BY <1>0, <1>13, <1>a, <1>e DEF SharedRefused, Persist, StepInv, CleanupInv
<1>14. CASE SharedConfirmed
  BY <1>0, <1>14, <1>d, CompleteShape DEF SharedConfirmed, StepInv, CleanupInv
<1>15. CASE Crash
  <2>1. /\ status' = "closed" /\ disk' = disk
        /\ \A p \in {"S", "C"} : latest'[p] = IF disk[p] = None THEN 0 ELSE disk[p].content
    BY <1>15 DEF Crash
  <2>. QED  BY <2>1 DEF EditsInv, Holds
<1>16. CASE Open
  BY <1>0, <1>16 DEF Open, EditsInv, Holds
<1>17. CASE SettleAtOpen
  BY <1>0, <1>17, <1>f, SettleShape DEF SettleAtOpen
<1>. QED
  BY <1>1, <1>2, <1>3, <1>4, <1>5, <1>6, <1>7, <1>8, <1>9, <1>10, <1>11, <1>12,
     <1>13, <1>14, <1>15, <1>16, <1>17 DEF Next, User
LEMMA OnceStep ==
  ASSUME IInv, Next
  PROVE  OnceInv'
<1>0. /\ RecordsTypeOK /\ StoreTypeOK /\ SaveTypeOK /\ StatusInv /\ StepInv /\ KnownInv
      /\ IntentsInv /\ OnceInv
      /\ DOMAIN records = Paths /\ settling \in BOOLEAN
      /\ shared \in [1..MaxSaves -> Contents \union {0}]
      /\ KnownIntents \subseteq Intents
      /\ records["S"] # None => records["S"].intent \in KnownIntents
      /\ disk["S"] # None => disk["S"].intent \in KnownIntents
      /\ standing \in Standings
  BY IntentsGrow DEF IInv, PublicationTypeOK, RecordsTypeOK, SaveTypeOK, WindowTypeOK
<1>a. ASSUME standing' = standing, shared' = shared, status' # "closed",
             Same("S") \/ records'["S"] = None, keep' \in {keep, None}
      PROVE  OnceInv'
  BY <1>0, <1>a, IntentsGrow DEF OnceInv, Published, Same
<1>n. Published /\ records["S"] # None =>
        /\ shared[records["S"].intent.rev] # 0 /\ records["S"].intent # NoIntent
        /\ Kept(records["S"]) = None
  BY <1>0 DEF OnceInv, NoIntent, Kept
<1>b. ASSUME ~ Published'  PROVE OnceInv'
  BY <1>b DEF OnceInv
<1>c. ASSUME NEW t, records["S"] # None, standing' = standing, shared' = shared,
             status' # "closed", Completes(t)
      PROVE  OnceInv'
  <2>1. CASE Published
    BY <1>a, <1>c, <1>n, <2>1 DEF Completes, ToChildren, ToSelection, ToEnd
  <2>2. CASE ~ Published
    BY <1>b, <1>c, <2>2 DEF Published
  <2>. QED  BY <2>1, <2>2
<1>d. ASSUME Settles, standing' = standing, shared' = shared, status' # "closed"
      PROVE  OnceInv'
  <2>1. CASE Forgets
    BY <1>b, <1>d, <1>n, <2>1 DEF Forgets, HasIntent, Published
  <2>. QED  BY <1>a, <1>c, <1>d, <2>1 DEF Settles, HasIntent, memory, Same
<1>1. ASSUME NEW c \in Contents, EditS(c)  PROVE OnceInv'
  BY <1>1, <1>b DEF EditS, Published, Unpublished
<1>2. ASSUME NEW c \in Contents, EditC(c) \/ Branch(c)  PROVE OnceInv'
  <2>1. Same("S")
    BY <1>0, <1>2 DEF EditC, Branch, Schedule, Same, Paths
  <2>. QED  BY <1>a, <1>2, <2>1 DEF EditC, Branch
<1>3. ASSUME NEW s \in Selections, Select(s)  PROVE OnceInv'
  <2>1. Same("S")
    BY <1>0, <1>3 DEF Select, Schedule, Same, Paths
  <2>. QED  BY <1>a, <1>3, <2>1 DEF Select
<1>4. CASE DiscardS
  <2>1. DOMAIN Reparented(records, "base") = Paths
    BY <1>0 DEF Reparented
  <2>2. records'["S"] = None
    BY <1>4, <2>1 DEF DiscardS, Paths
  <2>. QED  BY <1>4, <1>a, <2>2 DEF DiscardS
<1>5. CASE DiscardC
  <2>1. Same("S")
    BY <1>0, <1>5 DEF DiscardC, Same, Paths
  <2>. QED  BY <1>a, <1>5, <2>1 DEF DiscardC
<1>6. CASE Save
  BY <1>6, <1>b, <1>n DEF Save, Published
<1>7. CASE RetrySettle
  BY <1>0, <1>7, <1>d, SettleShape DEF RetrySettle
<1>8. ASSUME NEW p \in Paths, RetryWrite(p) \/ Fire(p)  PROVE OnceInv'
  BY <1>a, <1>8 DEF RetryWrite, Fire, Same
<1>9. CASE Land \/ Ready
  <2>1. status' # "closed"
    BY <1>0, <1>9 DEF Land, Ready, StatusInv
  <2>. QED  BY <1>a, <1>9, <2>1 DEF Land, Ready, memory, Same
<1>10. ASSUME NEW ok \in BOOLEAN, Answer(ok)  PROVE OnceInv'
  <2>1. /\ Answers(ok) /\ standing' = standing /\ shared' = shared /\ status' # "closed"
    BY <1>0, <1>10, AnswerShape DEF Answer, StatusInv
  <2>2. CASE IntentWritten(ok)
    BY <1>0, <1>a, <1>b, <1>n, <2>1, <2>2 DEF IntentWritten, StepInv, Same, Published
  <2>3. CASE UndoWritten(ok) \/ Unawaited(ok) \/ GivesUp
    BY <1>a, <2>1, <2>3 DEF UndoWritten, Unawaited, GivesUp, Same
  <2>4. CASE FinalWritten(ok)
    <3>1. Same("S")
      BY <1>0, <2>4 DEF FinalWritten, Same, Paths
    <3>2. keep' = None
      BY <2>4 DEF FinalWritten
    <3>. QED  BY <1>a, <2>1, <3>1, <3>2
  <2>5. CASE ToSelection(settling, Tail(queue))
    BY <1>a, <2>1, <2>5 DEF ToSelection
  <2>6. CASE step \in {"children", "selection"} /\ ToEnd(settling, Tail(queue), keep)
    <3>1. Published => keep = None
      BY <1>0 DEF OnceInv
    <3>2. CASE keep = None
      BY <1>a, <2>1, <2>6, <3>2 DEF ToEnd
    <3>3. CASE keep # None
      BY <1>b, <2>1, <3>1, <3>3 DEF Published
    <3>. QED  BY <3>2, <3>3
  <2>7. step = "selection" => keep = None
    BY <1>0 DEF StepInv
  <2>. QED  BY <2>1, <2>2, <2>3, <2>4, <2>5, <2>6, <2>7 DEF Answers
<1>11. CASE SharedLands
  <2>. DEFINE i0 == records["S"].intent
  <2>1. /\ step = "shared" /\ records' = records /\ disk' = disk /\ queue' = queue
        /\ status' = "ready" /\ ~ standing'.denied
        /\ standing'.content # 0 => standing'.content = i0.content /\ records["S"].content = i0.content
        /\ shared' = [shared EXCEPT ![i0.rev] = i0.content]
    BY <1>11 DEF SharedLands, memory, store, Unpublished
  <2>2. \A i \in KnownIntents' : i = i0
    BY <1>0, <2>1 DEF KnownInv, Carries, StepInv, KnownIntents, SValues
  <2>3. i0 \in KnownIntents /\ i0 # NoIntent
    BY <1>0, <2>1 DEF StepInv
  <2>4. i0.rev \in 1..MaxSaves /\ i0.rev # 0 /\ i0.content # 0
    BY <1>0, <2>3, PublicationAssumption DEF IntentsInv, Dated, Intents
  <2>5. shared'[i0.rev] # 0
    BY <1>0, <2>1, <2>4
  <2>6. keep' = None
    BY <1>0, <1>11 DEF SharedLands, StepInv
  <2>. QED  BY <2>1, <2>2, <2>4, <2>5, <2>6 DEF OnceInv, Published
<1>12. CASE SharedRefused
  BY <1>0, <1>12, <1>b DEF SharedRefused, Published, Standings
<1>13. CASE SharedConfirmed
  BY <1>0, <1>13, <1>c, CompleteShape DEF SharedConfirmed, StepInv
<1>14. CASE Crash
  <2>1. /\ records'["S"] = None /\ disk' = disk /\ shared' = shared /\ keep' = None
        /\ Published' => /\ standing' = standing /\ disk["S"] # None
                         /\ disk["S"].content = standing.content
    BY <1>14 DEF Crash, Paths, Published, Unpublished
  <2>. QED  BY <1>0, <2>1, IntentsGrow DEF OnceInv, Published
<1>15. CASE Open
  BY <1>0, <1>15, IntentsGrow DEF Open, OnceInv, Published
<1>16. CASE SettleAtOpen
  BY <1>0, <1>16, <1>d, SettleShape DEF SettleAtOpen
<1>. QED
  BY <1>1, <1>2, <1>3, <1>4, <1>5, <1>6, <1>7, <1>8, <1>9, <1>10, <1>11, <1>12,
     <1>13, <1>14, <1>15, <1>16 DEF Next, User
LEMMA CleanupStep ==
  ASSUME IInv, CalmInv, Next
  PROVE  CleanupInv'
<1>0. /\ RecordsTypeOK /\ StoreTypeOK /\ SaveTypeOK /\ WindowTypeOK /\ StatusInv /\ StepInv /\ CleanupInv
      /\ DOMAIN records = Paths /\ settling \in BOOLEAN
      /\ "S" \in Paths /\ "C" \in Paths /\ "SEL" \in Paths
  BY DEF IInv, CalmInv, PublicationTypeOK, RecordsTypeOK, SaveTypeOK, Paths
<1>a. ASSUME Same("S"), shared' = shared, step' = step, keep' = keep, calm' => calm,
             latest'["S"] = latest["S"], beside' = beside
      PROVE  CleanupInv'
  BY <1>0, <1>a DEF CleanupInv, Same, HasIntent
<1>b. ASSUME step' \notin {"children", "selection", "final"}  PROVE CleanupInv'
  BY <1>b DEF CleanupInv
<1>c. ASSUME NEW t \in BOOLEAN, HasIntent, shared' = shared,
             shared[records["S"].intent.rev] # 0, Completes(t)
      PROVE  CleanupInv'
  BY <1>c DEF Completes, ToChildren, ToSelection, ToEnd, Same, CleanupInv, HasIntent
<1>d. ASSUME Settles, step = "idle", shared' = shared  PROVE CleanupInv'
  BY <1>b, <1>c, <1>d DEF Settles, Forgets
<1>1. ASSUME NEW c \in Contents, EditS(c)  PROVE CleanupInv'
  <2>1. HasIntent => HasIntent'
    BY <1>0, <1>1, EditShape DEF HasIntent
  <2>2. step' = step /\ calm' = calm /\ beside' = Planned
    BY <1>1 DEF EditS
  <2>. QED  BY <1>0, <2>1, <2>2 DEF CleanupInv, Planned
<1>2. ASSUME NEW c \in Contents, EditC(c) \/ Branch(c)  PROVE CleanupInv'
  <2>1. Same("S")
    BY <1>0, <1>2 DEF EditC, Branch, Schedule, Same, Paths
  <2>2. latest'["S"] = latest["S"]
    BY <1>0, <1>2 DEF EditC, Branch, WindowTypeOK
  <2>. QED  BY <1>2, <1>a, <2>1, <2>2 DEF EditC, Branch
<1>3. ASSUME NEW s \in Selections, Select(s)  PROVE CleanupInv'
  <2>1. Same("S")
    BY <1>0, <1>3 DEF Select, Schedule, Same, Paths
  <2>. QED  BY <1>3, <1>a, <2>1 DEF Select
<1>4. CASE DiscardS
  <2>1. latest'["S"] = 0 /\ calm' = FALSE
    BY <1>0, <1>4 DEF DiscardS, WindowTypeOK
  <2>. QED  BY <2>1 DEF CleanupInv
<1>5. CASE DiscardC
  <2>1. Same("S")
    BY <1>0, <1>5 DEF DiscardC, Same, Paths
  <2>2. latest'["S"] = latest["S"]
    BY <1>0, <1>5 DEF DiscardC, WindowTypeOK
  <2>. QED  BY <1>5, <1>a, <2>1, <2>2 DEF DiscardC
<1>6. CASE Save \/ SharedRefused \/ Crash
  BY <1>6, <1>b DEF Save, SharedRefused, Crash
<1>7. CASE RetrySettle
  BY <1>0, <1>7, <1>d, SettleShape DEF RetrySettle
<1>8. ASSUME NEW p \in Paths, RetryWrite(p) \/ Fire(p)  PROVE CleanupInv'
  BY <1>a, <1>8 DEF RetryWrite, Fire, Same
<1>9. CASE Land \/ Ready
  BY <1>9, <1>a DEF Land, Ready, memory, Same
<1>10. ASSUME NEW ok \in BOOLEAN, Answer(ok)  PROVE CleanupInv'
  <2>1. Answers(ok) /\ shared' = shared /\ calm' = calm /\ latest' = latest /\ beside' = beside
    BY <1>0, <1>10, AnswerShape DEF Answer
  <2>2. CASE IntentWritten(ok) \/ UndoWritten(ok) \/ FinalWritten(ok) \/ GivesUp
    BY <1>b, <2>2 DEF IntentWritten, UndoWritten, FinalWritten, GivesUp
  <2>3. CASE Unawaited(ok)
    BY <1>a, <2>1, <2>3 DEF Unawaited, Same
  <2>4. CASE step = "children" /\ keep = None /\ ToSelection(settling, Tail(queue))
    BY <1>0, <2>1, <2>4 DEF ToSelection, CleanupInv, Same, HasIntent
  <2>5. CASE ToEnd(settling, Tail(queue), keep) \/ ToEnd(settling, Tail(queue), None)
    BY <2>5 DEF ToEnd, CleanupInv
  <2>. QED  BY <2>1, <2>2, <2>3, <2>4, <2>5 DEF Answers
<1>11. CASE SharedLands
  BY <1>11, <1>b DEF SharedLands
<1>12. CASE SharedConfirmed
  BY <1>0, <1>12, <1>c, CompleteShape DEF SharedConfirmed, StepInv, HasIntent
<1>13. CASE Open
  BY <1>0, <1>13, <1>b DEF Open, StatusInv
<1>14. CASE SettleAtOpen
  BY <1>0, <1>14, <1>d, SettleShape DEF SettleAtOpen, StatusInv
<1>. QED
  BY <1>1, <1>2, <1>3, <1>4, <1>5, <1>6, <1>7, <1>8, <1>9, <1>10, <1>11, <1>12,
     <1>13, <1>14 DEF Next, User

-----------------------------------------------------------------------------
(* S goes only after its child *)

LEMMA ChildStep ==
  ASSUME IInv, CalmInv, Next
  PROVE  ChildInv'
<1>. SUFFICES ASSUME calm'  PROVE ChildInv'
  BY DEF ChildInv
<1>0. /\ RecordsTypeOK /\ StoreTypeOK /\ SaveTypeOK /\ StatusInv /\ StepInv /\ CleanupInv /\ StoreInv
      /\ AwaitInv /\ (calm => ChildInv) /\ StatusInv'
      /\ DOMAIN records = Paths /\ DOMAIN disk = Paths /\ settling \in BOOLEAN
      /\ queue \in Seq(Operations)
      /\ "S" \in Paths /\ "C" \in Paths /\ "SEL" \in Paths
      /\ calm
  <2>1. calm' => calm
    BY DEF Next, User, EditS, EditC, Branch, Select, DiscardS, DiscardC, Save,
           RetrySettle, RetryWrite, Fire, Land, Answer, SharedLands, SharedRefused,
           SharedConfirmed, Crash, Open, SettleAtOpen, Ready
  <2>. QED
    BY <2>1, QueueType, StatusStep DEF IInv, CalmInv, PublicationTypeOK, RecordsTypeOK, SaveTypeOK, Paths
<1>i. /\ status # "closed" /\ records["S"] # None =>
           disk["S"] # None /\ \A o \in Elements(queue) : ~ Deletes(o)
      /\ disk["S"] = None \/ Gone => Moved /\ ~ ParentIsS(records["C"])
      /\ step \in {"children", "selection"} => ~ ParentIsS(records["C"])
      /\ step = "children" => \A o \in SinceAwaited(queue) : o.path = "C" => ~ ParentIsS(o.value)
      /\ status # "closed" /\ records["S"] # None /\ ~ ParentIsS(records["C"])
         /\ step # "children" /\ ~ LeftBehind => Moved
  BY <1>0 DEF ChildInv
<1>m. ASSUME Moved, ~ ParentIsS(records'["C"])  PROVE Moved'
  <2>1. disk'["C"] = disk["C"] \/ \E o \in Elements(queue) : o.path = "C" /\ disk'["C"] = o.value
    BY Growth DEF Paths, Operations
  <2>2. \A o \in Elements(queue') : o.path = "C" => ~ ParentIsS(o.value)
    BY <1>m, Growth DEF Moved, NewOp
  <2>. QED  BY <1>m, <2>1, <2>2 DEF Moved
\* A window that was open, and stays open.
<1>a. ASSUME status # "closed", status' # "closed",
             records'["S"] # None => records["S"] # None,
             ParentIsS(records'["C"]) => ParentIsS(records["C"]),
             records["S"] # None /\ records'["S"] = None => Moved /\ ~ ParentIsS(records["C"]),
             step' \in {"children", "selection"} => ~ ParentIsS(records'["C"]),
             step' = "children" =>
               \A o \in SinceAwaited(queue') : o.path = "C" => ~ ParentIsS(o.value),
             records'["S"] # None /\ ~ ParentIsS(records'["C"]) /\ step' # "children"
               /\ ~ LeftBehind' => Moved
      PROVE  ChildInv'
  <2>1. disk'["S"] = disk["S"] \/ \E o \in Elements(queue) : o.path = "S" /\ disk'["S"] = o.value
    BY Growth DEF Paths, Operations
  <2>2. ASSUME records'["S"] # None
        PROVE  disk'["S"] # None /\ \A o \in Elements(queue') : ~ Deletes(o)
    <3>1. \A o \in Elements(queue') : ~ Deletes(o)
      BY <1>a, <1>i, <2>2, Growth DEF Deletes, NewOp
    <3>. QED  BY <1>a, <1>i, <2>1, <2>2, <3>1 DEF Deletes
  <2>3. ASSUME disk'["S"] = None \/ records'["S"] = None
        PROVE  Moved' /\ ~ ParentIsS(records'["C"])
    <3>1. disk["S"] = None \/ records["S"] = None \/ (records["S"] # None /\ records'["S"] = None)
      BY <1>a, <1>i, <2>1, <2>3 DEF Deletes
    <3>2. Moved /\ ~ ParentIsS(records["C"])
      BY <1>a, <1>i, <3>1 DEF Gone
    <3>. QED  BY <1>a, <1>m, <3>2
  <2>4. records'["S"] # None /\ ~ ParentIsS(records'["C"]) /\ step' # "children"
          /\ ~ LeftBehind' => Moved'
    BY <1>a, <1>m
  <2>. QED  BY <1>a, <2>2, <2>3, <2>4 DEF ChildInv, Gone
\* A step goes on, and memory keeps what matters here.
<1>b. ASSUME status # "closed", status' # "closed", status' = "loading" <=> status = "loading",
             step' = step, records'["S"] = None <=> records["S"] = None,
             ParentIsS(records'["C"]) <=> ParentIsS(records["C"]), HasIntent => HasIntent'
      PROVE  ChildInv'
  <2>1. step' = "children" =>
          \A o \in SinceAwaited(queue') : o.path = "C" => ~ ParentIsS(o.value)
    BY <1>b, <1>i, SinceGrows DEF NewOp
  <2>2. LeftBehind => LeftBehind'
    BY <1>b DEF LeftBehind
  <2>. QED  BY <1>a, <1>b, <1>i, <2>1, <2>2
<1>c. ASSUME status # "closed", status' # "closed", status' = "loading" <=> status = "loading",
             step' = step, Same("S"), Same("C")
      PROVE  ChildInv'
  BY <1>b, <1>c DEF Same, HasIntent
\* S stays, and so does the child; the step may end or another one begin.
<1>d. ASSUME status # "closed", status' # "closed", Same("C"),
             records'["S"] # None, records["S"] # None,
             step' \notin {"children", "selection"}, step # "children",
             LeftBehind => LeftBehind'
      PROVE  ChildInv'
  BY <1>a, <1>d, <1>i DEF Same
\* The cleanup begins.
<1>e. ASSUME NEW t, status # "closed", status' # "closed", records["S"] # None,
             step \in {"idle", "shared"}, ~ LeftBehind, Completes(t)
      PROVE  ChildInv'
  <2>1. CASE ToChildren(t)
    <3>1. Same("S") /\ records["C"] # None /\ records["C"] \in Children
          /\ step' = "children" /\ queue' = Append(queue, NewOp("C", TRUE))
          /\ records'["C"] = [records["C"] EXCEPT !.parent = "published"]
      BY <1>0, <2>1 DEF ToChildren, RecordsTypeOK
    <3>2. ~ ParentIsS(records'["C"])
      BY <3>1, MovedChild
    <3>3. NewOp("C", TRUE) \in Operations /\ NoneAwaited(queue)
      BY <1>0, <1>e, QueueType DEF AwaitInv
    <3>4. SinceAwaited(queue') \subseteq {NewOp("C", TRUE)}
      BY <1>0, <3>1, <3>3, Pushed
    <3>5. \A o \in SinceAwaited(queue') : ~ ParentIsS(o.value)
      BY <3>2, <3>4 DEF NewOp
    <3>. QED  BY <1>a, <1>e, <3>1, <3>2, <3>5 DEF Same
  <2>2. CASE ~ ParentIsS(records["C"]) /\ ToSelection(t, queue)
    <3>1. Moved
      BY <1>e, <1>i, <2>2
    <3>. QED  BY <1>a, <1>e, <2>2, <3>1 DEF ToSelection, Same
  <2>3. ASSUME NEW k, ~ ParentIsS(records["C"]), ToEnd(t, queue, k)  PROVE ChildInv'
    <3>1. Moved
      BY <1>e, <1>i, <2>3
    <3>. QED  BY <1>a, <1>e, <2>3, <3>1 DEF ToEnd, Same
  <2>. QED  BY <1>e, <2>1, <2>2, <2>3 DEF Completes
<1>1. ASSUME NEW c \in Contents, EditS(c)  PROVE ChildInv'
  <2>1. HasIntent => HasIntent'
    BY <1>0, <1>1, EditShape DEF HasIntent
  <2>. QED  BY <1>0, <1>1, <1>b, <2>1, EditShape DEF EditS, Same
<1>2. ASSUME NEW c \in Contents, EditC(c)  PROVE ChildInv'
  <2>1. records["C"] \in Children /\ [records["C"] EXCEPT !.content = c] \in Children
    BY <1>0, <1>2 DEF EditC, RecordsTypeOK, Children
  <2>2. records'["C"] = [records["C"] EXCEPT !.content = c] /\ Same("S")
    BY <1>0, <1>2 DEF EditC, Schedule, Same, Paths
  <2>3. ParentIsS(records'["C"]) <=> ParentIsS(records["C"])
    BY <1>0, <2>1, <2>2, NoneAssumption DEF Children, ParentIsS
  <2>. QED  BY <1>2, <1>b, <2>2, <2>3 DEF EditC, Same, HasIntent
<1>3. ASSUME NEW c \in Contents, Branch(c)  PROVE ChildInv'
  <2>1. records'["C"] = Child(c, "S") /\ Same("S")
    BY <1>0, <1>3 DEF Branch, Schedule, Same, Paths
  <2>2. /\ status = "ready" /\ status' = "ready" /\ records["S"] # None /\ disk' = disk
        /\ queue' = queue /\ step \notin {"children", "selection"} /\ step' = step
    BY <1>0, <1>3 DEF Branch, Publishing, StatusInv, store
  <2>3. ParentIsS(Child(c, "S"))
    <3>1. Child(c, "S") \in Children
      BY DEF Child, Children
    <3>. QED  BY <3>1, NoneAssumption DEF Child, ParentIsS
  <2>. QED  BY <1>i, <2>1, <2>2, <2>3 DEF ChildInv, Gone, Same
<1>4. ASSUME NEW s \in Selections, Select(s)  PROVE ChildInv'
  <2>1. Same("S") /\ Same("C")
    BY <1>0, <1>4 DEF Select, Schedule, Same, Paths
  <2>. QED  BY <1>4, <1>c, <2>1 DEF Select
<1>5. CASE DiscardS \/ DiscardC \/ RetrySettle
  BY <1>5 DEF DiscardS, DiscardC, RetrySettle
<1>6. CASE Save
  <2>1. ~ LeftBehind /\ step = "idle" /\ step' = "intent" /\ status = "ready" /\ status' = "ready"
        /\ records["S"] # None
    BY <1>6 DEF Save, LeftBehind, HasIntent
  <2>. QED  BY <1>0, <1>6, <1>d, <2>1, SaveShape
<1>7. ASSUME NEW p \in Paths, RetryWrite(p)  PROVE ChildInv'
  BY <1>7 DEF RetryWrite
<1>8. ASSUME NEW p \in Paths, Fire(p)  PROVE ChildInv'
  BY <1>c, <1>8 DEF Fire, Same
<1>9. CASE Land \/ SharedLands \/ Ready
  <2>1. status # "closed" /\ status' # "closed" /\ (status' = "loading" <=> status = "loading")
    BY <1>0, <1>9 DEF Land, SharedLands, Ready, StatusInv
  <2>. QED  BY <1>c, <1>9, <2>1 DEF Land, SharedLands, Ready, memory, Same
<1>10. ASSUME NEW ok \in BOOLEAN, Answer(ok)  PROVE ChildInv'
  <2>1. /\ Answers(ok) /\ queue # <<>> /\ (ok => landed) /\ disk' = disk
        /\ status' = status /\ status # "closed" /\ status # "loading"
    BY <1>0, <1>10, AnswerShape DEF Answer, StatusInv
  <2>2. CASE IntentWritten(ok)
    <3>1. /\ step = "intent" /\ step' \in {"shared", "idle"} /\ records["S"] # None
          /\ records' = records \/ records' = ClearIntent(records)
      BY <1>0, <2>2 DEF IntentWritten, StepInv, CleanupInv
    <3>2. records'["S"] # None /\ Same("C")
      BY <1>0, <3>1, ClearShape DEF Same
    <3>. QED  BY <1>d, <2>1, <3>1, <3>2 DEF LeftBehind
  <2>3. CASE UndoWritten(ok)
    BY <1>0, <1>d, <2>1, <2>3 DEF UndoWritten, StepInv, CleanupInv, Same, LeftBehind
  <2>4. CASE Unawaited(ok)
    BY <1>c, <2>1, <2>4 DEF Unawaited, Same
  <2>5. CASE FinalWritten(ok)
    <3>1. Same("S") /\ Same("C") /\ step = "final" /\ step' = "idle"
      BY <1>0, <2>5 DEF FinalWritten, Same, Paths
    <3>2. CASE records["S"] # None
      BY <1>d, <2>1, <3>1, <3>2 DEF Same, LeftBehind
    <3>3. CASE records["S"] = None
      BY <1>a, <2>1, <3>1, <3>3 DEF Same
    <3>. QED  BY <3>2, <3>3
  <2>6. CASE GivesUp
    <3>1. /\ step \in {"children", "selection"} /\ step' = "idle" /\ records' = records
          /\ records["S"] # None /\ HasIntent
      BY <1>0, <2>6 DEF GivesUp, StepInv, CleanupInv, HasIntent
    <3>2. LeftBehind'
      BY <2>1, <3>1 DEF LeftBehind, HasIntent
    <3>. QED  BY <1>a, <2>1, <3>1, <3>2
  <2>7. CASE Head(queue).awaited /\ ok /\ step = "children"
    <3>1. /\ Head(queue).path = "C" /\ Head(queue) \in SinceAwaited(queue)
          /\ Elements(queue) \subseteq SinceAwaited(queue)
      BY <1>0, <2>1, <2>7, Popped DEF AwaitInv, PathOf
    <3>2. disk["C"] = Head(queue).value
      BY <1>0, <2>1, <2>7, <3>1 DEF StoreInv
    <3>3. Moved /\ ~ ParentIsS(records["C"])
      BY <1>i, <2>7, <3>1, <3>2 DEF Moved
    <3>4. ASSUME NEW k, ToSelection(settling, Tail(queue)) \/ ToEnd(settling, Tail(queue), k)
          PROVE  ChildInv'
      <4>1. records["S"] # None /\ Same("C") /\ step' # "children"
        BY <1>0, <2>7, <3>4 DEF StepInv, CleanupInv, HasIntent, ToSelection, ToEnd
      <4>. QED  BY <1>a, <2>1, <3>3, <4>1 DEF Same
    <3>. QED  BY <2>1, <2>2, <2>3, <2>4, <2>5, <2>6, <2>7, <3>4 DEF Answers
  <2>8. CASE step = "selection" /\ ToEnd(settling, Tail(queue), None)
    <3>1. records["S"] # None /\ ~ ParentIsS(records["C"])
      BY <1>0, <1>i, <2>8 DEF StepInv, CleanupInv, HasIntent
    <3>2. Moved
      BY <1>i, <2>1, <2>8, <3>1 DEF LeftBehind
    <3>. QED  BY <1>a, <2>1, <2>8, <3>1, <3>2 DEF ToEnd, Same
  <2>. QED  BY <2>1, <2>2, <2>3, <2>4, <2>5, <2>6, <2>7, <2>8 DEF Answers
<1>11. CASE SharedRefused
  <2>1. /\ records["S"] # None /\ records'["S"] # None /\ Same("C") /\ step = "shared" /\ step' = "undo"
        /\ status = "ready" /\ status' = "ready"
    BY <1>0, <1>11, ClearShape DEF SharedRefused, Persist, StepInv, CleanupInv
  <2>. QED  BY <1>d, <2>1 DEF LeftBehind
<1>12. CASE SharedConfirmed
  <2>1. Completes(FALSE) /\ step = "shared" /\ status = "ready" /\ status' = "ready"
        /\ records["S"] # None
    BY <1>0, <1>12, CompleteShape DEF SharedConfirmed, StepInv, CleanupInv
  <2>. QED  BY <1>e, <2>1 DEF LeftBehind
<1>13. CASE Crash
  <2>1. /\ disk' = disk /\ status' = "closed" /\ records'["C"] = None /\ queue' = <<>>
        /\ step' = "idle"
    BY <1>13 DEF Crash, Paths
  <2>. QED  BY <1>i, <2>1, EmptyQueue DEF ChildInv, Gone, Moved, ParentIsS
<1>14. CASE Open
  <2>1. /\ disk' = disk /\ status' = "loading" /\ records' = disk /\ queue' = <<>>
        /\ step' = "idle"
    BY <1>0, <1>14 DEF Open, StatusInv, store
  <2>. QED  BY <1>i, <2>1, EmptyQueue DEF ChildInv, Gone, Moved
<1>15. CASE SettleAtOpen
  <2>1. Settles /\ status = "loading" /\ status' = "settled" /\ step = "idle"
    BY <1>0, <1>15, SettleShape DEF SettleAtOpen, StatusInv
  <2>2. ~ LeftBehind
    BY <2>1 DEF LeftBehind
  <2>3. CASE Forgets
    <3>1. records["S"] # None /\ records'["S"] # None /\ Same("C") /\ step' = step
      BY <1>0, <2>3, ClearShape DEF Forgets, HasIntent
    <3>. QED  BY <1>d, <2>1, <2>2, <3>1
  <2>4. CASE HasIntent /\ Completes(TRUE)
    BY <1>e, <2>1, <2>2, <2>4 DEF HasIntent
  <2>5. CASE ~ HasIntent /\ UNCHANGED <<memory, queue, step, settling, keep>>
    BY <1>a, <1>i, <2>1, <2>2, <2>5 DEF memory
  <2>. QED  BY <2>1, <2>3, <2>4, <2>5 DEF Settles
<1>. QED
  BY <1>1, <1>2, <1>3, <1>4, <1>5, <1>6, <1>7, <1>8, <1>9, <1>10, <1>11, <1>12,
     <1>13, <1>14, <1>15 DEF Next, User
-----------------------------------------------------------------------------
(* S goes only where the selection no longer names it *)

LEMMA DeletedFirst ==
  ASSUME NEW q \in Seq(Operations), q # <<>>, NEW d, InOrder(q, d), Deletes(Head(q))
  PROVE  d # "S" /\ \A o \in Elements(q) : ~ Selects(o, "S")
<1>1. /\ Len(q) \in Nat /\ 1 \in 1..Len(q) /\ Head(q) = q[1]
      /\ \A i \in 1..Len(q) : i = 1 \/ 1 < i
  OBVIOUS
<1>2. LeavesBefore(q, d, 1) /\ \A i \in 1..Len(q) : 1 < i => ~ Selects(q[i], "S")
  BY <1>1 DEF InOrder
<1>3. d # "S"
  <2>1. \A i \in 1..Len(q) : ~ i < 1
    BY <1>1
  <2>. QED  BY <1>2, <2>1 DEF LeavesBefore
<1>4. ~ Selects(q[1], "S")
  BY <1>1 DEF Deletes, Selects
<1>. QED  BY <1>1, <1>2, <1>3, <1>4 DEF Elements

LEMMA SelectionStep ==
  ASSUME IInv, CalmInv, Next
  PROVE  SelectionInv'
<1>. SUFFICES ASSUME calm', failures' = 0  PROVE SelectionInv'
  BY DEF SelectionInv
<1>0. /\ RecordsTypeOK /\ StoreTypeOK /\ SaveTypeOK /\ StatusInv /\ StepInv /\ CleanupInv /\ StoreInv
      /\ SelectionInv /\ ChildInv /\ AwaitInv /\ StatusInv'
      /\ DOMAIN records = Paths /\ DOMAIN disk = Paths /\ settling \in BOOLEAN
      /\ queue \in Seq(Operations)
      /\ "S" \in Paths /\ "C" \in Paths /\ "SEL" \in Paths
      /\ calm /\ failures = 0 /\ blocked = {}
  <2>1. (calm' => calm) /\ (failures' \in {failures, failures + 1})
    BY DEF Next, User, EditS, EditC, Branch, Select, DiscardS, DiscardC, Save,
           RetrySettle, RetryWrite, Fire, Land, Answer, SharedLands, SharedRefused,
           SharedConfirmed, Crash, Open, SettleAtOpen, Ready, bounds
  <2>2. failures = 0
    BY <2>1 DEF IInv, CalmInv, PublicationTypeOK, SaveTypeOK
  <2>. QED
    BY <2>1, <2>2, QueueType, StatusStep
       DEF IInv, CalmInv, PublicationTypeOK, RecordsTypeOK, SaveTypeOK, StoreInv, Paths
<1>. DEFINE d == disk["SEL"]
<1>i. /\ disk["S"] = None => d # "S" /\ \A o \in Elements(queue) : ~ Selects(o, "S")
      /\ Gone => records["SEL"] # "S" /\ LeavesS(queue, d)
      /\ InOrder(queue, d)
      /\ status # "closed" /\ "SEL" \notin dirty /\ records["SEL"] # "S" => LeavesS(queue, d)
      /\ step = "selection" => records["SEL"] # "S" /\ LeavesS(queue, d)
      /\ status # "closed" /\ records["S"] # None =>
           disk["S"] # None /\ \A o \in Elements(queue) : ~ Deletes(o)
  BY <1>0 DEF SelectionInv, ChildInv
<1>. DEFINE Base(q) == /\ q \in Seq(Operations) /\ Elements(q) \subseteq Elements(queue)
                       /\ InOrder(q, d) /\ (LeavesS(queue, d) => LeavesS(q, d))
            Pushes(q, p) == \E a \in BOOLEAN : queue' = Append(q, NewOp(p, a))
\* The queue takes one more operation, or none; S does not come back.
<1>a. ASSUME NEW q, Base(q), status # "closed", status' # "closed", disk' = disk,
             queue' = q \/ \E p \in Paths : Pushes(q, p),
             records'["S"] # None => records["S"] # None,
             records'["S"] = None => records'["SEL"] # "S" /\ LeavesS(q, d),
             "SEL" \notin dirty' /\ records'["SEL"] # "S" => Pushes(q, "SEL") \/ LeavesS(q, d),
             step' = "selection" =>
               records'["SEL"] # "S" /\ (Pushes(q, "SEL") \/ LeavesS(q, d))
      PROVE  SelectionInv'
  <2>1. records'["SEL"] = "S" => disk["S"] # None /\ \A o \in Elements(q) : ~ Deletes(o)
    BY <1>a, <1>i
  <2>2. ASSUME NEW p \in Paths, NEW a \in BOOLEAN, queue' = Append(q, NewOp(p, a))
        PROVE  /\ NewOp(p, a) \in Operations
               /\ Elements(queue') = Elements(q) \union {NewOp(p, a)}
               /\ Selects(NewOp(p, a), "S") <=> p = "SEL" /\ records'["SEL"] = "S"
               /\ Selects(NewOp(p, a), "other") <=> p = "SEL" /\ records'["SEL"] # "S"
               /\ Deletes(NewOp(p, a)) <=> p = "S" /\ records'["S"] = None
    <3>1. NewOp(p, a) \in Operations
      BY <1>a, QueueType
    <3>. QED  BY <1>a, <2>2, <3>1, Pushed DEF Selects, Deletes, NewOp
  <2>3. disk["S"] = None => d # "S" /\ \A o \in Elements(queue') : ~ Selects(o, "S")
    BY <1>a, <1>i, <2>1, <2>2
  <2>4. LeavesS(q, d) /\ records'["SEL"] # "S" => LeavesS(queue', d)
    <3>1. ASSUME NEW p \in Paths, NEW a \in BOOLEAN, queue' = Append(q, NewOp(p, a)),
                 LeavesS(q, d), records'["SEL"] # "S"
          PROVE  LeavesS(queue', d)
      <4>1. PICK o \in Operations : o = NewOp(p, a) /\ ~ Selects(o, "S")
        BY <2>2, <3>1
      <4>. QED  BY <1>a, <3>1, <4>1, PushedSelection
    <3>. QED  BY <1>a, <3>1
  <2>5. Pushes(q, "SEL") /\ records'["SEL"] # "S" => LeavesS(queue', d)
    <3>1. ASSUME NEW a \in BOOLEAN, queue' = Append(q, NewOp("SEL", a)), records'["SEL"] # "S"
          PROVE  LeavesS(queue', d)
      <4>1. PICK o \in Operations : o = NewOp("SEL", a) /\ Selects(o, "other")
        BY <1>0, <2>2, <3>1
      <4>. QED  BY <1>a, <3>1, <4>1, PushedSelection
    <3>. QED  BY <3>1
  <2>6. InOrder(queue', d)
    <3>1. ASSUME NEW p \in Paths, NEW a \in BOOLEAN, queue' = Append(q, NewOp(p, a))
          PROVE  InOrder(queue', d)
      <4>1. PICK o \in Operations : /\ o = NewOp(p, a)
                                    /\ Selects(o, "S") => records'["SEL"] = "S" /\ p = "SEL"
                                    /\ Deletes(o) => records'["S"] = None /\ p = "S"
        BY <2>2, <3>1
      <4>2. CASE Selects(o, "S")
        BY <1>a, <2>1, <3>1, <4>1, <4>2, PushedSelection
      <4>3. CASE ~ Selects(o, "S")
        BY <1>a, <3>1, <4>1, <4>3, PushedSelection
      <4>. QED  BY <4>2, <4>3
    <3>. QED  BY <1>a, <3>1
  <2>. HIDE DEF Base, Pushes
  <2>. QED  BY <1>a, <2>3, <2>4, <2>5, <2>6 DEF SelectionInv, Gone
<1>b. Base(queue)
  BY <1>0, <1>i
<1>t. ASSUME queue # <<>>, landed  PROVE Base(Tail(queue))
  <2>1. Head(queue).path = "SEL" => d = Head(queue).value
    BY <1>0, <1>t DEF StoreInv
  <2>. QED  BY <1>0, <1>i, <1>t, <2>1, Popped, PoppedSelection
<1>. HIDE DEF Base
\* Memory keeps S and the selection, and a dirty selection stays so.
<1>c. ASSUME NEW q, Base(q), status # "closed", status' # "closed", disk' = disk,
             queue' = q \/ \E p \in Paths : Pushes(q, p),
             records'["S"] = None <=> records["S"] = None, Same("SEL"),
             "SEL" \in dirty => "SEL" \in dirty' \/ Pushes(q, "SEL"),
             step' = "selection" => step = "selection"
      PROVE  SelectionInv'
  BY <1>a, <1>c, <1>i DEF Same, Gone, Base
\* The cleanup goes on behind the operations of q.
<1>d. ASSUME NEW q, Base(q), NEW t, status # "closed", status' # "closed", disk' = disk,
             records["S"] # None, ToSelection(t, q)
      PROVE  SelectionInv'
  <2>1. records'["SEL"] # "S" /\ Pushes(q, "SEL") /\ Same("S")
    BY <1>d DEF ToSelection
  <2>. QED  BY <1>0, <1>a, <1>d, <2>1 DEF Same
<1>e. ASSUME NEW q, Base(q), NEW t, NEW k, status # "closed", status' # "closed", disk' = disk,
             records["S"] # None, ToEnd(t, q, k),
             k = None => records["SEL"] # "S" /\ LeavesS(queue, d)
      PROVE  SelectionInv'
  <2>1. queue' = q \/ Pushes(q, "S")
    BY <1>e DEF ToEnd
  <2>2. /\ records'["S"] = k /\ Same("SEL") /\ step' # "selection"
        /\ "SEL" \in dirty => "SEL" \in dirty'
    BY <1>e DEF ToEnd
  <2>. QED  BY <1>0, <1>a, <1>e, <1>i, <2>1, <2>2 DEF Same, Base
<1>f. ASSUME NEW t, status # "closed", status' # "closed", disk' = disk,
             records["S"] # None, Completes(t)
      PROVE  SelectionInv'
  <2>1. CASE ToChildren(t)
    <3>1. Pushes(queue, "C") /\ Same("S") /\ Same("SEL") /\ step' # "selection"
          /\ dirty' = dirty \ {"C"}
      BY <2>1 DEF ToChildren
    <3>. QED  BY <1>0, <1>b, <1>c, <1>f, <3>1 DEF Same
  <2>2. CASE ToSelection(t, queue)
    BY <1>b, <1>d, <1>f, <2>2
  <2>3. CASE /\ Kept(records["S"]) = None => records["SEL"] # "S" /\ "SEL" \notin dirty
             /\ ToEnd(t, queue, Kept(records["S"]))
    BY <1>b, <1>e, <1>f, <1>i, <2>3
  <2>. QED  BY <1>f, <2>1, <2>2, <2>3 DEF Completes
<1>g. ASSUME Settles, step = "idle", status # "closed", status' # "closed", disk' = disk
      PROVE  SelectionInv'
  <2>1. CASE Forgets
    BY <1>0, <1>b, <1>c, <1>g, <2>1, ClearShape DEF Forgets, HasIntent
  <2>2. CASE HasIntent /\ Completes(TRUE)
    BY <1>f, <1>g, <2>2 DEF HasIntent
  <2>3. CASE UNCHANGED <<memory, queue, step, settling, keep>>
    BY <1>b, <1>c, <1>g, <2>3 DEF memory, Same
  <2>. QED  BY <1>g, <2>1, <2>2, <2>3 DEF Settles
<1>1. ASSUME NEW c \in Contents, EditS(c)  PROVE SelectionInv'
  BY <1>0, <1>1, <1>b, <1>c, EditShape DEF EditS, Schedule, store
<1>2. ASSUME NEW c \in Contents, EditC(c)  PROVE SelectionInv'
  <2>1. Same("S") /\ Same("SEL")
    BY <1>0, <1>2 DEF EditC, Schedule, Same, Paths
  <2>. QED  BY <1>2, <1>b, <1>c, <2>1 DEF EditC, Schedule, store, Same
<1>3. ASSUME NEW c \in Contents, Branch(c)  PROVE SelectionInv'
  <2>1. Same("S") /\ "SEL" \in dirty' /\ records["S"] # None
    BY <1>0, <1>3 DEF Branch, Schedule, Same, Paths
  <2>2. step' # "selection" /\ queue' = queue /\ disk' = disk /\ status = "ready" /\ status' = "ready"
    BY <1>0, <1>3 DEF Branch, Publishing, StatusInv, store
  <2>. QED  BY <1>a, <1>b, <2>1, <2>2 DEF Same
<1>4. ASSUME NEW s \in Selections, Select(s)  PROVE SelectionInv'
  <2>1. /\ Same("S") /\ "SEL" \in dirty' /\ records'["SEL"] = s
        /\ s = "S" => records["S"] # None
    BY <1>0, <1>4 DEF Select, Schedule, Same, Paths
  <2>2. /\ step' = step /\ (step = "selection" => s # "S")
        /\ queue' = queue /\ disk' = disk /\ status = "ready" /\ status' = "ready"
    BY <1>4 DEF Select, store
  <2>. QED  BY <1>a, <1>b, <1>i, <2>1, <2>2 DEF Same, Gone, Base
<1>5. CASE DiscardS \/ DiscardC \/ RetrySettle
  BY <1>5 DEF DiscardS, DiscardC, RetrySettle
<1>6. CASE Save
  <2>1. /\ records'["S"] # None /\ records["S"] # None /\ Same("SEL") /\ Pushes(queue, "S")
    BY <1>0, <1>6, SaveShape DEF Save
  <2>2. /\ status = "ready" /\ status' = "ready" /\ step' = "intent" /\ disk' = disk
        /\ "SEL" \in dirty => "SEL" \in dirty'
    BY <1>6 DEF Save, Persist
  <2>. QED  BY <1>0, <1>b, <1>c, <2>1, <2>2
<1>7. ASSUME NEW p \in Paths, RetryWrite(p)  PROVE SelectionInv'
  BY <1>7 DEF RetryWrite
<1>8. ASSUME NEW p \in Paths, Fire(p)  PROVE SelectionInv'
  <2>1. /\ status = "ready" /\ status' = "ready" /\ records' = records /\ disk' = disk
        /\ step' = step /\ records["SEL"] # None
        /\ queue' = queue \/ Pushes(queue, p)
        /\ p # "SEL" /\ "SEL" \in dirty => "SEL" \in dirty'
        /\ p = "SEL" /\ "SEL" \in dirty => Pushes(queue, p)
    BY <1>0, <1>8 DEF Fire, StatusInv, Queued, Op, NewOp
  <2>. HIDE DEF Pushes
  <2>. QED  BY <1>b, <1>c, <1>8, <2>1 DEF Same
<1>9. CASE Land
  <2>1. /\ queue # <<>> /\ queue' = queue /\ records' = records /\ dirty' = dirty /\ step' = step
        /\ status' = status /\ status # "closed"
        /\ disk' = [disk EXCEPT ![Head(queue).path] = Head(queue).value]
    BY <1>0, <1>9 DEF Land, memory, StatusInv
  <2>2. Head(queue) \in Operations /\ Head(queue) \in Elements(queue)
    BY <1>0, <2>1, Popped
  <2>3. IF Head(queue).path = "SEL" THEN disk'["SEL"] = Head(queue).value ELSE disk'["SEL"] = d
    BY <1>0, <2>1
  <2>4. /\ LeavesS(queue, d) => LeavesS(queue, disk'["SEL"])
        /\ InOrder(queue, disk'["SEL"])
    BY <1>0, <1>i, <2>1, <2>3, LandedSelection
  <2>5. ASSUME disk'["S"] = None
        PROVE  disk'["SEL"] # "S" /\ \A o \in Elements(queue) : ~ Selects(o, "S")
    <3>1. CASE disk["S"] = None
      BY <1>i, <2>2, <2>3, <3>1 DEF Selects
    <3>2. CASE disk["S"] # None
      <4>1. Deletes(Head(queue))
        BY <1>0, <2>1, <2>5, <3>2 DEF Deletes
      <4>2. Head(queue).path # "SEL"
        BY <4>1 DEF Deletes
      <4>. QED  BY <1>0, <1>i, <2>1, <2>3, <4>1, <4>2, DeletedFirst
    <3>. QED  BY <3>1, <3>2
  <2>. QED  BY <1>i, <2>1, <2>4, <2>5 DEF SelectionInv, Gone
<1>10. ASSUME NEW ok \in BOOLEAN, Answer(ok)  PROVE SelectionInv'
  <2>1. ok
    BY <1>0, <1>10 DEF Answer
  <2>2. /\ Answers(ok) /\ queue # <<>> /\ landed /\ disk' = disk
        /\ status' = status /\ status # "closed" /\ status # "loading"
    BY <1>0, <1>10, <2>1, AnswerShape DEF Answer, StatusInv
  <2>3. Base(Tail(queue))
    BY <1>t, <2>2
  <2>4. CASE IntentWritten(ok)
    BY <1>c, <2>1, <2>2, <2>3, <2>4 DEF IntentWritten, Same
  <2>5. CASE UndoWritten(ok) \/ Unawaited(ok)
    BY <1>c, <2>1, <2>2, <2>3, <2>5 DEF UndoWritten, Unawaited, Same
  <2>6. CASE FinalWritten(ok)
    <3>1. /\ Same("S") /\ step' = "idle" /\ queue' = Tail(queue) /\ dirty \subseteq dirty'
          /\ Same("SEL") \/ (records["SEL"] = "S" /\ records'["SEL"] = "published" /\ "SEL" \in dirty')
      BY <1>0, <2>6 DEF FinalWritten, Same, Paths
    <3>2. CASE Same("SEL")
      BY <1>c, <2>2, <2>3, <3>1, <3>2 DEF Same
    <3>3. CASE records["SEL"] = "S" /\ records'["SEL"] = "published" /\ "SEL" \in dirty'
      BY <1>a, <1>i, <2>2, <2>3, <3>1, <3>3 DEF Same, Gone
    <3>. QED  BY <3>1, <3>2, <3>3
  <2>7. CASE step = "children" /\ ToSelection(settling, Tail(queue))
    BY <1>0, <1>d, <2>2, <2>3, <2>7 DEF StepInv, CleanupInv, HasIntent
  <2>8. CASE /\ step = "children"
             /\ keep = None => records["SEL"] # "S" /\ "SEL" \notin dirty
             /\ ToEnd(settling, Tail(queue), keep)
    BY <1>0, <1>e, <1>i, <2>2, <2>3, <2>8 DEF StepInv, CleanupInv, HasIntent
  <2>9. CASE step = "selection" /\ ToEnd(settling, Tail(queue), None)
    BY <1>0, <1>e, <1>i, <2>2, <2>3, <2>9 DEF StepInv, CleanupInv, HasIntent
  <2>. QED  BY <2>1, <2>2, <2>4, <2>5, <2>6, <2>7, <2>8, <2>9 DEF Answers
<1>11. CASE SharedRefused
  <2>1. /\ records["S"] # None /\ records'["S"] # None /\ Same("SEL") /\ step' = "undo"
        /\ status = "ready" /\ status' = "ready" /\ disk' = disk
        /\ "SEL" \in dirty => "SEL" \in dirty'
    BY <1>0, <1>11, ClearShape DEF SharedRefused, Persist, StepInv, CleanupInv
  <2>2. Pushes(queue, "S")
    BY <1>11 DEF SharedRefused, Persist, Op, NewOp
  <2>. QED  BY <1>0, <1>b, <1>c, <2>1, <2>2
<1>12. CASE SharedConfirmed
  BY <1>0, <1>12, <1>f, CompleteShape DEF SharedConfirmed, StepInv, CleanupInv
<1>13. CASE SharedLands \/ Ready
  <2>1. status # "closed" /\ status' # "closed"
    BY <1>13 DEF SharedLands, Ready
  <2>. QED  BY <1>b, <1>c, <1>13, <2>1 DEF SharedLands, Ready, memory, store, Same
<1>14. CASE Crash
  <2>1. disk' = disk /\ status' = "closed" /\ queue' = <<>> /\ step' = "idle"
    BY <1>14 DEF Crash
  <2>. QED  BY <1>i, <2>1, EmptyQueue DEF SelectionInv, Gone
<1>15. CASE Open
  <2>1. disk' = disk /\ status' = "loading" /\ records' = disk /\ queue' = <<>> /\ step' = "idle"
    BY <1>0, <1>15 DEF Open, StatusInv, store
  <2>. QED  BY <1>i, <2>1, EmptyQueue DEF SelectionInv, Gone
<1>16. CASE SettleAtOpen
  <2>1. Settles /\ status = "loading" /\ status' = "settled" /\ step = "idle" /\ disk' = disk
    BY <1>0, <1>16, SettleShape DEF SettleAtOpen, StatusInv
  <2>. QED  BY <1>g, <2>1
<1>. QED
  BY <1>1, <1>2, <1>3, <1>4, <1>5, <1>6, <1>7, <1>8, <1>9, <1>10, <1>11, <1>12,
     <1>13, <1>14, <1>15, <1>16 DEF Next, User
-----------------------------------------------------------------------------
(* An intent left behind was reported *)

LEMMA ReportStep ==
  ASSUME IInv, CalmInv, Next
  PROVE  ReportInv'
<1>0. /\ RecordsTypeOK /\ StoreTypeOK /\ SaveTypeOK /\ WindowTypeOK /\ StatusInv /\ StepInv /\ CleanupInv
      /\ ReportInv /\ DOMAIN records = Paths /\ settling \in BOOLEAN
      /\ review \subseteq {"write", "children"}
  BY DEF IInv, CalmInv, PublicationTypeOK, RecordsTypeOK, SaveTypeOK, WindowTypeOK
\* S has no intent more than it had, and no step has ended.
<1>a. ASSUME HasIntent' => HasIntent, step' = step, review' = review,
             calm' => calm, calm' /\ status' \in {"settled", "ready"} => status \in {"settled", "ready"}
      PROVE  ReportInv'
  BY <1>0, <1>a DEF ReportInv
<1>b. ASSUME ~ HasIntent'  PROVE ReportInv'
  BY <1>b DEF ReportInv
<1>c. ASSUME step' \notin {"undo", "final", "idle"}  PROVE ReportInv'
  BY <1>c DEF ReportInv
<1>s. Same("S") => (HasIntent' <=> HasIntent)
  BY DEF Same, HasIntent
<1>k. ASSUME records["S"] # None
      PROVE  Kept(records["S"]) # None => Kept(records["S"]).intent = NoIntent
  BY <1>0, <1>k, KeptType DEF RecordsTypeOK
<1>d. ASSUME NEW t, records["S"] # None, Completes(t)  PROVE ReportInv'
  <2>1. CASE ToEnd(t, queue, Kept(records["S"]))
    BY <1>b, <1>d, <1>k, <2>1 DEF ToEnd, HasIntent
  <2>. QED  BY <1>c, <1>d, <2>1 DEF Completes, ToChildren, ToSelection
<1>e. ASSUME Settles  PROVE ReportInv'
  <2>1. CASE Forgets
    BY <1>0, <1>b, <2>1, ClearShape DEF Forgets, HasIntent
  <2>2. CASE HasIntent /\ Completes(TRUE)
    BY <1>d, <2>2 DEF HasIntent
  <2>3. CASE ~ HasIntent /\ UNCHANGED <<memory, queue, step, settling, keep>>
    BY <1>b, <1>s, <2>3 DEF memory, Same
  <2>. QED  BY <1>e, <2>1, <2>2, <2>3 DEF Settles
<1>1. ASSUME NEW c \in Contents, EditS(c)  PROVE ReportInv'
  BY <1>0, <1>1, <1>a, EditShape DEF EditS, HasIntent
<1>2. ASSUME NEW c \in Contents, EditC(c) \/ Branch(c)  PROVE ReportInv'
  <2>1. Same("S")
    BY <1>0, <1>2 DEF EditC, Branch, Schedule, Same, Paths
  <2>. QED  BY <1>a, <1>s, <1>2, <2>1 DEF EditC, Branch
<1>3. ASSUME NEW s \in Selections, Select(s)  PROVE ReportInv'
  <2>1. Same("S")
    BY <1>0, <1>3 DEF Select, Schedule, Same, Paths
  <2>. QED  BY <1>a, <1>s, <1>3, <2>1 DEF Select
<1>4. CASE DiscardS
  <2>1. DOMAIN Reparented(records, "base") = Paths
    BY <1>0 DEF Reparented
  <2>2. records'["S"] = None
    BY <1>4, <2>1 DEF DiscardS, Paths
  <2>. QED  BY <1>b, <2>2 DEF HasIntent
<1>5. CASE DiscardC
  <2>1. Same("S")
    BY <1>0, <1>5 DEF DiscardC, Same, Paths
  <2>2. calm' = FALSE /\ step' = step
    BY <1>5 DEF DiscardC
  <2>. QED  BY <1>0, <1>s, <2>1, <2>2 DEF ReportInv
<1>6. CASE Save
  BY <1>6, <1>c DEF Save
<1>7. CASE RetrySettle
  BY <1>0, <1>7, <1>e, SettleShape DEF RetrySettle
<1>8. ASSUME NEW p \in Paths, RetryWrite(p)  PROVE ReportInv'
  <2>1. Same("S") /\ calm' = FALSE /\ step' = step
    BY <1>8 DEF RetryWrite, Same
  <2>. QED  BY <1>0, <1>s, <2>1 DEF ReportInv
<1>9. ASSUME NEW p \in Paths, Fire(p)  PROVE ReportInv'
  BY <1>9, <1>a, <1>s DEF Fire, Same
<1>10. CASE Land \/ SharedLands \/ Ready
  BY <1>10, <1>a, <1>s DEF Land, SharedLands, Ready, memory, Same
<1>11. ASSUME NEW ok \in BOOLEAN, Answer(ok)  PROVE ReportInv'
  <2>1. /\ Answers(ok) /\ calm' = calm /\ status' = status
    BY <1>0, <1>11, AnswerShape DEF Answer
  <2>2. review \subseteq review' /\ (~ ok => review' # {})
    BY <1>0, <1>11 DEF Answer
  <2>3. CASE IntentWritten(ok)
    <3>1. CASE ok
      BY <1>c, <2>3, <3>1 DEF IntentWritten
    <3>2. CASE ~ ok
      BY <1>0, <1>b, <2>3, <3>2, ClearShape DEF IntentWritten, StepInv, CleanupInv, HasIntent
    <3>. QED  BY <3>1, <3>2
  <2>4. CASE UndoWritten(ok)
    BY <1>0, <1>b, <1>s, <2>4 DEF UndoWritten, ReportInv, Same
  <2>5. CASE FinalWritten(ok)
    <3>1. Same("S")
      BY <1>0, <2>5 DEF FinalWritten, Same, Paths
    <3>. QED  BY <1>0, <1>b, <1>s, <2>5, <3>1 DEF FinalWritten, ReportInv
  <2>6. CASE Unawaited(ok)
    BY <1>0, <1>s, <2>1, <2>2, <2>6 DEF Unawaited, ReportInv, Same
  <2>7. CASE ~ ok /\ GivesUp
    BY <2>2, <2>7 DEF GivesUp, ReportInv
  <2>8. CASE ToSelection(settling, Tail(queue))
    BY <1>c, <2>8 DEF ToSelection
  <2>9. CASE step \in {"children", "selection"} /\ ToEnd(settling, Tail(queue), keep)
    BY <1>0, <1>b, <1>k, <2>9 DEF ToEnd, StepInv, CleanupInv, HasIntent
  <2>10. step = "selection" => keep = None
    BY <1>0 DEF StepInv, CleanupInv
  <2>. QED  BY <2>1, <2>3, <2>4, <2>5, <2>6, <2>7, <2>8, <2>9, <2>10 DEF Answers
<1>12. CASE SharedRefused
  BY <1>0, <1>12, <1>b, ClearShape DEF SharedRefused, Persist, StepInv, CleanupInv, HasIntent
<1>13. CASE SharedConfirmed
  BY <1>0, <1>13, <1>d, CompleteShape DEF SharedConfirmed, StepInv, CleanupInv
<1>14. CASE Crash
  BY <1>14, <1>b DEF Crash, HasIntent, Paths
<1>15. CASE Open
  BY <1>0, <1>15 DEF Open, ReportInv, StatusInv
<1>16. CASE SettleAtOpen
  BY <1>0, <1>16, <1>e, SettleShape DEF SettleAtOpen
<1>. QED
  BY <1>1, <1>2, <1>3, <1>4, <1>5, <1>6, <1>7, <1>8, <1>9, <1>10, <1>11, <1>12,
     <1>13, <1>14, <1>15, <1>16 DEF Next, User
-----------------------------------------------------------------------------
(* The invariant holds of every behaviour *)

LEMMA InitInv ==
  ASSUME Init
  PROVE  IInv /\ CalmInv
<1>1. PICK c \in Contents, s \in {"S", "base"} :
        /\ records = [S |-> Scratch(c, NoIntent), C |-> None, SEL |-> s]
        /\ disk = records /\ latest = [S |-> c, C |-> 0]
  BY DEF Init
<1>2. Scratch(c, NoIntent) \in Scratches /\ NoIntent \in Intents
  BY KeptType, PublicationAssumption DEF Scratches, Scratch, Intents, NoIntent
<1>3. /\ DOMAIN records = Paths /\ records["S"] = Scratch(c, NoIntent) /\ records["C"] = None
      /\ records["SEL"] = s /\ Scratch(c, NoIntent) # None /\ None # s
      /\ Scratch(c, NoIntent).intent = NoIntent /\ Scratch(c, NoIntent).content = c
  BY <1>1, <1>2, NoneAssumption DEF Paths, Scratch, Selections
<1>4. /\ status = "ready" /\ queue = <<>> /\ landed = FALSE /\ step = "idle" /\ settling = FALSE
      /\ keep = None /\ standing = Unpublished /\ saves = 0 /\ blocked = {} /\ review = {}
      /\ shared = [r \in 1..MaxSaves |-> 0]
  BY DEF Init
<1>5. PublicationTypeOK
  <2>1. RecordsTypeOK
    BY <1>1, <1>2, <1>3 DEF RecordsTypeOK, Selections
  <2>2. StoreTypeOK
    BY EmptyQueue DEF Init, StoreTypeOK
  <2>3. SaveTypeOK
    <3>1. shared \in [1..MaxSaves -> Contents \union {0}]
      BY <1>4
    <3>2. saves \in Nat /\ edits \in Nat /\ failures \in Nat /\ crashes \in Nat
      BY DEF Init
    <3>. QED  BY <1>4, <3>1, <3>2 DEF SaveTypeOK, Steps
  <2>4. latest \in [{"S", "C"} -> Contents \union {0}]
    BY <1>1
  <2>5. WindowTypeOK
    BY <2>4 DEF Init, WindowTypeOK, Standings, Unpublished
  <2>. QED  BY <2>1, <2>2, <2>3, <2>5 DEF PublicationTypeOK
<1>6. StoreInv /\ StatusInv /\ AwaitInv /\ StepInv /\ ReportInv /\ KnownInv /\ OnceInv
      /\ CleanupInv
  BY <1>3, <1>4, NoneAssumption, EmptyQueue
     DEF StoreInv, StatusInv, AwaitInv, StepInv, ReportInv, KnownInv, OnceInv, CleanupInv, HasIntent,
         Published, Unpublished, Selections
<1>7. \A i \in KnownIntents : i = NoIntent
  BY <1>1, <1>3, <1>4, EmptyQueue DEF KnownIntents, SValues
<1>8. IntentsInv
  BY <1>4, <1>7, PublicationAssumption DEF IntentsInv, Dated, NoIntent
<1>9. EditsInv
  BY <1>1, <1>3, <1>4 DEF EditsInv, Holds
<1>10. ChildInv
  BY <1>1, <1>3, <1>4, EmptyQueue DEF ChildInv, Gone, Moved, ParentIsS
<1>11. SelectionInv
  BY <1>1, <1>3, <1>4, EmptyQueue DEF SelectionInv, Gone
<1>. QED  BY <1>5, <1>6, <1>8, <1>9, <1>10, <1>11 DEF IInv, CalmInv

LEMMA StutterInv ==
  ASSUME IInv, UNCHANGED vars
  PROVE  IInv' /\ (CalmInv => CalmInv')
<1>0. /\ status' = status /\ records' = records /\ dirty' = dirty /\ deletions' = deletions
      /\ timers' = timers /\ queue' = queue /\ landed' = landed /\ blocked' = blocked
      /\ disk' = disk /\ shared' = shared /\ step' = step /\ settling' = settling /\ keep' = keep
      /\ review' = review /\ latest' = latest /\ standing' = standing /\ calm' = calm
      /\ beside' = beside /\ outdated' = outdated
      /\ saves' = saves /\ edits' = edits /\ failures' = failures /\ crashes' = crashes
  BY DEF vars
<1>1. PublicationTypeOK'
  BY <1>0 DEF IInv, PublicationTypeOK, RecordsTypeOK, StoreTypeOK, SaveTypeOK, WindowTypeOK
<1>2. StoreInv' /\ StatusInv' /\ AwaitInv'
  BY <1>0 DEF IInv, StoreInv, StatusInv, AwaitInv
<1>3. StepInv'
  BY <1>0 DEF IInv, StepInv
<1>4. KnownIntents' = KnownIntents
  BY <1>0 DEF KnownIntents, SValues
<1>5. IntentsInv' /\ OnceInv'
  BY <1>0, <1>4 DEF IInv, IntentsInv, OnceInv, Published, Dated
<1>6. KnownInv'
  BY <1>0 DEF IInv, KnownInv, Carries
<1>7. CalmInv => CleanupInv' /\ EditsInv' /\ ReportInv'
  BY <1>0 DEF CalmInv, CleanupInv, EditsInv, ReportInv, HasIntent
<1>8. CalmInv => ChildInv' /\ SelectionInv'
  BY <1>0 DEF CalmInv, ChildInv, LeftBehind, HasIntent, SelectionInv, Gone, Moved
<1>. QED  BY <1>1, <1>2, <1>3, <1>5, <1>6, <1>7, <1>8 DEF IInv, CalmInv

\* Every step keeps what holds whatever the user does.
LEMMA StepKeepsInv ==
  ASSUME IInv, [Next]_vars
  PROVE  IInv'
<1>1. CASE UNCHANGED vars
  BY <1>1, StutterInv
<1>2. CASE Next
  <2>1. PublicationTypeOK'
    BY <1>2, RecordsStep, StoreStep, WindowStep DEF PublicationTypeOK
  <2>. QED
    BY <1>2, <2>1, StoreStep, StatusStep, AwaitStep, StepsKnow, IntentsStep, KnownStep,
       OnceStep DEF IInv
<1>. QED  BY <1>1, <1>2

\* And the rest with it.
LEMMA StepKeepsCalm ==
  ASSUME IInv, CalmInv, [Next]_vars
  PROVE  CalmInv'
<1>1. CASE UNCHANGED vars
  BY <1>1, StutterInv
<1>2. CASE Next
  BY <1>2, CleanupStep, EditsStep, ChildStep, SelectionStep, ReportStep DEF CalmInv
<1>. QED  BY <1>1, <1>2

LEMMA PublicationInv == Spec => []IInv
<1>1. Init => IInv
  BY InitInv
<1>2. IInv /\ [Next]_vars => IInv'
  BY StepKeepsInv
<1>. QED  BY <1>1, <1>2, PTL DEF Spec

LEMMA CalmPublicationInv == Spec => [](IInv /\ CalmInv)
<1>1. Init => CalmInv
  BY InitInv
<1>2. IInv /\ CalmInv /\ [Next]_vars => CalmInv'
  BY StepKeepsCalm
<1>. QED  BY <1>1, <1>2, PublicationInv, PTL DEF Spec

-----------------------------------------------------------------------------
(* What the runs check, for every value of the constants *)

\* The records on disk lead the next window to a parent, a selection and an end
\* of the Save that was interrupted (completePublication and open), whatever the
\* user edits meanwhile.
THEOREM RecordsAlwaysLeadOn == Spec => []RecordsLeadOn
<1>1. ASSUME IInv, CalmInv  PROVE RecordsLeadOn
  <2>1. PublicationTypeOK /\ RecordsTypeOK
    BY <1>1 DEF IInv, PublicationTypeOK
  <2>2. calm => ChildKeepsParent
    BY <1>1 DEF CalmInv, ChildInv, ChildKeepsParent, Moved, ParentIsS
  <2>3. calm => SelectionKeepsRecord
    BY <1>1 DEF CalmInv, SelectionInv, SelectionKeepsRecord
  <2>4. calm => SettledOrReported
    BY <1>1 DEF CalmInv, ReportInv, SettledOrReported, Rests
  <2>. QED  BY <2>1, <2>2, <2>3, <2>4 DEF RecordsLeadOn
<1>2. IInv /\ CalmInv => RecordsLeadOn
  BY <1>1
<1>. QED  BY <1>2, CalmPublicationInv, PTL

\* What was typed last is in the request or published, whatever fails and however
\* often the window dies (publishRecord keeps the edits made while it runs), but
\* for what was typed into the request after completePublication had read it.
THEOREM NoEditIsLost == Spec => []NoLostEdit
<1>1. IInv /\ CalmInv => NoLostEdit
  BY DEF CalmInv, EditsInv, NoLostEdit, Rests, Safe, Holds
<1>. QED  BY <1>1, CalmPublicationInv, PTL

\* A revision lands only while the file of S names it, and a request published
\* as it stands is not saved again, whatever fails and whatever the user does,
\* unless the user was told that its Save had failed.
THEOREM IsPublishedOnce == Spec => PublishedOnce
<1>. DEFINE Names(r) == shared[r] = 0 /\ shared'[r] # 0 =>
                          disk["S"] # None /\ disk["S"].intent.rev = r
            First == \A r \in 1..MaxSaves : Names(r)
            Fresh == step = "idle" /\ step' = "intent" => standing.content = 0 \/ standing.denied
<1>1. ASSUME IInv, Next  PROVE First
  <2>1. CASE SharedLands
    <3>1. /\ Carries(disk["S"]) /\ shared \in [1..MaxSaves -> Contents \union {0}]
          /\ shared' = [shared EXCEPT ![records["S"].intent.rev] = records["S"].intent.content]
      BY <1>1, <2>1 DEF SharedLands, IInv, KnownInv, PublicationTypeOK, SaveTypeOK
    <3>. QED  BY <3>1 DEF Carries
  <2>2. CASE ~ SharedLands
    <3>1. shared' = shared
      BY <1>1, <2>2 DEF Next, User, EditS, EditC, Branch, Select, DiscardS, DiscardC, Save,
                RetrySettle, RetryWrite, Fire, Land, Answer, SharedRefused,
                SharedConfirmed, Crash, Open, SettleAtOpen, Ready
    <3>. QED  BY <3>1
  <2>. QED  BY <2>1, <2>2
<1>2. ASSUME IInv, Next  PROVE Fresh
  <2>0. RecordsTypeOK /\ StoreTypeOK /\ SaveTypeOK /\ AwaitInv /\ queue \in Seq(Operations)
    BY <1>2, QueueType DEF IInv, PublicationTypeOK
  <2>1. CASE Save
    BY <1>2, <2>1, IntentsGrow DEF Save, IInv, OnceInv, Published, NoIntent
  <2>2. ASSUME NEW ok \in BOOLEAN, Answer(ok), step = "idle"  PROVE step' = "idle"
    <3>1. Answers(ok) /\ queue # <<>>
      BY <2>0, <2>2, AnswerShape DEF Answer
    <3>2. ~ Head(queue).awaited
      BY <2>0, <2>2, <3>1, Popped DEF AwaitInv
    <3>. QED  BY <2>2, <3>1, <3>2 DEF Answers, Unawaited
  <2>3. ASSUME NEW t \in BOOLEAN, Completes(t)  PROVE step' # "intent"
    BY <2>3 DEF Completes, ToChildren, ToSelection, ToEnd
  <2>4. CASE RetrySettle \/ SettleAtOpen
    BY <2>0, <2>3, <2>4, SettleShape DEF RetrySettle, SettleAtOpen, Settles, Forgets
  <2>5. CASE SharedConfirmed
    BY <2>5 DEF SharedConfirmed
  <2>6. CASE ~ Save /\ ~ RetrySettle /\ ~ SettleAtOpen /\ ~ SharedConfirmed
             /\ ~ \E ok \in BOOLEAN : Answer(ok)
    BY <1>2, <2>6 DEF Next, User, EditS, EditC, Branch, Select, DiscardS, DiscardC,
                RetryWrite, Fire, Land, SharedLands, SharedRefused, Crash, Open, Ready
  <2>. QED  BY <2>1, <2>2, <2>4, <2>5, <2>6
<1>3. IInv /\ [Next]_vars => [First]_vars /\ [Fresh]_vars
  BY <1>1, <1>2
<1>4. Spec => [][First]_vars /\ [][Fresh]_vars
  BY <1>3, PublicationInv, PTL DEF Spec
<1>. QED  BY <1>4, PTL DEF PublishedOnce, IntentBeforeRevision, NeverSavedTwice

=============================================================================
