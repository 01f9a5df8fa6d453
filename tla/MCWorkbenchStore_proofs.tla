----------------------- MODULE MCWorkbenchStore_proofs -----------------------
(***************************************************************************)
(* Proofs about the files of a project folder, for any number of windows,  *)
(* contents, drafts, folders and pins, and any number of operations,       *)
(* failures and crashes.                                                   *)
(*                                                                         *)
(* The argument for a record: an operation holds the write scope from its  *)
(* check to its answer, so what it checked is still so when it writes,     *)
(* unless a program that ignores the scope changes it meanwhile.  And what *)
(* a store expects is always something its window has seen; a store that   *)
(* cannot know what its last write left is blocked.                        *)
(*                                                                         *)
(* For the baselines: a folder that was not raced is written by one write  *)
(* at a time, and a page waits for a read of it only while nothing of it   *)
(* is written; so what a page shows as read is what the file held before a *)
(* write lands.                                                            *)
(*                                                                         *)
(* For an upgrade: its backup is staged in order and whole before anything *)
(* else is written, what a use replaces is copied first, and a candidate   *)
(* the user may touch is settled, lapsed, or in a backup that is damaged   *)
(* or being removed; so whatever stops it, each word the user wrote is in  *)
(* place or in a copy, and nothing he is done with is activated again.     *)
(***************************************************************************)
EXTENDS MCWorkbenchStore, SequenceTheorems, WellFoundedInduction, TLAPS

\* A window without a store has nothing under way.
ClosedIsIdle ==
    \A w \in Windows : ~open[w] => running[w] = None /\ queue[w] = <<>>

\* An operation in the middle of a write holds the scope, its path is not
\* blocked, and what it has written the window has seen.
MutatesInScope ==
    \A w \in Windows :
        /\ At(w, "scope") \/ At(w, "write") \/ At(w, "confirm") => ~blocked[w]
        /\ At(w, "write") \/ At(w, "confirm") => scope = w
        /\ At(w, "confirm") => running[w].op.contents \in seen[w]
        /\ At(w, "scope") \/ At(w, "write") \/ At(w, "confirm") =>
               running[w].op.contents \in Bytes

\* What the window would replace is something it has seen.
ExpectsWhatItSaw ==
    \A w \in Windows :
        /\ expected[w] # Unknown => expected[w] \in seen[w]
        /\ open[w] /\ ~blocked[w] /\ expected[w] = Unknown => None \in seen[w]

\* The last writer knows what it left, or is about to look.
WriterIsRight ==
    \A w \in Windows :
        writer = w /\ open[w] /\ ~blocked[w] =>
            IF At(w, "confirm") THEN disk = running[w].op.contents
                                ELSE disk = ExpectedBytes(w)

StoreInv == /\ StoreTypeOK /\ ClosedIsIdle /\ MutatesInScope
            /\ ExpectsWhatItSaw /\ WriterIsRight

\* What a mutation checked still holds when it writes.
CheckStillHolds ==
    \A w \in Windows :
        At(w, "write") => /\ disk = ExpectedBytes(w)
                          /\ protection = "ours" /\ ~foreign

-----------------------------------------------------------------------------

LEMMA InitStore ==
  ASSUME StoreAssumption, NothingAssumption, Init
  PROVE  StoreInv /\ CheckStillHolds
<1>1. StoreTypeOK
  BY DEF Init, StoreTypeOK, StoreAssumption, Bytes
<1>2. \A w \in Windows : ~At(w, "write") /\ ~At(w, "scope") /\ ~At(w, "confirm")
  BY DEF Init, At
<1>3. ClosedIsIdle /\ MutatesInScope /\ CheckStillHolds
  BY <1>2 DEF Init, ClosedIsIdle, MutatesInScope, CheckStillHolds
<1>4. ExpectsWhatItSaw /\ WriterIsRight
  BY DEF Init, ExpectsWhatItSaw, WriterIsRight, NothingAssumption
<1>. QED  BY <1>1, <1>3, <1>4 DEF StoreInv

\* An operation under way is one that was asked, at a step of its own.
LEMMA StepShape ==
  ASSUME StoreTypeOK, NEW w \in Windows, running[w] # None
  PROVE  /\ running[w] \in Steps /\ running[w].op \in Operations
         /\ running[w].op.contents \in Bytes \union {Unknown}
         /\ \A p \in {"scope", "write", "confirm", "read"} :
              LET next == [running[w] EXCEPT !.pc = p] IN
              next \in Steps /\ next.op = running[w].op /\ next.pc = p
<1>1. running[w] \in Steps
  BY DEF StoreTypeOK
<1>2. \A op \in Operations : op.contents \in Bytes \union {Unknown}
  BY DEF Operations
<1>. QED  BY <1>1, <1>2 DEF Steps

LEMMA OpenStore ==
  ASSUME StoreAssumption, NothingAssumption, StoreInv, NEW w \in Windows, NEW readable \in BOOLEAN,
         Open(w, readable)
  PROVE  StoreInv'
<1>. USE DEF Open, hostVars
<1>1. StoreTypeOK'
  BY DEF StoreInv, StoreTypeOK, StoreAssumption, Bytes
<1>2. ClosedIsIdle'
  BY DEF StoreInv, StoreTypeOK, ClosedIsIdle
<1>3. MutatesInScope'
  BY DEF StoreInv, StoreTypeOK, ClosedIsIdle, MutatesInScope, At
<1>4. ExpectsWhatItSaw'
  BY DEF StoreInv, StoreTypeOK, StoreAssumption, MutatesInScope, ExpectsWhatItSaw, At, Bytes
<1>5. WriterIsRight'
  BY DEF StoreInv, StoreTypeOK, StoreAssumption, NothingAssumption, ClosedIsIdle,
         MutatesInScope, WriterIsRight, ExpectedBytes, At, Bytes
<1>. QED  BY <1>1, <1>2, <1>3, <1>4, <1>5 DEF StoreInv

LEMMA CloseStore ==
  ASSUME StoreAssumption, NothingAssumption, StoreInv, NEW w \in Windows, Close(w)
  PROVE  StoreInv'
<1>. USE DEF Close
<1>1. StoreTypeOK'
  BY DEF StoreInv, StoreTypeOK, StoreAssumption, Bytes
<1>2. ClosedIsIdle'
  BY DEF StoreInv, StoreTypeOK, ClosedIsIdle
<1>3. MutatesInScope'
  BY DEF StoreInv, StoreTypeOK, ClosedIsIdle, MutatesInScope, At
<1>4. ExpectsWhatItSaw'
  BY DEF StoreInv, StoreTypeOK, StoreAssumption, MutatesInScope, ExpectsWhatItSaw, At, Bytes
<1>5. WriterIsRight'
  BY DEF StoreInv, StoreTypeOK, StoreAssumption, NothingAssumption, ClosedIsIdle,
         MutatesInScope, WriterIsRight, ExpectedBytes, At, Bytes
<1>. QED  BY <1>1, <1>2, <1>3, <1>4, <1>5 DEF StoreInv

LEMMA AskStore ==
  ASSUME StoreAssumption, NothingAssumption, StoreInv, NEW w \in Windows, NEW op \in Operations,
         Ask(w, op)
  PROVE  StoreInv'
<1>. USE DEF Ask, hostVars
<1>1. StoreTypeOK'
  BY DEF StoreInv, StoreTypeOK, StoreAssumption, Bytes
<1>2. ClosedIsIdle'
  BY DEF StoreInv, StoreTypeOK, ClosedIsIdle
<1>3. MutatesInScope'
  BY DEF StoreInv, StoreTypeOK, ClosedIsIdle, MutatesInScope, At
<1>4. ExpectsWhatItSaw'
  BY DEF StoreInv, StoreTypeOK, StoreAssumption, MutatesInScope, ExpectsWhatItSaw, At, Bytes
<1>5. WriterIsRight'
  BY DEF StoreInv, StoreTypeOK, StoreAssumption, NothingAssumption, ClosedIsIdle,
         MutatesInScope, WriterIsRight, ExpectedBytes, At, Bytes
<1>. QED  BY <1>1, <1>2, <1>3, <1>4, <1>5 DEF StoreInv

LEMMA ThrowStore ==
  ASSUME StoreAssumption, NothingAssumption, StoreInv, NEW w \in Windows, Throw(w)
  PROVE  StoreInv'
<1>. USE DEF Throw, Settle
<1>1. StoreTypeOK'
  BY DEF StoreInv, StoreTypeOK, StoreAssumption, Bytes
<1>2. ClosedIsIdle'
  BY DEF StoreInv, StoreTypeOK, ClosedIsIdle
<1>3. MutatesInScope'
  BY DEF StoreInv, StoreTypeOK, ClosedIsIdle, MutatesInScope, At
<1>4. ExpectsWhatItSaw'
  BY DEF StoreInv, StoreTypeOK, StoreAssumption, MutatesInScope, ExpectsWhatItSaw, At, Bytes
<1>5. WriterIsRight'
  BY DEF StoreInv, StoreTypeOK, StoreAssumption, NothingAssumption, ClosedIsIdle,
         MutatesInScope, WriterIsRight, ExpectedBytes, At, Bytes
<1>. QED  BY <1>1, <1>2, <1>3, <1>4, <1>5 DEF StoreInv

LEMMA ConfirmStore ==
  ASSUME StoreAssumption, NothingAssumption, StoreInv, NEW w \in Windows, Confirm(w)
  PROVE  StoreInv'
<1>. USE DEF Confirm, Settle
<1>1. StoreTypeOK'
  <2>1. running[w].op.contents \in Bytes
    BY DEF StoreInv, MutatesInScope
  <2>. QED  BY <2>1 DEF StoreInv, StoreTypeOK
<1>2. ClosedIsIdle'
  BY DEF StoreInv, StoreTypeOK, ClosedIsIdle
<1>3. MutatesInScope'
  BY DEF StoreInv, StoreTypeOK, ClosedIsIdle, MutatesInScope, At
<1>4. ExpectsWhatItSaw'
  BY DEF StoreInv, StoreTypeOK, StoreAssumption, MutatesInScope, ExpectsWhatItSaw, At, Bytes
<1>5. WriterIsRight'
  BY DEF StoreInv, StoreTypeOK, StoreAssumption, NothingAssumption, ClosedIsIdle,
         MutatesInScope, WriterIsRight, ExpectedBytes, At, Bytes
<1>. QED  BY <1>1, <1>2, <1>3, <1>4, <1>5 DEF StoreInv

LEMMA WriteStore ==
  ASSUME StoreAssumption, NothingAssumption, StoreInv, NEW w \in Windows, Write(w)
  PROVE  StoreInv'
<1>. USE DEF Write
<1>. DEFINE next == [running[w] EXCEPT !.pc = "confirm"]
<1>0. /\ next \in Steps /\ next.op = running[w].op /\ next.pc = "confirm"
      /\ running[w] # None /\ running[w].op.contents \in Bytes
      /\ running \in [Windows -> Steps \union {None}]
      /\ running' = [running EXCEPT ![w] = next]
  BY StepShape DEF StoreInv, StoreTypeOK, MutatesInScope, At
<1>. HIDE DEF next
<1>1. StoreTypeOK'
  BY <1>0 DEF StoreInv, StoreTypeOK
<1>2. ClosedIsIdle'
  BY <1>0 DEF StoreInv, StoreTypeOK, ClosedIsIdle
<1>3. MutatesInScope'
  BY <1>0 DEF StoreInv, StoreTypeOK, ClosedIsIdle, MutatesInScope, At
<1>4. ExpectsWhatItSaw'
  BY DEF StoreInv, StoreTypeOK, StoreAssumption, MutatesInScope, ExpectsWhatItSaw, At, Bytes
<1>5. WriterIsRight'
  <2>1. \A v \in Windows : v # w => running'[v] = running[v]
    BY <1>0
  <2>2. running'[w].op.contents = disk' /\ At(w, "confirm")' /\ writer' = w
    BY <1>0 DEF At, NothingAssumption
  <2>. QED
    BY <2>1, <2>2 DEF WriterIsRight
<1>. QED  BY <1>1, <1>2, <1>3, <1>4, <1>5 DEF StoreInv

LEMMA CheckStore ==
  ASSUME StoreAssumption, NothingAssumption, StoreInv, NEW w \in Windows, Check(w)
  PROVE  StoreInv'
<1>. USE DEF Settle
<1>. DEFINE next == [running[w] EXCEPT !.pc = "write"]
<1>0. /\ next \in Steps /\ next.op = running[w].op /\ next.pc = "write"
      /\ running[w] # None /\ running[w].pc = "scope" /\ running[w].op.contents \in Bytes
      /\ ~blocked[w] /\ scope = None
      /\ running \in [Windows -> Steps \union {None}]
  BY StepShape DEF Check, StoreInv, StoreTypeOK, MutatesInScope, At
<1>. HIDE DEF next
<1>a. /\ \/ running' = [running EXCEPT ![w] = None] /\ scope' = None
         \/ running' = [running EXCEPT ![w] = next] /\ scope' = w /\ UNCHANGED blocked
               /\ disk = ExpectedBytes(w)
      /\ \/ UNCHANGED blocked
         \/ blocked' = [blocked EXCEPT ![w] = TRUE]
      /\ writeBlocked' \in {writeBlocked, [writeBlocked EXCEPT ![w] = TRUE]}
      /\ protection' \in {protection, "ours"}
      /\ UNCHANGED <<disk, foreign, writer, open, expected, queue, seen, ops, outside>>
  BY <1>0 DEF Check, next, NothingAssumption
<1>1. StoreTypeOK'
  <2>1. running' \in [Windows -> Steps \union {None}] /\ scope' \in Windows \union {None}
    BY <1>0, <1>a
  <2>2. blocked' \in [Windows -> BOOLEAN] /\ writeBlocked' \in [Windows -> BOOLEAN]
    BY <1>a DEF StoreInv, StoreTypeOK
  <2>. QED  BY <1>a, <2>1, <2>2 DEF StoreInv, StoreTypeOK
<1>2. ClosedIsIdle'
  BY <1>0, <1>a DEF StoreInv, StoreTypeOK, ClosedIsIdle
<1>3. MutatesInScope'
  <2>1. \A v \in Windows : v # w => ~At(v, "write") /\ ~At(v, "confirm")
    BY <1>0 DEF StoreInv, MutatesInScope, NothingAssumption
  <2>2. \A v \in Windows : v # w => /\ running'[v] = running[v] /\ blocked'[v] = blocked[v]
                                    /\ seen'[v] = seen[v]
    BY <1>a DEF StoreInv, StoreTypeOK
  <2>3. /\ running'[w] = None \/ (running'[w] = next /\ scope' = w /\ ~blocked'[w])
    BY <1>0, <1>a
  <2>. QED  BY <1>0, <2>1, <2>2, <2>3 DEF StoreInv, MutatesInScope, At
<1>4. ExpectsWhatItSaw'
  BY <1>0, <1>a DEF StoreInv, StoreTypeOK, ExpectsWhatItSaw
<1>5. WriterIsRight'
  BY <1>0, <1>a DEF StoreInv, StoreTypeOK, WriterIsRight, ExpectedBytes, At
<1>. QED  BY <1>1, <1>2, <1>3, <1>4, <1>5 DEF StoreInv

LEMMA StartStore ==
  ASSUME StoreAssumption, NothingAssumption, StoreInv, NEW w \in Windows, Start(w)
  PROVE  StoreInv'
<1>. USE DEF hostVars
<1>. DEFINE op == Head(queue[w])
<1>0. op \in Operations /\ Tail(queue[w]) \in Seq(Operations)
  BY DEF Start, StoreInv, StoreTypeOK
<1>. HIDE DEF op
<1>a. /\ \/ running' = [running EXCEPT ![w] = None]
         \/ running' = [running EXCEPT ![w] = Step(op, "read")]
         \/ /\ running' = [running EXCEPT ![w] = Step(op, "scope")]
            /\ ~blocked[w] /\ op.kind # "refresh"
      /\ queue' = [queue EXCEPT ![w] = Tail(queue[w])]
      /\ open[w] /\ running[w] = None
      /\ UNCHANGED <<hostVars, open, expected, blocked, writeBlocked, seen, ops, outside>>
  BY DEF Start, Refused, op, StoreInv, ClosedIsIdle, StoreTypeOK
<1>b. /\ Step(op, "read") \in Steps /\ Step(op, "scope") \in Steps
      /\ Step(op, "read").pc = "read" /\ Step(op, "scope").pc = "scope"
      /\ Step(op, "scope").op = op
  BY <1>0 DEF Step, Steps
<1>c. op.kind # "refresh" => op.contents \in Bytes
  BY <1>0 DEF Operations
<1>1. StoreTypeOK'
  <2>1. running \in [Windows -> Steps \union {None}] /\ queue \in [Windows -> Seq(Operations)]
    BY DEF StoreInv, StoreTypeOK
  <2>2. running' \in [Windows -> Steps \union {None}]
    BY <1>a, <1>b, <2>1
  <2>3. queue' \in [Windows -> Seq(Operations)]
    BY <1>0, <1>a, <2>1
  <2>. QED  BY <1>a, <2>2, <2>3 DEF StoreInv, StoreTypeOK
<1>2. ClosedIsIdle'
  BY <1>a DEF StoreInv, StoreTypeOK, ClosedIsIdle
<1>3. MutatesInScope'
  BY <1>a, <1>b, <1>c DEF StoreInv, StoreTypeOK, MutatesInScope, At
<1>4. ExpectsWhatItSaw'
  BY <1>a DEF StoreInv, StoreTypeOK, ExpectsWhatItSaw
<1>5. WriterIsRight'
  BY <1>a, <1>b DEF StoreInv, StoreTypeOK, WriterIsRight, ExpectedBytes, At
<1>. QED  BY <1>1, <1>2, <1>3, <1>4, <1>5 DEF StoreInv

LEMMA RefreshStore ==
  ASSUME StoreAssumption, NothingAssumption, StoreInv, NEW w \in Windows, NEW readable \in BOOLEAN,
         Refresh(w, readable)
  PROVE  StoreInv'
<1>. USE DEF Refresh, Acceptable, hostVars
<1>1. StoreTypeOK'
  <2>1. disk \in Bytes /\ seen[w] \union {disk} \in SUBSET Bytes /\ seen[w] \in SUBSET Bytes
        /\ (IF disk = None THEN Unknown ELSE disk) \in Bytes \union {Unknown}
    BY DEF StoreInv, StoreTypeOK
  <2>2. seen' \in [Windows -> SUBSET Bytes]
    BY <2>1 DEF StoreInv, StoreTypeOK
  <2>3. expected' \in [Windows -> Bytes \union {Unknown}]
    BY <2>1 DEF StoreInv, StoreTypeOK
  <2>4. blocked' \in [Windows -> BOOLEAN] /\ running' \in [Windows -> Steps \union {None}]
    BY DEF StoreInv, StoreTypeOK
  <2>. QED  BY <2>2, <2>3, <2>4 DEF StoreInv, StoreTypeOK
<1>2. ClosedIsIdle'
  BY DEF StoreInv, StoreTypeOK, ClosedIsIdle
<1>3. MutatesInScope'
  BY DEF StoreInv, StoreTypeOK, ClosedIsIdle, MutatesInScope, At
<1>4. ExpectsWhatItSaw'
  <2>1. \A v \in Windows : v # w => /\ expected'[v] = expected[v] /\ seen'[v] = seen[v]
                                    /\ blocked'[v] = blocked[v] /\ open'[v] = open[v]
    BY DEF StoreInv, StoreTypeOK
  <2>2. seen[w] \subseteq seen'[w]
    BY DEF StoreInv, StoreTypeOK
  <2>3. expected'[w] # Unknown => expected'[w] \in seen'[w]
    BY <2>2 DEF StoreInv, StoreTypeOK, StoreAssumption, ExpectsWhatItSaw, ExpectedBytes
  <2>4. open'[w] /\ ~blocked'[w] /\ expected'[w] = Unknown => None \in seen'[w]
    BY <2>2 DEF StoreInv, StoreTypeOK, StoreAssumption, ExpectsWhatItSaw, Bytes
  <2>. QED  BY <2>1, <2>3, <2>4 DEF StoreInv, ExpectsWhatItSaw
<1>5. WriterIsRight'
  BY DEF StoreInv, StoreTypeOK, StoreAssumption, NothingAssumption, ClosedIsIdle,
         MutatesInScope, WriterIsRight, ExpectedBytes, At, Bytes
<1>. QED  BY <1>1, <1>2, <1>3, <1>4, <1>5 DEF StoreInv

LEMMA OutsideStore ==
  ASSUME NothingAssumption, StoreInv, NEW c \in Bytes, NEW f \in BOOLEAN,
         NEW p \in {"absent", "ours", "other"}, Outside(c, f, p), StoreAssumption
  PROVE  StoreInv'
<1>. USE DEF Outside, storeVars
<1>1. StoreTypeOK'
  BY DEF StoreInv, StoreTypeOK, StoreAssumption
<1>2. ClosedIsIdle' /\ MutatesInScope' /\ ExpectsWhatItSaw'
  BY DEF StoreInv, ClosedIsIdle, MutatesInScope, ExpectsWhatItSaw, At
<1>3. WriterIsRight'
  BY DEF StoreInv, WriterIsRight, NothingAssumption, ExpectedBytes, At
<1>. QED  BY <1>1, <1>2, <1>3 DEF StoreInv

LEMMA NextStore ==
  ASSUME StoreAssumption, NothingAssumption, StoreInv, [Next]_vars
  PROVE  StoreInv'
<1>1. CASE UNCHANGED vars
  BY <1>1 DEF vars, StoreInv, StoreTypeOK, ClosedIsIdle, MutatesInScope, ExpectsWhatItSaw,
              WriterIsRight, ExpectedBytes, At
<1>2. ASSUME NEW w \in Windows, NEW readable \in BOOLEAN, Open(w, readable) \/ Refresh(w, readable)
      PROVE  StoreInv'
  BY <1>2, OpenStore, RefreshStore
<1>3. ASSUME NEW w \in Windows, Close(w) \/ Start(w) \/ Host(w) \/ Throw(w)
      PROVE  StoreInv'
  BY <1>3, CloseStore, StartStore, CheckStore, WriteStore, ConfirmStore, ThrowStore DEF Host
<1>4. ASSUME NEW w \in Windows, NEW op \in Operations, Ask(w, op)
      PROVE  StoreInv'
  BY <1>4, AskStore
<1>. QED  BY <1>1, <1>2, <1>3, <1>4, OutsideStore DEF Next

\* While no program slips in between a check and its write, what was checked
\* holds when the bytes change: the window in the scope is alone in it.
LEMMA NextCheck ==
  ASSUME StoreAssumption, NothingAssumption, ~OutsideRaces, StoreInv, CheckStillHolds,
         [Next]_vars
  PROVE  CheckStillHolds'
<1>. SUFFICES ASSUME NEW v \in Windows, At(v, "write")'
              PROVE  disk' = ExpectedBytes(v)' /\ protection' = "ours" /\ ~foreign'
  BY DEF CheckStillHolds
<1>. USE DEF StoreInv
<1>1. CASE UNCHANGED vars
  BY <1>1 DEF vars, CheckStillHolds, ExpectedBytes, At
<1>2. CASE \E c \in Bytes, f \in BOOLEAN, p \in {"absent", "ours", "other"} : Outside(c, f, p)
  <2>1. running' = running /\ ~At(v, "write")
    BY <1>2 DEF Outside, storeVars
  <2>. QED  BY <2>1 DEF At
<1>3. ASSUME NEW w \in Windows, w # v,
             \/ \E readable \in BOOLEAN : Open(w, readable) \/ Refresh(w, readable)
             \/ Close(w) \/ Start(w) \/ Host(w) \/ Throw(w)
             \/ \E op \in Operations : Ask(w, op)
      PROVE  disk' = ExpectedBytes(v)' /\ protection' = "ours" /\ ~foreign'
  <2>1. running'[v] = running[v] /\ expected'[v] = expected[v] /\ foreign' = foreign
    BY <1>3 DEF StoreTypeOK, Open, Refresh, Close, Start, Host, Check, Write, Confirm, Settle,
                Throw, Ask, hostVars
  <2>2. At(v, "write") /\ scope = v /\ ~At(w, "write")
    BY <1>3, <2>1 DEF At, MutatesInScope
  <2>3. disk' = disk /\ protection' \in {protection, "ours"}
    BY <1>3, <2>2 DEF Open, Refresh, Close, Start, Host, Check, Write, Confirm, Settle,
                Throw, Ask, hostVars
  <2>. QED  BY <2>1, <2>2, <2>3 DEF CheckStillHolds, ExpectedBytes
<1>4. ASSUME Check(v)
      PROVE  disk' = ExpectedBytes(v)' /\ protection' = "ours" /\ ~foreign'
  <2>1. running'[v] # None
    BY DEF At
  <2>2. disk = ExpectedBytes(v) /\ ~foreign /\ protection' = "ours"
    BY <1>4, <2>1 DEF Check, Settle, StoreTypeOK
  <2>. QED  BY <1>4, <2>2 DEF Check, ExpectedBytes
<1>5. ASSUME \/ \E readable \in BOOLEAN : Open(v, readable) \/ Refresh(v, readable)
             \/ Close(v) \/ Confirm(v) \/ Throw(v) \/ \E op \in Operations : Ask(v, op)
      PROVE  disk' = ExpectedBytes(v)' /\ protection' = "ours" /\ ~foreign'
  <2>1. CASE \E readable \in BOOLEAN : Refresh(v, readable)
    BY <2>1 DEF Refresh, StoreTypeOK, At
  <2>2. CASE Close(v) \/ Confirm(v) \/ Throw(v)
    BY <2>2 DEF Close, Confirm, Throw, Settle, StoreTypeOK, At
  <2>3. CASE \E readable \in BOOLEAN : Open(v, readable)
    BY <2>3 DEF Open, ClosedIsIdle, At
  <2>4. CASE \E op \in Operations : Ask(v, op)
    BY <2>4 DEF Ask, hostVars, CheckStillHolds, ExpectedBytes, At
  <2>. QED  BY <1>5, <2>1, <2>2, <2>3, <2>4
<1>6. ASSUME Start(v) \/ Write(v)
      PROVE  disk' = ExpectedBytes(v)' /\ protection' = "ours" /\ ~foreign'
  <2>1. CASE Start(v)
    BY <2>1 DEF Start, Step, StoreTypeOK, At
  <2>2. CASE Write(v)
    <3>1. running[v] # None /\ running \in [Windows -> Steps \union {None}]
          /\ [running[v] EXCEPT !.pc = "confirm"].pc = "confirm"
      BY <2>2, StepShape DEF Write, At, StoreTypeOK
    <3>. QED  BY <2>2, <3>1 DEF Write, At
  <2>. QED  BY <1>6, <2>1, <2>2
<1>. QED  BY <1>1, <1>2, <1>3, <1>4, <1>5, <1>6 DEF Next, Host

\* What a write of a window is founded on.
Sees     == \A w \in Windows :
              (At(w, "write") /\ disk' # disk /\ writer' = w) => disk \in seen[w]
Protects == \A w \in Windows :
              (At(w, "write") /\ disk' # disk /\ writer' = w)
                => (protection = "ours" /\ ~foreign)

LEMMA WritesFounded ==
  ASSUME StoreInv, CheckStillHolds
  PROVE  Sees /\ Protects
<1>. SUFFICES ASSUME NEW w \in Windows, At(w, "write"), disk' # disk, writer' = w
              PROVE  disk \in seen[w] /\ protection = "ours" /\ ~foreign
  BY DEF Sees, Protects
<1>1. open[w] /\ ~blocked[w] /\ disk = ExpectedBytes(w)
  BY DEF StoreInv, StoreTypeOK, ClosedIsIdle, MutatesInScope, CheckStillHolds, At
<1>. QED
  BY <1>1 DEF StoreInv, ExpectsWhatItSaw, CheckStillHolds, ExpectedBytes

-----------------------------------------------------------------------------

\* The store's state is of its type, and a store that is idle and not blocked
\* knows what its own last write left.
THEOREM StoreSafeHolds ==
  ASSUME StoreAssumption, NothingAssumption
  PROVE  Spec => []StoreSafe
<1>1. Init => StoreInv
  BY InitStore
<1>2. StoreInv /\ [Next]_vars => StoreInv'
  BY NextStore
<1>3. StoreInv => StoreSafe
  BY DEF StoreInv, StoreSafe, WriterIsRight, WriterKnowsDisk, At
<1>. QED  BY <1>1, <1>2, <1>3, PTL DEF Spec

\* A window replaces or removes only bytes it has seen, in a folder that is
\* protected and its own, as long as programs that ignore the write scope do
\* not change the folder between a check and its write.
THEOREM WritesAreFoundedHolds ==
  ASSUME StoreAssumption, NothingAssumption, ~OutsideRaces
  PROVE  Spec => WritesAreFounded
<1>1. Init => StoreInv /\ CheckStillHolds
  BY InitStore
<1>2. StoreInv /\ CheckStillHolds /\ [Next]_vars => StoreInv' /\ CheckStillHolds'
  BY NextStore, NextCheck
<1>3. StoreInv /\ CheckStillHolds => [Sees]_vars /\ [Protects]_vars
  BY WritesFounded
<1>. QED
  BY <1>1, <1>2, <1>3, PTL
     DEF Spec, WritesAreFounded, NoBlindOverwrite, WritesAreProtected, Sees, Protects

-----------------------------------------------------------------------------
(* Baselines *)

\* The folder of a read or a write.
FolderOf(access) == opened[access.workspace]

LoadRecords  == [workspace : 1..Baselines!Workspace, generation : Nat,
                 found : (SUBSET Slices) \cup {Damaged, Unread}]
WriteRecords == [workspace : 1..Baselines!Workspace, slice : Slices, next : SUBSET Slices,
                 landed : BOOLEAN]

AccessTypes ==
  /\ Baselines!BaselinesTypeOK /\ generation \in Nat
  /\ loads \subseteq LoadRecords /\ writes \subseteq WriteRecords
  /\ \A l \in loads : l.generation <= generation

\* The folder whose pins the page shows, or may.
Page == opened[Baselines!Workspace]

\* Each read is a generation of its own; a folder that was not raced is written
\* by one write at a time, and when that has landed the file is what it wrote.
AccessesApart ==
  /\ \A l \in loads : \A other \in loads : l.generation = other.generation => l = other
  /\ \A w \in writes : \A other \in writes :
       FolderOf(w) = FolderOf(other) /\ FolderOf(w) \notin raced => w = other
  /\ \A w \in writes : w.landed /\ FolderOf(w) \notin raced => pins[FolderOf(w)] = w.next

\* The read the page waits for reads a folder at rest, and finds what is there.
ReadFindsPins ==
  \A l \in loads :
    l.generation = generation /\ l.workspace = Baselines!Workspace
      /\ FolderOf(l) \notin raced =>
      /\ Baselines!Still(FolderOf(l)) /\ Baselines!Active.status \in {"idle", "loading"}
      /\ l.found \in {Unread, Damaged, pins[FolderOf(l)]}

\* What the page shows as read is what the file held before a write lands.
ShownUntilWritten ==
  Baselines!Active.status = "loaded" /\ Page \notin raced
    /\ (\A w \in writes : w.landed => FolderOf(w) # Page) =>
  Baselines!File = pins[Page]

\* Unless its folder was raced, a write under way will change the one pin it was
\* asked for.
WritesAreSingle ==
  \A w \in writes : ~ w.landed /\ FolderOf(w) \notin raced =>
    /\ pins[FolderOf(w)] # Damaged
    /\ w.next \in {pins[FolderOf(w)] \cup {w.slice}, pins[FolderOf(w)] \ {w.slice}}

AccessInv == AccessTypes /\ AccessesApart /\ ReadFindsPins /\ ShownUntilWritten
               /\ WritesAreSingle

\* What a step that begins something of a folder says of races.
LEMMA BeginsRace ==
  ASSUME NEW f, NEW status, Baselines!Begins(f, status)
  PROVE  /\ raced \subseteq raced' /\ raced' \subseteq raced \cup {f}
         /\ f \notin raced' => status = "loaded" /\ Baselines!Still(f)
<1>. DEFINE races == ({status} \ {"loaded"}) \cup (IF Baselines!Still(f) THEN {} ELSE {"hasty"})
<1>1. raced' = IF races = {} THEN raced ELSE raced \cup {f}
  BY DEF Baselines!Begins
<1>2. races = {} => status = "loaded" /\ Baselines!Still(f)
  OBVIOUS
<1>. HIDE DEF races
<1>. QED
  BY <1>1, <1>2

LEMMA InitAccess ==
  ASSUME Baselines!Init
  PROVE  AccessInv
<1>1. AccessTypes
  BY DEF Baselines!Init, AccessTypes, Baselines!BaselinesTypeOK, Baselines!Nowhere,
         Baselines!Workspace
<1>2. AccessesApart /\ ReadFindsPins /\ WritesAreSingle
  BY DEF Baselines!Init, AccessesApart, ReadFindsPins, WritesAreSingle
<1>3. ShownUntilWritten
  BY DEF Baselines!Init, ShownUntilWritten, Baselines!Active, Baselines!Nowhere
<1>. QED
  BY <1>1, <1>2, <1>3 DEF AccessInv

\* What is known of the page's own state.
LEMMA ActiveShape ==
  ASSUME AccessTypes
  PROVE  /\ Baselines!Workspace \in Nat
         /\ Baselines!Active \in [workspace : 0..Baselines!Workspace, file : SUBSET Slices,
                                 status : {"idle", "loading", "loaded", "failed"}]
         /\ Baselines!Active.status # "idle" => loaded.workspace = Baselines!Workspace
                                                  /\ Baselines!Active = loaded
BY DEF AccessTypes, Baselines!BaselinesTypeOK, Baselines!Workspace, Baselines!Active,
       Baselines!Nowhere

LEMMA PageIsAFolder ==
  ASSUME AccessTypes, Baselines!Workspace # 0
  PROVE  Page \in Folders
BY DEF AccessTypes, Baselines!BaselinesTypeOK, Baselines!Workspace, Page

LEMMA OpenAccess ==
  ASSUME AccessInv, NEW f \in Folders, Baselines!Open(f)
  PROVE  AccessInv' /\ UNCHANGED pins
<1>1. /\ opened' = Append(opened, f) /\ UNCHANGED <<pins, loaded, generation, loads, writes>>
      /\ raced \subseteq raced' /\ raced' \subseteq raced \cup {f}
  BY BeginsRace DEF Baselines!Open
<1>2. /\ opened \in Seq(Folders) /\ Len(opened') = Len(opened) + 1
      /\ \A i \in 1..Len(opened) : opened'[i] = opened[i]
      /\ opened' \in Seq(Folders) /\ opened'[Len(opened')] = f /\ Len(opened) \in Nat
  BY <1>1 DEF AccessInv, AccessTypes, Baselines!BaselinesTypeOK
<1>3. \A x \in loads \cup writes : x.workspace \in 1..Len(opened)
  BY DEF AccessInv, AccessTypes, Baselines!Workspace, LoadRecords, WriteRecords
<1>4. \A x \in loads \cup writes : FolderOf(x)' = FolderOf(x)
  BY <1>2, <1>3 DEF FolderOf
<1>5. AccessTypes'
  <2>1. Baselines!BaselinesTypeOK'
    BY <1>1, <1>2, <1>3 DEF AccessInv, AccessTypes, Baselines!BaselinesTypeOK, Baselines!Workspace
  <2>2. LoadRecords \subseteq LoadRecords' /\ WriteRecords \subseteq WriteRecords'
    BY <1>2 DEF LoadRecords, WriteRecords, Baselines!Workspace
  <2>. QED
    BY <1>1, <2>1, <2>2 DEF AccessInv, AccessTypes
<1>6. AccessesApart'
  BY <1>1, <1>4 DEF AccessInv, AccessesApart
<1>7. ReadFindsPins'
  BY <1>1, <1>2, <1>3 DEF ReadFindsPins, Baselines!Workspace
<1>8. ShownUntilWritten'
  <2>1. loaded.workspace \in 0..Len(opened)
    BY DEF AccessInv, AccessTypes, Baselines!BaselinesTypeOK, Baselines!Workspace
  <2>. QED
    BY <1>1, <1>2, <2>1 DEF ShownUntilWritten, Page, Baselines!Workspace, Baselines!Active,
                            Baselines!Nowhere
<1>9. WritesAreSingle'
  BY <1>1, <1>4 DEF AccessInv, WritesAreSingle
<1>. QED
  BY <1>1, <1>5, <1>6, <1>7, <1>8, <1>9 DEF AccessInv

LEMMA LoadAccess ==
  ASSUME AccessInv, Baselines!Load
  PROVE  AccessInv' /\ UNCHANGED pins
<1>. DEFINE asked == [workspace |-> Baselines!Workspace, generation |-> generation + 1,
                      found |-> Unread]
<1>1. /\ Baselines!Workspace # 0 /\ generation' = generation + 1
      /\ loaded' = [workspace |-> Baselines!Workspace, status |-> "loading",
                    file |-> Baselines!File]
      /\ loads' = loads \cup {asked} /\ UNCHANGED <<pins, opened, writes>>
      /\ raced \subseteq raced' /\ raced' \subseteq raced \cup {Page}
      /\ Page \notin raced' => Baselines!Still(Page)
  BY BeginsRace DEF Baselines!Load, Page
<1>2. /\ Baselines!Workspace' = Baselines!Workspace /\ Baselines!Workspace \in Nat
      /\ generation \in Nat /\ \A l \in loads : l.generation \in Nat /\ l.generation <= generation
  BY <1>1, ActiveShape DEF Baselines!Workspace, AccessInv, AccessTypes, LoadRecords
<1>3. asked \in LoadRecords /\ LoadRecords' = LoadRecords /\ WriteRecords' = WriteRecords
  BY <1>1, <1>2 DEF LoadRecords, WriteRecords
<1>4. AccessTypes'
  <2>1. loaded' \in [workspace : 0..Baselines!Workspace, file : SUBSET Slices,
                     status : {"idle", "loading", "loaded", "failed"}]
    BY <1>1, <1>2, ActiveShape DEF AccessInv, Baselines!File
  <2>2. {l.workspace : l \in loads'} \subseteq 1..Baselines!Workspace
    BY <1>1, <1>2 DEF AccessInv, AccessTypes, LoadRecords
  <2>3. Baselines!BaselinesTypeOK'
    BY <1>1, <1>2, <2>1, <2>2, PageIsAFolder DEF AccessInv, AccessTypes, Baselines!BaselinesTypeOK
  <2>4. loads' \subseteq LoadRecords' /\ writes' \subseteq WriteRecords'
    BY <1>1, <1>3 DEF AccessInv, AccessTypes
  <2>5. \A l \in loads' : l.generation <= generation'
    BY <1>1, <1>2
  <2>. QED
    BY <1>1, <1>2, <2>3, <2>4, <2>5 DEF AccessTypes
<1>5. \A access : FolderOf(access)' = FolderOf(access)
  BY <1>1 DEF FolderOf
<1>6. AccessesApart'
  <2>1. \A l \in loads' : \A other \in loads' : l.generation = other.generation => l = other
    BY <1>1, <1>2 DEF AccessInv, AccessesApart
  <2>. QED
    BY <1>1, <1>5, <2>1 DEF AccessInv, AccessesApart
<1>7. /\ Baselines!Active' = loaded' /\ loaded'.status = "loading"
  BY <1>1, <1>2 DEF Baselines!Active
<1>8. ReadFindsPins'
  <2>. SUFFICES ASSUME NEW l \in loads', l.generation = generation', FolderOf(l)' \notin raced'
                PROVE  /\ Baselines!Still(FolderOf(l))' /\ l.found = Unread
    BY <1>7 DEF ReadFindsPins
  <2>1. l = asked
    BY <1>1, <1>2
  <2>2. FolderOf(l) = Page /\ FolderOf(l)' = Page /\ Page \notin raced'
    BY <1>1, <1>5, <2>1 DEF FolderOf, Page
  <2>3. Baselines!Still(Page)
    BY <1>1, <2>2
  <2>. QED
    BY <1>1, <2>1, <2>2, <2>3 DEF Baselines!Still, FolderOf
<1>9. ShownUntilWritten'
  BY <1>7 DEF ShownUntilWritten
<1>10. WritesAreSingle'
  BY <1>1, <1>5 DEF AccessInv, WritesAreSingle
<1>. QED
  BY <1>1, <1>4, <1>6, <1>8, <1>9, <1>10 DEF AccessInv

\* A step of reads: each read was there, or is one that now has an answer.
LEMMA ReadsAccess ==
  ASSUME AccessInv, NEW l \in loads, NEW failed \in BOOLEAN,
         Baselines!Reads(l, failed)
  PROVE  AccessInv' /\ UNCHANGED pins
<1>. DEFINE found == IF failed THEN Damaged ELSE pins[FolderOf(l)]
            answered == [l EXCEPT !.found = found]
<1>1. /\ l.found = Unread /\ loads' = (loads \ {l}) \cup {answered}
      /\ UNCHANGED <<pins, opened, loaded, generation, writes, raced>>
  BY DEF Baselines!Reads, FolderOf
<1>2. /\ Baselines!Workspace' = Baselines!Workspace
      /\ LoadRecords' = LoadRecords /\ WriteRecords' = WriteRecords
      /\ Baselines!Active' = Baselines!Active /\ Baselines!File' = Baselines!File
      /\ \A access : FolderOf(access)' = FolderOf(access)
  BY <1>1 DEF Baselines!Workspace, LoadRecords, WriteRecords, Baselines!Active, Baselines!File,
              FolderOf
<1>3. l \in LoadRecords /\ l.generation <= generation
  BY DEF AccessInv, AccessTypes
<1>4. FolderOf(l) \in Folders
  BY <1>3 DEF FolderOf, LoadRecords, AccessInv, AccessTypes, Baselines!BaselinesTypeOK,
              Baselines!Workspace
<1>5. found \in (SUBSET Slices) \cup {Damaged}
  BY <1>4 DEF AccessInv, AccessTypes, Baselines!BaselinesTypeOK
<1>. HIDE DEF found
<1>6. /\ answered \in LoadRecords /\ answered.workspace = l.workspace
      /\ answered.generation = l.generation /\ answered.found = found
  BY <1>3, <1>5 DEF LoadRecords
<1>. HIDE DEF answered
<1>7. AccessTypes'
  <2>1. {x.workspace : x \in loads'} \subseteq 1..Baselines!Workspace
    BY <1>1, <1>6 DEF AccessInv, AccessTypes, LoadRecords
  <2>2. Baselines!BaselinesTypeOK'
    BY <1>1, <1>2, <2>1 DEF AccessInv, AccessTypes, Baselines!BaselinesTypeOK
  <2>3. \A x \in loads' : x.generation <= generation'
    BY <1>1, <1>3, <1>6 DEF AccessInv, AccessTypes
  <2>. QED
    BY <1>1, <1>2, <1>6, <2>2, <2>3 DEF AccessInv, AccessTypes
<1>8. AccessesApart'
  <2>1. \A x \in loads' : \A other \in loads' : x.generation = other.generation => x = other
    BY <1>1, <1>6 DEF AccessInv, AccessesApart
  <2>. QED
    BY <1>1, <1>2, <2>1 DEF AccessInv, AccessesApart
<1>9. ReadFindsPins'
  <2>. SUFFICES ASSUME NEW x \in loads', x.generation = generation,
                       x.workspace = Baselines!Workspace, FolderOf(x) \notin raced
                PROVE  /\ Baselines!Still(FolderOf(x))
                       /\ Baselines!Active.status \in {"idle", "loading"}
                       /\ x.found \in {Unread, Damaged, pins[FolderOf(x)]}
    BY <1>1, <1>2 DEF ReadFindsPins, Baselines!Still, FolderOf
  <2>1. CASE x \in loads
    BY <2>1 DEF AccessInv, ReadFindsPins
  <2>2. CASE x = answered
    <3>1. FolderOf(x) = FolderOf(l) /\ x.found \in {Damaged, pins[FolderOf(x)]}
      BY <1>6, <2>2 DEF FolderOf, found
    <3>. QED
      BY <1>6, <2>2, <3>1 DEF AccessInv, ReadFindsPins
  <2>. QED
    BY <1>1, <2>1, <2>2
<1>10. ShownUntilWritten' /\ WritesAreSingle'
  BY <1>1, <1>2 DEF AccessInv, ShownUntilWritten, WritesAreSingle, Page
<1>. QED
  BY <1>1, <1>7, <1>8, <1>9, <1>10 DEF AccessInv

LEMMA LoadedAccess ==
  ASSUME AccessInv, NEW l \in loads, Baselines!Loaded(l)
  PROVE  AccessInv' /\ UNCHANGED pins
<1>1. /\ l.found # Unread /\ loads' = loads \ {l}
      /\ UNCHANGED <<pins, opened, generation, writes, raced>>
      /\ loaded' = IF l.generation # generation THEN loaded
                   ELSE IF l.found = Damaged
                   THEN [workspace |-> l.workspace, status |-> "failed", file |-> {}]
                   ELSE [workspace |-> l.workspace, status |-> "loaded", file |-> l.found]
  BY DEF Baselines!Loaded
<1>2. /\ Baselines!Workspace' = Baselines!Workspace
      /\ LoadRecords' = LoadRecords /\ WriteRecords' = WriteRecords
      /\ \A access : FolderOf(access)' = FolderOf(access)
  BY <1>1 DEF Baselines!Workspace, LoadRecords, WriteRecords, FolderOf
<1>3. l \in LoadRecords /\ Baselines!Workspace \in Nat
  BY ActiveShape DEF AccessInv, AccessTypes
<1>4. AccessTypes'
  <2>1. loaded' \in [workspace : 0..Baselines!Workspace, file : SUBSET Slices,
                     status : {"idle", "loading", "loaded", "failed"}]
    BY <1>1, <1>3 DEF LoadRecords, AccessInv, AccessTypes, Baselines!BaselinesTypeOK
  <2>2. {x.workspace : x \in loads'} \subseteq 1..Baselines!Workspace
    BY <1>1 DEF AccessInv, AccessTypes, LoadRecords
  <2>3. Baselines!BaselinesTypeOK'
    BY <1>1, <1>2, <2>1, <2>2 DEF AccessInv, AccessTypes, Baselines!BaselinesTypeOK
  <2>. QED
    BY <1>1, <1>2, <2>3 DEF AccessInv, AccessTypes
<1>5. AccessesApart' /\ WritesAreSingle'
  BY <1>1, <1>2 DEF AccessInv, AccessesApart, WritesAreSingle
<1>6. CASE l.generation # generation
  <2>1. Baselines!Active' = Baselines!Active /\ Baselines!File' = Baselines!File
    BY <1>1, <1>2, <1>6 DEF Baselines!Active, Baselines!File
  <2>2. ReadFindsPins'
    BY <1>1, <1>2, <2>1 DEF AccessInv, ReadFindsPins, Baselines!Still, FolderOf
  <2>3. ShownUntilWritten'
    BY <1>1, <1>2, <2>1 DEF AccessInv, ShownUntilWritten, Page
  <2>. QED
    BY <1>1, <1>4, <1>5, <2>2, <2>3 DEF AccessInv
<1>7. CASE l.generation = generation
  <2>1. ReadFindsPins'
    BY <1>1, <1>7 DEF AccessInv, AccessesApart, ReadFindsPins
  <2>2. ShownUntilWritten'
    <3>. SUFFICES ASSUME Baselines!Active'.status = "loaded", Page \notin raced
                  PROVE  Baselines!File' = pins[Page]
      BY <1>1, <1>2 DEF ShownUntilWritten, Page
    <3>1. /\ l.workspace = Baselines!Workspace /\ l.found # Damaged
          /\ Baselines!File' = l.found
      BY <1>1, <1>2, <1>7 DEF Baselines!Active, Baselines!File, Baselines!Nowhere
    <3>2. l.found \in {Unread, Damaged, pins[FolderOf(l)]}
      BY <1>7, <3>1 DEF AccessInv, ReadFindsPins, FolderOf, Page
    <3>. QED
      BY <1>1, <3>1, <3>2 DEF FolderOf, Page
  <2>. QED
    BY <1>1, <1>4, <1>5, <2>1, <2>2 DEF AccessInv
<1>. QED
  BY <1>6, <1>7

\* A write of the open folder begins when none is under way, and the page no
\* longer waits for a read.
LEMMA WriteAccess ==
  ASSUME AccessInv, Baselines!MayChange, NEW slice \in Slices, NEW next,
         next \in {Baselines!File \cup {slice}, Baselines!File \ {slice}},
         Baselines!Write(slice, next)
  PROVE  AccessInv' /\ UNCHANGED pins
<1>. DEFINE asked == [workspace |-> Baselines!Workspace, slice |-> slice, next |-> next,
                      landed |-> FALSE]
<1>1. /\ Baselines!Workspace # 0 /\ writes' = writes \cup {asked}
      /\ UNCHANGED <<pins, opened, loaded, generation, loads>>
      /\ raced \subseteq raced' /\ raced' \subseteq raced \cup {Page}
      /\ Page \notin raced' =>
           Baselines!Active.status = "loaded" /\ Baselines!Still(Page) /\ Page \notin raced
  BY BeginsRace DEF Baselines!MayChange, Baselines!Write, Page
<1>2. /\ Baselines!Workspace' = Baselines!Workspace
      /\ LoadRecords' = LoadRecords /\ WriteRecords' = WriteRecords
      /\ Baselines!Active' = Baselines!Active /\ Baselines!File' = Baselines!File
      /\ Page' = Page /\ \A access : FolderOf(access)' = FolderOf(access)
  BY <1>1 DEF Baselines!Workspace, LoadRecords, WriteRecords, Baselines!Active, Baselines!File,
              FolderOf, Page
<1>3. next \in SUBSET Slices /\ asked \in WriteRecords
  BY <1>1, ActiveShape DEF AccessInv, Baselines!File, WriteRecords
<1>4. AccessTypes'
  <2>1. {x.workspace : x \in writes'} \subseteq 1..Baselines!Workspace
    BY <1>1, <1>3 DEF AccessInv, AccessTypes, WriteRecords
  <2>2. Baselines!BaselinesTypeOK'
    BY <1>1, <1>2, <2>1, PageIsAFolder DEF AccessInv, AccessTypes, Baselines!BaselinesTypeOK
  <2>. QED
    BY <1>1, <1>2, <1>3, <2>2 DEF AccessInv, AccessTypes
<1>5. /\ FolderOf(asked) = Page /\ ~ asked.landed /\ asked.next = next /\ asked.slice = slice
  BY DEF FolderOf, Page
<1>6. Page \notin raced' => \A w \in writes : FolderOf(w) # Page
  BY <1>1 DEF Baselines!Still, FolderOf
<1>. HIDE DEF asked
<1>7. \A w \in writes' : w \in writes \/ w = asked
  BY <1>1
<1>8. AccessesApart'
  <2>1. \A w \in writes' : \A other \in writes' :
          FolderOf(w) = FolderOf(other) /\ FolderOf(w) \notin raced' => w = other
    BY <1>1, <1>5, <1>6, <1>7 DEF AccessInv, AccessesApart
  <2>2. \A w \in writes' : w.landed /\ FolderOf(w) \notin raced' => pins[FolderOf(w)] = w.next
    BY <1>1, <1>5, <1>7 DEF AccessInv, AccessesApart
  <2>. QED
    BY <1>1, <1>2, <2>1, <2>2 DEF AccessInv, AccessesApart
<1>9. ReadFindsPins'
  <2>. SUFFICES ASSUME NEW l \in loads, l.generation = generation,
                       l.workspace = Baselines!Workspace, FolderOf(l) \notin raced'
                PROVE  FALSE
    BY <1>1, <1>2 DEF ReadFindsPins
  <2>1. FolderOf(l) = Page
    BY DEF FolderOf, Page
  <2>. QED
    BY <1>1, <2>1 DEF AccessInv, ReadFindsPins
<1>10. ShownUntilWritten'
  BY <1>1, <1>2, <1>5 DEF AccessInv, ShownUntilWritten
<1>11. WritesAreSingle'
  <2>1. Page \notin raced' => Baselines!File = pins[Page]
    BY <1>1, <1>6 DEF AccessInv, ShownUntilWritten
  <2>2. Baselines!File # Damaged
    BY BaselinesAssumption, ActiveShape DEF AccessInv, Baselines!File
  <2>. QED
    BY <1>1, <1>2, <1>5, <1>7, <2>1, <2>2 DEF AccessInv, WritesAreSingle
<1>. QED
  BY <1>1, <1>4, <1>8, <1>9, <1>10, <1>11 DEF AccessInv

\* A write replaces the file, and with it what nobody shows as read.
LEMMA LandsAccess ==
  ASSUME AccessInv, NEW w \in writes, Baselines!Lands(w)
  PROVE  AccessInv'
<1>. DEFINE landed == [w EXCEPT !.landed = TRUE]
<1>1. /\ ~ w.landed /\ pins' = [pins EXCEPT ![FolderOf(w)] = w.next]
      /\ writes' = (writes \ {w}) \cup {landed}
      /\ UNCHANGED <<opened, loaded, generation, loads, raced>>
  BY DEF Baselines!Lands, FolderOf
<1>2. /\ Baselines!Workspace' = Baselines!Workspace
      /\ LoadRecords' = LoadRecords /\ WriteRecords' = WriteRecords
      /\ Baselines!Active' = Baselines!Active /\ Baselines!File' = Baselines!File
      /\ \A access : FolderOf(access)' = FolderOf(access)
  BY <1>1 DEF Baselines!Workspace, LoadRecords, WriteRecords, Baselines!Active, Baselines!File,
              FolderOf
<1>3. w \in WriteRecords /\ FolderOf(w) \in Folders
  BY DEF FolderOf, WriteRecords, AccessInv, AccessTypes, Baselines!BaselinesTypeOK,
         Baselines!Workspace
<1>4. /\ landed \in WriteRecords /\ landed.workspace = w.workspace /\ landed.next = w.next
      /\ landed.landed /\ FolderOf(landed) = FolderOf(w)
  BY <1>3 DEF WriteRecords, FolderOf
<1>. HIDE DEF landed
<1>5. /\ pins' \in [Folders -> (SUBSET Slices) \cup {Damaged}] /\ pins'[FolderOf(w)] = w.next
      /\ \A f : f # FolderOf(w) => pins'[f] = pins[f]
  <2>1. w.next \in SUBSET Slices /\ pins \in [Folders -> (SUBSET Slices) \cup {Damaged}]
    BY <1>3 DEF WriteRecords, AccessInv, AccessTypes, Baselines!BaselinesTypeOK
  <2>. QED
    BY <1>1, <1>3, <2>1
<1>6. AccessTypes'
  <2>1. {x.workspace : x \in writes'} \subseteq 1..Baselines!Workspace
    BY <1>1, <1>4 DEF AccessInv, AccessTypes, WriteRecords
  <2>2. Baselines!BaselinesTypeOK'
    BY <1>1, <1>2, <1>5, <2>1 DEF AccessInv, AccessTypes, Baselines!BaselinesTypeOK
  <2>. QED
    BY <1>1, <1>2, <1>4, <2>2 DEF AccessInv, AccessTypes
<1>7. FolderOf(w) \notin raced => \A v \in writes : v # w => FolderOf(v) # FolderOf(w)
  BY DEF AccessInv, AccessesApart
<1>8. AccessesApart'
  <2>1. \A v \in writes' : \A other \in writes' :
          FolderOf(v) = FolderOf(other) /\ FolderOf(v) \notin raced => v = other
    BY <1>1, <1>4, <1>7 DEF AccessInv, AccessesApart
  <2>2. \A v \in writes' : v.landed /\ FolderOf(v) \notin raced => pins'[FolderOf(v)] = v.next
    BY <1>1, <1>4, <1>5, <1>7 DEF AccessInv, AccessesApart
  <2>. QED
    BY <1>1, <1>2, <2>1, <2>2 DEF AccessInv, AccessesApart
<1>9. ReadFindsPins'
  <2>. SUFFICES ASSUME NEW l \in loads, l.generation = generation,
                       l.workspace = Baselines!Workspace, FolderOf(l) \notin raced
                PROVE  /\ Baselines!Still(FolderOf(l))'
                       /\ Baselines!Active.status \in {"idle", "loading"}
                       /\ l.found \in {Unread, Damaged, pins'[FolderOf(l)]}
    BY <1>1, <1>2 DEF ReadFindsPins, Baselines!Still, FolderOf
  <2>1. /\ Baselines!Still(FolderOf(l)) /\ Baselines!Active.status \in {"idle", "loading"}
        /\ l.found \in {Unread, Damaged, pins[FolderOf(l)]}
    BY DEF AccessInv, ReadFindsPins
  <2>2. FolderOf(l) # FolderOf(w)
    BY <2>1 DEF Baselines!Still, FolderOf
  <2>3. Baselines!Still(FolderOf(l))'
    BY <1>1, <1>4, <2>1, <2>2 DEF Baselines!Still, FolderOf
  <2>. QED
    BY <1>5, <2>1, <2>2, <2>3
<1>10. ShownUntilWritten'
  <2>. SUFFICES ASSUME Baselines!Active.status = "loaded", Page \notin raced,
                       \A v \in writes' : v.landed => FolderOf(v) # Page
                PROVE  Baselines!File = pins'[Page]
    BY <1>1, <1>2 DEF ShownUntilWritten, Page
  <2>1. FolderOf(w) # Page
    BY <1>1, <1>4
  <2>2. \A v \in writes : v.landed => FolderOf(v) # Page
    BY <1>1
  <2>. QED
    BY <1>5, <2>1, <2>2 DEF AccessInv, ShownUntilWritten
<1>11. WritesAreSingle'
  BY <1>1, <1>2, <1>4, <1>5, <1>7 DEF AccessInv, WritesAreSingle
<1>. QED
  BY <1>6, <1>8, <1>9, <1>10, <1>11 DEF AccessInv

\* A write ends, having landed or not.
LEMMA EndsAccess ==
  ASSUME AccessInv, NEW w \in writes, Baselines!Fails(w) \/ Baselines!Saved(w)
  PROVE  AccessInv' /\ UNCHANGED pins
<1>1. /\ writes' = writes \ {w} /\ UNCHANGED <<pins, opened, generation, loads, raced>>
      /\ \/ ~ w.landed /\ UNCHANGED loaded
         \/ w.landed /\ loaded' = [workspace |-> w.workspace, status |-> "loaded",
                                   file |-> w.next]
  BY DEF Baselines!Fails, Baselines!Saved
<1>2. /\ Baselines!Workspace' = Baselines!Workspace
      /\ LoadRecords' = LoadRecords /\ WriteRecords' = WriteRecords
      /\ \A access : FolderOf(access)' = FolderOf(access)
  BY <1>1 DEF Baselines!Workspace, LoadRecords, WriteRecords, FolderOf
<1>3. w \in WriteRecords /\ Baselines!Workspace \in Nat
  BY ActiveShape DEF AccessInv, AccessTypes
<1>4. AccessTypes'
  <2>1. loaded' \in [workspace : 0..Baselines!Workspace, file : SUBSET Slices,
                     status : {"idle", "loading", "loaded", "failed"}]
    BY <1>1, <1>3 DEF WriteRecords, AccessInv, AccessTypes, Baselines!BaselinesTypeOK
  <2>2. {x.workspace : x \in writes'} \subseteq 1..Baselines!Workspace
    BY <1>1 DEF AccessInv, AccessTypes, WriteRecords
  <2>3. Baselines!BaselinesTypeOK'
    BY <1>1, <1>2, <2>1, <2>2 DEF AccessInv, AccessTypes, Baselines!BaselinesTypeOK
  <2>. QED
    BY <1>1, <1>2, <2>3 DEF AccessInv, AccessTypes
<1>5. AccessesApart' /\ WritesAreSingle'
  BY <1>1, <1>2 DEF AccessInv, AccessesApart, WritesAreSingle
<1>6. CASE ~ w.landed /\ UNCHANGED loaded
  <2>1. Baselines!Active' = Baselines!Active /\ Baselines!File' = Baselines!File
    BY <1>1, <1>2, <1>6 DEF Baselines!Active, Baselines!File
  <2>2. ReadFindsPins' /\ ShownUntilWritten'
    BY <1>1, <1>2, <1>6, <2>1 DEF AccessInv, ReadFindsPins, ShownUntilWritten, Baselines!Still,
                                  FolderOf, Page
  <2>. QED
    BY <1>1, <1>4, <1>5, <2>2 DEF AccessInv
<1>7. CASE w.landed /\ loaded' = [workspace |-> w.workspace, status |-> "loaded",
                                  file |-> w.next]
  <2>1. CASE w.workspace = Baselines!Workspace
    <3>1. Baselines!File' = w.next /\ FolderOf(w) = Page /\ Page' = Page
      BY <1>1, <1>2, <1>7, <2>1 DEF Baselines!Active, Baselines!File, FolderOf, Page
    <3>2. ShownUntilWritten'
      BY <1>1, <1>2, <1>7, <3>1 DEF AccessInv, AccessesApart, ShownUntilWritten
    <3>3. ~ Baselines!Still(FolderOf(w))
      BY DEF Baselines!Still, FolderOf
    <3>4. \A l \in loads : l.workspace = Baselines!Workspace => FolderOf(l) = FolderOf(w)
      BY <2>1 DEF FolderOf
    <3>5. ReadFindsPins'
      BY <1>1, <1>2, <3>3, <3>4 DEF AccessInv, ReadFindsPins
    <3>. QED
      BY <1>1, <1>4, <1>5, <3>2, <3>5 DEF AccessInv
  <2>2. CASE w.workspace # Baselines!Workspace
    <3>1. Baselines!Active' = Baselines!Nowhere
      BY <1>2, <1>7, <2>2 DEF Baselines!Active
    <3>2. ReadFindsPins' /\ ShownUntilWritten'
      BY <1>1, <1>2, <3>1 DEF AccessInv, ReadFindsPins, ShownUntilWritten, Baselines!Still,
                              FolderOf, Baselines!Nowhere
    <3>. QED
      BY <1>1, <1>4, <1>5, <3>2 DEF AccessInv
  <2>. QED
    BY <2>1, <2>2
<1>. QED
  BY <1>1, <1>6, <1>7

\* Where a file changes, a write lands.
LEMMA NextAccess ==
  ASSUME AccessInv, Baselines!Next
  PROVE  AccessInv' /\ (UNCHANGED pins \/ \E w \in writes : Baselines!Lands(w))
<1>1. CASE \E f \in Folders : Baselines!Open(f)
  BY <1>1, OpenAccess
<1>2. CASE Baselines!Load
  BY <1>2, LoadAccess
<1>3. CASE \E l \in loads : Baselines!Loaded(l)
                              \/ \E failed \in BOOLEAN : Baselines!Reads(l, failed)
  BY <1>3, LoadedAccess, ReadsAccess
<1>4. CASE \E s \in Slices : Baselines!Pin(s) \/ Baselines!Unpin(s)
  <2>1. PICK s \in Slices : Baselines!Pin(s) \/ Baselines!Unpin(s)
    BY <1>4
  <2>2. PICK next \in {Baselines!File \cup {s}, Baselines!File \ {s}} :
          Baselines!MayChange /\ Baselines!Write(s, next)
    BY <2>1 DEF Baselines!Pin, Baselines!Unpin
  <2>. QED
    BY <2>2, WriteAccess
<1>5. CASE \E w \in writes : Baselines!Lands(w) \/ Baselines!Fails(w) \/ Baselines!Saved(w)
  BY <1>5, LandsAccess, EndsAccess
<1>. QED
  BY <1>1, <1>2, <1>3, <1>4, <1>5 DEF Baselines!Next

\* A write that lands changes the pin it was asked for.
LEMMA LandsOneThing ==
  ASSUME AccessInv, NEW w \in writes, Baselines!Lands(w)
  PROVE  \A f \in Folders \ raced : pins'[f] # pins[f] =>
           /\ pins[f] # Damaged
           /\ \E v \in writes : /\ opened[v.workspace] = f
                                /\ pins'[f] \in {pins[f] \cup {v.slice}, pins[f] \ {v.slice}}
<1>1. /\ ~ w.landed /\ pins' = [pins EXCEPT ![FolderOf(w)] = w.next]
      /\ DOMAIN pins = Folders
  BY DEF Baselines!Lands, FolderOf, AccessInv, AccessTypes, Baselines!BaselinesTypeOK
<1>. SUFFICES ASSUME NEW f \in Folders \ raced, pins'[f] # pins[f]
              PROVE  /\ pins[f] # Damaged /\ FolderOf(w) = f
                     /\ pins'[f] \in {pins[f] \cup {w.slice}, pins[f] \ {w.slice}}
  BY DEF FolderOf
<1>2. FolderOf(w) = f /\ pins'[f] = w.next
  BY <1>1
<1>. QED
  BY <1>1, <1>2 DEF AccessInv, WritesAreSingle
-----------------------------------------------------------------------------
(* The upgrade and its backup *)

Records  == [settled : [Migration!Candidates -> {None, "used", "discarded"}],
             removing : BOOLEAN]
Using    == {"copying", "incoming", "dropping", "settling"}
Subjects == [id : Migration!Candidates, old : Migration!Slots \cup {None},
             new : Migration!Slots]

Removing    == Migration!Resolved.removing
Settled(c)  == Migration!Resolved.settled[c] # None
Cut         == \E f \in Migration!Files : staged[f] = "partial"
Places(c)   == { Migration!At(c, slot) : slot \in Migration!SlotsOf(c) }

\* A candidate whose use is at its last steps.
InHand(c) == step \in {"dropping", "settling"} /\ subject.id = c

MigrationTypes ==
  /\ Migration!TypeOK
  /\ replaced \in [Migration!DraftIds -> [Migration!Slots -> Migration!Wordings \cup {None}]]
  /\ resolutions \in Records \cup {None}
  /\ todo \subseteq Migration!Candidates /\ wrote \in BOOLEAN
  /\ step \in Using \cup {"idle", "loading", "deleting"}
  /\ step \in Using =>
       /\ subject \in Subjects /\ subject.new # subject.old
       /\ subject.id = Migration!Selections => subject.old = None /\ subject.new = "home"
  /\ step \in {"copying", "dropping"} => subject.old # None
  /\ unrecorded \subseteq Migration!Candidates /\ unseen \subseteq Migration!Candidates
  /\ lived \subseteq Migration!Candidates /\ spent \subseteq Migration!Candidates
  /\ lapsed \subseteq Migration!Candidates
  /\ kept \in [Migration!Candidates -> SUBSET Migration!Wordings]

\* The controller and the upgrade take turns; from its plan on, an upgrade has
\* a whole backup, and only unsettled candidates to activate.
MigrationStages ==
  /\ step # "idle" => session = "shared" /\ pc = "idle"
  /\ session = "closed" => pc = "idle"
  /\ pc = "staging" => session = "legacy" /\ ~ Cut
  /\ pc \in {"planned", "writing", "activating"} =>
       /\ \A f \in Migration!Files : Migration!Staged(f)
       /\ ~ Removing /\ \A c \in todo : ~ Settled(c)
  /\ pc \in {"staging", "planning", "planned", "writing"} => ~ wrote
  /\ step = "deleting" => Removing
  /\ Removing => unrecorded = {}

\* What a use replaces is copied first; what a removal deletes is given up.
MigrationCopies ==
  /\ step = "copying" => /\ Migration!At(subject.id, subject.old) # None
                         /\ replaced[subject.id][subject.old] = None
  /\ step \in {"incoming", "dropping"} /\ subject.old # None =>
       /\ Migration!At(subject.id, subject.old) # None
       /\ replaced[subject.id][subject.old] = Migration!At(subject.id, subject.old)
  /\ step = "deleting" => \A c \in Migration!Candidates : kept[c] \subseteq Places(c)
  /\ Migration!WordsSurvive

\* A backup is staged, and stands, with its source and its journal.
MigrationFiles ==
  /\ Migration!BackupStands
  /\ ~ Removing /\ (\E f \in Migration!Files : staged[f] # "absent") =>
       staged["source"] # "absent"
  /\ ~ Removing /\ (\E f \in Migration!Files : f # "source" /\ staged[f] # "absent") =>
       staged["journal"] # "absent"

\* What is recorded as used, or is about to be, was an active record.
MigrationLives ==
  /\ \A c \in Migration!Candidates : "candidate" \in Places(c) => c \in lived
  /\ unrecorded \subseteq lived
  /\ step \in {"dropping", "settling"} => subject.id \in lived
  /\ Migration!UsedWasActive

\* Where everything was recorded, a candidate the user is done with is settled.
MigrationSpent == \A c \in spent \ lapsed : Settled(c) \/ Cut \/ Removing

\* A restored candidate the user may touch is settled.
MigrationSeen ==
  session = "shared" /\ step # "loading" =>
    \A c \in Migration!Candidates :
      home[c] = "candidate" /\ c \notin unseen /\ Migration!Staged(c) /\ ~ InHand(c) =>
        Settled(c) \/ c \in lapsed \/ Cut \/ Removing

\* What is not settled is offered, or waits to be recorded.
MigrationShown ==
  session = "shared" /\ step # "loading" /\ ~ unfinished /\ ~ Cut /\ ~ Removing =>
    \A c \in Migration!Candidates :
      Migration!Staged(c) =>
        Settled(c) \/ c \in unrecorded \/ \E item \in offered : item[1] = c

MigrationInv == /\ MigrationTypes /\ MigrationStages /\ MigrationCopies /\ MigrationFiles
                /\ MigrationLives /\ MigrationSpent /\ MigrationSeen /\ MigrationShown

-----------------------------------------------------------------------------
(* Orders, files and records *)

\* The first of some members of an order is one of them, after none of them.
LEMMA FirstIsOne ==
  ASSUME NEW S, NEW order \in Seq(S), NEW some, some # {},
         some \subseteq { order[i] : i \in DOMAIN order }
  PROVE  \E i \in DOMAIN order :
           /\ Migration!First(order, some) = order[i] /\ order[i] \in some
           /\ \A j \in 1..(i - 1) : order[j] \notin some
<1>. DEFINE Indices == { i \in DOMAIN order : order[i] \in some }
<1>1. Indices \subseteq Nat /\ Indices # {} /\ DOMAIN order = 1..Len(order) /\ Len(order) \in Nat
  OBVIOUS
<1>2. PICK least \in Indices : \A other \in Indices : <<other, least>> \notin OpToRel(<, Nat)
  BY <1>1, NatLessThanWellFounded, WFMin
<1>3. \A other \in Indices : ~ other < least
  BY <1>1, <1>2 DEF OpToRel
<1>4. \A j \in 1..(least - 1) : order[j] \notin some
  <2>. SUFFICES ASSUME NEW j \in 1..(least - 1), order[j] \in some  PROVE FALSE
    OBVIOUS
  <2>1. j \in Indices /\ j < least
    BY <1>1
  <2>. QED
    BY <1>3, <2>1
<1>5. \E i \in DOMAIN order : order[i] \in some /\ \A j \in 1..(i - 1) : order[j] \notin some
  BY <1>2, <1>4
<1>. QED
  BY <1>5 DEF Migration!First

LEMMA MembersOnly ==
  ASSUME NEW S, NEW order \in Seq(S), NEW T, \A i \in DOMAIN order : order[i] \in T
  PROVE  order \in Seq(T)
<1>1. order \in [1..Len(order) -> T] /\ Len(order) \in Nat
  OBVIOUS
<1>. QED
  BY <1>1, SeqDef

\* The order of the files, and what is among them.
LEMMA FilesInOrder ==
  /\ Migration!FileOrder \in Seq(Migration!Files)
  /\ Migration!CandidateOrder \in Seq(Migration!Candidates)
  /\ Migration!FileOrder[1] = "source" /\ Migration!FileOrder[2] = "journal"
  /\ "source" \in Migration!Files /\ "journal" \in Migration!Files
  /\ Migration!Candidates \subseteq Migration!Files /\ "source" \notin Migration!Candidates
  /\ Migration!Selections \in Migration!Candidates
<1>. DEFINE Names == { Drafts[i] : i \in DOMAIN Drafts } \cup {Migration!Selections}
            Front == <<"source", "journal", "shared">>
            Own   == <<Migration!Selections>>
<1>1. Drafts \in Seq(Names) /\ Own \in Seq(Names)
  BY MigrationAssumption
<1>2. /\ Migration!CandidateOrder = Own \o Drafts
      /\ Migration!CandidateOrder \in Seq(Names) /\ Len(Migration!CandidateOrder) \in Nat \ {0}
      /\ Migration!CandidateOrder[1] = Migration!Selections
  BY <1>1 DEF Migration!CandidateOrder
<1>3. DOMAIN Migration!CandidateOrder = 1..Len(Migration!CandidateOrder)
  BY <1>2
<1>4. /\ Migration!CandidateOrder \in Seq(Migration!Candidates)
      /\ Migration!Selections \in Migration!Candidates
  <2>1. Migration!CandidateOrder \in Seq(Migration!Candidates)
    <3>1. \A i \in DOMAIN Migration!CandidateOrder : Migration!CandidateOrder[i] \in Migration!Candidates
      BY DEF Migration!Candidates
    <3>. QED
      BY <1>2, <3>1, MembersOnly
  <2>2. 1 \in DOMAIN Migration!CandidateOrder
    BY <1>2, <1>3
  <2>. QED
    BY <1>2, <2>1, <2>2 DEF Migration!Candidates
<1>5. Front \in Seq({"source", "journal", "shared"} \cup Names)
      /\ Migration!CandidateOrder \in Seq({"source", "journal", "shared"} \cup Names)
  BY <1>2
<1>6. /\ Migration!FileOrder = Front \o Migration!CandidateOrder
      /\ Migration!FileOrder \in Seq({"source", "journal", "shared"} \cup Names)
      /\ Len(Migration!FileOrder) = 3 + Len(Migration!CandidateOrder)
      /\ Migration!FileOrder[1] = "source" /\ Migration!FileOrder[2] = "journal"
      /\ \A i \in 1..Len(Migration!CandidateOrder) :
           Migration!FileOrder[3 + i] = Migration!CandidateOrder[i]
  BY <1>2, <1>5 DEF Migration!FileOrder
<1>7. DOMAIN Migration!FileOrder = 1..(3 + Len(Migration!CandidateOrder))
  BY <1>6
<1>8. /\ Migration!FileOrder \in Seq(Migration!Files)
      /\ "source" \in Migration!Files /\ "journal" \in Migration!Files
  <2>1. Migration!FileOrder \in Seq(Migration!Files)
    <3>1. \A i \in DOMAIN Migration!FileOrder : Migration!FileOrder[i] \in Migration!Files
      BY DEF Migration!Files
    <3>. QED
      BY <1>6, <3>1, MembersOnly
  <2>2. 1 \in DOMAIN Migration!FileOrder /\ 2 \in DOMAIN Migration!FileOrder
    BY <1>2, <1>7
  <2>. QED
    BY <1>6, <2>1, <2>2 DEF Migration!Files
<1>10. "source" \notin Migration!Candidates
  <2>. SUFFICES ASSUME NEW i \in DOMAIN Migration!CandidateOrder
                PROVE  Migration!CandidateOrder[i] # "source"
    BY DEF Migration!Candidates
  <2>1. Migration!CandidateOrder[i] \in Names
    BY <1>2
  <2>. QED
    BY <2>1, MigrationAssumption DEF Migration!Selections
<1>9. Migration!Candidates \subseteq Migration!Files
  <2>. SUFFICES ASSUME NEW i \in DOMAIN Migration!CandidateOrder
                PROVE  Migration!CandidateOrder[i] \in Migration!Files
    BY DEF Migration!Candidates
  <2>1. 3 + i \in DOMAIN Migration!FileOrder
        /\ Migration!FileOrder[3 + i] = Migration!CandidateOrder[i]
    BY <1>2, <1>3, <1>6, <1>7
  <2>. QED
    BY <2>1 DEF Migration!Files
<1>. QED
  BY <1>4, <1>6, <1>8, <1>9, <1>10

\* What the folder says of its candidates.
LEMMA ResolvedIs ==
  ASSUME resolutions \in Records \cup {None}
  PROVE  /\ Migration!Resolved \in Records /\ Removing \in BOOLEAN
         /\ resolutions = None => ~ Removing /\ \A c \in Migration!Candidates : ~ Settled(c)
         /\ resolutions # None => Migration!Resolved = resolutions
BY DEF Records, Migration!Resolved, Migration!Unresolved, Removing, Settled

\* Candidates are settled once, and nothing else of the record changes.
LEMMA WithIs ==
  ASSUME resolutions \in Records \cup {None}, NEW cs, NEW outcome \in {"used", "discarded"}
  PROVE  /\ Migration!With(cs, outcome) \in Records
         /\ Migration!With(cs, outcome).removing = Removing
         /\ \A c \in Migration!Candidates :
              Migration!With(cs, outcome).settled[c] =
                IF c \in cs /\ ~ Settled(c) THEN outcome ELSE Migration!Resolved.settled[c]
<1>1. Migration!Resolved \in Records
  BY ResolvedIs
<1>. QED
  BY <1>1 DEF Records, Migration!With, Removing, Settled

\* A record is written, or a write of it fails.
LEMMA SettlesIs ==
  ASSUME resolutions \in Records \cup {None}, NEW cs, NEW outcome \in {"used", "discarded"},
         resolutions' \in {resolutions, Migration!With(cs, outcome)}
  PROVE  /\ resolutions' \in Records \cup {None} /\ Removing' = Removing
         /\ \A c \in Migration!Candidates :
              /\ Settled(c) => Settled(c)'
              /\ Migration!Resolved'.settled[c] # Migration!Resolved.settled[c] =>
                   c \in cs /\ Migration!Resolved'.settled[c] = outcome
         /\ resolutions' = Migration!With(cs, outcome) =>
              \A c \in Migration!Candidates \cap cs : Settled(c)'
<1>1. CASE resolutions' = resolutions /\ resolutions' # Migration!With(cs, outcome)
  BY <1>1 DEF Migration!Resolved, Removing, Settled, Migration!Unresolved
<1>2. CASE resolutions' = Migration!With(cs, outcome)
  <2>1. /\ Migration!With(cs, outcome) \in Records
        /\ Migration!With(cs, outcome).removing = Removing
        /\ \A c \in Migration!Candidates :
             Migration!With(cs, outcome).settled[c] =
               IF c \in cs /\ ~ Settled(c) THEN outcome ELSE Migration!Resolved.settled[c]
    BY WithIs
  <2>2. Migration!Resolved' = Migration!With(cs, outcome)
    BY <1>2, <2>1, MigrationAssumption DEF Migration!Resolved, Records
  <2>3. outcome # None
    BY MigrationAssumption
  <2>. QED
    BY <1>2, <2>1, <2>2, <2>3 DEF Removing, Settled
<1>. QED
  BY <1>1, <1>2

-----------------------------------------------------------------------------
(* Steps of an upgrade *)

\* The records of the folder, what the window knows, and what became of them.
SameRecords == UNCHANGED <<staged, home, rival, replaced, resolutions>>
SameControl == UNCHANGED <<session, step, subject, offered, unfinished, unrecorded, unseen>>
SameHistory == UNCHANGED <<lived, spent, lapsed, kept>>

LEMMA SameMeanings ==
  ASSUME SameRecords
  PROVE  /\ Removing' = Removing /\ (Cut' <=> Cut) /\ Migration!Resolved' = Migration!Resolved
         /\ \A c : (Settled(c)' <=> Settled(c)) /\ Places(c)' = Places(c)
         /\ \A c : Migration!Held(c)' = Migration!Held(c)
         /\ \A c, slot : Migration!At(c, slot)' = Migration!At(c, slot)
         /\ \A f : Migration!Staged(f)' <=> Migration!Staged(f)
BY DEF SameRecords, Removing, Cut, Migration!Resolved, Migration!Unresolved, Settled, Places,
       Migration!Held, Migration!At, Migration!Staged

LEMMA UpgradeMoves ==
  ASSUME MigrationInv, SameRecords, SameControl, SameHistory,
         MigrationTypes', MigrationStages', Migration!BackupStands'
  PROVE  MigrationInv'
<1>1. MigrationCopies'
  BY SameMeanings DEF MigrationInv, MigrationCopies, SameRecords, SameControl, SameHistory,
                      Migration!WordsSurvive
<1>2. MigrationFiles'
  BY SameMeanings DEF MigrationInv, MigrationFiles, SameRecords
<1>3. MigrationLives'
  BY SameMeanings DEF MigrationInv, MigrationLives, SameControl, SameHistory,
                      Migration!UsedWasActive
<1>4. MigrationSpent'
  BY SameMeanings DEF MigrationInv, MigrationSpent, SameHistory
<1>5. MigrationSeen'
  BY SameMeanings DEF MigrationInv, MigrationSeen, SameRecords, SameControl, SameHistory, InHand
<1>6. MigrationShown'
  BY SameMeanings DEF MigrationInv, MigrationShown, SameControl
<1>. QED
  BY <1>1, <1>2, <1>3, <1>4, <1>5, <1>6 DEF MigrationInv

\* The types of what an upgrade's own steps leave alone.
LEMMA UpgradeTypes ==
  ASSUME MigrationTypes, SameRecords, SameControl, SameHistory,
         manifest' \in {"source", "shared", "other"},
         pc' \in {"idle", "staging", "planning", "planned", "writing", "activating", "inspecting",
                  "unconfirmed"},
         told' \in {None, "stale", "failed", "inspection", "upgraded"},
         todo' \subseteq Migration!Candidates, wrote' \in BOOLEAN
  PROVE  MigrationTypes'
BY DEF MigrationTypes, SameRecords, SameControl, SameHistory, Migration!TypeOK

\* The stages of the same.
LEMMA UpgradeStages ==
  ASSUME MigrationInv, SameRecords, SameControl,
         pc' # "idle" => step = "idle" /\ session # "closed",
         pc' = "staging" => session = "legacy" /\ ~ Cut,
         pc' \in {"planned", "writing", "activating"} =>
           /\ \A f \in Migration!Files : Migration!Staged(f)
           /\ ~ Removing /\ \A c \in todo' : ~ Settled(c),
         pc' \in {"staging", "planning", "planned", "writing"} => ~ wrote'
  PROVE  MigrationStages'
<1>1. /\ step' # "idle" => session' = "shared" /\ pc' = "idle"
      /\ session' = "closed" => pc' = "idle"
      /\ step' = "deleting" => Removing
      /\ Removing => unrecorded' = {}
  BY DEF MigrationInv, MigrationStages, SameControl
<1>2. /\ pc' = "staging" => session' = "legacy" /\ ~ Cut
      /\ pc' \in {"planned", "writing", "activating"} =>
           /\ \A f \in Migration!Files : Migration!Staged(f)
           /\ ~ Removing /\ \A c \in todo' : ~ Settled(c)
  BY DEF SameControl
<1>. QED
  BY <1>1, <1>2, SameMeanings DEF MigrationStages

LEMMA ManifestStands ==
  ASSUME MigrationInv, SameRecords, manifest' = "shared" => manifest = "shared"
  PROVE  Migration!BackupStands'
BY SameMeanings DEF MigrationInv, MigrationFiles, Migration!BackupStands, SameRecords, Removing

LEMMA StartUpgradeStep ==
  ASSUME MigrationInv, Migration!StartUpgrade
  PROVE  MigrationInv'
<1>1. /\ SameRecords /\ SameControl /\ SameHistory /\ manifest' = manifest /\ wrote' = FALSE
      /\ session = "legacy" /\ pc = "idle"
      /\ \/ pc' = "idle" /\ todo' = {} /\ told' \in {"stale", "failed"}
         \/ pc' = "planning" /\ told' = None /\ UNCHANGED todo
         \/ /\ Migration!Inspection \in {"none", "incomplete-intent", "incomplete"}
            /\ pc' = "staging" /\ told' = None /\ UNCHANGED todo
  BY DEF Migration!StartUpgrade, Migration!Reports, Migration!folder, Migration!control,
         Migration!history, Migration!bounds, SameRecords, SameControl, SameHistory
<1>2. Migration!Inspection \in {"none", "incomplete-intent", "incomplete"} => ~ Cut
  BY DEF Migration!Inspection, Migration!Staged, Cut
<1>3. MigrationTypes'
  BY <1>1, UpgradeTypes DEF MigrationInv, MigrationTypes, Migration!TypeOK
<1>4. MigrationStages'
  BY <1>1, <1>2, UpgradeStages DEF MigrationInv, MigrationStages
<1>. QED
  BY <1>1, <1>3, <1>4, UpgradeMoves, ManifestStands

LEMMA StagingConfirmedStep ==
  ASSUME MigrationInv, Migration!StagingConfirmed
  PROVE  MigrationInv'
<1>1. /\ SameRecords /\ SameControl /\ SameHistory /\ UNCHANGED <<manifest, wrote>>
      /\ pc = "staging"
      /\ \/ pc' = "idle" /\ todo' = {} /\ told' \in {"stale", "failed"}
         \/ pc' = "planning" /\ UNCHANGED <<told, todo>>
  BY DEF Migration!StagingConfirmed, Migration!Reports, Migration!folder, Migration!control,
         Migration!history, Migration!bounds, SameRecords, SameControl, SameHistory
<1>2. MigrationTypes'
  BY <1>1, UpgradeTypes DEF MigrationInv, MigrationTypes, Migration!TypeOK
<1>3. MigrationStages'
  BY <1>1, UpgradeStages DEF MigrationInv, MigrationStages
<1>. QED
  BY <1>1, <1>2, <1>3, UpgradeMoves, ManifestStands

LEMMA StartFinishStep ==
  ASSUME MigrationInv, Migration!StartFinish
  PROVE  MigrationInv'
<1>1. /\ SameRecords /\ SameControl /\ SameHistory /\ UNCHANGED <<manifest, todo>>
      /\ session = "shared" /\ step = "idle" /\ pc' = "planning" /\ wrote' = FALSE
      /\ told' = None
  BY DEF Migration!StartFinish, Migration!folder, Migration!control, Migration!history,
         Migration!bounds, SameRecords, SameControl, SameHistory
<1>2. MigrationTypes'
  BY <1>1, UpgradeTypes DEF MigrationInv, MigrationTypes, Migration!TypeOK
<1>3. MigrationStages'
  BY <1>1, UpgradeStages DEF MigrationInv, MigrationStages
<1>. QED
  BY <1>1, <1>2, <1>3, UpgradeMoves, ManifestStands

\* A backup that verifies is whole.
LEMMA VerifiedIsWhole ==
  ASSUME Migration!Verified
  PROVE  (\A f \in Migration!Files : Migration!Staged(f)) /\ ~ Removing
<1>1. /\ Migration!Inspection \in {"ready", "shared-written"} /\ ~ Removing
  BY DEF Migration!Verified, Removing
<1>2. ~ (\E f \in Migration!Files : staged[f] # "absent" /\ ~ Migration!Staged(f))
      /\ { f \in Migration!Files : staged[f] # "absent" } = Migration!Files
  BY <1>1 DEF Migration!Inspection
<1>. QED
  BY <1>1, <1>2

LEMMA MakePlanStep ==
  ASSUME MigrationInv, Migration!MakePlan
  PROVE  MigrationInv'
<1>1. /\ SameRecords /\ SameControl /\ SameHistory /\ UNCHANGED <<manifest, wrote>>
      /\ pc = "planning"
      /\ \/ Migration!MayComplete /\ pc' = "planned" /\ told' = told
              /\ todo' = Migration!Eligible
         \/ pc' = "idle" /\ todo' = {} /\ told' = "failed"
  BY DEF Migration!MakePlan, Migration!Reports, Migration!folder, Migration!control,
         Migration!history, Migration!bounds, SameRecords, SameControl, SameHistory
<1>2. Migration!Eligible \subseteq Migration!Candidates
      /\ \A c \in Migration!Eligible : ~ Settled(c)
  BY DEF Migration!Eligible, Migration!Unsettled, Settled
<1>3. Migration!MayComplete =>
        (\A f \in Migration!Files : Migration!Staged(f)) /\ ~ Removing
  BY VerifiedIsWhole DEF Migration!MayComplete
<1>4. MigrationTypes'
  BY <1>1, <1>2, UpgradeTypes DEF MigrationInv, MigrationTypes, Migration!TypeOK
<1>5. MigrationStages'
  BY <1>1, <1>2, <1>3, UpgradeStages DEF MigrationInv, MigrationStages
<1>. QED
  BY <1>1, <1>4, <1>5, UpgradeMoves, ManifestStands

LEMMA ExecuteStep ==
  ASSUME MigrationInv, Migration!Execute
  PROVE  MigrationInv'
<1>1. /\ SameRecords /\ SameControl /\ SameHistory /\ UNCHANGED <<manifest, wrote>>
      /\ pc = "planned"
      /\ \/ pc' \in {"writing", "activating"} /\ UNCHANGED <<told, todo>>
         \/ pc' = "idle" /\ todo' = {} /\ told' = "stale"
  BY DEF Migration!Execute, Migration!Reports, Migration!folder, Migration!control,
         Migration!history, Migration!bounds, SameRecords, SameControl, SameHistory
<1>2. MigrationTypes'
  BY <1>1, UpgradeTypes DEF MigrationInv, MigrationTypes, Migration!TypeOK
<1>3. MigrationStages'
  BY <1>1, UpgradeStages DEF MigrationInv, MigrationStages
<1>. QED
  BY <1>1, <1>2, <1>3, UpgradeMoves, ManifestStands

\* The manifest is replaced when the whole of the backup is there.
LEMMA WriteManifestStep ==
  ASSUME MigrationInv, Migration!WriteManifest
  PROVE  MigrationInv'
<1>1. /\ SameRecords /\ SameControl /\ SameHistory /\ pc = "writing"
      /\ manifest' \in {manifest, "shared"} /\ wrote' \in {wrote, TRUE, FALSE}
      /\ \/ pc' = "activating" /\ UNCHANGED <<told, todo>>
         \/ pc' = "unconfirmed" /\ todo' = {} /\ told' = "inspection"
         \/ pc' = "idle" /\ todo' = {} /\ told' = "stale"
  BY DEF Migration!WriteManifest, Migration!Reports, Migration!control,
         Migration!history, SameRecords, SameControl, SameHistory
<1>2. MigrationTypes'
  BY <1>1, UpgradeTypes DEF MigrationInv, MigrationTypes, Migration!TypeOK
<1>3. MigrationStages'
  BY <1>1, UpgradeStages DEF MigrationInv, MigrationStages
<1>4. \A f \in Migration!Files : Migration!Staged(f)'
  BY <1>1, SameMeanings DEF MigrationInv, MigrationStages
<1>5. Migration!BackupStands'
  BY <1>4 DEF Migration!BackupStands
<1>. QED
  BY <1>1, <1>2, <1>3, <1>5, UpgradeMoves

LEMMA ActivatedStep ==
  ASSUME MigrationInv, Migration!Activated
  PROVE  MigrationInv'
<1>1. /\ SameRecords /\ SameControl /\ SameHistory /\ UNCHANGED <<manifest, wrote, told, todo>>
      /\ pc = "activating" /\ pc' = "inspecting"
  BY DEF Migration!Activated, Migration!Stops, Migration!folder, Migration!control,
         Migration!history, Migration!bounds, SameRecords, SameControl, SameHistory
<1>2. MigrationTypes'
  BY <1>1, UpgradeTypes DEF MigrationInv, MigrationTypes, Migration!TypeOK
<1>3. MigrationStages'
  BY <1>1, UpgradeStages DEF MigrationInv, MigrationStages
<1>. QED
  BY <1>1, <1>2, <1>3, UpgradeMoves, ManifestStands

-----------------------------------------------------------------------------
(* The window reads the folder, or is gone *)

LEMMA OpensStep ==
  ASSUME MigrationInv, Migration!Opens, SameRecords, SameHistory, UNCHANGED manifest,
         pc' = "idle", told' \in {None, "stale", "failed", "inspection", "upgraded"},
         todo' \subseteq Migration!Candidates, wrote' = wrote
  PROVE  MigrationInv'
<1>1. /\ session' \in {"legacy", "shared"} /\ step' \in {"idle", "loading"}
      /\ step' = "loading" <=> session' = "shared"
      /\ unrecorded' = {} /\ unseen' = {}
  BY DEF Migration!Opens, Migration!Forget
<1>2. MigrationTypes'
  BY <1>1 DEF MigrationInv, MigrationTypes, Migration!TypeOK, SameRecords, SameHistory, Using
<1>3. MigrationStages'
  BY <1>1 DEF MigrationStages
<1>4. MigrationCopies'
  BY <1>1, SameMeanings DEF MigrationInv, MigrationCopies, SameHistory, Migration!WordsSurvive
<1>5. MigrationFiles'
  BY SameMeanings, ManifestStands DEF MigrationInv, MigrationFiles, SameRecords
<1>6. MigrationLives'
  BY <1>1, SameMeanings DEF MigrationInv, MigrationLives, SameHistory, Migration!UsedWasActive
<1>7. MigrationSpent'
  BY SameMeanings DEF MigrationInv, MigrationSpent, SameHistory
<1>8. MigrationSeen' /\ MigrationShown'
  BY <1>1 DEF MigrationSeen, MigrationShown
<1>. QED
  BY <1>2, <1>3, <1>4, <1>5, <1>6, <1>7, <1>8 DEF MigrationInv

LEMMA OpenStep ==
  ASSUME MigrationInv, Migration!Open
  PROVE  MigrationInv'
<1>1. /\ SameRecords /\ SameHistory /\ UNCHANGED <<manifest, pc, told, todo, wrote>>
      /\ session = "closed" /\ Migration!Opens
  BY DEF Migration!Open, Migration!folder, Migration!upgrade, Migration!history, SameRecords,
         SameHistory
<1>2. /\ pc' = "idle" /\ told' \in {None, "stale", "failed", "inspection", "upgraded"}
      /\ todo' \subseteq Migration!Candidates
  BY <1>1 DEF MigrationInv, MigrationStages, MigrationTypes, Migration!TypeOK
<1>. QED
  BY <1>1, <1>2, OpensStep

LEMMA CheckAgainStep ==
  ASSUME MigrationInv, Migration!CheckAgain
  PROVE  MigrationInv'
<1>1. /\ SameRecords /\ SameHistory /\ UNCHANGED <<manifest, told, todo, wrote>>
      /\ pc' = "idle" /\ Migration!Opens
  BY DEF Migration!CheckAgain, Migration!folder, Migration!history, SameRecords, SameHistory
<1>2. /\ told' \in {None, "stale", "failed", "inspection", "upgraded"}
      /\ todo' \subseteq Migration!Candidates
  BY <1>1 DEF MigrationInv, MigrationTypes, Migration!TypeOK
<1>. QED
  BY <1>1, <1>2, OpensStep

LEMMA InspectStep ==
  ASSUME MigrationInv, Migration!Inspect
  PROVE  MigrationInv'
<1>1. /\ SameRecords /\ SameHistory /\ UNCHANGED <<manifest, wrote>> /\ pc = "inspecting"
      /\ todo' = {} /\ told' \in {"upgraded", "failed", "inspection"}
      /\ \/ pc' = "idle" /\ Migration!Opens
         \/ pc' \in {"idle", "unconfirmed"} /\ SameControl
  BY DEF Migration!Inspect, Migration!Reports, Migration!folder, Migration!history,
         Migration!control, SameRecords, SameHistory, SameControl
<1>2. CASE pc' = "idle" /\ Migration!Opens
  BY <1>1, <1>2, OpensStep
<1>3. CASE pc' \in {"idle", "unconfirmed"} /\ SameControl
  <2>1. MigrationTypes'
    BY <1>1, <1>3, UpgradeTypes DEF MigrationInv, MigrationTypes, Migration!TypeOK
  <2>2. MigrationStages'
    BY <1>1, <1>3, UpgradeStages DEF MigrationInv, MigrationStages
  <2>. QED
    BY <1>1, <1>3, <2>1, <2>2, UpgradeMoves, ManifestStands
<1>. QED
  BY <1>1, <1>2, <1>3

LEMMA CrashStep ==
  ASSUME MigrationInv, Migration!Crash
  PROVE  MigrationInv'
<1>1. /\ SameRecords /\ UNCHANGED <<manifest, told, wrote, lived, spent, kept>>
      /\ session' = "closed" /\ step' = "idle" /\ pc' = "idle" /\ todo' = {}
      /\ unrecorded' = {} /\ unseen' = {}
      /\ \/ lapsed' = lapsed
         \/ step \in {"dropping", "settling"} /\ lapsed' = lapsed \cup {subject.id}
  BY DEF Migration!Crash, Migration!Forget, Migration!folder, SameRecords
<1>2. lapsed \subseteq lapsed' /\ lapsed' \subseteq Migration!Candidates
  BY <1>1 DEF MigrationInv, MigrationTypes, Using, Subjects
<1>3. MigrationTypes'
  BY <1>1, <1>2 DEF MigrationInv, MigrationTypes, Migration!TypeOK, SameRecords, Using
<1>4. MigrationStages'
  BY <1>1 DEF MigrationStages
<1>5. MigrationCopies'
  BY <1>1, SameMeanings DEF MigrationInv, MigrationCopies, Migration!WordsSurvive
<1>6. MigrationFiles'
  BY <1>1, SameMeanings, ManifestStands DEF MigrationInv, MigrationFiles, SameRecords
<1>7. MigrationLives'
  BY <1>1, SameMeanings DEF MigrationInv, MigrationLives, Migration!UsedWasActive
<1>8. MigrationSpent'
  BY <1>1, <1>2, SameMeanings DEF MigrationInv, MigrationSpent
<1>9. MigrationSeen' /\ MigrationShown'
  BY <1>1 DEF MigrationSeen, MigrationShown
<1>. QED
  BY <1>3, <1>4, <1>5, <1>6, <1>7, <1>8, <1>9 DEF MigrationInv

-----------------------------------------------------------------------------
(* A record of a candidate is put in place, changed or removed *)

LEMMA PlacesOf ==
  ASSUME NEW c \in Migration!Candidates
  PROVE  /\ "home" \in Migration!SlotsOf(c) /\ Migration!SlotsOf(c) \subseteq {"home", "rival"}
         /\ "rival" \in Migration!SlotsOf(c) => c \in Migration!DraftIds
         /\ c # Migration!Selections =>
              /\ c \in Migration!DraftIds
              /\ Migration!SlotsOf(c) = {"home", "rival"} /\ Migration!Slots = {"home", "rival"}
         /\ Migration!At(c, "home") = home[c] /\ Migration!At(c, "rival") = rival[c]
BY DEF Migration!SlotsOf, Migration!Slots, Migration!DraftIds, Migration!At

LEMMA PutIs ==
  ASSUME MigrationTypes, NEW c \in Migration!Candidates, NEW slot \in Migration!SlotsOf(c),
         NEW value \in Migration!Wordings \cup {None}, Migration!Put(c, slot, value)
  PROVE  /\ home' \in [Migration!Candidates -> Migration!Wordings \cup {None}]
         /\ rival' \in [Migration!DraftIds -> Migration!Wordings \cup {None}]
         /\ Migration!At(c, slot)' = value
         /\ \A d \in Migration!Candidates : \A place \in Migration!SlotsOf(d) :
              d # c \/ place # slot => Migration!At(d, place)' = Migration!At(d, place)
<1>1. /\ home \in [Migration!Candidates -> Migration!Wordings \cup {None}]
      /\ rival \in [Migration!DraftIds -> Migration!Wordings \cup {None}]
  BY DEF MigrationTypes, Migration!TypeOK
<1>2. CASE slot = "home"
  <2>1. home' = [home EXCEPT ![c] = value] /\ rival' = rival
    BY <1>2 DEF Migration!Put
  <2>. QED
    BY <1>1, <1>2, <2>1, PlacesOf DEF Migration!At
<1>3. CASE slot = "rival"
  <2>1. rival' = [rival EXCEPT ![c] = value] /\ home' = home /\ c \in Migration!DraftIds
    BY <1>3, PlacesOf DEF Migration!Put
  <2>. QED
    BY <1>1, <1>3, <2>1, PlacesOf DEF Migration!At
<1>. QED
  BY <1>2, <1>3, PlacesOf

\* What the folder holds afterwards.
LEMMA PutHolds ==
  ASSUME MigrationTypes, NEW c \in Migration!Candidates, NEW slot \in Migration!SlotsOf(c),
         NEW value \in Migration!Wordings \cup {None}, Migration!Put(c, slot, value),
         replaced' = replaced
  PROVE  /\ \A d \in Migration!Candidates :
              /\ d # c => /\ Places(d)' = Places(d)
                          /\ Migration!Held(d)' = Migration!Held(d)
              /\ Places(d)' \subseteq Places(d) \cup {value}
              /\ Places(d) \subseteq Places(d)' \cup {Migration!At(c, slot)}
              /\ Migration!Held(d) \subseteq Migration!Held(d)' \cup {Migration!At(c, slot)}
         /\ value \in Places(c)' /\ value \in Migration!Held(c)'
<1>1. /\ Migration!At(c, slot)' = value
      /\ \A d \in Migration!Candidates : \A place \in Migration!SlotsOf(d) :
           d # c \/ place # slot => Migration!At(d, place)' = Migration!At(d, place)
  BY PutIs
<1>2. \A d \in Migration!Candidates :
        /\ d # c => Places(d)' = Places(d)
        /\ Places(d)' \subseteq Places(d) \cup {value}
        /\ Places(d) \subseteq Places(d)' \cup {Migration!At(c, slot)}
  BY <1>1 DEF Places
<1>3. value \in Places(c)'
  BY <1>1 DEF Places
<1>. DEFINE Copies(d) == IF d = Migration!Selections THEN {}
                         ELSE { replaced[d][place] : place \in Migration!Slots }
<1>4. \A d : Migration!Held(d) = Places(d) \cup Copies(d)
  BY DEF Migration!Held, Places
<1>5. \A d : Migration!Held(d)' = Places(d)' \cup Copies(d)
  BY DEF Migration!Held, Places
<1>. HIDE DEF Copies
<1>. QED
  BY <1>2, <1>3, <1>4, <1>5

LEMMA OthersStep ==
  ASSUME MigrationInv, Migration!Others
  PROVE  MigrationInv'
<1>1. /\ UNCHANGED <<staged, rival, replaced, resolutions, session, step, subject, offered,
                     unfinished, unrecorded, lived, spent, lapsed>>
      /\ UNCHANGED <<pc, todo, wrote, told>>
  BY DEF Migration!Others, Migration!upgrade
<1>2. CASE manifest' \in {"source", "other"} /\ UNCHANGED <<home, kept, unseen>>
  <2>1. SameRecords /\ SameControl /\ SameHistory
    BY <1>1, <1>2 DEF SameRecords, SameControl, SameHistory
  <2>2. MigrationTypes'
    BY <1>1, <1>2, <2>1, UpgradeTypes DEF MigrationInv, MigrationTypes, Migration!TypeOK
  <2>3. MigrationStages'
    BY <1>1, <2>1, UpgradeStages DEF MigrationInv, MigrationStages
  <2>. QED
    BY <1>2, <2>1, <2>2, <2>3, UpgradeMoves, ManifestStands
<1>3. ASSUME NEW c \in Migration!Candidates,
             \A slot \in Migration!SlotsOf(c) : Migration!At(c, slot) = None,
             home' = [home EXCEPT ![c] = "own"], kept' = [kept EXCEPT ![c] = @ \cup {"own"}],
             unseen' = IF session = "closed" THEN unseen ELSE unseen \cup {c},
             UNCHANGED manifest
      PROVE  MigrationInv'
  <2>1. /\ Migration!Put(c, "home", "own") /\ "home" \in Migration!SlotsOf(c)
        /\ "own" \in Migration!Wordings
    BY <1>1, <1>3, PlacesOf DEF Migration!Put, Migration!Wordings
  <2>2. /\ home' \in [Migration!Candidates -> Migration!Wordings \cup {None}]
        /\ \A d \in Migration!Candidates : \A place \in Migration!SlotsOf(d) :
             d # c \/ place # "home" => Migration!At(d, place)' = Migration!At(d, place)
    BY <2>1, PutIs DEF MigrationInv
  <2>3. MigrationTypes'
    <3>1. kept' \in [Migration!Candidates -> SUBSET Migration!Wordings]
      BY <1>3, <2>1 DEF MigrationInv, MigrationTypes
    <3>. QED
      BY <1>1, <1>3, <2>2, <3>1 DEF MigrationInv, MigrationTypes, Migration!TypeOK
  <2>4. /\ Removing' = Removing /\ (Cut' <=> Cut) /\ Migration!Resolved' = Migration!Resolved
        /\ \A d : (Settled(d)' <=> Settled(d)) /\ (Migration!Staged(d)' <=> Migration!Staged(d))
    BY <1>1 DEF Removing, Cut, Migration!Resolved, Migration!Unresolved, Settled,
                Migration!Staged
  <2>5. MigrationStages'
    BY <1>1, <2>4 DEF MigrationInv, MigrationStages
  <2>6. MigrationCopies'
    <3>1. ASSUME step \in {"copying", "incoming", "dropping"}, subject.old # None,
                 Migration!At(subject.id, subject.old) # None
          PROVE  Migration!At(subject.id, subject.old)' = Migration!At(subject.id, subject.old)
      <4>1. /\ subject.id \in Migration!Candidates /\ subject.old \in Migration!Slots
            /\ subject.id # Migration!Selections
        BY <3>1 DEF MigrationInv, MigrationTypes, Using, Subjects
      <4>2. subject.old \in Migration!SlotsOf(subject.id)
        BY <4>1, PlacesOf
      <4>3. subject.id # c
        BY <1>3, <3>1, <4>2
      <4>. QED
        BY <1>1, <2>2, <4>1, <4>2, <4>3
    <3>2. \A d \in Migration!Candidates :
            /\ kept'[d] \subseteq kept[d] \cup Places(d)'
            /\ None \notin kept[d] /\ None \notin kept'[d]
            /\ Places(d) \subseteq Places(d)' \cup {None}
            /\ Places(d)' \subseteq Migration!Held(d)'
            /\ Migration!Held(d) \subseteq Migration!Held(d)' \cup {None}
      <4>1. \A d \in Migration!Candidates :
              /\ Places(d) \subseteq Places(d)' \cup {None}
              /\ Migration!Held(d) \subseteq Migration!Held(d)' \cup {None}
              /\ "own" \in Places(c)'
        BY <1>1, <1>3, <2>1, PutHolds DEF MigrationInv
      <4>2. \A d \in Migration!Candidates :
              kept'[d] \subseteq kept[d] \cup (IF d = c THEN {"own"} ELSE {})
        BY <1>3 DEF MigrationInv, MigrationTypes
      <4>3. \A d \in Migration!Candidates : None \notin kept[d] /\ None \notin kept'[d]
        BY <2>3, MigrationAssumption DEF MigrationInv, MigrationTypes
      <4>4. \A d : Places(d)' \subseteq Migration!Held(d)'
        BY DEF Places, Migration!Held
      <4>. QED
        BY <4>1, <4>2, <4>3, <4>4
    <3>3. /\ step' = "deleting" => \A d \in Migration!Candidates : kept'[d] \subseteq Places(d)'
          /\ Migration!WordsSurvive'
      BY <1>1, <3>2 DEF MigrationInv, MigrationCopies, Migration!WordsSurvive
    <3>4. step \in {"copying", "dropping"} => subject.old # None
      BY DEF MigrationInv, MigrationTypes
    <3>5. /\ step' = "copying" => /\ Migration!At(subject.id, subject.old)' # None
                                  /\ replaced'[subject'.id][subject'.old] = None
          /\ step' \in {"incoming", "dropping"} /\ subject'.old # None =>
               /\ Migration!At(subject.id, subject.old)' # None
               /\ replaced'[subject'.id][subject'.old] = Migration!At(subject.id, subject.old)'
      BY <1>1, <3>1, <3>4 DEF MigrationInv, MigrationCopies
    <3>. QED
      BY <3>3, <3>5 DEF MigrationCopies
  <2>7. MigrationFiles'
    BY <1>1, <1>3, <2>4 DEF MigrationInv, MigrationFiles, Migration!BackupStands
  <2>8. MigrationLives'
    <3>1. \A d \in Migration!Candidates : "candidate" \in Places(d)' => d \in lived
      BY <1>1, <2>1, PutHolds DEF MigrationInv, MigrationLives
    <3>. QED
      BY <1>1, <2>4, <3>1 DEF MigrationInv, MigrationLives, Migration!UsedWasActive
  <2>9. MigrationSpent' /\ MigrationShown'
    BY <1>1, <2>4 DEF MigrationInv, MigrationSpent, MigrationShown
  <2>10. MigrationSeen'
    <3>1. \A d \in Migration!Candidates : home'[d] = "candidate" => home[d] = "candidate"
      BY <1>3 DEF MigrationInv, MigrationTypes, Migration!TypeOK
    <3>2. unseen \subseteq unseen'
      BY <1>3
    <3>. QED
      BY <1>1, <2>4, <3>1, <3>2 DEF MigrationInv, MigrationSeen, InHand
  <2>. QED
    BY <2>3, <2>5, <2>6, <2>7, <2>8, <2>9, <2>10 DEF MigrationInv
<1>. QED
  BY <1>2, <1>3 DEF Migration!Others

-----------------------------------------------------------------------------
(* Files are staged, and records activated *)

LEMMA StageFileStep ==
  ASSUME MigrationInv, Migration!StageFile
  PROVE  MigrationInv'
<1>1. /\ UNCHANGED <<manifest, home, rival, replaced, resolutions>> /\ SameControl /\ SameHistory
      /\ wrote' = wrote /\ pc = "staging" /\ Migration!Unstaged # {}
  BY DEF Migration!StageFile, Migration!control, Migration!history, SameControl, SameHistory
<1>2. /\ session = "legacy" /\ step = "idle" /\ ~ Cut /\ ~ wrote
  BY <1>1 DEF MigrationInv, MigrationStages
<1>3. CASE staged' = staged
  <2>1. /\ SameRecords /\ pc' \in {"staging", "idle"} /\ told' \in {told, "stale", "failed"}
        /\ todo' \in {todo, {}}
    BY <1>1, <1>3 DEF SameRecords, Migration!StageFile, Migration!Reports
  <2>2. MigrationTypes'
    BY <1>1, <2>1, UpgradeTypes DEF MigrationInv, MigrationTypes, Migration!TypeOK
  <2>3. MigrationStages'
    BY <1>1, <1>2, <2>1, UpgradeStages DEF MigrationInv, MigrationStages
  <2>. QED
    BY <1>1, <2>1, <2>2, <2>3, UpgradeMoves, ManifestStands
<1>4. ASSUME staged' # staged
      PROVE  MigrationInv'
  <2>. DEFINE file == Migration!First(Migration!FileOrder, Migration!Unstaged)
  <2>1. PICK i \in DOMAIN Migration!FileOrder :
          /\ file = Migration!FileOrder[i] /\ Migration!FileOrder[i] \in Migration!Unstaged
          /\ \A j \in 1..(i - 1) : Migration!FileOrder[j] \notin Migration!Unstaged
    BY <1>1, FilesInOrder, FirstIsOne DEF Migration!Unstaged, Migration!Files
  <2>2. /\ manifest = "source"
        /\ \/ staged' = [staged EXCEPT ![file] = "whole"] /\ UNCHANGED <<pc, todo, told>>
           \/ /\ pc' = "idle" /\ todo' = {} /\ told' = "failed"
              /\ \E left \in {"absent", "partial"} : staged' = [staged EXCEPT ![file] = left]
    BY <1>4 DEF Migration!StageFile, Migration!Reports
  <2>3. /\ file \in Migration!Files /\ staged[file] = "absent"
        /\ staged \in [Migration!Files -> {"absent", "whole", "partial"}]
    BY <1>2, <2>1 DEF Migration!Unstaged, Migration!Staged, Cut, MigrationInv, MigrationTypes,
                      Migration!TypeOK
  <2>4. /\ file # "source" => staged["source"] # "absent"
        /\ file \notin {"source", "journal"} => staged["journal"] # "absent"
    <3>1. i \in Nat \ {0} /\ (i = 1 => file = "source") /\ (i = 2 => file = "journal")
      BY <2>1, FilesInOrder
    <3>2. /\ i > 1 => "source" \notin Migration!Unstaged
          /\ i > 2 => "journal" \notin Migration!Unstaged
      BY <2>1, <3>1, FilesInOrder
    <3>. QED
      BY <3>1, <3>2, FilesInOrder DEF Migration!Unstaged, Migration!Staged
  <2>. HIDE DEF file
  <2>5. staged' \in [Migration!Files -> {"absent", "whole", "partial"}]
        /\ \A f \in Migration!Files : f # file => staged'[f] = staged[f]
    BY <2>2, <2>3
  <2>6. MigrationTypes'
    BY <1>1, <2>2, <2>5 DEF MigrationInv, MigrationTypes, Migration!TypeOK, SameControl,
                            SameHistory
  <2>7. Removing' = Removing /\ Migration!Resolved' = Migration!Resolved
        /\ \A c : Settled(c)' <=> Settled(c)
    BY <1>1 DEF Removing, Migration!Resolved, Migration!Unresolved, Settled
  <2>8. MigrationStages'
    <3>1. pc' = "staging" => ~ Cut'
      BY <1>1, <1>2, <2>2, <2>3, <2>5 DEF Cut
    <3>2. pc' \in {"staging", "idle"}
      BY <1>1, <2>2
    <3>. QED
      BY <1>1, <1>2, <2>7, <3>1, <3>2 DEF MigrationInv, MigrationStages, SameControl
  <2>9. MigrationCopies'
    BY <1>1, <1>2 DEF MigrationInv, MigrationCopies, SameControl, SameHistory,
                      Migration!WordsSurvive, Migration!Held, Migration!At, Migration!NoCopies
  <2>10. MigrationFiles'
    <3>1. Migration!BackupStands'
      BY <1>1, <2>2 DEF Migration!BackupStands
    <3>2. staged'["source"] # "absent" \/ (file = "source" /\ staged'["source"] = "absent")
      BY <2>4, <2>5, FilesInOrder
    <3>3. ASSUME ~ Removing, NEW f \in Migration!Files, staged'[f] # "absent"
          PROVE  staged'["source"] # "absent"
      <4>1. CASE file = "source"
        BY <2>3, <2>5, <3>3, <4>1 DEF MigrationInv, MigrationFiles
      <4>. QED
        BY <2>4, <2>5, <4>1, FilesInOrder
    <3>4. ASSUME ~ Removing, NEW f \in Migration!Files, f # "source", staged'[f] # "absent"
          PROVE  staged'["journal"] # "absent"
      <4>1. CASE file \in {"source", "journal"}
        BY <2>3, <2>5, <3>4, <4>1 DEF MigrationInv, MigrationFiles
      <4>. QED
        BY <2>4, <2>5, <4>1, FilesInOrder
    <3>. QED
      BY <2>7, <3>1, <3>3, <3>4 DEF MigrationFiles
  <2>11. MigrationLives'
    BY <1>1, <2>7 DEF MigrationInv, MigrationLives, SameControl, SameHistory,
                      Migration!UsedWasActive, Places, Migration!At
  <2>12. MigrationSpent'
    BY <1>1, <1>2, <2>7 DEF MigrationInv, MigrationSpent, SameHistory
  <2>13. MigrationSeen' /\ MigrationShown'
    BY <1>1, <1>2 DEF MigrationSeen, MigrationShown, SameControl
  <2>. QED
    BY <2>6, <2>8, <2>9, <2>10, <2>11, <2>12, <2>13 DEF MigrationInv
<1>. QED
  BY <1>3, <1>4

\* A step that puts a record in place and leaves the backup alone: what follows
\* for the groups that do not depend on who did it.
LEMMA PutMoves ==
  ASSUME MigrationInv, NEW c \in Migration!Candidates, NEW slot \in Migration!SlotsOf(c),
         NEW value \in Migration!Wordings \cup {None}, Migration!Put(c, slot, value),
         UNCHANGED <<manifest, staged, replaced, resolutions>>
  PROVE  /\ MigrationFiles' /\ Removing' = Removing /\ (Cut' <=> Cut)
         /\ Migration!Resolved' = Migration!Resolved
         /\ \A d : (Settled(d)' <=> Settled(d)) /\ (Migration!Staged(d)' <=> Migration!Staged(d))
         /\ \A d \in Migration!Candidates :
              home'[d] = "candidate" =>
                home[d] = "candidate" \/ (d = c /\ slot = "home" /\ value = "candidate")
<1>1. /\ Removing' = Removing /\ (Cut' <=> Cut) /\ Migration!Resolved' = Migration!Resolved
      /\ \A d : (Settled(d)' <=> Settled(d)) /\ (Migration!Staged(d)' <=> Migration!Staged(d))
  BY DEF Removing, Cut, Migration!Resolved, Migration!Unresolved, Settled, Migration!Staged
<1>2. MigrationFiles'
  BY <1>1 DEF MigrationInv, MigrationFiles, Migration!BackupStands
<1>3. \A d \in Migration!Candidates :
        home'[d] = "candidate" =>
          home[d] = "candidate" \/ (d = c /\ slot = "home" /\ value = "candidate")
  BY DEF Migration!Put, MigrationInv, MigrationTypes, Migration!TypeOK
<1>. QED
  BY <1>1, <1>2, <1>3

LEMMA ActivateStep ==
  ASSUME MigrationInv, Migration!Activate
  PROVE  MigrationInv'
<1>1. /\ UNCHANGED <<manifest, staged, rival, replaced, resolutions, session, wrote, told, step,
                     subject, offered, unfinished, unrecorded, spent, lapsed, kept>>
      /\ pc = "activating" /\ pc' \in {"activating", "inspecting"} /\ step = "idle"
      /\ todo # {} /\ todo' \subseteq todo /\ session # "closed"
  BY DEF Migration!Activate, Migration!Stops, MigrationInv, MigrationStages
<1>2. CASE UNCHANGED <<home, unseen, lived>>
  <2>1. SameRecords /\ SameControl /\ SameHistory
    BY <1>1, <1>2 DEF SameRecords, SameControl, SameHistory
  <2>2. MigrationTypes'
    BY <1>1, <1>2, <2>1, UpgradeTypes DEF MigrationInv, MigrationTypes, Migration!TypeOK
  <2>3. MigrationStages'
    BY <1>1, <2>1, UpgradeStages DEF MigrationInv, MigrationStages
  <2>. QED
    BY <1>1, <2>1, <2>2, <2>3, UpgradeMoves, ManifestStands
<1>3. ASSUME ~ UNCHANGED <<home, unseen, lived>>
      PROVE  MigrationInv'
  <2>1. PICK c \in todo, left \in {None, "partial", "candidate"} :
          /\ home[c] = None /\ home' = [home EXCEPT ![c] = left]
          /\ unseen' = unseen \cup {c}
          /\ lived \subseteq lived' /\ lived' \subseteq lived \cup {c}
          /\ left = "candidate" => c \in lived'
    <3>1. todo \subseteq { Migration!CandidateOrder[i] : i \in DOMAIN Migration!CandidateOrder }
      BY DEF MigrationInv, MigrationTypes, Migration!Candidates
    <3>2. Migration!First(Migration!CandidateOrder, todo) \in todo
      BY <1>1, <3>1, FilesInOrder, FirstIsOne
    <3>3. home \in [Migration!Candidates -> Migration!Wordings \cup {None}]
          /\ todo \subseteq Migration!Candidates
      BY DEF MigrationInv, MigrationTypes, Migration!TypeOK
    <3>. DEFINE next == Migration!First(Migration!CandidateOrder, todo)
    <3>4. /\ home[next] = None /\ unseen' = unseen \cup {next}
          /\ \/ home' = [home EXCEPT ![next] = "candidate"] /\ lived' = lived \cup {next}
             \/ \E left \in {None, "partial", "candidate"} :
                  /\ home' = [home EXCEPT ![next] = left]
                  /\ lived' = lived \cup (IF home'[next] = "candidate" THEN {next} ELSE {})
      BY <1>3 DEF Migration!Activate
    <3>. HIDE DEF next
    <3>5. next \in todo
      BY <3>2 DEF next
    <3>. QED
      BY <3>3, <3>4, <3>5
  <2>2. /\ c \in Migration!Candidates /\ "home" \in Migration!SlotsOf(c)
        /\ left \in Migration!Wordings \cup {None} /\ Migration!Put(c, "home", left)
        /\ Migration!At(c, "home") = None
    BY <1>1, <2>1, PlacesOf DEF MigrationInv, MigrationTypes, Migration!Put, Migration!Wordings
  <2>3. MigrationTypes'
    BY <1>1, <2>1, <2>2, PutIs DEF MigrationInv, MigrationTypes, Migration!TypeOK
  <2>4. /\ MigrationFiles' /\ Removing' = Removing /\ (Cut' <=> Cut)
        /\ Migration!Resolved' = Migration!Resolved
        /\ \A d : (Settled(d)' <=> Settled(d)) /\ (Migration!Staged(d)' <=> Migration!Staged(d))
        /\ \A d \in Migration!Candidates :
             home'[d] = "candidate" => home[d] = "candidate" \/ d = c
    BY <1>1, <2>2, PutMoves
  <2>5. MigrationStages'
    <3>1. /\ \A f \in Migration!Files : Migration!Staged(f)'
          /\ ~ Removing' /\ \A d \in todo' : ~ Settled(d)'
      BY <1>1, <2>4 DEF MigrationInv, MigrationStages
    <3>. QED
      BY <1>1, <2>4, <3>1 DEF MigrationInv, MigrationStages
  <2>6. MigrationCopies'
    <3>1. \A d \in Migration!Candidates :
            Migration!Held(d) \subseteq Migration!Held(d)' \cup {None} /\ None \notin kept[d]
      BY <1>1, <2>2, PutHolds, MigrationAssumption DEF MigrationInv, MigrationTypes
    <3>2. Migration!WordsSurvive'
      BY <1>1, <3>1 DEF MigrationInv, MigrationCopies, Migration!WordsSurvive
    <3>. QED
      BY <1>1, <3>2 DEF MigrationCopies
  <2>7. MigrationLives'
    <3>1. \A d \in Migration!Candidates : "candidate" \in Places(d)' => d \in lived'
      BY <1>1, <2>1, <2>2, PutHolds DEF MigrationInv, MigrationLives
    <3>. QED
      BY <1>1, <2>1, <2>4, <3>1 DEF MigrationInv, MigrationLives, Migration!UsedWasActive
  <2>8. MigrationSpent' /\ MigrationShown'
    BY <1>1, <2>4 DEF MigrationInv, MigrationSpent, MigrationShown
  <2>9. MigrationSeen'
    BY <1>1, <2>1, <2>4 DEF MigrationInv, MigrationSeen, InHand
  <2>. QED
    BY <2>3, <2>4, <2>5, <2>6, <2>7, <2>8, <2>9 DEF MigrationInv
<1>. QED
  BY <1>2, <1>3

-----------------------------------------------------------------------------
(* The window settles candidates *)

\* A write of the resolutions, done or failed: what follows for the groups that
\* do not depend on who asked for it.
LEMMA SettleMoves ==
  ASSUME MigrationInv, NEW cs, NEW outcome \in {"used", "discarded"},
         resolutions' \in {resolutions, Migration!With(cs, outcome)},
         outcome = "used" => cs \subseteq lived,
         UNCHANGED <<manifest, staged, home, rival, replaced, lived, kept>>
  PROVE  /\ resolutions' \in Records \cup {None} /\ MigrationFiles'
         /\ Migration!WordsSurvive' /\ Migration!UsedWasActive'
         /\ Removing' = Removing /\ (Cut' <=> Cut)
         /\ \A c \in Migration!Candidates : Settled(c) => Settled(c)'
         /\ \A c : (Migration!Staged(c)' <=> Migration!Staged(c)) /\ Places(c)' = Places(c)
         /\ resolutions' = Migration!With(cs, outcome) =>
              \A c \in Migration!Candidates \cap cs : Settled(c)'
<1>1. resolutions \in Records \cup {None}
  BY DEF MigrationInv, MigrationTypes
<1>2. /\ resolutions' \in Records \cup {None} /\ Removing' = Removing
      /\ \A c \in Migration!Candidates :
           /\ Settled(c) => Settled(c)'
           /\ Migration!Resolved'.settled[c] # Migration!Resolved.settled[c] =>
                c \in cs /\ Migration!Resolved'.settled[c] = outcome
      /\ resolutions' = Migration!With(cs, outcome) =>
           \A c \in Migration!Candidates \cap cs : Settled(c)'
  BY <1>1, SettlesIs
<1>3. MigrationFiles'
  BY <1>2 DEF MigrationInv, MigrationFiles, Migration!BackupStands, Migration!Staged, Removing
<1>4. (Cut' <=> Cut) /\ \A c : (Migration!Staged(c)' <=> Migration!Staged(c))
                                 /\ Places(c)' = Places(c)
  BY DEF Cut, Migration!Staged, Places, Migration!At
<1>5. Migration!WordsSurvive'
  BY DEF MigrationInv, MigrationCopies, Migration!WordsSurvive, Migration!Held, Migration!At
<1>6. Migration!UsedWasActive'
  BY <1>2 DEF MigrationInv, MigrationLives, Migration!UsedWasActive
<1>. QED
  BY <1>2, <1>3, <1>4, <1>5, <1>6

\* What is staged, if nothing is removed or cut short, can be recovered.
LEMMA StagedIsRecoverable ==
  ASSUME MigrationInv, ~ Removing, ~ Cut, NEW c \in Migration!Candidates, Migration!Staged(c)
  PROVE  Migration!Recoverable
<1>1. staged[c] # "absent" /\ c \in Migration!Files /\ c # "source"
  BY FilesInOrder DEF Migration!Staged
<1>2. staged["source"] # "absent" /\ staged["journal"] # "absent"
  BY <1>1 DEF MigrationInv, MigrationFiles
<1>. QED
  BY <1>2, FilesInOrder DEF Migration!Recoverable, Migration!Staged, Removing, Cut, MigrationInv,
                            MigrationTypes, Migration!TypeOK

LEMMA LoadStep ==
  ASSUME MigrationInv, Migration!Load
  PROVE  MigrationInv'
<1>1. /\ UNCHANGED <<manifest, staged, home, rival, replaced, session, pc, todo, wrote, told,
                     subject, lived, spent, kept>>
      /\ step = "loading" /\ step' = "idle" /\ unseen' = {}
      /\ offered' = { <<c, Migration!StateOf(c)>> :
                        c \in IF unfinished' THEN Migration!Waiting \ Migration!Absent
                              ELSE Migration!Waiting }
  BY DEF Migration!Load, Migration!upgrade
<1>2. \/ Migration!Restored = {} /\ UNCHANGED <<resolutions, unrecorded, lapsed>>
      \/ /\ Migration!Restored # {} /\ resolutions' = Migration!With(Migration!Restored, "used")
         /\ UNCHANGED <<unrecorded, lapsed>>
      \/ /\ Migration!Restored # {}
         /\ resolutions' \in {resolutions, Migration!With(Migration!Restored, "used")}
         /\ unrecorded' = Migration!Restored /\ lapsed' = lapsed \cup Migration!Restored
  BY DEF Migration!Load, Migration!Settles
<1>3. /\ Migration!Restored \subseteq Migration!Candidates
      /\ \A c \in Migration!Restored : home[c] = "candidate"
      /\ Removing => Migration!Restored = {}
  BY FilesInOrder DEF Migration!Restored, Migration!Unsettled, Migration!Disposition,
                      Migration!Recoverable, Removing
<1>4. Migration!Restored \subseteq lived
  <2>. SUFFICES ASSUME NEW c \in Migration!Restored  PROVE c \in lived
    OBVIOUS
  <2>1. "candidate" \in Places(c)
    BY <1>3, PlacesOf DEF Places
  <2>. QED
    BY <1>3, <2>1 DEF MigrationInv, MigrationLives
<1>5. /\ resolutions' \in Records \cup {None} /\ MigrationFiles'
      /\ Migration!WordsSurvive' /\ Migration!UsedWasActive'
      /\ Removing' = Removing /\ (Cut' <=> Cut)
      /\ \A c \in Migration!Candidates : Settled(c) => Settled(c)'
      /\ \A c : (Migration!Staged(c)' <=> Migration!Staged(c)) /\ Places(c)' = Places(c)
      /\ resolutions' = Migration!With(Migration!Restored, "used") =>
           \A c \in Migration!Candidates \cap Migration!Restored : Settled(c)'
  <2>1. resolutions' \in {resolutions, Migration!With(Migration!Restored, "used")}
    BY <1>2
  <2>. QED
    BY <1>1, <1>4, <2>1, SettleMoves
<1>6. \A c \in Migration!Restored : Settled(c)' \/ (c \in unrecorded' /\ c \in lapsed')
  BY <1>2, <1>3, <1>5
<1>7. /\ lapsed \subseteq lapsed' /\ lapsed' \subseteq Migration!Candidates
      /\ unrecorded' \subseteq Migration!Candidates /\ unrecorded' \subseteq lived
      /\ Removing => unrecorded' = {}
  BY <1>2, <1>3, <1>4 DEF MigrationInv, MigrationTypes, MigrationStages, MigrationLives
<1>8. MigrationTypes'
  BY <1>1, <1>5, <1>7 DEF MigrationInv, MigrationTypes, Migration!TypeOK, Using
<1>9. MigrationStages'
  BY <1>1, <1>5, <1>7 DEF MigrationInv, MigrationStages
<1>10. MigrationCopies'
  BY <1>1, <1>5 DEF MigrationCopies
<1>11. MigrationLives'
  BY <1>1, <1>5, <1>7 DEF MigrationInv, MigrationLives
<1>12. MigrationSpent'
  BY <1>1, <1>5, <1>7 DEF MigrationInv, MigrationTypes, MigrationSpent
<1>13. \A c \in Migration!Candidates :
         Migration!Staged(c) /\ ~ Cut /\ ~ Removing =>
           Settled(c) \/ (c \in Migration!Restored /\ home[c] = "candidate")
             \/ (c \in Migration!Waiting /\ home[c] # "candidate")
  <2>. SUFFICES ASSUME NEW c \in Migration!Candidates, Migration!Staged(c), ~ Cut, ~ Removing,
                       ~ Settled(c)
                PROVE  IF home[c] = "candidate" THEN c \in Migration!Restored
                                                ELSE c \in Migration!Waiting
    OBVIOUS
  <2>1. Migration!Disposition(c) = "present" <=> home[c] = "candidate"
    BY DEF Migration!Disposition
  <2>2. Migration!Recoverable /\ c \in Migration!Unsettled
    BY StagedIsRecoverable DEF Migration!Unsettled, Settled
  <2>. QED
    BY <2>1, <2>2 DEF Migration!Restored, Migration!Waiting
<1>14. MigrationSeen'
  BY <1>1, <1>5, <1>6, <1>13 DEF MigrationSeen
<1>15. MigrationShown'
  <2>. SUFFICES ASSUME ~ unfinished', ~ Cut, ~ Removing, NEW c \in Migration!Candidates,
                       Migration!Staged(c), ~ Settled(c)', c \notin unrecorded'
                PROVE  \E item \in offered' : item[1] = c
    BY <1>5 DEF MigrationShown
  <2>1. c \in Migration!Waiting
    BY <1>5, <1>6, <1>13
  <2>2. <<c, Migration!StateOf(c)>> \in offered'
    BY <1>1, <2>1
  <2>. QED
    BY <2>2
<1>. QED
  BY <1>5, <1>8, <1>9, <1>10, <1>11, <1>12, <1>14, <1>15 DEF MigrationInv

LEMMA RetryRecordStep ==
  ASSUME MigrationInv, Migration!RetryRecord
  PROVE  MigrationInv'
<1>1. /\ UNCHANGED <<manifest, staged, home, rival, replaced, session, pc, todo, wrote, told,
                     step, subject, offered, unfinished, unseen, lived, spent, lapsed, kept>>
      /\ step = "idle" /\ pc = "idle" /\ unrecorded # {}
      /\ resolutions' \in {resolutions, Migration!With(unrecorded, "used")}
      /\ \/ resolutions' = Migration!With(unrecorded, "used") /\ unrecorded' = {}
         \/ unrecorded' = unrecorded
  BY DEF Migration!RetryRecord, Migration!Settling, Migration!AtWork, Migration!Settles,
         Migration!upgrade, Migration!history
<1>2. unrecorded \subseteq lived /\ unrecorded \subseteq Migration!Candidates
  BY DEF MigrationInv, MigrationLives, MigrationTypes
<1>3. /\ resolutions' \in Records \cup {None} /\ MigrationFiles'
      /\ Migration!WordsSurvive' /\ Migration!UsedWasActive'
      /\ Removing' = Removing /\ (Cut' <=> Cut)
      /\ \A c \in Migration!Candidates : Settled(c) => Settled(c)'
      /\ \A c : (Migration!Staged(c)' <=> Migration!Staged(c)) /\ Places(c)' = Places(c)
      /\ resolutions' = Migration!With(unrecorded, "used") =>
           \A c \in Migration!Candidates \cap unrecorded : Settled(c)'
  BY <1>1, <1>2, SettleMoves
<1>4. MigrationTypes'
  BY <1>1, <1>2, <1>3 DEF MigrationInv, MigrationTypes, Migration!TypeOK, Using
<1>5. MigrationStages'
  BY <1>1, <1>3 DEF MigrationInv, MigrationStages
<1>6. MigrationCopies'
  BY <1>1, <1>3 DEF MigrationCopies
<1>7. MigrationLives'
  BY <1>1, <1>2, <1>3 DEF MigrationInv, MigrationLives
<1>8. MigrationSpent' /\ MigrationSeen'
  BY <1>1, <1>3 DEF MigrationInv, MigrationTypes, MigrationSpent, MigrationSeen, InHand
<1>9. MigrationShown'
  BY <1>1, <1>2, <1>3 DEF MigrationInv, MigrationShown
<1>. QED
  BY <1>3, <1>4, <1>5, <1>6, <1>7, <1>8, <1>9 DEF MigrationInv

\* What a use settles is settled, or has lapsed.
LEMMA SettleUsedStep ==
  ASSUME MigrationInv, Migration!SettleUsed
  PROVE  MigrationInv'
<1>1. /\ UNCHANGED <<manifest, staged, home, rival, replaced, session, pc, todo, wrote, told,
                     unfinished, unrecorded, unseen, lived, spent, kept>>
      /\ step = "settling" /\ step' = "idle"
  BY DEF Migration!SettleUsed, Migration!upgrade
<1>2. PICK c \in Migration!Candidates : c = subject.id /\ c \in lived
  BY <1>1 DEF MigrationInv, MigrationTypes, MigrationLives, Using, Subjects
<1>3. /\ resolutions' \in {resolutions, Migration!With({c}, "used")}
      /\ lapsed' \in {lapsed, lapsed \cup {c}}
      /\ \/ Settled(c) /\ resolutions' = resolutions /\ offered' = offered
         \/ /\ resolutions' = Migration!With({c}, "used")
            /\ offered' = { item \in offered : item[1] # c }
         \/ offered' = offered /\ c \in lapsed'
  BY <1>2 DEF Migration!SettleUsed, Migration!Settles, Settled, Migration!Without
<1>4. /\ resolutions' \in Records \cup {None} /\ MigrationFiles'
      /\ Migration!WordsSurvive' /\ Migration!UsedWasActive'
      /\ Removing' = Removing /\ (Cut' <=> Cut)
      /\ \A d \in Migration!Candidates : Settled(d) => Settled(d)'
      /\ \A d : (Migration!Staged(d)' <=> Migration!Staged(d)) /\ Places(d)' = Places(d)
      /\ resolutions' = Migration!With({c}, "used") =>
           \A d \in Migration!Candidates \cap {c} : Settled(d)'
  BY <1>1, <1>2, <1>3, SettleMoves
<1>5. Settled(c)' \/ c \in lapsed'
  BY <1>3, <1>4
<1>6. \A d \in Migration!Candidates :
        (\E item \in offered : item[1] = d) => Settled(d)' \/ \E item \in offered' : item[1] = d
  BY <1>3, <1>4
<1>7. lapsed \subseteq lapsed' /\ lapsed' \subseteq Migration!Candidates
  BY <1>3 DEF MigrationInv, MigrationTypes
<1>8. MigrationTypes'
  BY <1>1, <1>4, <1>7 DEF MigrationInv, MigrationTypes, Migration!TypeOK, Using
<1>9. MigrationStages'
  BY <1>1, <1>4 DEF MigrationInv, MigrationStages
<1>10. MigrationCopies'
  BY <1>1, <1>4 DEF MigrationCopies
<1>11. MigrationLives'
  BY <1>1, <1>4 DEF MigrationInv, MigrationLives
<1>12. MigrationSpent'
  BY <1>1, <1>4, <1>7 DEF MigrationInv, MigrationTypes, MigrationSpent
<1>13. MigrationSeen'
  BY <1>1, <1>2, <1>4, <1>5, <1>7 DEF MigrationInv, MigrationSeen, InHand
<1>14. MigrationShown'
  BY <1>1, <1>4, <1>6 DEF MigrationInv, MigrationShown
<1>. QED
  BY <1>4, <1>8, <1>9, <1>10, <1>11, <1>12, <1>13, <1>14 DEF MigrationInv

LEMMA RefuseStep ==
  ASSUME MigrationInv, NEW c \in Migration!Candidates, Migration!Refuse(c)
  PROVE  MigrationInv'
<1>1. /\ UNCHANGED <<manifest, staged, home, rival, replaced, session, pc, todo, wrote, told,
                     step, subject, unfinished, unrecorded, unseen, lived, kept>>
      /\ step = "idle" /\ pc = "idle" /\ spent' = spent \cup {c}
  BY DEF Migration!Refuse, Migration!Settling, Migration!AtWork, Migration!upgrade
<1>2. /\ resolutions' \in {resolutions, Migration!With({c}, "discarded")}
      /\ lapsed' \in {lapsed, lapsed \cup {c}}
      /\ \/ /\ resolutions' = Migration!With({c}, "discarded")
            /\ offered' = { item \in offered : item[1] # c }
         \/ offered' = offered /\ c \in lapsed'
  BY DEF Migration!Refuse, Migration!Settles, Migration!Without
<1>3. /\ resolutions' \in Records \cup {None} /\ MigrationFiles'
      /\ Migration!WordsSurvive' /\ Migration!UsedWasActive'
      /\ Removing' = Removing /\ (Cut' <=> Cut)
      /\ \A d \in Migration!Candidates : Settled(d) => Settled(d)'
      /\ \A d : (Migration!Staged(d)' <=> Migration!Staged(d)) /\ Places(d)' = Places(d)
      /\ resolutions' = Migration!With({c}, "discarded") =>
           \A d \in Migration!Candidates \cap {c} : Settled(d)'
  BY <1>1, <1>2, SettleMoves
<1>4. Settled(c)' \/ c \in lapsed'
  BY <1>2, <1>3
<1>5. \A d \in Migration!Candidates :
        (\E item \in offered : item[1] = d) => Settled(d)' \/ \E item \in offered' : item[1] = d
  BY <1>2, <1>3
<1>6. lapsed \subseteq lapsed' /\ lapsed' \subseteq Migration!Candidates
  BY <1>2 DEF MigrationInv, MigrationTypes
<1>7. MigrationTypes'
  BY <1>1, <1>3, <1>6 DEF MigrationInv, MigrationTypes, Migration!TypeOK, Using
<1>8. MigrationStages'
  BY <1>1, <1>3 DEF MigrationInv, MigrationStages
<1>9. MigrationCopies'
  BY <1>1, <1>3 DEF MigrationCopies
<1>10. MigrationLives'
  BY <1>1, <1>3 DEF MigrationInv, MigrationLives
<1>11. MigrationSpent'
  BY <1>1, <1>3, <1>4, <1>6 DEF MigrationInv, MigrationTypes, MigrationSpent
<1>12. MigrationSeen'
  BY <1>1, <1>3, <1>6 DEF MigrationInv, MigrationSeen, InHand
<1>13. MigrationShown'
  BY <1>1, <1>3, <1>5 DEF MigrationInv, MigrationShown
<1>. QED
  BY <1>3, <1>7, <1>8, <1>9, <1>10, <1>11, <1>12, <1>13 DEF MigrationInv

-----------------------------------------------------------------------------
(* A candidate is used *)

\* A step of a use goes on to another, or ends it and says so.
UseEnds == /\ step' = "idle" /\ unseen' = unseen \cup {subject.id}
           /\ lapsed' = lapsed \cup {subject.id}
UseGoes == UNCHANGED <<subject, unseen, lapsed>>

LEMMA UseMoves ==
  ASSUME MigrationInv, step \in Using, UseEnds \/ (step' \in Using /\ UseGoes),
         UNCHANGED <<manifest, staged, resolutions, session, pc, todo, wrote, told, offered,
                     unfinished, unrecorded, spent, kept>>,
         step \in {"dropping", "settling"} /\ step' # "idle" => step' \in {"dropping", "settling"},
         \A d \in Migration!Candidates :
           home'[d] = "candidate" /\ home[d] # "candidate" =>
             d = subject.id /\ step' \in {"dropping", "settling", "idle"}
  PROVE  /\ subject \in Subjects
         /\ lapsed' \subseteq Migration!Candidates /\ unseen' \subseteq Migration!Candidates
         /\ Removing' = Removing /\ Migration!Resolved' = Migration!Resolved
         /\ MigrationStages' /\ MigrationFiles' /\ MigrationSpent' /\ MigrationSeen'
         /\ MigrationShown'
<1>1. /\ Removing' = Removing /\ (Cut' <=> Cut) /\ Migration!Resolved' = Migration!Resolved
      /\ \A d : (Settled(d)' <=> Settled(d)) /\ (Migration!Staged(d)' <=> Migration!Staged(d))
  BY DEF Removing, Cut, Migration!Resolved, Migration!Unresolved, Settled, Migration!Staged
<1>2. subject \in Subjects /\ session = "shared" /\ pc = "idle"
  BY DEF MigrationInv, MigrationTypes, MigrationStages, Using
<1>3. /\ lapsed \subseteq lapsed' /\ lapsed' \subseteq Migration!Candidates
      /\ unseen \subseteq unseen' /\ unseen' \subseteq Migration!Candidates
  BY <1>2 DEF UseEnds, UseGoes, Subjects, MigrationInv, MigrationTypes
<1>4. MigrationStages'
  BY <1>1, <1>2 DEF UseEnds, Using, MigrationInv, MigrationStages
<1>5. MigrationFiles'
  BY <1>1 DEF MigrationInv, MigrationFiles, Migration!BackupStands
<1>6. MigrationSpent'
  BY <1>1, <1>3 DEF MigrationInv, MigrationTypes, MigrationSpent
<1>7. MigrationSeen'
  <2>. SUFFICES ASSUME NEW d \in Migration!Candidates, home'[d] = "candidate", d \notin unseen',
                       Migration!Staged(d), ~ InHand(d)'
                PROVE  Settled(d) \/ d \in lapsed' \/ Cut \/ Removing
    BY <1>1 DEF MigrationSeen
  <2>1. CASE UseEnds
    <3>1. d # subject.id
      BY <2>1 DEF UseEnds
    <3>. QED
      BY <1>2, <1>3, <3>1 DEF MigrationInv, MigrationSeen, InHand, Using
  <2>2. CASE step' \in Using /\ UseGoes
    <3>1. /\ step' \in {"dropping", "settling"} => d # subject.id
          /\ step' # "idle"
      BY <2>2 DEF InHand, Using, UseGoes
    <3>2. home[d] = "candidate" /\ ~ InHand(d)
      BY <3>1 DEF InHand
    <3>. QED
      BY <1>2, <1>3, <3>2 DEF MigrationInv, MigrationSeen, Using
  <2>. QED
    BY <2>1, <2>2
<1>8. MigrationShown'
  BY <1>1, <1>2 DEF MigrationInv, MigrationShown, Using
<1>. QED
  BY <1>1, <1>2, <1>3, <1>4, <1>5, <1>6, <1>7, <1>8

LEMMA BeginUseStep ==
  ASSUME MigrationInv, NEW c \in Migration!Candidates, Migration!BeginUse(c)
  PROVE  MigrationInv'
<1>1. /\ SameRecords /\ SameHistory
      /\ UNCHANGED <<manifest, session, pc, todo, wrote, told, offered, unfinished, unrecorded,
                     unseen>>
      /\ session = "shared" /\ step = "idle" /\ pc = "idle"
      /\ \/ step' = "incoming" /\ subject' = Migration!Use(c, None)
         \/ /\ step' = "copying" /\ c # Migration!Selections
            /\ \E slot \in Migration!Slots :
                 /\ slot \in Migration!ActiveSlots(c) /\ replaced[c][slot] = None
                 /\ subject' = Migration!Use(c, slot)
  BY DEF Migration!BeginUse, Migration!Settling, Migration!AtWork, Migration!folder,
         Migration!upgrade, Migration!history, SameRecords, SameHistory
<1>2. /\ subject' \in Subjects /\ subject'.id = c /\ subject'.new # subject'.old
      /\ step' = "incoming" => subject'.old = None /\ subject'.new = "home"
      /\ step' = "copying" => /\ subject'.old \in Migration!ActiveSlots(c) /\ c # Migration!Selections
                              /\ replaced[c][subject'.old] = None /\ subject'.old # None
  BY <1>1, MigrationAssumption DEF Migration!Use, Subjects, Migration!Slots
<1>3. step' \in {"incoming", "copying"}
  BY <1>1
<1>4. MigrationTypes'
  BY <1>1, <1>2, <1>3 DEF MigrationInv, MigrationTypes, Migration!TypeOK, SameRecords,
                          SameHistory, Using
<1>5. MigrationStages'
  BY <1>1, <1>3, SameMeanings DEF MigrationInv, MigrationStages
<1>6. MigrationCopies'
  <2>1. step' = "copying" => Migration!At(c, subject'.old) # None
    BY <1>2 DEF Migration!ActiveSlots
  <2>2. Migration!WordsSurvive'
    BY <1>1, SameMeanings DEF MigrationInv, MigrationCopies, Migration!WordsSurvive, SameHistory
  <2>. QED
    BY <1>1, <1>2, <1>3, <2>1, <2>2, SameMeanings DEF MigrationCopies, SameRecords
<1>7. MigrationFiles'
  BY <1>1, SameMeanings, ManifestStands DEF MigrationInv, MigrationFiles, SameRecords
<1>8. MigrationLives'
  BY <1>1, <1>3, SameMeanings DEF MigrationInv, MigrationLives, SameHistory,
                                  Migration!UsedWasActive
<1>9. MigrationSpent'
  BY <1>1, SameMeanings DEF MigrationInv, MigrationSpent, SameHistory
<1>10. MigrationSeen' /\ MigrationShown'
  BY <1>1, <1>3, SameMeanings DEF MigrationInv, MigrationSeen, MigrationShown, SameRecords,
                                  SameHistory, InHand
<1>. QED
  BY <1>4, <1>5, <1>6, <1>7, <1>8, <1>9, <1>10 DEF MigrationInv

LEMMA CopyReplacedStep ==
  ASSUME MigrationInv, Migration!CopyReplaced
  PROVE  MigrationInv'
<1>. DEFINE id == subject.id
            old == subject.old
            copied == [replaced EXCEPT ![id][old] = Migration!At(id, old)]
<1>1. /\ UNCHANGED <<manifest, staged, home, rival, resolutions, session, pc, todo, wrote, told,
                     offered, unfinished, unrecorded, lived, spent, kept>>
      /\ step = "copying"
      /\ \/ replaced' = copied /\ step' = "incoming" /\ UseGoes
         \/ replaced' \in {replaced, copied} /\ UseEnds
  BY DEF Migration!CopyReplaced, Migration!Goes, Migration!Stuck, Migration!Ends,
         Migration!upgrade, UseGoes, UseEnds
<1>2. /\ id \in Migration!DraftIds /\ id \in Migration!Candidates /\ old \in Migration!Slots
      /\ old \in Migration!SlotsOf(id) /\ subject \in Subjects
      /\ subject.new # subject.old
  <2>1. subject \in Subjects /\ old # None /\ id # Migration!Selections
        /\ subject.new # subject.old
    BY <1>1 DEF MigrationInv, MigrationTypes, Using
  <2>. QED
    BY <2>1, PlacesOf DEF Subjects
<1>3. Migration!At(id, old) # None /\ replaced[id][old] = None
  BY <1>1 DEF MigrationInv, MigrationCopies
<1>4. Migration!At(id, old) \in Migration!Wordings
  BY <1>2, <1>3 DEF Migration!At, MigrationInv, MigrationTypes, Migration!TypeOK
<1>. DEFINE Kind == [Migration!DraftIds -> [Migration!Slots -> Migration!Wordings \cup {None}]]
<1>5. /\ replaced \in Kind /\ copied \in Kind /\ copied[id][old] = Migration!At(id, old)
      /\ \A d \in Migration!DraftIds : \A slot \in Migration!Slots :
           copied[d][slot] \in {replaced[d][slot], Migration!At(id, old)}
             /\ (replaced[d][slot] # None => copied[d][slot] = replaced[d][slot])
  <2>1. replaced \in Kind
    BY DEF MigrationInv, MigrationTypes
  <2>. QED
    BY <1>2, <1>3, <1>4, <2>1
<1>6. /\ replaced' \in Kind
      /\ \A d \in Migration!DraftIds : \A slot \in Migration!Slots :
           replaced[d][slot] # None => replaced'[d][slot] = replaced[d][slot]
      /\ step' = "incoming" => replaced'[id][old] = Migration!At(id, old)
  BY <1>1, <1>5 DEF UseEnds
<1>. HIDE DEF copied
<1>7. step' \in {"incoming", "idle"} /\ (UseEnds \/ (step' \in Using /\ UseGoes))
      /\ (step' = "incoming" => UseGoes)
  BY <1>1 DEF UseEnds, Using
<1>8. /\ lapsed' \subseteq Migration!Candidates /\ unseen' \subseteq Migration!Candidates
      /\ Removing' = Removing /\ Migration!Resolved' = Migration!Resolved
      /\ MigrationStages' /\ MigrationFiles' /\ MigrationSpent' /\ MigrationSeen'
      /\ MigrationShown'
  <2>1. step \in Using
    BY <1>1 DEF Using
  <2>2. step \notin {"dropping", "settling"}
    BY <1>1
  <2>. QED
    BY <1>1, <1>7, <2>1, <2>2, UseMoves
<1>9. MigrationTypes'
  <2>1. step' \in Using => subject' = subject /\ step' = "incoming"
    BY <1>7 DEF UseGoes, Using
  <2>2. step' \in Using =>
          /\ subject \in Subjects /\ subject.new # subject.old
          /\ subject.id = Migration!Selections => subject.old = None /\ subject.new = "home"
    BY <1>1 DEF MigrationInv, MigrationTypes, Using
  <2>. QED
    BY <1>1, <1>6, <1>7, <1>8, <2>1, <2>2 DEF MigrationInv, MigrationTypes, Migration!TypeOK,
                                              Using
<1>10. MigrationCopies'
  <2>1. Migration!WordsSurvive'
    <3>1. \A d \in Migration!Candidates :
            Migration!Held(d) \subseteq Migration!Held(d)' \cup {None}
      <4>. SUFFICES ASSUME NEW d \in Migration!Candidates, NEW word \in Migration!Held(d),
                           word # None
                    PROVE  word \in Migration!Held(d)'
        OBVIOUS
      <4>1. \A slot : Migration!At(d, slot)' = Migration!At(d, slot)
        BY <1>1 DEF Migration!At
      <4>2. CASE \E slot \in Migration!SlotsOf(d) : word = Migration!At(d, slot)
        BY <4>1, <4>2 DEF Migration!Held
      <4>3. CASE d # Migration!Selections /\ \E slot \in Migration!Slots : word = replaced[d][slot]
        <5>1. d \in Migration!DraftIds
          BY <4>3 DEF Migration!DraftIds
        <5>2. \E slot \in Migration!Slots : word = replaced'[d][slot]
          BY <1>6, <4>3, <5>1
        <5>. QED
          BY <4>3, <5>2 DEF Migration!Held
      <4>. QED
        BY <4>2, <4>3 DEF Migration!Held
    <3>2. \A d \in Migration!Candidates : None \notin kept[d]
      BY MigrationAssumption DEF MigrationInv, MigrationTypes
    <3>. QED
      BY <1>1, <3>1, <3>2 DEF MigrationInv, MigrationCopies, Migration!WordsSurvive
  <2>2. step' = "incoming" =>
          /\ subject' = subject
          /\ Migration!At(id, old)' = Migration!At(id, old)
    BY <1>1, <1>7 DEF UseGoes, Migration!At
  <2>. QED
    BY <1>3, <1>6, <1>7, <2>1, <2>2 DEF MigrationCopies
<1>11. MigrationLives'
  BY <1>1, <1>7, <1>8 DEF MigrationInv, MigrationLives, Migration!UsedWasActive, Places,
                          Migration!At
<1>. QED
  BY <1>8, <1>9, <1>10, <1>11 DEF MigrationInv

\* The candidate is in place, and what it replaces still is.
LEMMA WriteIncomingStep ==
  ASSUME MigrationInv, Migration!WriteIncoming
  PROVE  MigrationInv'
<1>. DEFINE id == subject.id
            old == subject.old
            new == subject.new
<1>1. /\ UNCHANGED <<manifest, staged, replaced, resolutions, session, pc, todo, wrote, told,
                     offered, unfinished, unrecorded, spent, kept>>
      /\ step = "incoming"
      /\ \/ /\ Migration!At(id, new) = None /\ Migration!Put(id, new, "candidate")
            /\ lived' = lived \cup {id}
            /\ \/ /\ step' = (IF old = None THEN "settling" ELSE "dropping")
                  /\ UseGoes
               \/ UseEnds
         \/ UNCHANGED <<home, rival, lived>> /\ UseEnds
  BY DEF Migration!WriteIncoming, Migration!Goes, Migration!Stuck, Migration!Ends,
         Migration!upgrade, UseGoes, UseEnds
<1>2. /\ id \in Migration!Candidates /\ subject \in Subjects /\ new # old
      /\ id = Migration!Selections => old = None /\ new = "home"
      /\ new \in Migration!SlotsOf(id)
      /\ old # None => old \in Migration!SlotsOf(id)
  <2>1. /\ subject \in Subjects /\ new # old
        /\ id = Migration!Selections => old = None /\ new = "home"
    BY <1>1 DEF MigrationInv, MigrationTypes, Using
  <2>2. /\ id \in Migration!Candidates /\ new \in Migration!Slots
        /\ old # None => old \in Migration!Slots
    BY <2>1 DEF Subjects
  <2>. QED
    BY <2>1, <2>2, PlacesOf
<1>3. /\ step' \in {"settling", "dropping", "idle"} /\ step \in Using
      /\ step' # "idle" => UseGoes
      /\ step' = "dropping" => old # None
      /\ UseEnds \/ (step' \in Using /\ UseGoes)
  BY <1>1 DEF UseEnds, Using
<1>4. CASE UNCHANGED <<home, rival, lived>> /\ UseEnds
  <2>1. /\ lapsed' \subseteq Migration!Candidates /\ unseen' \subseteq Migration!Candidates
        /\ Removing' = Removing /\ Migration!Resolved' = Migration!Resolved
        /\ MigrationStages' /\ MigrationFiles' /\ MigrationSpent' /\ MigrationSeen'
        /\ MigrationShown'
    BY <1>1, <1>3, <1>4, UseMoves
  <2>2. SameRecords
    BY <1>1, <1>4 DEF SameRecords
  <2>3. step' = "idle"
    BY <1>4 DEF UseEnds
  <2>4. MigrationTypes'
    BY <1>1, <1>4, <2>1, <2>3 DEF MigrationInv, MigrationTypes, Migration!TypeOK, Using
  <2>5. MigrationCopies'
    BY <1>1, <2>2, <2>3, SameMeanings DEF MigrationInv, MigrationCopies, Migration!WordsSurvive
  <2>6. MigrationLives'
    BY <1>1, <1>4, <2>1, <2>2, <2>3, SameMeanings DEF MigrationInv, MigrationLives,
                                                      Migration!UsedWasActive
  <2>. QED
    BY <2>1, <2>4, <2>5, <2>6 DEF MigrationInv
<1>5. CASE /\ Migration!At(id, new) = None /\ Migration!Put(id, new, "candidate")
           /\ lived' = lived \cup {id}
  <2>1. "candidate" \in Migration!Wordings \cup {None}
    BY DEF Migration!Wordings
  <2>12. PICK d \in Migration!Candidates : d = id
    BY <1>2
  <2>2. PICK slot \in Migration!SlotsOf(d) : d = id /\ slot = new
    BY <1>2, <2>12
  <2>3. Migration!Put(d, slot, "candidate")
    BY <1>5, <2>2
  <2>4. \A e \in Migration!Candidates :
          home'[e] = "candidate" => home[e] = "candidate" \/ e = d
    BY <1>1, <2>1, <2>3, PutMoves
  <2>5. /\ lapsed' \subseteq Migration!Candidates /\ unseen' \subseteq Migration!Candidates
        /\ Removing' = Removing /\ Migration!Resolved' = Migration!Resolved
        /\ MigrationStages' /\ MigrationFiles' /\ MigrationSpent' /\ MigrationSeen'
        /\ MigrationShown'
    <3>1. step \notin {"dropping", "settling"}
      BY <1>1
    <3>2. \A e \in Migration!Candidates :
            home'[e] = "candidate" /\ home[e] # "candidate" =>
              e = subject.id /\ step' \in {"dropping", "settling", "idle"}
      BY <1>3, <2>2, <2>4
    <3>. QED
      BY <1>1, <1>3, <3>1, <3>2, UseMoves
  <2>6. /\ home' \in [Migration!Candidates -> Migration!Wordings \cup {None}]
        /\ rival' \in [Migration!DraftIds -> Migration!Wordings \cup {None}]
        /\ \A e \in Migration!Candidates : \A where \in Migration!SlotsOf(e) :
             e # d \/ where # slot => Migration!At(e, where)' = Migration!At(e, where)
    BY <2>1, <2>3, PutIs DEF MigrationInv
  <2>7. \A e \in Migration!Candidates :
          /\ Places(e)' \subseteq Places(e) \cup {"candidate"}
          /\ e # d => Places(e)' = Places(e)
          /\ Migration!Held(e) \subseteq Migration!Held(e)' \cup {None}
    BY <1>1, <1>5, <2>1, <2>2, <2>3, PutHolds DEF MigrationInv
  <2>8. step' # "idle" => subject' = subject
    BY <1>3 DEF UseGoes
  <2>9. MigrationTypes'
    <3>1. lived' \subseteq Migration!Candidates
      BY <1>2, <1>5 DEF MigrationInv, MigrationTypes
    <3>. QED
      BY <1>1, <1>2, <1>3, <2>5, <2>6, <2>8, <3>1 DEF MigrationInv, MigrationTypes,
                                                      Migration!TypeOK, Using
  <2>10. MigrationCopies'
    <3>1. Migration!WordsSurvive'
      <4>1. \A e \in Migration!Candidates : None \notin kept[e]
        BY MigrationAssumption DEF MigrationInv, MigrationTypes
      <4>. QED
        BY <1>1, <2>7, <4>1 DEF MigrationInv, MigrationCopies, Migration!WordsSurvive
    <3>2. ASSUME step' = "dropping", old # None
          PROVE  /\ Migration!At(subject.id, subject.old)' # None
                 /\ replaced'[subject'.id][subject'.old]
                      = Migration!At(subject.id, subject.old)'
      <4>1. Migration!At(id, old) # None /\ replaced[id][old] = Migration!At(id, old)
        BY <1>1, <3>2 DEF MigrationInv, MigrationCopies
      <4>2. Migration!At(subject.id, subject.old)' = Migration!At(id, old)
        BY <1>2, <2>2, <2>6, <2>8, <3>2
      <4>. QED
        BY <1>1, <2>8, <3>2, <4>1, <4>2
    <3>. QED
      BY <1>3, <2>8, <3>1, <3>2 DEF MigrationCopies
  <2>11. MigrationLives'
    <3>1. \A e \in Migration!Candidates : "candidate" \in Places(e)' => e \in lived'
      BY <1>5, <2>2, <2>7 DEF MigrationInv, MigrationLives
    <3>2. lived \subseteq lived' /\ (step' # "idle" => subject'.id \in lived')
      BY <1>5, <2>8
    <3>. QED
      BY <1>1, <2>5, <3>1, <3>2 DEF MigrationInv, MigrationLives, Migration!UsedWasActive
  <2>. QED
    BY <2>5, <2>9, <2>10, <2>11 DEF MigrationInv
<1>. QED
  BY <1>1, <1>4, <1>5

\* The draft that is replaced goes; the folder holds its copy.
LEMMA DropReplacedStep ==
  ASSUME MigrationInv, Migration!DropReplaced
  PROVE  MigrationInv'
<1>1. /\ UNCHANGED <<manifest, staged, replaced, resolutions, session, pc, todo, wrote, told,
                     offered, unfinished, unrecorded, lived, spent, kept>>
      /\ step = "dropping" /\ (UseEnds \/ (step' = "settling" /\ UseGoes))
      /\ \/ Migration!Put(subject.id, subject.old, None)
         \/ UNCHANGED <<home, rival>> /\ UseEnds
  BY DEF Migration!DropReplaced, Migration!Goes, Migration!Stuck, Migration!Ends,
         Migration!upgrade, UseGoes, UseEnds
<1>2. /\ subject \in Subjects /\ subject.old \in Migration!Slots
      /\ subject.id \in Migration!Candidates /\ subject.id # Migration!Selections
      /\ subject.old \in Migration!SlotsOf(subject.id) /\ subject.new # subject.old
      /\ replaced[subject.id][subject.old] = Migration!At(subject.id, subject.old)
  <2>1. /\ subject \in Subjects /\ subject.old # None /\ subject.id # Migration!Selections
        /\ subject.new # subject.old
        /\ replaced[subject.id][subject.old] = Migration!At(subject.id, subject.old)
    BY <1>1 DEF MigrationInv, MigrationTypes, MigrationCopies, Using
  <2>. QED
    BY <2>1, PlacesOf DEF Subjects
<1>3. PICK d \in Migration!Candidates : d = subject.id
  BY <1>2
<1>4. PICK slot \in Migration!SlotsOf(d) : slot = subject.old
  BY <1>2, <1>3
<1>5. CASE UNCHANGED <<home, rival>>
  <2>1. SameRecords
    BY <1>1, <1>5 DEF SameRecords
  <2>2. /\ lapsed' \subseteq Migration!Candidates /\ unseen' \subseteq Migration!Candidates
        /\ Removing' = Removing /\ Migration!Resolved' = Migration!Resolved
        /\ MigrationStages' /\ MigrationFiles' /\ MigrationSpent' /\ MigrationSeen'
        /\ MigrationShown'
    <3>1. step \in Using /\ (UseEnds \/ (step' \in Using /\ UseGoes))
          /\ (step' # "idle" => step' \in {"dropping", "settling"})
      BY <1>1 DEF Using, UseEnds
    <3>. QED
      BY <1>1, <1>5, <3>1, UseMoves
  <2>3. step' \in {"idle", "settling"} /\ (step' = "settling" => subject' = subject)
    BY <1>1 DEF UseEnds, UseGoes
  <2>4. MigrationTypes'
    BY <1>1, <1>2, <1>5, <2>2, <2>3 DEF MigrationInv, MigrationTypes, Migration!TypeOK, Using
  <2>5. MigrationCopies'
    BY <1>1, <2>1, <2>3, SameMeanings DEF MigrationInv, MigrationCopies, Migration!WordsSurvive
  <2>6. MigrationLives'
    BY <1>1, <2>1, <2>3, SameMeanings DEF MigrationInv, MigrationLives, Migration!UsedWasActive
  <2>. QED
    BY <2>2, <2>4, <2>5, <2>6 DEF MigrationInv
<1>6. CASE Migration!Put(subject.id, subject.old, None)
  <2>1. Migration!Put(d, slot, None)
    BY <1>3, <1>4, <1>6
  <2>2. /\ home' \in [Migration!Candidates -> Migration!Wordings \cup {None}]
        /\ rival' \in [Migration!DraftIds -> Migration!Wordings \cup {None}]
    BY <2>1, PutIs DEF MigrationInv
  <2>3. \A e \in Migration!Candidates :
          /\ Places(e)' \subseteq Places(e) \cup {None}
          /\ e # d => Migration!Held(e)' = Migration!Held(e)
          /\ Migration!Held(e) \subseteq Migration!Held(e)' \cup {Migration!At(d, slot)}
    BY <1>1, <2>1, PutHolds DEF MigrationInv
  <2>4. \A e \in Migration!Candidates : home'[e] = "candidate" => home[e] = "candidate"
    BY <1>1, <2>1, PutMoves, MigrationAssumption DEF Migration!Wordings
  <2>5. /\ lapsed' \subseteq Migration!Candidates /\ unseen' \subseteq Migration!Candidates
        /\ Removing' = Removing /\ Migration!Resolved' = Migration!Resolved
        /\ MigrationStages' /\ MigrationFiles' /\ MigrationSpent' /\ MigrationSeen'
        /\ MigrationShown'
    <3>1. step \in Using /\ (UseEnds \/ (step' \in Using /\ UseGoes))
          /\ (step' # "idle" => step' \in {"dropping", "settling"})
      BY <1>1 DEF Using, UseEnds
    <3>. QED
      BY <1>1, <2>4, <3>1, UseMoves
  <2>6. step' \in {"idle", "settling"} /\ (step' = "settling" => subject' = subject)
    BY <1>1 DEF UseEnds, UseGoes
  <2>7. MigrationTypes'
    BY <1>1, <1>2, <2>2, <2>5, <2>6 DEF MigrationInv, MigrationTypes, Migration!TypeOK, Using
  <2>8. MigrationCopies'
    <3>1. Migration!At(d, slot) \in Migration!Held(d)'
      <4>1. replaced'[d][slot] = Migration!At(d, slot)
        BY <1>1, <1>2, <1>3, <1>4
      <4>2. d # Migration!Selections /\ slot \in Migration!Slots
        BY <1>2, <1>3, <1>4
      <4>3. replaced'[d][slot] \in Migration!Held(d)'
        BY <4>2 DEF Migration!Held
      <4>. QED
        BY <4>1, <4>3
    <3>2. \A e \in Migration!Candidates : Migration!Held(e) \subseteq Migration!Held(e)'
      BY <2>3, <3>1
    <3>3. Migration!WordsSurvive'
      BY <1>1, <3>2 DEF MigrationInv, MigrationCopies, Migration!WordsSurvive
    <3>. QED
      BY <2>6, <3>3 DEF MigrationCopies
  <2>9. MigrationLives'
    <3>1. \A e \in Migration!Candidates : "candidate" \in Places(e)' => e \in lived
      BY <2>3, MigrationAssumption DEF MigrationInv, MigrationLives, Migration!Wordings
    <3>. QED
      BY <1>1, <2>5, <2>6, <3>1 DEF MigrationInv, MigrationLives, Migration!UsedWasActive
  <2>. QED
    BY <2>5, <2>7, <2>8, <2>9 DEF MigrationInv
<1>. QED
  BY <1>1, <1>5, <1>6

-----------------------------------------------------------------------------
(* The user's own work *)

LEMMA EditRecordStep ==
  ASSUME MigrationInv, NEW c \in Migration!Candidates, NEW slot \in Migration!SlotsOf(c),
         Migration!EditRecord(c, slot)
  PROVE  MigrationInv'
<1>1. /\ UNCHANGED <<manifest, staged, replaced, resolutions, session, pc, todo, wrote, told,
                     step, subject, offered, unfinished, unrecorded, unseen, lived, lapsed>>
      /\ session = "shared" /\ step = "idle" /\ c \notin unseen
      /\ spent' = IF Migration!At(c, slot) = "candidate" /\ slot = "home" /\ Migration!Staged(c)
                  THEN spent \cup {c} ELSE spent
  BY DEF Migration!EditRecord, Migration!AtWork, Migration!upgrade, Migration!control
<1>2. PICK value \in {"edited", None} :
        /\ Migration!Put(c, slot, value)
        /\ kept' = [kept EXCEPT ![c] = (@ \ {Migration!At(c, slot)}) \cup ({value} \ {None})]
  BY DEF Migration!EditRecord
<1>3. value \in Migration!Wordings \cup {None} /\ value # "candidate"
      /\ {value} \ {None} \subseteq Migration!Wordings
  BY MigrationAssumption DEF Migration!Wordings
<1>4. /\ home' \in [Migration!Candidates -> Migration!Wordings \cup {None}]
      /\ rival' \in [Migration!DraftIds -> Migration!Wordings \cup {None}]
  BY <1>2, <1>3, PutIs DEF MigrationInv
<1>5. /\ \A e \in Migration!Candidates :
           /\ Places(e)' \subseteq Places(e) \cup {value}
           /\ e # c => Migration!Held(e)' = Migration!Held(e)
           /\ Migration!Held(e) \subseteq Migration!Held(e)' \cup {Migration!At(c, slot)}
      /\ value \in Migration!Held(c)'
  BY <1>1, <1>2, <1>3, PutHolds DEF MigrationInv
<1>6. /\ MigrationFiles' /\ Removing' = Removing /\ (Cut' <=> Cut)
      /\ Migration!Resolved' = Migration!Resolved
      /\ \A d : (Settled(d)' <=> Settled(d)) /\ (Migration!Staged(d)' <=> Migration!Staged(d))
      /\ \A d \in Migration!Candidates : home'[d] = "candidate" => home[d] = "candidate"
  BY <1>1, <1>2, <1>3, PutMoves
<1>7. /\ \A e \in Migration!Candidates : e # c => kept'[e] = kept[e]
      /\ kept'[c] = (kept[c] \ {Migration!At(c, slot)}) \cup ({value} \ {None})
      /\ kept' \in [Migration!Candidates -> SUBSET Migration!Wordings]
  BY <1>2, <1>3 DEF MigrationInv, MigrationTypes
<1>8. MigrationTypes'
  <2>1. spent' \subseteq Migration!Candidates
    BY <1>1 DEF MigrationInv, MigrationTypes
  <2>. QED
    BY <1>1, <1>4, <1>7, <2>1 DEF MigrationInv, MigrationTypes, Migration!TypeOK, Using
<1>9. MigrationStages'
  BY <1>1, <1>6 DEF MigrationInv, MigrationStages
<1>10. MigrationCopies'
  <2>1. Migration!WordsSurvive'
    BY <1>5, <1>7 DEF MigrationInv, MigrationCopies, Migration!WordsSurvive
  <2>. QED
    BY <1>1, <2>1 DEF MigrationCopies
<1>11. MigrationLives'
  <2>1. \A e \in Migration!Candidates : "candidate" \in Places(e)' => e \in lived
    BY <1>3, <1>5 DEF MigrationInv, MigrationLives
  <2>. QED
    BY <1>1, <1>6, <2>1 DEF MigrationInv, MigrationLives, Migration!UsedWasActive
<1>12. MigrationSpent'
  <2>. SUFFICES ASSUME NEW d \in spent' \ lapsed  PROVE Settled(d) \/ Cut \/ Removing
    BY <1>1, <1>6 DEF MigrationSpent
  <2>1. CASE d \in spent
    BY <2>1 DEF MigrationInv, MigrationSpent
  <2>2. CASE d \notin spent
    <3>1. d = c /\ home[c] = "candidate" /\ Migration!Staged(c)
      BY <1>1, <2>2, PlacesOf
    <3>. QED
      BY <1>1, <3>1 DEF MigrationInv, MigrationSeen, InHand
  <2>. QED
    BY <2>1, <2>2
<1>13. MigrationSeen' /\ MigrationShown'
  BY <1>1, <1>6 DEF MigrationInv, MigrationSeen, MigrationShown, InHand
<1>. QED
  BY <1>6, <1>8, <1>9, <1>10, <1>11, <1>12, <1>13 DEF MigrationInv

LEMMA CreateOwnStep ==
  ASSUME MigrationInv, NEW c \in Migration!DraftIds, Migration!CreateOwn(c)
  PROVE  MigrationInv'
<1>1. /\ UNCHANGED <<manifest, staged, home, replaced, resolutions, session, pc, todo, wrote,
                     told, step, subject, offered, unfinished, unrecorded, unseen, lived, spent,
                     lapsed>>
      /\ session = "shared" /\ step = "idle" /\ rival[c] = None
      /\ rival' = [rival EXCEPT ![c] = "own"]
      /\ kept' = [kept EXCEPT ![c] = @ \cup {"own"}]
  BY DEF Migration!CreateOwn, Migration!AtWork, Migration!upgrade, Migration!control
<1>2. /\ c \in Migration!Candidates /\ "rival" \in Migration!SlotsOf(c)
      /\ Migration!Put(c, "rival", "own") /\ "own" \in Migration!Wordings
      /\ Migration!At(c, "rival") = None
  BY <1>1 DEF Migration!DraftIds, Migration!SlotsOf, Migration!Slots, Migration!Put,
              Migration!Wordings, Migration!At
<1>3. rival' \in [Migration!DraftIds -> Migration!Wordings \cup {None}]
  BY <1>2, PutIs DEF MigrationInv
<1>4. /\ \A e \in Migration!Candidates :
           /\ Places(e)' \subseteq Places(e) \cup {"own"}
           /\ Migration!Held(e) \subseteq Migration!Held(e)' \cup {None}
      /\ "own" \in Migration!Held(c)'
  BY <1>1, <1>2, PutHolds DEF MigrationInv
<1>5. /\ MigrationFiles' /\ Removing' = Removing /\ (Cut' <=> Cut)
      /\ Migration!Resolved' = Migration!Resolved
      /\ \A d : (Settled(d)' <=> Settled(d)) /\ (Migration!Staged(d)' <=> Migration!Staged(d))
  BY <1>1, <1>2, PutMoves
<1>6. /\ \A e \in Migration!Candidates : e # c => kept'[e] = kept[e]
      /\ kept'[c] = kept[c] \cup {"own"}
      /\ kept' \in [Migration!Candidates -> SUBSET Migration!Wordings]
  BY <1>1, <1>2 DEF MigrationInv, MigrationTypes
<1>7. MigrationTypes'
  BY <1>1, <1>3, <1>6 DEF MigrationInv, MigrationTypes, Migration!TypeOK, Using
<1>8. MigrationStages'
  BY <1>1, <1>5 DEF MigrationInv, MigrationStages
<1>9. MigrationCopies'
  <2>1. \A e \in Migration!Candidates : None \notin kept[e]
    BY MigrationAssumption DEF MigrationInv, MigrationTypes
  <2>2. Migration!WordsSurvive'
    BY <1>4, <1>6, <2>1 DEF MigrationInv, MigrationCopies, Migration!WordsSurvive
  <2>. QED
    BY <1>1, <2>2 DEF MigrationCopies
<1>10. MigrationLives'
  <2>1. \A e \in Migration!Candidates : "candidate" \in Places(e)' => e \in lived
    BY <1>4 DEF MigrationInv, MigrationLives
  <2>. QED
    BY <1>1, <1>5, <2>1 DEF MigrationInv, MigrationLives, Migration!UsedWasActive
<1>11. MigrationSpent' /\ MigrationSeen' /\ MigrationShown'
  BY <1>1, <1>5 DEF MigrationInv, MigrationSpent, MigrationSeen, MigrationShown, InHand
<1>. QED
  BY <1>5, <1>7, <1>8, <1>9, <1>10, <1>11 DEF MigrationInv

-----------------------------------------------------------------------------
(* The backup is removed *)

LEMMA RemoveBackupStep ==
  ASSUME MigrationInv, Migration!RemoveBackup
  PROVE  /\ MigrationInv'
         /\ ~ Removing => \A c \in Migration!Candidates : Migration!Staged(c) => Settled(c)
         /\ \A c \in Migration!Candidates : Settled(c)' <=> Settled(c)
<1>. DEFINE record == [Migration!Resolved EXCEPT !.removing = TRUE]
<1>1. /\ UNCHANGED <<manifest, staged, home, rival, replaced, session, pc, todo, wrote, told,
                     subject, offered, unfinished, unrecorded, unseen, lived, spent, lapsed>>
      /\ session = "shared" /\ step = "idle" /\ pc = "idle" /\ Migration!Removable
      /\ kept' = [c \in Migration!Candidates |-> Migration!Outside(c)]
      /\ \/ resolutions' = record /\ step' = "deleting"
         \/ resolutions' \in {resolutions, record} /\ step' = "idle"
  BY DEF Migration!RemoveBackup, Migration!Settling, Migration!AtWork, Migration!Settles,
         Migration!upgrade
<1>2. Migration!Resolved \in Records
  BY ResolvedIs DEF MigrationInv, MigrationTypes
<1>3. record \in Records /\ record.settled = Migration!Resolved.settled /\ record.removing = TRUE
  BY <1>2 DEF Records
<1>. HIDE DEF record
<1>5. /\ Migration!Resolved'.settled = Migration!Resolved.settled
      /\ Removing' \in {Removing, TRUE} /\ (step' = "deleting" => Removing')
      /\ resolutions' \in Records \cup {None}
  <2>1. CASE resolutions' = record
    <3>1. Migration!Resolved' = record
      BY <1>3, <2>1, MigrationAssumption DEF Migration!Resolved, Records
    <3>. QED
      BY <1>3, <2>1, <3>1 DEF Removing
  <2>2. CASE resolutions' = resolutions /\ step' = "idle"
    BY <2>2 DEF Migration!Resolved, Migration!Unresolved, Removing, MigrationInv, MigrationTypes
  <2>. QED
    BY <1>1, <2>1, <2>2
<1>6. \A c \in Migration!Candidates : Settled(c)' <=> Settled(c)
  BY <1>5 DEF Settled
<1>7. Removing => Removing'
  BY <1>5
<1>8. /\ (Cut' <=> Cut) /\ \A c : Places(c)' = Places(c) /\ Migration!Held(c)' = Migration!Held(c)
      /\ \A c : Migration!Staged(c)' <=> Migration!Staged(c)
  BY <1>1 DEF Cut, Places, Migration!Held, Migration!At, Migration!Staged
<1>9. unrecorded = {}
  BY <1>1 DEF Migration!Removable, Removing, MigrationInv, MigrationStages
<1>10. \A c \in Migration!Candidates :
         /\ kept'[c] \subseteq kept[c] /\ kept'[c] \subseteq Places(c)
         /\ kept'[c] \subseteq Migration!Held(c)
  <2>1. \A c \in Migration!Candidates : kept'[c] = kept[c] \cap Places(c)
    BY <1>1 DEF Migration!Outside, Places
  <2>. QED
    BY <2>1 DEF MigrationInv, MigrationCopies, Migration!WordsSurvive
<1>11. kept' \in [Migration!Candidates -> SUBSET Migration!Wordings]
  BY <1>1, <1>10 DEF MigrationInv, MigrationTypes
<1>12. MigrationTypes'
  BY <1>1, <1>5, <1>11 DEF MigrationInv, MigrationTypes, Migration!TypeOK, Using
<1>13. MigrationStages'
  BY <1>1, <1>5, <1>9 DEF MigrationInv, MigrationStages
<1>14. MigrationCopies'
  BY <1>1, <1>8, <1>10 DEF MigrationCopies, Migration!WordsSurvive
<1>15. MigrationFiles'
  <2>1. Migration!BackupStands'
    BY <1>1, <1>5, <1>8 DEF MigrationInv, MigrationFiles, Migration!BackupStands, Removing
  <2>. QED
    BY <1>1, <1>7, <2>1 DEF MigrationInv, MigrationFiles
<1>16. MigrationLives'
  BY <1>1, <1>5, <1>8 DEF MigrationInv, MigrationLives, Migration!UsedWasActive
<1>17. MigrationSpent'
  BY <1>1, <1>6, <1>7, <1>8 DEF MigrationInv, MigrationTypes, MigrationSpent
<1>18. MigrationSeen'
  BY <1>1, <1>6, <1>7, <1>8 DEF MigrationInv, MigrationSeen, InHand
<1>19. MigrationShown'
  BY <1>1, <1>6, <1>7, <1>8 DEF MigrationInv, MigrationShown
<1>20. ~ Removing => \A c \in Migration!Candidates : Migration!Staged(c) => Settled(c)
  <2>1. ~ Removing => offered = {} /\ ~ unfinished /\ ~ Cut
    BY <1>1 DEF Migration!Removable, Removing, Cut
  <2>. QED
    BY <1>1, <1>9, <2>1 DEF MigrationInv, MigrationShown
<1>. QED
  BY <1>6, <1>12, <1>13, <1>14, <1>15, <1>16, <1>17, <1>18, <1>19, <1>20 DEF MigrationInv

LEMMA DeleteFileStep ==
  ASSUME MigrationInv, Migration!DeleteFile
  PROVE  MigrationInv'
<1>1. /\ UNCHANGED <<manifest, home, rival, replaced, resolutions, session, pc, todo, wrote, told,
                     subject, offered, unfinished, unrecorded, unseen, lived, spent, lapsed,
                     kept>>
      /\ step = "deleting" /\ step' \in {"deleting", "idle"} /\ Migration!Present # {}
      /\ staged' = [staged EXCEPT ![Migration!First(Migration!FileOrder, Migration!Present)]
                                    = "absent"]
  BY DEF Migration!DeleteFile, Migration!upgrade, Migration!history
<1>2. staged' \in [Migration!Files -> {"absent", "whole", "partial"}]
  BY <1>1 DEF MigrationInv, MigrationTypes, Migration!TypeOK
<1>3. Removing /\ Removing' = Removing /\ Migration!Resolved' = Migration!Resolved
      /\ \A c : Places(c)' = Places(c) /\ Migration!Held(c)' = Migration!Held(c)
  BY <1>1 DEF MigrationInv, MigrationStages, Removing, Migration!Resolved, Migration!Unresolved,
              Places, Migration!Held, Migration!At
<1>4. session = "shared" /\ pc = "idle"
  BY <1>1 DEF MigrationInv, MigrationStages
<1>5. MigrationTypes'
  BY <1>1, <1>2 DEF MigrationInv, MigrationTypes, Migration!TypeOK, Using
<1>6. MigrationStages'
  BY <1>1, <1>3, <1>4 DEF MigrationInv, MigrationStages
<1>7. MigrationCopies'
  BY <1>1, <1>3 DEF MigrationInv, MigrationCopies, Migration!WordsSurvive
<1>8. MigrationFiles'
  BY <1>3 DEF MigrationFiles, Migration!BackupStands, Removing
<1>9. MigrationLives'
  BY <1>1, <1>3 DEF MigrationInv, MigrationLives, Migration!UsedWasActive
<1>10. MigrationSpent' /\ MigrationSeen' /\ MigrationShown'
  BY <1>3 DEF MigrationSpent, MigrationSeen, MigrationShown
<1>. QED
  BY <1>5, <1>6, <1>7, <1>8, <1>9, <1>10 DEF MigrationInv

LEMMA DeleteResolutionsStep ==
  ASSUME MigrationInv, Migration!DeleteResolutions
  PROVE  MigrationInv'
<1>1. /\ UNCHANGED <<manifest, staged, home, rival, session, pc, todo, wrote, told, subject,
                     offered, unfinished, unrecorded, unseen, kept>>
      /\ step = "deleting" /\ step' = "idle" /\ Migration!Present = {}
      /\ replaced' = Migration!NoCopies /\ resolutions' = None
      /\ spent' = {} /\ lapsed' = {}
      /\ lived' = { c \in lived : \E slot \in Migration!SlotsOf(c) :
                                    Migration!At(c, slot) = "candidate" }
  BY DEF Migration!DeleteResolutions, Migration!upgrade
<1>2. session = "shared" /\ pc = "idle" /\ unrecorded = {}
      /\ \A c \in Migration!Candidates : kept[c] \subseteq Places(c)
  BY <1>1 DEF MigrationInv, MigrationStages, MigrationCopies
<1>3. \A f \in Migration!Files : staged'[f] = "absent"
  BY <1>1 DEF Migration!Present
<1>4. /\ ~ Removing' /\ \A c \in Migration!Candidates : ~ Settled(c)'
      /\ \A c \in Migration!Candidates : Migration!Resolved'.settled[c] = None
  BY <1>1 DEF Removing, Migration!Resolved, Migration!Unresolved, Settled
<1>5. \A c : Places(c)' = Places(c) /\ Places(c)' \subseteq Migration!Held(c)'
  BY <1>1 DEF Places, Migration!Held, Migration!At
<1>6. MigrationTypes'
  <2>1. replaced' \in [Migration!DraftIds ->
                         [Migration!Slots -> Migration!Wordings \cup {None}]]
    BY <1>1 DEF Migration!NoCopies
  <2>. QED
    BY <1>1, <2>1 DEF MigrationInv, MigrationTypes, Migration!TypeOK, Using
<1>7. MigrationStages'
  BY <1>1, <1>2, <1>4 DEF MigrationStages
<1>8. MigrationCopies'
  BY <1>1, <1>2, <1>5 DEF MigrationCopies, Migration!WordsSurvive
<1>9. MigrationFiles'
  BY <1>3 DEF MigrationFiles, Migration!BackupStands
<1>10. MigrationLives'
  <2>1. \A c \in Migration!Candidates : "candidate" \in Places(c)' => c \in lived'
    BY <1>1, <1>5 DEF MigrationInv, MigrationLives, Places
  <2>2. Migration!UsedWasActive'
    BY <1>4, MigrationAssumption DEF Migration!UsedWasActive
  <2>. QED
    BY <1>1, <1>2, <2>1, <2>2 DEF MigrationLives
<1>11. MigrationSpent' /\ MigrationSeen' /\ MigrationShown'
  BY <1>1, <1>3, FilesInOrder DEF MigrationSpent, MigrationSeen, MigrationShown,
                                  Migration!Staged
<1>. QED
  BY <1>6, <1>7, <1>8, <1>9, <1>10, <1>11 DEF MigrationInv

-----------------------------------------------------------------------------
(* Every step *)

LEMMA InitMigration ==
  ASSUME Migration!Init
  PROVE  MigrationInv
<1>1. /\ \A f \in Migration!Files : staged[f] = "absent"
      /\ resolutions = None /\ step = "idle" /\ pc = "idle" /\ session = "closed"
      /\ manifest = "source" /\ unrecorded = {} /\ lived = {} /\ spent = {} /\ lapsed = {}
      /\ unseen = {} /\ todo = {} /\ wrote = FALSE /\ told = None
      /\ staged = [f \in Migration!Files |-> "absent"] /\ replaced = Migration!NoCopies
      /\ home \in [Migration!Candidates -> {None, "own"}]
      /\ rival \in [Migration!DraftIds -> {None, "own"}]
      /\ kept = [c \in Migration!Candidates |-> Migration!Held(c) \ {None}]
  BY DEF Migration!Init
<1>2. /\ ~ Removing /\ \A c \in Migration!Candidates : ~ Settled(c)
      /\ \A c \in Migration!Candidates : Migration!Resolved.settled[c] = None
  BY <1>1 DEF Removing, Settled, Migration!Resolved, Migration!Unresolved
<1>3. \A c \in Migration!Candidates :
        Places(c) \subseteq {None, "own"} /\ Migration!Held(c) \subseteq {None, "own"}
  <2>. SUFFICES ASSUME NEW c \in Migration!Candidates
                PROVE  Places(c) \subseteq {None, "own"}
                       /\ Migration!Held(c) \subseteq {None, "own"}
    OBVIOUS
  <2>1. Places(c) \subseteq {None, "own"}
    BY <1>1, PlacesOf DEF Places
  <2>2. c # Migration!Selections =>
          \A slot \in Migration!Slots : replaced[c][slot] = None
    BY <1>1 DEF Migration!NoCopies, Migration!DraftIds
  <2>3. Migration!Held(c) \subseteq Places(c) \cup {None}
    BY <2>2 DEF Migration!Held, Places
  <2>. QED
    BY <2>1, <2>3
<1>4. \A c \in Migration!Candidates :
        kept[c] \subseteq Migration!Held(c) /\ kept[c] \subseteq Migration!Wordings
  BY <1>1, <1>3 DEF Migration!Wordings
<1>5. MigrationTypes
  <2>1. kept \in [Migration!Candidates -> SUBSET Migration!Wordings]
    BY <1>1, <1>4
  <2>2. replaced \in [Migration!DraftIds -> [Migration!Slots -> Migration!Wordings \cup {None}]]
    BY <1>1 DEF Migration!NoCopies
  <2>3. Migration!TypeOK
    BY <1>1 DEF Migration!TypeOK, Migration!Wordings
  <2>. QED
    BY <1>1, <2>1, <2>2, <2>3 DEF MigrationTypes, Using
<1>6. MigrationStages /\ MigrationFiles
  BY <1>1, <1>2 DEF MigrationStages, MigrationFiles, Migration!BackupStands
<1>7. MigrationCopies
  BY <1>1, <1>4 DEF MigrationCopies, Migration!WordsSurvive
<1>8. MigrationLives
  BY <1>1, <1>2, <1>3, MigrationAssumption DEF MigrationLives, Migration!UsedWasActive,
                                              Migration!Wordings
<1>9. MigrationSpent /\ MigrationSeen /\ MigrationShown
  BY <1>1 DEF MigrationSpent, MigrationSeen, MigrationShown
<1>. QED
  BY <1>5, <1>6, <1>7, <1>8, <1>9 DEF MigrationInv

LEMMA NextMigration ==
  ASSUME MigrationInv, Migration!Next
  PROVE  MigrationInv'
<1>1. CASE Migration!Open \/ Migration!Crash \/ Migration!Others
  BY <1>1, OpenStep, CrashStep, OthersStep
<1>2. CASE Migration!Owner
  BY <1>2, StartUpgradeStep, StageFileStep, StagingConfirmedStep, StartFinishStep, MakePlanStep,
     ExecuteStep, WriteManifestStep, ActivateStep, ActivatedStep, InspectStep, CheckAgainStep
     DEF Migration!Owner
<1>3. CASE Migration!Controller
  BY <1>3, LoadStep, RetryRecordStep, CopyReplacedStep, WriteIncomingStep, DropReplacedStep,
     SettleUsedStep, RemoveBackupStep, DeleteFileStep, DeleteResolutionsStep
     DEF Migration!Controller
<1>4. CASE Migration!User
  BY <1>4, BeginUseStep, RefuseStep, EditRecordStep, CreateOwnStep DEF Migration!User
<1>. QED
  BY <1>1, <1>2, <1>3, <1>4 DEF Migration!Next

\* An upgrade activates what nobody is done with.
LEMMA ActivatesFresh ==
  ASSUME MigrationInv, Migration!Next, pc = "activating", NEW c \in Migration!Candidates,
         home[c] # "candidate", home'[c] = "candidate"
  PROVE  c \notin spent \ lapsed
<1>1. step = "idle"
  BY DEF MigrationInv, MigrationStages
<1>2. CASE Migration!Open \/ Migration!Crash
  BY <1>2 DEF Migration!Open, Migration!Crash, Migration!folder
<1>3. CASE Migration!Others
  BY <1>3 DEF Migration!Others, MigrationInv, MigrationTypes, Migration!TypeOK
<1>4. CASE Migration!Owner
  <2>1. Migration!Activate
    BY <1>4 DEF Migration!Owner, Migration!StartUpgrade, Migration!StageFile,
                Migration!StagingConfirmed, Migration!StartFinish, Migration!MakePlan,
                Migration!Execute, Migration!WriteManifest, Migration!Activated,
                Migration!Inspect, Migration!CheckAgain, Migration!folder
  <2>2. /\ todo # {}
        /\ c # Migration!First(Migration!CandidateOrder, todo) => home'[c] = home[c]
    BY <2>1 DEF Migration!Activate, MigrationInv, MigrationTypes, Migration!TypeOK
  <2>3. c \in todo
    <3>1. todo \subseteq { Migration!CandidateOrder[i] : i \in DOMAIN Migration!CandidateOrder }
      BY DEF MigrationInv, MigrationTypes, Migration!Candidates
    <3>2. Migration!First(Migration!CandidateOrder, todo) \in todo
      BY <2>2, <3>1, FilesInOrder, FirstIsOne
    <3>. QED
      BY <2>2, <3>2
  <2>4. ~ Settled(c) /\ ~ Removing /\ ~ Cut
    BY <2>3 DEF MigrationInv, MigrationStages, Migration!Staged, Cut
  <2>. QED
    BY <2>4 DEF MigrationInv, MigrationSpent
<1>5. CASE Migration!Controller
  BY <1>1, <1>5 DEF Migration!Controller, Migration!Load, Migration!RetryRecord,
                    Migration!CopyReplaced, Migration!WriteIncoming, Migration!DropReplaced,
                    Migration!SettleUsed, Migration!RemoveBackup, Migration!DeleteFile,
                    Migration!DeleteResolutions
<1>6. CASE Migration!User
  BY <1>6 DEF Migration!User, Migration!BeginUse, Migration!Refuse, Migration!EditRecord,
              Migration!CreateOwn, Migration!Settling, Migration!AtWork, Migration!ScopeFree
<1>. QED
  BY <1>2, <1>3, <1>4, <1>5, <1>6 DEF Migration!Next

\* A removal is recorded only when every candidate in the backup is settled.
LEMMA RemovesSettled ==
  ASSUME MigrationInv, Migration!Next, Removing', ~ Removing,
         NEW c \in Migration!Candidates, Migration!Staged(c)
  PROVE  Settled(c)
<1>1. resolutions \in Records \cup {None}
  BY DEF MigrationInv, MigrationTypes
<1>2. resolutions' # resolutions
  BY DEF Removing, Migration!Resolved, Migration!Unresolved
<1>3. resolutions' # None
  BY DEF Removing, Migration!Resolved, Migration!Unresolved
<1>4. CASE Migration!Open \/ Migration!Crash \/ Migration!Others
  BY <1>2, <1>4 DEF Migration!Open, Migration!Crash, Migration!Others, Migration!folder
<1>5. CASE Migration!Owner
  BY <1>2, <1>5 DEF Migration!Owner, Migration!StartUpgrade, Migration!StageFile,
                Migration!StagingConfirmed, Migration!StartFinish, Migration!MakePlan,
                Migration!Execute, Migration!WriteManifest, Migration!Activate,
                Migration!Activated, Migration!Inspect, Migration!CheckAgain, Migration!folder
<1>6. CASE Migration!RemoveBackup
  BY <1>6, RemoveBackupStep
<1>7. \A cs : \A outcome \in {"used", "discarded"} :
        resolutions' \notin {resolutions, Migration!With(cs, outcome)}
  BY <1>1, SettlesIs
<1>8. CASE Migration!Controller /\ ~ Migration!RemoveBackup
  <2>1. \E cs : resolutions' \in {resolutions, Migration!With(cs, "used")}
    BY <1>2, <1>3, <1>8 DEF Migration!Controller, Migration!Load, Migration!RetryRecord,
                    Migration!CopyReplaced, Migration!WriteIncoming, Migration!DropReplaced,
                    Migration!SettleUsed, Migration!DeleteFile, Migration!DeleteResolutions,
                    Migration!Settles
  <2>. QED
    BY <1>7, <2>1
<1>9. CASE Migration!User
  <2>1. \E cs : resolutions' \in {resolutions, Migration!With(cs, "discarded")}
    BY <1>2, <1>9 DEF Migration!User, Migration!BeginUse, Migration!Refuse,
                      Migration!EditRecord, Migration!CreateOwn, Migration!Settles,
                      Migration!folder
  <2>. QED
    BY <1>7, <2>1
<1>. QED
  BY <1>4, <1>5, <1>6, <1>8, <1>9 DEF Migration!Next

\* What an upgrade tells of itself.
LEMMA TellsOfFailure ==
  ASSUME MigrationInv, Migration!Next, told' # told, told' \in {"failed", "stale"}
  PROVE  ~ wrote' \/ manifest' = "source"
<1>1. pc \in {"staging", "planning", "planned", "writing"} => ~ wrote
  BY DEF MigrationInv, MigrationStages
<1>2. Migration!Owner
  <2>1. ~ (Migration!Open \/ Migration!Crash \/ Migration!Others)
    BY DEF Migration!Open, Migration!Crash, Migration!Others, Migration!upgrade
  <2>2. ~ Migration!Controller
    BY DEF Migration!Controller, Migration!Load, Migration!RetryRecord,
           Migration!CopyReplaced, Migration!WriteIncoming, Migration!DropReplaced,
           Migration!SettleUsed, Migration!RemoveBackup, Migration!DeleteFile,
           Migration!DeleteResolutions, Migration!upgrade
  <2>3. ~ Migration!User
    BY DEF Migration!User, Migration!BeginUse, Migration!Refuse, Migration!EditRecord,
           Migration!CreateOwn, Migration!upgrade
  <2>. QED
    BY <2>1, <2>2, <2>3 DEF Migration!Next
<1>3. CASE Migration!StartUpgrade
  BY <1>3 DEF Migration!StartUpgrade
<1>4. CASE Migration!StageFile \/ Migration!StagingConfirmed \/ Migration!MakePlan
             \/ Migration!Execute
  BY <1>1, <1>4 DEF Migration!StageFile, Migration!StagingConfirmed, Migration!MakePlan,
                    Migration!Execute
<1>5. CASE Migration!WriteManifest
  BY <1>1, <1>5 DEF Migration!WriteManifest
<1>6. CASE Migration!Inspect
  BY <1>6 DEF Migration!Inspect, Migration!Reports, Migration!folder
<1>7. CASE Migration!StartFinish \/ Migration!Activate \/ Migration!Activated
             \/ Migration!CheckAgain
  BY <1>7, MigrationAssumption DEF Migration!StartFinish, Migration!Activate,
                                   Migration!Activated, Migration!CheckAgain
<1>. QED
  BY <1>2, <1>3, <1>4, <1>5, <1>6, <1>7 DEF Migration!Owner

-----------------------------------------------------------------------------
(* The files of a folder *)

FilesInv == AccessInv /\ (part = "migration" => MigrationInv)

LEMMA InitFiles ==
  ASSUME FilesInit
  PROVE  FilesInv
BY InitAccess, InitMigration DEF FilesInit, FilesInv

LEMMA AccessRests ==
  ASSUME AccessInv, UNCHANGED baselineVars
  PROVE  AccessInv'
<1>1. UNCHANGED <<pins, opened, loaded, generation, loads, writes, raced>>
  BY DEF baselineVars
<1>2. /\ Baselines!Workspace' = Baselines!Workspace
      /\ LoadRecords' = LoadRecords /\ WriteRecords' = WriteRecords
      /\ Baselines!Active' = Baselines!Active /\ Baselines!File' = Baselines!File
      /\ \A access : FolderOf(access)' = FolderOf(access)
  BY <1>1 DEF Baselines!Workspace, LoadRecords, WriteRecords, Baselines!Active, Baselines!File,
              FolderOf
<1>3. AccessTypes'
  BY <1>1, <1>2 DEF AccessInv, AccessTypes, Baselines!BaselinesTypeOK
<1>4. AccessesApart' /\ ShownUntilWritten' /\ WritesAreSingle'
  BY <1>1, <1>2 DEF AccessInv, AccessesApart, ShownUntilWritten, WritesAreSingle, Page
<1>5. ReadFindsPins'
  BY <1>1, <1>2 DEF AccessInv, ReadFindsPins, Baselines!Still, FolderOf
<1>. QED
  BY <1>3, <1>4, <1>5 DEF AccessInv

LEMMA MigrationRests ==
  ASSUME MigrationInv, UNCHANGED migrationVars
  PROVE  MigrationInv'
<1>1. /\ SameRecords /\ SameControl /\ SameHistory
      /\ UNCHANGED <<manifest, pc, todo, wrote, told>>
  BY DEF migrationVars, SameRecords, SameControl, SameHistory
<1>2. MigrationTypes'
  BY <1>1, UpgradeTypes DEF MigrationInv, MigrationTypes, Migration!TypeOK
<1>3. MigrationStages'
  BY <1>1, UpgradeStages DEF MigrationInv, MigrationStages
<1>. QED
  BY <1>1, <1>2, <1>3, UpgradeMoves, ManifestStands

\* The three parts of the files move apart.
LEMMA FilesMove ==
  ASSUME [FilesNext]_<<part, vars, migrationVars, baselineVars>>
  PROVE  /\ part' = part
         /\ UNCHANGED migrationVars \/ (part = "migration" /\ Migration!Next)
         /\ UNCHANGED baselineVars \/ Baselines!Next
         /\ UNCHANGED vars \/ Next
BY DEF FilesNext

LEMMA NextFiles ==
  ASSUME FilesInv, [FilesNext]_<<part, vars, migrationVars, baselineVars>>
  PROVE  FilesInv'
<1>1. AccessInv'
  BY FilesMove, AccessRests, NextAccess DEF FilesInv
<1>2. part = "migration" => MigrationInv'
  BY FilesMove, MigrationRests, NextMigration DEF FilesInv
<1>. QED
  BY <1>1, <1>2, FilesMove DEF FilesInv

\* What the files keep through a step.
Returns == pc = "activating" =>
             \A c \in Migration!Candidates :
               home[c] # "candidate" /\ home'[c] = "candidate" => c \notin spent \ lapsed
Removes == resolutions' # resolutions /\ Migration!Resolved'.removing
             /\ ~ Migration!Resolved.removing =>
           \A c \in Migration!Candidates : Migration!Staged(c) => Migration!Resolved.settled[c] # None
Tells   == told' # told /\ told' \in {"failed", "stale"} => ~ wrote' \/ manifest' = "source"
Changes == \A f \in Folders \ raced : pins'[f] # pins[f] =>
             pins[f] # Damaged /\ \E w \in writes :
               /\ opened[w.workspace] = f
               /\ pins'[f] \in {pins[f] \cup {w.slice}, pins[f] \ {w.slice}}

LEMMA FilesKeep ==
  ASSUME FilesInv, [FilesNext]_<<part, vars, migrationVars, baselineVars>>
  PROVE  [Returns]_(Migration!vars) /\ [Removes]_(Migration!vars) /\ [Tells]_(Migration!vars)
         /\ [Changes]_pins
<1>. DEFINE Upgrades == [Returns]_(Migration!vars) /\ [Removes]_(Migration!vars)
                       /\ [Tells]_(Migration!vars)
<1>1. ASSUME UNCHANGED migrationVars
      PROVE  Upgrades
  <2>1. UNCHANGED Migration!vars
    BY <1>1 DEF migrationVars, Migration!vars, Migration!folder, Migration!upgrade,
                Migration!control, Migration!history, Migration!bounds
  <2>. QED
    BY <2>1
<1>2. ASSUME part = "migration", Migration!Next
      PROVE  Upgrades
  <2>1. Returns
    BY <1>2, ActivatesFresh DEF FilesInv, Returns
  <2>2. Removes
    BY <1>2, RemovesSettled DEF FilesInv, Removes, Removing, Settled
  <2>3. Tells
    BY <1>2, TellsOfFailure DEF FilesInv, Tells
  <2>. QED
    BY <2>1, <2>2, <2>3
<1>3. [Changes]_pins
  <2>1. CASE UNCHANGED baselineVars
    BY <2>1 DEF baselineVars
  <2>2. CASE Baselines!Next
    BY <2>2, NextAccess, LandsOneThing DEF FilesInv, Changes
  <2>. QED
    BY <2>1, <2>2, FilesMove
<1>. QED
  BY <1>1, <1>2, <1>3, FilesMove

\* A record in a folder is a store, whatever the folder goes through: what is
\* proved of stores holds of it (createWorkbenchStore).
THEOREM FilesAreStores ==
  ASSUME StoreAssumption, NothingAssumption, ~OutsideRaces
  PROVE  FilesSpec => []StoreSafe /\ WritesAreFounded
<1>. DEFINE Kept == StoreInv /\ CheckStillHolds
<1>1. FilesInit => Kept
  BY InitStore DEF FilesInit
<1>2. Kept /\ [FilesNext]_<<part, vars, migrationVars, baselineVars>> => Kept'
  BY FilesMove, NextStore, NextCheck
<1>3. Kept => StoreSafe
  BY DEF StoreInv, StoreSafe, WriterIsRight, WriterKnowsDisk, At
<1>4. Kept => [Sees]_vars /\ [Protects]_vars
  BY WritesFounded
<1>. HIDE DEF Kept
<1>. QED
  BY <1>1, <1>2, <1>3, <1>4, PTL
     DEF FilesSpec, WritesAreFounded, NoBlindOverwrite, WritesAreProtected, Sees, Protects

\* Through an upgrade, the drafts it restores and the removal of its backup,
\* nothing the user wrote is lost and the backup stands; and no page shows as
\* read other pins than its own folder's file holds, where that folder's pins
\* were not raced (completeSharedProjectMigration, useRecovery,
\* useEvaluationBaselines).
THEOREM FilesKeepWorkHolds == FilesSpec => []FilesKeepWork
<1>1. FilesInit => FilesInv
  BY InitFiles
<1>2. FilesInv /\ [FilesNext]_<<part, vars, migrationVars, baselineVars>> => FilesInv'
  BY NextFiles
<1>3. FilesInv => FilesKeepWork
  <2>1. MigrationInv => Migration!BackupKeepsWork
    BY DEF MigrationInv, MigrationTypes, MigrationCopies, MigrationFiles, MigrationLives,
           Migration!BackupKeepsWork
  <2>2. AccessInv => Baselines!BaselinesTypeOK /\ Baselines!ShownPinsAreSaved
    BY DEF AccessInv, AccessTypes, ShownUntilWritten, FolderOf, Page,
           Baselines!ShownPinsAreSaved, Baselines!Still
  <2>. QED
    BY <2>1, <2>2 DEF FilesInv, FilesKeepWork
<1>. QED
  BY <1>1, <1>2, <1>3, PTL DEF FilesSpec

\* No draft the user is done with comes back, no backup goes before what is in
\* it is settled, and no upgrade that changed the manifest is said to have
\* failed; and a pin or an unpin changes that pin of that folder alone, where
\* that folder's pins were not raced (loadMigrations, removeMigrationBackup,
\* completionOutcome, useEvaluationBaselines).
THEOREM FilesKeepFaithHolds == FilesSpec => FilesKeepFaith
<1>1. FilesInit => FilesInv
  BY InitFiles
<1>2. FilesInv /\ [FilesNext]_<<part, vars, migrationVars, baselineVars>> => FilesInv'
  BY NextFiles
<1>3. FilesInv /\ [FilesNext]_<<part, vars, migrationVars, baselineVars>>
        => [Returns]_(Migration!vars) /\ [Removes]_(Migration!vars) /\ [Tells]_(Migration!vars)
             /\ [Changes]_pins
  BY FilesKeep
<1>. HIDE DEF FilesInv
<1>. QED
  BY <1>1, <1>2, <1>3, PTL
     DEF FilesSpec, FilesKeepFaith, Migration!UpgradeKeepsFaith, Migration!NothingComesBack,
         Migration!RemovedWhenSettled, Migration!FailureIsTold, Baselines!WritesDoOneThing,
         Returns, Removes, Tells, Changes

=============================================================================
