-------------------------- MODULE ProjectTabs_proofs --------------------------
(***************************************************************************)
(* Proofs about the tabs of a project: what holds whenever the lock        *)
(* manager's answers, the channel's messages and the saves arrive.         *)
(***************************************************************************)
EXTENDS ProjectTabs, TLAPS

-----------------------------------------------------------------------------
(* The tabs: who holds the editor lock, what each knows, what is on disk.  *)

Documents == SUBSET Edits
LockAnswers == Gains \union {"occupied", "ended", "adopt", "leave", "write", "refuse"}
TabSaves == [kind : {"auto", "flush"}, doc : Documents, fresh : BOOLEAN, checked : BOOLEAN]
Letters == [type : {"saved"}, id : {0}]
           \union [type : {"release-request", "released"}, id : 1..MaxAsks]
Flags == BOOLEAN
Lives == {"away", "read", "open"}
TabRoles == {"acquiring", "editor", "secondary"}
Flushes == {"none", "writing", "done"}
Adoptions == {"none", "reading", "read", "asking"}
Reasons == {"requested", "editor-closed"}
Questions == Reasons \union {"none"}
Asks == 0..MaxAsks
SaveQueues == Seq(TabSaves)
TabStates ==
    [life : Lives, role : TabRoles, held : Flags, yielding : Flags,
     handedOver : Flags, timer : Flags, asking : Asks, answering : Asks,
     flush : Flushes, flushFailed : Flags, adopting : Adoptions, why : Reasons,
     read : Documents, fresh : Flags, consent : Flags, confirm : Questions,
     switching : Flags, lost : Flags, behind : Flags,
     doc : Documents, base : Documents, dirty : Flags, armed : Flags,
     writes : SaveQueues, reloaded : Flags, agreed : Documents, typed : Documents]

TabTypes ==
    /\ tab \in [Tabs -> TabStates]
    /\ holder \in Tabs \union {None}
    /\ waiting \in Seq(Tabs)
    /\ \A i, j \in DOMAIN waiting : waiting[i] = waiting[j] => i = j
    /\ inbox \in [Tabs -> Seq(LockAnswers)]
    /\ mail \in [Tabs -> Seq(Letters)]
    /\ scope \in WriteScopes \union {None}
    /\ disk \in Documents
    /\ edits \in 0..MaxEdits /\ asks \in 0..MaxAsks
    /\ opens \in Nat /\ failures \in Nat

Has(box, answers) == \E i \in DOMAIN box : box[i] \in answers
Waits(t, queued) == \E i \in DOMAIN queued : queued[i] = t

\* What a tab believes and what the lock manager knows differ only by the
\* answers on their way: between the two, holds begin and end in turns.
Alternates(held, box, h, t) ==
    /\ \A i \in DOMAIN box : box[i] \in Gains =>
         /\ held => \E k \in 1..(i - 1) : box[k] = "ended"
         /\ \A j \in 1..(i - 1) : box[j] \in Gains =>
              \E k \in (j + 1)..(i - 1) : box[k] = "ended"
         /\ h # t => \E k \in (i + 1)..Len(box) : box[k] = "ended"
    /\ \A i \in DOMAIN box : box[i] = "ended" =>
         /\ ~held => \E k \in 1..(i - 1) : box[k] \in Gains
         /\ \A j \in 1..(i - 1) : box[j] = "ended" =>
              \E k \in (j + 1)..(i - 1) : box[k] \in Gains
         /\ h = t => \E k \in (i + 1)..Len(box) : box[k] \in Gains
    /\ held /\ h # t => \E k \in DOMAIN box : box[k] = "ended"
    /\ ~held /\ h = t => \E k \in DOMAIN box : box[k] \in Gains

\* A tab that has not had its first answer.
Beginning(r, box, t, queued) ==
    /\ r.life # "open" => r.role = "acquiring" /\ box = <<>>
    /\ r.role = "acquiring" =>
         /\ ~r.held /\ ~r.reloaded /\ r.typed = {} /\ r.writes = <<>>
         /\ r.asking = 0 /\ r.flush = "none" /\ r.adopting = "none"
         /\ ~Waits(t, queued) /\ ~Has(box, {"taken", "granted"})
    /\ \A i \in DOMAIN box : box[i] \in {"initial", "occupied"} =>
         i = 1 /\ r.role = "acquiring"

\* The editor holds the lock and is not taking it again; a tab that yields
\* holds it until it hears that it ended; a handover has one save.
Roles(r, box) ==
    /\ r.role = "editor" => r.held /\ ~r.handedOver /\ r.adopting = "none"
    /\ r.armed => r.role = "editor"
    /\ r.yielding => r.held
    /\ r.flush # "none" => r.answering # 0
    /\ r.flush # "none" /\ r.held => r.yielding
    /\ r.handedOver =>
         r.held /\ ((r.yielding /\ r.adopting = "none") \/ Has(box, {"ended"}))
    /\ r.adopting # "none" => r.switching /\ r.confirm = "none" /\ ~r.consent
    /\ r.adopting \in {"read", "asking"} => r.writes = <<>> /\ ~r.handedOver
    /\ r.flush = "writing" => \E i \in DOMAIN r.writes : r.writes[i].kind = "flush"
    /\ \A i \in DOMAIN r.writes : r.writes[i].kind = "flush" =>
         /\ r.flush = "writing"
         /\ \A j \in DOMAIN r.writes : r.writes[j].kind = "flush" => i = j

\* A tab is told to adopt only while it holds the lock, unless it will first
\* hear that it has it anew.
Answered(r, box) ==
    /\ r.adopting = "read" => ~Has(box, {"adopt", "leave"})
    /\ r.adopting = "asking" => \A i \in DOMAIN box :
         box[i] = "adopt" /\ (\A k \in 1..(i - 1) : box[k] \notin Gains) =>
           r.held /\ \A k \in 1..(i - 1) : box[k] # "ended"

\* From the file through the writes in their order to the screen, documents grow.
Growing(r, d) ==
    /\ r.base \subseteq r.doc /\ r.typed \subseteq r.doc
    /\ \A i \in DOMAIN r.writes :
         /\ r.base \subseteq r.writes[i].doc /\ r.writes[i].doc \subseteq r.doc
         /\ r.writes[i].fresh => r.doc \subseteq r.writes[i].doc
         /\ \A j \in 1..(i - 1) : r.writes[j].doc \subseteq r.writes[i].doc
    /\ ~r.dirty => r.doc \subseteq d

\* What an adoption will throw away was agreed to, or is in the file.
Agreed(r, d) ==
    /\ r.consent => r.doc \subseteq r.agreed
    /\ r.adopting # "none" /\ r.fresh => r.doc \subseteq r.agreed \/ r.doc \subseteq d
    /\ r.adopting \in {"read", "asking"} =>
         /\ r.read \subseteq d
         /\ r.fresh => r.doc \subseteq r.agreed \/ r.doc \subseteq r.read

\* What a tab typed as editor is in the file, in the save of the handover, or
\* known to be unsaved.
Reported(r, d) ==
  /\ r.role = "secondary" => r.typed \subseteq d \/ r.lost
  /\ r.role = "editor" /\ ~r.dirty => r.typed \subseteq d
  /\ r.role = "editor" /\ r.flush = "done" => r.typed \subseteq d \/ r.flushFailed
  /\ r.role = "editor" => \A i \in DOMAIN r.writes :
       r.writes[i].kind = "flush" => r.typed \subseteq r.writes[i].doc

\* All of a tab: what it knows, the answers on their way, the lock's holder, who
\* waits for it, and the file.
TabSound(t, r, box, h, queued, d) ==
    /\ Alternates(r.held, box, h, t)
    /\ Beginning(r, box, t, queued)
    /\ Roles(r, box)
    /\ Answered(r, box)
    /\ Growing(r, d)
    /\ Agreed(r, d)
    /\ Reported(r, d)

\* The answer to the save in the scope comes once, to its tab.
AsksOnce(t, box, inside) ==
    \A i \in DOMAIN box : box[i] \in {"write", "refuse"} =>
      /\ inside # None /\ inside.tab = t /\ inside.live /\ ~inside.fenced
      /\ \A j \in DOMAIN box : box[j] \in {"write", "refuse"} => i = j

\* The save in the scope is the first of its tab's.
First(inside, writes) ==
    inside.live => writes # <<>> /\ writes[1].checked /\ writes[1].doc = inside.doc

OneSave ==
    /\ \A t \in Tabs : AsksOnce(t, inbox[t], scope)
    /\ scope # None =>
         /\ scope.expected \subseteq scope.doc
         /\ ~scope.live => scope.fenced
         /\ First(scope, tab[scope.tab].writes)

\* Nobody but t may still change the file.
Alone(t) ==
    /\ scope = None \/ ~scope.fenced \/ (scope.tab = t /\ scope.live)
    /\ \A u \in Tabs : u # t => ~Has(inbox[u], {"write"})

\* As long as its hold lasts, what a tab read to become editor is the file.
UpToDate(r, box, d, alone) ==
    r.held /\ ~Has(box, {"ended"}) =>
      /\ r.adopting \in {"read", "asking"} => r.read = d /\ alone
      /\ r.role = "editor" /\ r.reloaded => r.base = d /\ alone
Current(t) == UpToDate(tab[t], inbox[t], disk, Alone(t))

TabsInv ==
    /\ TabTypes
    /\ \A t \in Tabs : TabSound(t, tab[t], inbox[t], holder, waiting, disk)
    /\ OneSave
    /\ \A t \in Tabs : Current(t)

\* A tab that asked whether the lock is its own is told so only when it is.
MayAdopt(r, e) == e = "adopt" /\ r.adopting = "asking" => r.held

\* What it becomes: nothing changes, it stays what it was, or it shows what it read.
Adopts(r, s) ==
    \/ s = r
    \/ s.adopting = "none" /\ s.role = r.role
    \/ /\ s.adopting = "none" /\ r.adopting = "asking"
       /\ s.base = r.read /\ s.doc = r.read
       /\ r.doc \subseteq r.agreed \/ r.doc \subseteq r.read

\* What an action makes of a tab's state.
AutoSaved(r) == [r EXCEPT !.armed = FALSE, !.writes = Append(@, Write("auto", r.doc))]
Unanswered(r) == [r EXCEPT !.flush = "none", !.answering = 0]
HandedOver(r) ==
    Secondary([Unanswered(r) EXCEPT !.handedOver = TRUE, !.timer = TRUE], "handed-over")
GivenUp(r) == [[r EXCEPT !.confirm = "none"] EXCEPT !.handedOver = TRUE]
HasRead(r, d) == [r EXCEPT !.adopting = "read", !.read = d]
StaysSecondary(r) == [r EXCEPT !.adopting = "none", !.switching = FALSE]
RoleChecked(r) == [r EXCEPT !.writes[1].checked = TRUE]
Edited(r, e) ==
    [r EXCEPT !.doc = @ \union {e}, !.dirty = TRUE,
              !.consent = FALSE, !.fresh = FALSE,
              !.armed = r.role = "editor",
              !.typed = IF r.role = "editor" /\ r.flush = "none" THEN @ \union {e} ELSE @,
              !.writes = [i \in DOMAIN @ |-> [@[i] EXCEPT !.fresh = FALSE]]]
Agreeing(r) ==
    [r EXCEPT !.consent = TRUE, !.confirm = "none", !.switching = TRUE, !.agreed = r.doc]
Asking(r, n) == [Agreeing(r) EXCEPT !.asking = n]
Joined(r) == [r EXCEPT !.life = "open"]
Opened(d) == [Away EXCEPT !.life = "read", !.doc = d, !.base = d]

LEMMA TailBox ==
  ASSUME NEW S, NEW box \in Seq(S), box # <<>>
  PROVE  /\ Tail(box) \in Seq(S) /\ Len(box) \in Nat /\ Len(Tail(box)) = Len(box) - 1
         /\ Head(box) = box[1] /\ Head(box) \in S /\ 1 \in DOMAIN box
         /\ DOMAIN Tail(box) = 1..(Len(box) - 1) /\ DOMAIN box = 1..Len(box)
         /\ \A i \in DOMAIN Tail(box) : Tail(box)[i] = box[i + 1] /\ i + 1 \in DOMAIN box
  OBVIOUS

LEMMA AppendBox ==
  ASSUME NEW S, NEW box \in Seq(S), NEW e \in S
  PROVE  /\ Append(box, e) \in Seq(S) /\ Len(box) \in Nat
         /\ Len(Append(box, e)) = Len(box) + 1 /\ Append(box, e) # <<>>
         /\ DOMAIN Append(box, e) = 1..(Len(box) + 1) /\ DOMAIN box = 1..Len(box)
         /\ \A i \in DOMAIN box : Append(box, e)[i] = box[i] /\ i \in DOMAIN Append(box, e)
         /\ Append(box, e)[Len(box) + 1] = e
  OBVIOUS

\* The kinds of answers differ.
LEMMA GainsDiffer ==
  /\ {"initial", "taken", "granted"} \subseteq Gains
  /\ \A e \in {"ended", "occupied", "adopt", "leave", "write", "refuse"} : e \notin Gains
  /\ "ended" \in LockAnswers /\ Gains \subseteq LockAnswers
  /\ {"occupied", "adopt", "leave", "write", "refuse"} \subseteq LockAnswers
  BY DEF Gains, LockAnswers

\* A tab hears the next answer.
LEMMA AlternatesTail ==
  ASSUME NEW held \in BOOLEAN, NEW after \in BOOLEAN, NEW h, NEW t,
         NEW box \in Seq(LockAnswers), box # <<>>,
         Alternates(held, box, h, t),
         Head(box) \in Gains => after,
         Head(box) = "ended" => ~after,
         Head(box) \notin Gains /\ Head(box) # "ended" => (after <=> held)
  PROVE  /\ Alternates(after, Tail(box), h, t)
         /\ Head(box) \in Gains => ~held
         /\ Head(box) = "ended" => held
  <1> DEFINE s == Tail(box)
  <1>1. /\ s \in Seq(LockAnswers) /\ Len(box) \in Nat /\ Len(s) = Len(box) - 1
        /\ box[1] = Head(box) /\ 1 \in DOMAIN box
        /\ DOMAIN s = 1..(Len(box) - 1) /\ DOMAIN box = 1..Len(box)
        /\ \A i \in DOMAIN s : s[i] = box[i + 1] /\ i + 1 \in DOMAIN box
    BY TailBox
  <1>h. /\ \A i \in DOMAIN box : i > 1 => i - 1 \in DOMAIN s /\ s[i - 1] = box[i]
    BY <1>1
  <1> HIDE DEF s
  <1>2. (Head(box) \in Gains => ~held) /\ (Head(box) = "ended" => held)
    BY <1>1 DEF Alternates
  <1>3. ASSUME NEW i \in DOMAIN s, s[i] \in Gains
        PROVE  /\ after => \E k \in 1..(i - 1) : s[k] = "ended"
               /\ \A j \in 1..(i - 1) : s[j] \in Gains =>
                    \E k \in (j + 1)..(i - 1) : s[k] = "ended"
               /\ h # t => \E k \in (i + 1)..Len(s) : s[k] = "ended"
    <2>1. i + 1 \in DOMAIN box /\ box[i + 1] \in Gains /\ i \in 1..(Len(box) - 1)
      BY <1>1, <1>3
    <2>2. ASSUME after PROVE \E k \in 1..(i - 1) : s[k] = "ended"
      <3>1. \E k \in 2..i : box[k] = "ended"
        <4>1. CASE Head(box) \in Gains
          <5>1. \E k \in (1 + 1)..((i + 1) - 1) : box[k] = "ended"
            BY <2>1, <1>1, <4>1 DEF Alternates
          <5> QED  BY <5>1, <2>1
        <4>2. CASE Head(box) \notin Gains
          <5>1. held /\ box[1] # "ended"  BY <4>2, <2>2, <1>1
          <5>2. \E k \in 1..((i + 1) - 1) : box[k] = "ended"
            BY <5>1, <2>1 DEF Alternates
          <5> QED  BY <5>1, <5>2, <2>1
        <4> QED  BY <4>1, <4>2
      <3>2. PICK k \in 2..i : box[k] = "ended"  BY <3>1
      <3>3. k - 1 \in 1..(i - 1) /\ s[k - 1] = box[k]
        <4>1. k \in Nat /\ i \in Nat /\ Len(box) \in Nat /\ Len(s) = Len(box) - 1
          BY <2>1, <1>1
        <4>2. k \in 1..Len(box) /\ k > 1 /\ k - 1 \in 1..(i - 1)
          BY <4>1, <2>1
        <4> QED  BY <4>2, <1>1, <1>h
      <3> QED  BY <3>2, <3>3
    <2>3. ASSUME NEW j \in 1..(i - 1), s[j] \in Gains
          PROVE  \E k \in (j + 1)..(i - 1) : s[k] = "ended"
      <3>1. j \in DOMAIN s /\ box[j + 1] \in Gains /\ j + 1 \in 1..((i + 1) - 1)
        BY <2>1, <1>1, <2>3
      <3>2. PICK k \in ((j + 1) + 1)..((i + 1) - 1) : box[k] = "ended"
        BY <3>1, <2>1 DEF Alternates
      <3>3. k - 1 \in (j + 1)..(i - 1) /\ s[k - 1] = box[k]
        <4>1. k \in Nat /\ i \in Nat /\ Len(box) \in Nat /\ Len(s) = Len(box) - 1
          BY <2>1, <1>1
        <4>2. k \in 1..Len(box) /\ k > 1 /\ k - 1 \in (j + 1)..(i - 1)
          BY <4>1, <2>1
        <4> QED  BY <4>2, <1>1, <1>h
      <3> QED  BY <3>2, <3>3
    <2>4. ASSUME h # t PROVE \E k \in (i + 1)..Len(s) : s[k] = "ended"
      <3>1. PICK k \in ((i + 1) + 1)..Len(box) : box[k] = "ended"
        BY <2>1, <2>4 DEF Alternates
      <3>2. k - 1 \in (i + 1)..Len(s) /\ s[k - 1] = box[k]
        <4>1. k \in Nat /\ i \in Nat /\ Len(box) \in Nat /\ Len(s) = Len(box) - 1
          BY <2>1, <1>1
        <4>2. k \in 1..Len(box) /\ k > 1 /\ k - 1 \in (i + 1)..Len(s)
          BY <4>1, <2>1
        <4> QED  BY <4>2, <1>1, <1>h
      <3> QED  BY <3>1, <3>2
    <2> QED  BY <2>2, <2>3, <2>4
  <1>4. ASSUME NEW i \in DOMAIN s, s[i] = "ended"
        PROVE  /\ ~after => \E k \in 1..(i - 1) : s[k] \in Gains
               /\ \A j \in 1..(i - 1) : s[j] = "ended" =>
                    \E k \in (j + 1)..(i - 1) : s[k] \in Gains
               /\ h = t => \E k \in (i + 1)..Len(s) : s[k] \in Gains
    <2>1. i + 1 \in DOMAIN box /\ box[i + 1] = "ended" /\ i \in 1..(Len(box) - 1)
      BY <1>1, <1>4
    <2>2. ASSUME ~after PROVE \E k \in 1..(i - 1) : s[k] \in Gains
      <3>1. \E k \in 2..i : box[k] \in Gains
        <4>1. CASE Head(box) = "ended"
          <5>1. \E k \in (1 + 1)..((i + 1) - 1) : box[k] \in Gains
            BY <2>1, <1>1, <4>1 DEF Alternates
          <5> QED  BY <5>1, <2>1
        <4>2. CASE Head(box) # "ended"
          <5>1. ~held /\ box[1] \notin Gains  BY <4>2, <2>2, <1>1
          <5>2. \E k \in 1..((i + 1) - 1) : box[k] \in Gains
            BY <5>1, <2>1 DEF Alternates
          <5> QED  BY <5>1, <5>2, <2>1
        <4> QED  BY <4>1, <4>2
      <3>2. PICK k \in 2..i : box[k] \in Gains  BY <3>1
      <3>3. k - 1 \in 1..(i - 1) /\ s[k - 1] = box[k]
        <4>1. k \in Nat /\ i \in Nat /\ Len(box) \in Nat /\ Len(s) = Len(box) - 1
          BY <2>1, <1>1
        <4>2. k \in 1..Len(box) /\ k > 1 /\ k - 1 \in 1..(i - 1)
          BY <4>1, <2>1
        <4> QED  BY <4>2, <1>1, <1>h
      <3> QED  BY <3>2, <3>3
    <2>3. ASSUME NEW j \in 1..(i - 1), s[j] = "ended"
          PROVE  \E k \in (j + 1)..(i - 1) : s[k] \in Gains
      <3>1. j \in DOMAIN s /\ box[j + 1] = "ended" /\ j + 1 \in 1..((i + 1) - 1)
        BY <2>1, <1>1, <2>3
      <3>2. PICK k \in ((j + 1) + 1)..((i + 1) - 1) : box[k] \in Gains
        BY <3>1, <2>1 DEF Alternates
      <3>3. k - 1 \in (j + 1)..(i - 1) /\ s[k - 1] = box[k]
        <4>1. k \in Nat /\ i \in Nat /\ Len(box) \in Nat /\ Len(s) = Len(box) - 1
          BY <2>1, <1>1
        <4>2. k \in 1..Len(box) /\ k > 1 /\ k - 1 \in (j + 1)..(i - 1)
          BY <4>1, <2>1
        <4> QED  BY <4>2, <1>1, <1>h
      <3> QED  BY <3>2, <3>3
    <2>4. ASSUME h = t PROVE \E k \in (i + 1)..Len(s) : s[k] \in Gains
      <3>1. PICK k \in ((i + 1) + 1)..Len(box) : box[k] \in Gains
        BY <2>1, <2>4 DEF Alternates
      <3>2. k - 1 \in (i + 1)..Len(s) /\ s[k - 1] = box[k]
        <4>1. k \in Nat /\ i \in Nat /\ Len(box) \in Nat /\ Len(s) = Len(box) - 1
          BY <2>1, <1>1
        <4>2. k \in 1..Len(box) /\ k > 1 /\ k - 1 \in (i + 1)..Len(s)
          BY <4>1, <2>1
        <4> QED  BY <4>2, <1>1, <1>h
      <3> QED  BY <3>1, <3>2
    <2> QED  BY <2>2, <2>3, <2>4
  <1>5. ASSUME after, h # t PROVE \E k \in DOMAIN s : s[k] = "ended"
    <2>1. \E k \in 2..Len(box) : box[k] = "ended"
      <3>1. CASE Head(box) \in Gains
        <4>1. \E k \in (1 + 1)..Len(box) : box[k] = "ended"
          BY <1>1, <3>1, <1>5 DEF Alternates
        <4> QED  BY <4>1
      <3>2. CASE Head(box) \notin Gains
        <4>1. held /\ box[1] # "ended"  BY <3>2, <1>5, <1>1
        <4>2. \E k \in DOMAIN box : box[k] = "ended"  BY <4>1, <1>5 DEF Alternates
        <4> QED  BY <4>1, <4>2, <1>1
      <3> QED  BY <3>1, <3>2
    <2>2. PICK k \in 2..Len(box) : box[k] = "ended"  BY <2>1
    <2>3. k - 1 \in DOMAIN s /\ s[k - 1] = box[k]  BY <1>1, <1>h
    <2> QED  BY <2>2, <2>3
  <1>6. ASSUME ~after, h = t PROVE \E k \in DOMAIN s : s[k] \in Gains
    <2>1. \E k \in 2..Len(box) : box[k] \in Gains
      <3>1. CASE Head(box) = "ended"
        <4>1. \E k \in (1 + 1)..Len(box) : box[k] \in Gains
          BY <1>1, <3>1, <1>6 DEF Alternates
        <4> QED  BY <4>1
      <3>2. CASE Head(box) # "ended"
        <4>1. ~held /\ box[1] \notin Gains  BY <3>2, <1>6, <1>1
        <4>2. \E k \in DOMAIN box : box[k] \in Gains  BY <4>1, <1>6 DEF Alternates
        <4> QED  BY <4>1, <4>2, <1>1
      <3> QED  BY <3>1, <3>2
    <2>2. PICK k \in 2..Len(box) : box[k] \in Gains  BY <2>1
    <2>3. k - 1 \in DOMAIN s /\ s[k - 1] = box[k]  BY <1>1, <1>h
    <2> QED  BY <2>2, <2>3
  <1>7. Alternates(after, s, h, t)
    BY <1>3, <1>4, <1>5, <1>6 DEF Alternates
  <1> QED  BY <1>2, <1>7 DEF s

\* The lock manager answers a tab: its hold begins, it ends, or neither.
LEMMA AlternatesAppend ==
  ASSUME NEW held \in BOOLEAN, NEW h, NEW after, NEW t,
         NEW box \in Seq(LockAnswers), NEW e \in LockAnswers,
         Alternates(held, box, h, t),
         e \in Gains => h # t /\ after = t,
         e = "ended" => h = t /\ after # t,
         e \notin Gains /\ e # "ended" => (h = t <=> after = t)
  PROVE  Alternates(held, Append(box, e), after, t)
  <1> DEFINE s == Append(box, e)
             n == Len(box) + 1
  <1>1. /\ Len(box) \in Nat /\ Len(s) = n /\ DOMAIN s = 1..n /\ DOMAIN box = 1..Len(box)
        /\ \A i \in DOMAIN box : s[i] = box[i] /\ i \in DOMAIN s
        /\ s[n] = e /\ n \in DOMAIN s
    BY AppendBox
  <1>2. /\ \A i \in DOMAIN s : i # n => i \in DOMAIN box /\ s[i] = box[i]
        /\ \A i \in DOMAIN s : \A k \in 1..(i - 1) : k \in DOMAIN box /\ s[k] = box[k]
        /\ "ended" \notin Gains
    BY <1>1, GainsDiffer
  <1> HIDE DEF s
  <1>3. ASSUME NEW i \in DOMAIN s, s[i] \in Gains
        PROVE  /\ held => \E k \in 1..(i - 1) : s[k] = "ended"
               /\ \A j \in 1..(i - 1) : s[j] \in Gains =>
                    \E k \in (j + 1)..(i - 1) : s[k] = "ended"
               /\ after # t => \E k \in (i + 1)..Len(s) : s[k] = "ended"
    <2>1. CASE i = n
      <3>1. e \in Gains /\ h # t /\ after = t  BY <2>1, <1>1, <1>3
      <3>2. ASSUME held PROVE \E k \in 1..(i - 1) : s[k] = "ended"
        <4>1. PICK k \in DOMAIN box : box[k] = "ended"  BY <3>1, <3>2 DEF Alternates
        <4> QED  BY <4>1, <1>1, <2>1
      <3>3. ASSUME NEW j \in 1..(i - 1), s[j] \in Gains
            PROVE  \E k \in (j + 1)..(i - 1) : s[k] = "ended"
        <4>1. j \in DOMAIN box /\ box[j] \in Gains  BY <3>3, <1>2
        <4>2. PICK k \in (j + 1)..Len(box) : box[k] = "ended"
          BY <4>1, <3>1 DEF Alternates
        <4> QED  BY <4>1, <4>2, <1>1, <2>1
      <3> QED  BY <3>1, <3>2, <3>3
    <2>2. CASE i # n
      <3>1. i \in DOMAIN box /\ box[i] \in Gains /\ i \in 1..Len(box)
        BY <2>2, <1>1, <1>2, <1>3
      <3>2. ASSUME held PROVE \E k \in 1..(i - 1) : s[k] = "ended"
        <4>1. PICK k \in 1..(i - 1) : box[k] = "ended"  BY <3>1, <3>2 DEF Alternates
        <4> QED  BY <4>1, <1>2
      <3>3. ASSUME NEW j \in 1..(i - 1), s[j] \in Gains
            PROVE  \E k \in (j + 1)..(i - 1) : s[k] = "ended"
        <4>1. box[j] \in Gains  BY <3>3, <1>2
        <4>2. PICK k \in (j + 1)..(i - 1) : box[k] = "ended"
          BY <4>1, <3>1 DEF Alternates
        <4>3. k \in 1..(i - 1)  BY <3>1
        <4> QED  BY <4>2, <4>3, <1>2
      <3>4. ASSUME after # t PROVE \E k \in (i + 1)..Len(s) : s[k] = "ended"
        <4>1. CASE e = "ended"
          BY <4>1, <1>1, <3>1
        <4>2. CASE e # "ended"
          <5>1. h # t  BY <4>2, <3>4
          <5>2. PICK k \in (i + 1)..Len(box) : box[k] = "ended"
            BY <5>1, <3>1 DEF Alternates
          <5>3. k \in DOMAIN box /\ k \in (i + 1)..Len(s)  BY <3>1, <1>1
          <5> QED  BY <5>2, <5>3, <1>1
        <4> QED  BY <4>1, <4>2
      <3> QED  BY <3>2, <3>3, <3>4
    <2> QED  BY <2>1, <2>2
  <1>4. ASSUME NEW i \in DOMAIN s, s[i] = "ended"
        PROVE  /\ ~held => \E k \in 1..(i - 1) : s[k] \in Gains
               /\ \A j \in 1..(i - 1) : s[j] = "ended" =>
                    \E k \in (j + 1)..(i - 1) : s[k] \in Gains
               /\ after = t => \E k \in (i + 1)..Len(s) : s[k] \in Gains
    <2>1. CASE i = n
      <3>1. e = "ended" /\ h = t /\ after # t  BY <2>1, <1>1, <1>4
      <3>2. ASSUME ~held PROVE \E k \in 1..(i - 1) : s[k] \in Gains
        <4>1. PICK k \in DOMAIN box : box[k] \in Gains  BY <3>1, <3>2 DEF Alternates
        <4> QED  BY <4>1, <1>1, <2>1
      <3>3. ASSUME NEW j \in 1..(i - 1), s[j] = "ended"
            PROVE  \E k \in (j + 1)..(i - 1) : s[k] \in Gains
        <4>1. j \in DOMAIN box /\ box[j] = "ended"  BY <3>3, <1>2
        <4>2. PICK k \in (j + 1)..Len(box) : box[k] \in Gains
          BY <4>1, <3>1 DEF Alternates
        <4> QED  BY <4>1, <4>2, <1>1, <2>1
      <3> QED  BY <3>1, <3>2, <3>3
    <2>2. CASE i # n
      <3>1. i \in DOMAIN box /\ box[i] = "ended" /\ i \in 1..Len(box)
        BY <2>2, <1>1, <1>2, <1>4
      <3>2. ASSUME ~held PROVE \E k \in 1..(i - 1) : s[k] \in Gains
        <4>1. PICK k \in 1..(i - 1) : box[k] \in Gains  BY <3>1, <3>2 DEF Alternates
        <4> QED  BY <4>1, <1>2
      <3>3. ASSUME NEW j \in 1..(i - 1), s[j] = "ended"
            PROVE  \E k \in (j + 1)..(i - 1) : s[k] \in Gains
        <4>1. box[j] = "ended"  BY <3>3, <1>2
        <4>2. PICK k \in (j + 1)..(i - 1) : box[k] \in Gains
          BY <4>1, <3>1 DEF Alternates
        <4>3. k \in 1..(i - 1)  BY <3>1
        <4> QED  BY <4>2, <4>3, <1>2
      <3>4. ASSUME after = t PROVE \E k \in (i + 1)..Len(s) : s[k] \in Gains
        <4>1. CASE e \in Gains
          BY <4>1, <1>1, <3>1
        <4>2. CASE e \notin Gains
          <5>1. h = t  BY <4>2, <3>4
          <5>2. PICK k \in (i + 1)..Len(box) : box[k] \in Gains
            BY <5>1, <3>1 DEF Alternates
          <5>3. k \in DOMAIN box /\ k \in (i + 1)..Len(s)  BY <3>1, <1>1
          <5> QED  BY <5>2, <5>3, <1>1
        <4> QED  BY <4>1, <4>2
      <3> QED  BY <3>2, <3>3, <3>4
    <2> QED  BY <2>1, <2>2
  <1>5. ASSUME held, after # t PROVE \E k \in DOMAIN s : s[k] = "ended"
    <2>1. CASE e = "ended"  BY <2>1, <1>1
    <2>2. CASE e # "ended"
      <3>1. h # t  BY <2>2, <1>5
      <3>2. PICK k \in DOMAIN box : box[k] = "ended"  BY <3>1, <1>5 DEF Alternates
      <3> QED  BY <3>2, <1>1
    <2> QED  BY <2>1, <2>2
  <1>6. ASSUME ~held, after = t PROVE \E k \in DOMAIN s : s[k] \in Gains
    <2>1. CASE e \in Gains  BY <2>1, <1>1
    <2>2. CASE e \notin Gains
      <3>1. h = t  BY <2>2, <1>6
      <3>2. PICK k \in DOMAIN box : box[k] \in Gains  BY <3>1, <1>6 DEF Alternates
      <3> QED  BY <3>2, <1>1
    <2> QED  BY <2>1, <2>2
  <1>7. Alternates(held, s, after, t)
    BY <1>3, <1>4, <1>5, <1>6 DEF Alternates
  <1> QED  BY <1>7 DEF s

\* A tab leaves the lock's queue.
LEMMA WithoutQueue ==
  ASSUME NEW s \in Seq(Tabs), \A i, j \in DOMAIN s : s[i] = s[j] => i = j,
         NEW t \in Tabs
  PROVE  /\ Without(s, t) \in Seq(Tabs)
         /\ \A i, j \in DOMAIN Without(s, t) :
              Without(s, t)[i] = Without(s, t)[j] => i = j
         /\ ~Waits(t, Without(s, t))
         /\ \A u : u # t => (Waits(u, Without(s, t)) <=> Waits(u, s))
  <1> DEFINE r == Without(s, t)
  <1>1. CASE t \in {s[i] : i \in DOMAIN s}
    <2> DEFINE at == CHOOSE i \in DOMAIN s : s[i] = t
    <2>1. at \in DOMAIN s /\ s[at] = t
      BY <1>1
    <2>2. r = [i \in 1..(Len(s) - 1) |-> IF i < at THEN s[i] ELSE s[i + 1]]
      BY <1>1 DEF Without
    <2> HIDE DEF at
    <2>3. Len(s) \in Nat /\ DOMAIN s = 1..Len(s) /\ at \in 1..Len(s)
      BY <2>1
    <2>6. r \in Seq(Tabs) /\ DOMAIN r = 1..(Len(s) - 1)
      <3>1. \A i \in 1..(Len(s) - 1) : i \in 1..Len(s) /\ i + 1 \in 1..Len(s)
        BY <2>3
      <3>2. \A i \in 1..(Len(s) - 1) : (IF i < at THEN s[i] ELSE s[i + 1]) \in Tabs
        BY <3>1, <2>3
      <3>3. Len(s) - 1 \in Nat
        BY <2>3
      <3>4. r \in [1..(Len(s) - 1) -> Tabs]
        BY <3>2, <2>2
      <3> QED  BY <3>3, <3>4
    <2>7. \A i \in 1..(Len(s) - 1) : r[i] = IF i < at THEN s[i] ELSE s[i + 1]
      BY <2>2
    <2> HIDE DEF r
    <2>8. ASSUME NEW i \in DOMAIN r, NEW j \in DOMAIN r, r[i] = r[j] PROVE i = j
      <3> DEFINE m == IF i < at THEN i ELSE i + 1
                 n == IF j < at THEN j ELSE j + 1
      <3>1. i \in Nat /\ j \in Nat /\ at \in Nat
        BY <2>3, <2>6
      <3>2. m \in DOMAIN s /\ n \in DOMAIN s
        BY <3>1, <2>3, <2>6
      <3>3. r[i] = s[m] /\ r[j] = s[n]
        BY <2>6, <2>7
      <3>4. m = n
        BY <3>2, <3>3, <2>8
      <3> QED  BY <3>1, <3>4
    <2>9. ~Waits(t, r)
      BY <2>1, <2>3, <2>6, <2>7 DEF Waits
    <2>10. ASSUME NEW u, u # t PROVE Waits(u, r) <=> Waits(u, s)
      <3>1. ASSUME Waits(u, r) PROVE Waits(u, s)
        BY <3>1, <2>3, <2>6, <2>7 DEF Waits
      <3>2. ASSUME Waits(u, s) PROVE Waits(u, r)
        <4>1. PICK i \in DOMAIN s : s[i] = u
          BY <3>2 DEF Waits
        <4>2. CASE i < at
          <5>1. i \in 1..(Len(s) - 1) /\ r[i] = u  BY <4>1, <4>2, <2>3, <2>7
          <5> QED  BY <5>1, <2>6 DEF Waits
        <4>3. CASE i > at
          <5>1. i - 1 \in 1..(Len(s) - 1) /\ ~(i - 1 < at) /\ (i - 1) + 1 = i
            BY <4>1, <4>3, <2>3
          <5>2. r[i - 1] = u  BY <5>1, <4>1, <2>7
          <5> QED  BY <5>1, <5>2, <2>6 DEF Waits
        <4> QED  BY <4>1, <4>2, <4>3, <2>10, <2>1, <2>3
      <3> QED  BY <3>1, <3>2
    <2> QED  BY <2>6, <2>8, <2>9, <2>10 DEF r
  <1>2. CASE t \notin {s[i] : i \in DOMAIN s}
    <2>1. Without(s, t) = s
      BY <1>2 DEF Without
    <2> QED  BY <1>2, <2>1 DEF Waits
  <1> QED  BY <1>1, <1>2

\* A tab goes to the end of the lock's queue.
LEMMA AgainQueue ==
  ASSUME NEW s \in Seq(Tabs), \A i, j \in DOMAIN s : s[i] = s[j] => i = j,
         NEW t \in Tabs
  PROVE  /\ Append(Without(s, t), t) \in Seq(Tabs)
         /\ \A i, j \in DOMAIN Append(Without(s, t), t) :
              Append(Without(s, t), t)[i] = Append(Without(s, t), t)[j] => i = j
         /\ \A u : u # t => (Waits(u, Append(Without(s, t), t)) <=> Waits(u, s))
  <1> DEFINE r == Without(s, t)
             q == Append(r, t)
  <1>1. /\ r \in Seq(Tabs) /\ \A i, j \in DOMAIN r : r[i] = r[j] => i = j
        /\ ~Waits(t, r) /\ \A u : u # t => (Waits(u, r) <=> Waits(u, s))
    BY WithoutQueue
  <1> HIDE DEF r
  <1>2. /\ q \in Seq(Tabs) /\ Len(r) \in Nat
        /\ DOMAIN q = 1..(Len(r) + 1) /\ DOMAIN r = 1..Len(r)
        /\ \A i \in DOMAIN r : q[i] = r[i] /\ i \in DOMAIN q
        /\ q[Len(r) + 1] = t
    BY <1>1, AppendBox
  <1> HIDE DEF q
  <1>3. \A i \in DOMAIN q : i = Len(r) + 1 \/ (i \in DOMAIN r /\ q[i] = r[i] /\ q[i] # t)
    BY <1>1, <1>2 DEF Waits
  <1>4. \A i, j \in DOMAIN q : q[i] = q[j] => i = j
    BY <1>1, <1>2, <1>3
  <1>5. \A u : u # t => (Waits(u, q) <=> Waits(u, r))
    BY <1>2, <1>3 DEF Waits
  <1> QED  BY <1>1, <1>2, <1>4, <1>5 DEF q, r

\* The lock's queue without its head.
LEMMA WaitingTail ==
  ASSUME NEW s \in Seq(Tabs), \A i, j \in DOMAIN s : s[i] = s[j] => i = j, s # <<>>
  PROVE  /\ Head(s) \in Tabs /\ Tail(s) \in Seq(Tabs) /\ Waits(Head(s), s)
         /\ \A i, j \in DOMAIN Tail(s) : Tail(s)[i] = Tail(s)[j] => i = j
         /\ \A u : u # Head(s) => (Waits(u, Tail(s)) <=> Waits(u, s))
         /\ ~Waits(Head(s), Tail(s))
  <1> DEFINE r == Tail(s)
  <1>1. /\ r \in Seq(Tabs) /\ Len(s) \in Nat /\ Len(r) = Len(s) - 1
        /\ Head(s) = s[1] /\ Head(s) \in Tabs /\ 1 \in DOMAIN s
        /\ DOMAIN r = 1..(Len(s) - 1) /\ DOMAIN s = 1..Len(s)
        /\ \A i \in DOMAIN r : r[i] = s[i + 1] /\ i + 1 \in DOMAIN s
    BY TailBox
  <1> HIDE DEF r
  <1>2. \A i \in DOMAIN s : i # 1 => i - 1 \in DOMAIN r /\ r[i - 1] = s[i]
    BY <1>1
  <1>3. \A i, j \in DOMAIN r : r[i] = r[j] => i = j
    BY <1>1
  <1>4. \A u : u # Head(s) => (Waits(u, r) <=> Waits(u, s))
    BY <1>1, <1>2 DEF Waits
  <1>5. ~Waits(Head(s), r)
    BY <1>1 DEF Waits
  <1>6. Waits(Head(s), s)
    BY <1>1 DEF Waits
  <1> QED  BY <1>1, <1>3, <1>4, <1>5, <1>6 DEF r

\* What is in a box after its next answer is heard, and after another comes.
LEMMA HasTail ==
  ASSUME NEW box \in Seq(LockAnswers), box # <<>>, NEW S
  PROVE  /\ Has(Tail(box), S) => Has(box, S)
         /\ Has(box, S) /\ Head(box) \notin S => Has(Tail(box), S)
  <1>1. /\ Len(box) \in Nat /\ Head(box) = box[1]
        /\ DOMAIN Tail(box) = 1..(Len(box) - 1) /\ DOMAIN box = 1..Len(box)
        /\ \A i \in DOMAIN Tail(box) : Tail(box)[i] = box[i + 1] /\ i + 1 \in DOMAIN box
    BY TailBox
  <1>2. \A i \in DOMAIN box : i # 1 => i - 1 \in DOMAIN Tail(box) /\ Tail(box)[i - 1] = box[i]
    BY <1>1
  <1>3. Has(Tail(box), S) => Has(box, S)
    BY <1>1 DEF Has
  <1>4. Has(box, S) /\ Head(box) \notin S => Has(Tail(box), S)
    BY <1>1, <1>2 DEF Has
  <1> QED  BY <1>3, <1>4

LEMMA HasAppend ==
  ASSUME NEW box \in Seq(LockAnswers), NEW e \in LockAnswers, NEW S
  PROVE  Has(Append(box, e), S) <=> Has(box, S) \/ e \in S
  <1>1. /\ Len(box) \in Nat
        /\ DOMAIN Append(box, e) = 1..(Len(box) + 1) /\ DOMAIN box = 1..Len(box)
        /\ \A i \in DOMAIN box : Append(box, e)[i] = box[i] /\ i \in DOMAIN Append(box, e)
        /\ Append(box, e)[Len(box) + 1] = e
    BY AppendBox
  <1>2. Has(Append(box, e), S) => Has(box, S) \/ e \in S
    BY <1>1 DEF Has
  <1>3. Has(box, S) => Has(Append(box, e), S)
    BY <1>1 DEF Has
  <1>4. e \in S => Has(Append(box, e), S)
    BY <1>1 DEF Has
  <1> QED  BY <1>2, <1>3, <1>4

\* Another answer is on its way to a tab, which does not change.
LEMMA AnswerComes ==
  ASSUME NEW t, NEW r \in TabStates, NEW box \in Seq(LockAnswers), NEW h, NEW after,
         NEW queued, NEW d, NEW e \in LockAnswers,
         TabSound(t, r, box, h, queued, d),
         e \notin {"initial", "occupied", "adopt", "leave"},
         e \in {"taken", "granted"} => r.role # "acquiring",
         r.life = "open",
         e \in Gains => h # t /\ after = t,
         e = "ended" => h = t /\ after # t,
         e \notin Gains /\ e # "ended" => (h = t <=> after = t)
  PROVE  TabSound(t, r, Append(box, e), after, queued, d)
  <1> DEFINE s == Append(box, e)
  <1>1. /\ Len(box) \in Nat /\ DOMAIN s = 1..(Len(box) + 1) /\ DOMAIN box = 1..Len(box)
        /\ \A i \in DOMAIN box : s[i] = box[i] /\ i \in DOMAIN s
        /\ s[Len(box) + 1] = e
    BY AppendBox
  <1>2. \A S : Has(s, S) <=> Has(box, S) \/ e \in S
    BY HasAppend
  <1>a. Alternates(r.held, s, after, t)
    <2>1. r.held \in BOOLEAN /\ Alternates(r.held, box, h, t)
      BY DEF TabSound, TabStates, Flags
    <2> QED  BY <2>1, AlternatesAppend
  <1> HIDE DEF s
  <1>3. Beginning(r, s, t, queued)
    <2>1. Beginning(r, box, t, queued)
      BY DEF TabSound
    <2>2. \A i \in DOMAIN s : s[i] \in {"initial", "occupied"} =>
            i \in DOMAIN box /\ box[i] = s[i]
      BY <1>1
    <2>3. Has(s, {"taken", "granted"}) => r.role # "acquiring"
      BY <1>2, <2>1 DEF Beginning
    <2> QED  BY <2>1, <2>2, <2>3 DEF Beginning
  <1>4. Roles(r, s)
    BY <1>2 DEF TabSound, Roles
  <1>5. Answered(r, s)
    <2>1. Answered(r, box)
      BY DEF TabSound
    <2>2. r.adopting = "read" => ~Has(s, {"adopt", "leave"})
      BY <2>1, <1>2 DEF Answered
    <2>3. ASSUME r.adopting = "asking", NEW i \in DOMAIN s, s[i] = "adopt",
                 \A k \in 1..(i - 1) : s[k] \notin Gains
          PROVE  r.held /\ \A k \in 1..(i - 1) : s[k] # "ended"
      <3>1. i \in DOMAIN box /\ box[i] = "adopt"
        BY <1>1, <2>3
      <3>2. \A k \in 1..(i - 1) : k \in DOMAIN box /\ s[k] = box[k]
        BY <3>1, <1>1
      <3>3. r.held /\ \A k \in 1..(i - 1) : box[k] # "ended"
        BY <2>1, <2>3, <3>1, <3>2 DEF Answered
      <3> QED  BY <3>2, <3>3
    <2> QED  BY <2>2, <2>3 DEF Answered
  <1> QED  BY <1>a, <1>3, <1>4, <1>5 DEF TabSound, s

\* The file grows, other tabs join or leave the lock's queue or take the lock.
LEMMA OthersMove ==
  ASSUME NEW t, NEW r \in TabStates, NEW box \in Seq(LockAnswers), NEW h, NEW after,
         NEW queued, NEW then, NEW d \in Documents, NEW e \in Documents,
         TabSound(t, r, box, h, queued, d),
         h = t <=> after = t,
         Waits(t, then) => Waits(t, queued) \/ r.role # "acquiring",
         d \subseteq e
  PROVE  TabSound(t, r, box, after, then, e)
  <1>1. Alternates(r.held, box, after, t)
    BY DEF TabSound, Alternates
  <1>2. Beginning(r, box, t, then)
    BY DEF TabSound, Beginning
  <1>3. Growing(r, e)
    BY DEF TabSound, Growing
  <1>4. Agreed(r, e)
    BY DEF TabSound, Agreed
  <1>5. Reported(r, e)
    BY DEF TabSound, Reported
  <1> QED  BY <1>1, <1>2, <1>3, <1>4, <1>5 DEF TabSound

\* What of a tab stays when another part of it changes.
SameLock(r, s) ==
    /\ s.life = r.life /\ s.role = r.role /\ s.held = r.held
    /\ s.yielding = r.yielding /\ s.handedOver = r.handedOver
SameFlush(r, s) ==
    s.flush = r.flush /\ s.flushFailed = r.flushFailed /\ s.writes = r.writes
    /\ s.answering = r.answering
SameAdoption(r, s) ==
    /\ s.adopting = r.adopting /\ s.read = r.read /\ s.fresh = r.fresh
    /\ s.consent = r.consent /\ s.confirm = r.confirm
    /\ s.switching = r.switching /\ s.agreed = r.agreed
SameWords(r, s) ==
    /\ s.doc = r.doc /\ s.base = r.base /\ s.typed = r.typed
    /\ s.dirty = r.dirty /\ s.armed = r.armed
    /\ s.lost = r.lost /\ s.reloaded = r.reloaded
SameReading(r, s) ==
    /\ s.adopting = r.adopting /\ s.read = r.read
    /\ s.base = r.base /\ s.reloaded = r.reloaded

LEMMA NothingChanges ==
  ASSUME NEW t, NEW r \in TabStates, NEW s \in TabStates,
         NEW box \in Seq(LockAnswers), NEW h, NEW queued, NEW d,
         TabSound(t, r, box, h, queued, d),
         SameLock(r, s), SameFlush(r, s), SameAdoption(r, s), SameWords(r, s),
         s.asking = r.asking \/ s.asking = 0 \/ s.role # "acquiring"
  PROVE  TabSound(t, s, box, h, queued, d)
  <1>1. Alternates(s.held, box, h, t)
    BY DEF TabSound, SameLock
  <1>2. Beginning(s, box, t, queued)
    BY DEF TabSound, Beginning, SameLock, SameFlush, SameAdoption, SameWords
  <1>3. Roles(s, box)
    BY DEF TabSound, Roles, SameLock, SameFlush, SameAdoption, SameWords
  <1>4. Answered(s, box)
    BY DEF TabSound, Answered, SameLock, SameAdoption
  <1>5. Growing(s, d)
    BY DEF TabSound, Growing, SameFlush, SameWords
  <1>6. Agreed(s, d)
    BY DEF TabSound, Agreed, SameAdoption, SameWords
  <1>7. Reported(s, d)
    BY DEF TabSound, Reported, SameLock, SameFlush, SameWords
  <1> QED  BY <1>1, <1>2, <1>3, <1>4, <1>5, <1>6, <1>7 DEF TabSound

\* What the queue of saves is after another is queued behind it.
LEMMA QueuedSave ==
  ASSUME NEW r \in TabStates, NEW kind \in {"auto", "flush"}
  PROVE  /\ Write(kind, r.doc) \in TabSaves /\ Len(r.writes) \in Nat
         /\ Append(r.writes, Write(kind, r.doc)) \in Seq(TabSaves)
         /\ DOMAIN r.writes = 1..Len(r.writes)
         /\ DOMAIN Append(r.writes, Write(kind, r.doc)) = 1..(Len(r.writes) + 1)
         /\ \A i \in DOMAIN r.writes : Append(r.writes, Write(kind, r.doc))[i] = r.writes[i]
         /\ Append(r.writes, Write(kind, r.doc))[Len(r.writes) + 1] = Write(kind, r.doc)
         /\ Append(r.writes, Write(kind, r.doc)) # <<>>
         /\ Write(kind, r.doc).kind = kind /\ Write(kind, r.doc).doc = r.doc
         /\ Write(kind, r.doc).fresh /\ ~Write(kind, r.doc).checked
  <1>1. r.writes \in Seq(TabSaves) /\ r.doc \in Documents
    BY DEF TabStates, SaveQueues
  <1>2. Write(kind, r.doc) \in TabSaves
    BY <1>1 DEF Write, TabSaves
  <1>3. /\ Write(kind, r.doc).kind = kind /\ Write(kind, r.doc).doc = r.doc
        /\ Write(kind, r.doc).fresh /\ ~Write(kind, r.doc).checked
    BY DEF Write
  <1> QED  BY <1>1, <1>2, <1>3, AppendBox

\* Another save of what is on the screen keeps the documents growing.
LEMMA GrowsByASave ==
  ASSUME NEW r \in TabStates, NEW s \in TabStates, NEW kind \in {"auto", "flush"}, NEW d,
         Growing(r, d),
         s.doc = r.doc, s.base = r.base, s.typed = r.typed, s.dirty = r.dirty,
         s.writes = Append(r.writes, Write(kind, r.doc))
  PROVE  Growing(s, d)
  <1>1. /\ Len(r.writes) \in Nat /\ DOMAIN r.writes = 1..Len(r.writes)
        /\ DOMAIN s.writes = 1..(Len(r.writes) + 1)
        /\ \A i \in DOMAIN r.writes : s.writes[i] = r.writes[i]
        /\ s.writes[Len(r.writes) + 1].doc = r.doc
    BY QueuedSave
  <1>2. ASSUME NEW i \in DOMAIN s.writes
        PROVE  /\ s.base \subseteq s.writes[i].doc /\ s.writes[i].doc \subseteq s.doc
               /\ s.writes[i].fresh => s.doc \subseteq s.writes[i].doc
               /\ \A j \in 1..(i - 1) : s.writes[j].doc \subseteq s.writes[i].doc
    <2>1. CASE i \in DOMAIN r.writes
      <3>1. \A j \in 1..(i - 1) : j \in DOMAIN r.writes
        BY <2>1, <1>1
      <3> QED  BY <2>1, <3>1, <1>1 DEF Growing
    <2>2. CASE i \notin DOMAIN r.writes
      <3>1. i = Len(r.writes) + 1
        BY <2>2, <1>1
      <3>2. \A j \in 1..(i - 1) : j \in DOMAIN r.writes /\ s.writes[j] = r.writes[j]
        BY <3>1, <1>1
      <3> QED  BY <3>1, <3>2, <1>1 DEF Growing
    <2> QED  BY <2>1, <2>2
  <1> QED  BY <1>2 DEF Growing

\* The auto-save's timer fires.
LEMMA SavesByTimer ==
  ASSUME NEW t, NEW r \in TabStates, NEW box \in Seq(LockAnswers), NEW h, NEW queued, NEW d,
         TabSound(t, r, box, h, queued, d), r.armed,
         NEW s, s = AutoSaved(r)
  PROVE  s \in TabStates /\ TabSound(t, s, box, h, queued, d)
  <1>1. /\ Len(r.writes) \in Nat /\ DOMAIN r.writes = 1..Len(r.writes)
        /\ DOMAIN Append(r.writes, Write("auto", r.doc)) = 1..(Len(r.writes) + 1)
        /\ \A i \in DOMAIN r.writes : Append(r.writes, Write("auto", r.doc))[i] = r.writes[i]
        /\ Append(r.writes, Write("auto", r.doc)) \in Seq(TabSaves)
        /\ Append(r.writes, Write("auto", r.doc))[Len(r.writes) + 1].kind = "auto"
    BY QueuedSave
  <1>2. s \in TabStates
    BY <1>1 DEF TabStates, SaveQueues, Flags, AutoSaved
  <1>3. SameLock(r, s) /\ SameAdoption(r, s) /\ s.asking = r.asking
    BY DEF TabStates, SameLock, SameAdoption, AutoSaved
  <1>4. /\ s.doc = r.doc /\ s.base = r.base /\ s.typed = r.typed /\ s.dirty = r.dirty
        /\ s.lost = r.lost /\ s.reloaded = r.reloaded /\ ~s.armed
        /\ s.flush = r.flush /\ s.flushFailed = r.flushFailed /\ s.answering = r.answering
        /\ s.writes = Append(r.writes, Write("auto", r.doc))
    BY DEF TabStates, AutoSaved
  <1>5. r.role = "editor" /\ r.adopting = "none"
    BY DEF TabSound, Roles
  <1>6. \A i \in DOMAIN s.writes : s.writes[i].kind = "flush" =>
           i \in DOMAIN r.writes /\ s.writes[i] = r.writes[i]
    BY <1>1, <1>4
  <1>7. \A i \in DOMAIN r.writes : i \in DOMAIN s.writes /\ s.writes[i] = r.writes[i]
    BY <1>1, <1>4
  <1>a. Alternates(s.held, box, h, t)
    BY <1>3 DEF TabSound, SameLock
  <1>b. Beginning(s, box, t, queued)
    BY <1>3, <1>5 DEF TabSound, Beginning, SameLock
  <1>c. Roles(s, box)
    <2>1. s.flush = "writing" => \E i \in DOMAIN s.writes : s.writes[i].kind = "flush"
      BY <1>4, <1>7 DEF TabSound, Roles
    <2>2. \A i \in DOMAIN s.writes : s.writes[i].kind = "flush" =>
            /\ s.flush = "writing"
            /\ \A j \in DOMAIN s.writes : s.writes[j].kind = "flush" => i = j
      BY <1>4, <1>6 DEF TabSound, Roles
    <2>3. s.adopting \notin {"read", "asking"}
      BY <1>3, <1>5 DEF SameAdoption
    <2> QED  BY <2>1, <2>2, <2>3, <1>3, <1>4, <1>5 DEF TabSound, Roles, SameLock, SameAdoption
  <1>d. Answered(s, box)
    BY <1>3 DEF TabSound, Answered, SameLock, SameAdoption
  <1>e. Growing(s, d)
    BY <1>2, <1>4, GrowsByASave DEF TabSound
  <1>f. Agreed(s, d)
    BY <1>3, <1>4 DEF TabSound, Agreed, SameAdoption
  <1>g. Reported(s, d)
    <2>1. s.role = "editor" => \A i \in DOMAIN s.writes :
            s.writes[i].kind = "flush" => s.typed \subseteq s.writes[i].doc
      BY <1>3, <1>4, <1>5, <1>6 DEF TabSound, Reported
    <2> QED  BY <2>1, <1>3, <1>4, <1>5 DEF TabSound, Reported, SameLock
  <1> QED  BY <1>2, <1>a, <1>b, <1>c, <1>d, <1>e, <1>f, <1>g DEF TabSound

\* An answer is heard that changes nothing of the hold.
LEMMA HeardSame ==
  ASSUME NEW t, NEW r \in TabStates, NEW box \in Seq(LockAnswers), NEW h, NEW queued, NEW d,
         TabSound(t, r, box, h, queued, d), box # <<>>,
         Head(box) \notin Gains, Head(box) # "ended"
  PROVE  TabSound(t, r, Tail(box), h, queued, d)
  <1> DEFINE s == Tail(box)
  <1>1. /\ Len(box) \in Nat /\ Head(box) = box[1] /\ 1 \in DOMAIN box
        /\ DOMAIN s = 1..(Len(box) - 1) /\ DOMAIN box = 1..Len(box)
        /\ \A i \in DOMAIN s : s[i] = box[i + 1] /\ i + 1 \in DOMAIN box
    BY TailBox
  <1>2. \A S : /\ Has(s, S) => Has(box, S)
               /\ Has(box, S) /\ Head(box) \notin S => Has(s, S)
    BY HasTail
  <1>a. Alternates(r.held, s, h, t)
    <2>1. r.held \in BOOLEAN /\ Alternates(r.held, box, h, t)
      BY DEF TabSound, TabStates, Flags
    <2>2. Head(box) \in Gains => r.held
      OBVIOUS
    <2>3. Head(box) = "ended" => ~r.held
      OBVIOUS
    <2>4. Head(box) \notin Gains /\ Head(box) # "ended" => (r.held <=> r.held)
      OBVIOUS
    <2> QED  BY <2>1, <2>2, <2>3, <2>4, AlternatesTail
  <1>0. box # <<>>
    OBVIOUS
  <1> HIDE DEF s
  <1>b. Beginning(r, s, t, queued)
    <2>1. r.life = "open"
      BY <1>0 DEF TabSound, Beginning
    <2>2. \A i \in DOMAIN s : s[i] \notin {"initial", "occupied"}
      <3>1. \A i \in DOMAIN s : i + 1 # 1
        BY <1>1
      <3> QED  BY <1>1, <3>1 DEF TabSound, Beginning
    <2> QED  BY <1>2, <2>1, <2>2 DEF TabSound, Beginning
  <1>c. Roles(r, s)
    BY <1>2 DEF TabSound, Roles
  <1>d. Answered(r, s)
    <2>1. Answered(r, box)
      BY DEF TabSound
    <2>2. r.adopting = "read" => ~Has(s, {"adopt", "leave"})
      BY <2>1, <1>2 DEF Answered
    <2>3. ASSUME r.adopting = "asking", NEW i \in DOMAIN s, s[i] = "adopt",
                 \A k \in 1..(i - 1) : s[k] \notin Gains
          PROVE  r.held /\ \A k \in 1..(i - 1) : s[k] # "ended"
      <3>1. i \in Nat /\ i + 1 \in DOMAIN box /\ box[i + 1] = "adopt"
        BY <1>1, <2>3
      <3>2. \A k \in 1..((i + 1) - 1) : k = 1 \/ (k - 1 \in 1..(i - 1) /\ box[k] = s[k - 1])
        BY <3>1, <1>1
      <3>3. \A k \in 1..((i + 1) - 1) : box[k] \notin Gains
        BY <3>2, <2>3, <1>1
      <3>4. r.held /\ \A k \in 1..((i + 1) - 1) : box[k] # "ended"
        BY <2>1, <2>3, <3>1, <3>3 DEF Answered
      <3>5. \A k \in 1..(i - 1) : k + 1 \in 1..((i + 1) - 1) /\ s[k] = box[k + 1]
        BY <3>1, <1>1
      <3> QED  BY <3>4, <3>5
    <2> QED  BY <2>2, <2>3 DEF Answered
  <1> QED  BY <1>a, <1>b, <1>c, <1>d DEF TabSound, s

\* The queue of saves without its head.
LEMMA SavesTail ==
  ASSUME NEW r \in TabStates, r.writes # <<>>
  PROVE  /\ Head(r.writes) = r.writes[1] /\ r.writes[1] \in TabSaves
         /\ 1 \in DOMAIN r.writes /\ Len(r.writes) \in Nat
         /\ Tail(r.writes) \in Seq(TabSaves) /\ DOMAIN r.writes = 1..Len(r.writes)
         /\ DOMAIN Tail(r.writes) = 1..(Len(r.writes) - 1)
         /\ \A i \in DOMAIN Tail(r.writes) :
              Tail(r.writes)[i] = r.writes[i + 1] /\ i + 1 \in DOMAIN r.writes
  <1>1. r.writes \in Seq(TabSaves)
    BY DEF TabStates, SaveQueues
  <1> QED  BY <1>1, TailBox

LEMMA SettledType ==
  ASSUME NEW r \in TabStates, r.writes # <<>>, NEW ok \in BOOLEAN
  PROVE  Settled(r, ok) \in TabStates
  <1> DEFINE w == Head(r.writes)
             dirtyNow == IF ok /\ w.fresh THEN FALSE ELSE r.dirty
             flushNow == IF w.kind = "flush" THEN "done" ELSE r.flush
             failedNow == r.flushFailed \/ (w.kind = "flush" /\ ~ok)
  <1>1. Tail(r.writes) \in Seq(TabSaves)
    BY SavesTail
  <1>2. dirtyNow \in BOOLEAN /\ failedNow \in BOOLEAN
    <2>1. r.dirty \in BOOLEAN
      BY DEF TabStates, Flags
    <2> QED  BY <2>1
  <1>3. flushNow \in {"none", "writing", "done"}
    BY DEF TabStates, Flushes
  <1>4. Settled(r, ok) = [r EXCEPT !.writes = Tail(r.writes), !.dirty = dirtyNow,
                                   !.flush = flushNow, !.flushFailed = failedNow]
    BY DEF Settled, TabStates
  <1>5. ASSUME NEW ws \in Seq(TabSaves), NEW dn \in BOOLEAN, NEW ff \in BOOLEAN,
               NEW fl \in {"none", "writing", "done"}
        PROVE  [r EXCEPT !.writes = ws, !.dirty = dn, !.flush = fl, !.flushFailed = ff]
                 \in TabStates
    BY DEF TabStates, Flags, Flushes, SaveQueues
  <1> HIDE DEF dirtyNow, flushNow, failedNow
  <1>6. [r EXCEPT !.writes = Tail(r.writes), !.dirty = dirtyNow, !.flush = flushNow,
                  !.flushFailed = failedNow] \in TabStates
    <2>1. Tail(r.writes) \in Seq(TabSaves)  BY <1>1
    <2>2. dirtyNow \in BOOLEAN  BY <1>2
    <2>3. failedNow \in BOOLEAN  BY <1>2
    <2> QED  BY <2>1, <2>2, <2>3, <1>3, <1>5
  <1> QED  BY <1>4, <1>6

\* A save at the front is over, in the file or not: what may be said of the
\* documents and the roles in both cases.
LEMMA SettledKeeps ==
  ASSUME NEW t, NEW r \in TabStates, NEW box \in Seq(LockAnswers), NEW h, NEW queued, NEW d,
         TabSound(t, r, box, h, queued, d), r.writes # <<>>,
         NEW s \in TabStates, SameLock(r, s), SameAdoption(r, s),
         s.asking = r.asking, s.answering = r.answering, s.reloaded = r.reloaded,
         s.armed = r.armed, s.typed = r.typed,
         s.writes = Tail(r.writes),
         s.flush = IF r.writes[1].kind = "flush" THEN "done" ELSE r.flush
  PROVE  /\ Alternates(s.held, box, h, t) /\ Beginning(s, box, t, queued)
         /\ Roles(s, box) /\ Answered(s, box)
         /\ r.adopting \notin {"read", "asking"}
         /\ s.flush = "done" => r.flush = "done" \/ r.writes[1].kind = "flush"
         /\ \A i \in DOMAIN s.writes :
              /\ i + 1 \in DOMAIN r.writes /\ s.writes[i] = r.writes[i + 1]
              /\ s.writes[i].kind # "flush" \/ r.writes[1].kind # "flush"
  <1>1. /\ 1 \in DOMAIN r.writes /\ DOMAIN r.writes = 1..Len(r.writes) /\ Len(r.writes) \in Nat
        /\ DOMAIN s.writes = 1..(Len(r.writes) - 1)
        /\ \A i \in DOMAIN s.writes :
             s.writes[i] = r.writes[i + 1] /\ i + 1 \in DOMAIN r.writes
    BY SavesTail
  <1>2. \A i \in DOMAIN r.writes :
          i # 1 => i - 1 \in DOMAIN s.writes /\ s.writes[i - 1] = r.writes[i]
    BY <1>1
  <1>3. r.writes[1].kind = "flush" => \A i \in DOMAIN s.writes : s.writes[i].kind # "flush"
    <2>1. \A i \in DOMAIN s.writes : i + 1 # 1
      BY <1>1
    <2> QED  BY <1>1, <2>1 DEF TabSound, Roles
  <1>a. Alternates(s.held, box, h, t)
    BY DEF TabSound, SameLock
  <1>b. Beginning(s, box, t, queued)
    <2>1. r.role # "acquiring"
      BY DEF TabSound, Beginning
    <2> QED  BY <2>1 DEF TabSound, Beginning, SameLock
  <1>4. r.adopting \notin {"read", "asking"}
    BY DEF TabSound, Roles
  <1>c. Roles(s, box)
    <2>1. s.flush = "writing" => \E i \in DOMAIN s.writes : s.writes[i].kind = "flush"
      <3>1. ASSUME s.flush = "writing"
            PROVE  \E i \in DOMAIN s.writes : s.writes[i].kind = "flush"
        <4>1. r.flush = "writing" /\ r.writes[1].kind # "flush"
          BY <3>1
        <4>2. PICK i \in DOMAIN r.writes : r.writes[i].kind = "flush"
          BY <4>1 DEF TabSound, Roles
        <4> QED  BY <4>1, <4>2, <1>2
      <3> QED  BY <3>1
    <2>2. ASSUME NEW i \in DOMAIN s.writes, s.writes[i].kind = "flush"
          PROVE  /\ s.flush = "writing"
                 /\ \A j \in DOMAIN s.writes : s.writes[j].kind = "flush" => i = j
      <3>1. r.writes[1].kind # "flush" /\ r.writes[i + 1].kind = "flush"
            /\ i + 1 \in DOMAIN r.writes
        BY <1>1, <1>3, <2>2
      <3>2. s.flush = "writing"
        BY <3>1 DEF TabSound, Roles
      <3>3. \A j \in DOMAIN s.writes : s.writes[j].kind = "flush" => i + 1 = j + 1
        BY <3>1, <1>1 DEF TabSound, Roles
      <3>4. \A j \in DOMAIN s.writes : i + 1 = j + 1 => i = j
        BY <1>1, <2>2
      <3> QED  BY <3>2, <3>3, <3>4
    <2>3. s.flush # "none" => r.flush # "none"
      BY <1>1 DEF TabSound, Roles
    <2> QED  BY <1>4, <2>1, <2>2, <2>3 DEF TabSound, Roles, SameLock, SameAdoption
  <1>d. Answered(s, box)
    BY DEF TabSound, Answered, SameLock, SameAdoption
  <1> QED  BY <1>1, <1>3, <1>4, <1>a, <1>b, <1>c, <1>d

\* A save that was refused or failed.
LEMMA SettledUnsaved ==
  ASSUME NEW t, NEW r \in TabStates, NEW box \in Seq(LockAnswers), NEW h, NEW queued, NEW d,
         TabSound(t, r, box, h, queued, d), r.writes # <<>>
  PROVE  /\ Settled(r, FALSE) \in TabStates
         /\ TabSound(t, Settled(r, FALSE), box, h, queued, d)
  <1> DEFINE s == Settled(r, FALSE)
  <1>1. /\ Head(r.writes) = r.writes[1] /\ Tail(r.writes) \in Seq(TabSaves)
        /\ Len(r.writes) \in Nat /\ DOMAIN r.writes = 1..Len(r.writes)
    BY SavesTail
  <1>2. s \in TabStates
    BY SettledType
  <1>3. SameLock(r, s) /\ SameAdoption(r, s)
    BY DEF TabStates, Settled, SameLock, SameAdoption
  <1>4. /\ s.asking = r.asking /\ s.answering = r.answering /\ s.reloaded = r.reloaded
        /\ s.armed = r.armed /\ s.typed = r.typed /\ s.dirty = r.dirty /\ s.lost = r.lost
        /\ s.doc = r.doc /\ s.base = r.base
        /\ s.writes = Tail(r.writes)
    BY DEF TabStates, Settled
  <1>5. s.flush = IF r.writes[1].kind = "flush" THEN "done" ELSE r.flush
    BY <1>1 DEF TabStates, Settled
  <1>6. s.flushFailed <=> r.flushFailed \/ r.writes[1].kind = "flush"
    BY <1>1 DEF TabStates, Settled
  <1> HIDE DEF s
  <1>7. /\ Alternates(s.held, box, h, t) /\ Beginning(s, box, t, queued)
        /\ Roles(s, box) /\ Answered(s, box)
        /\ r.adopting \notin {"read", "asking"}
        /\ s.flush = "done" => r.flush = "done" \/ r.writes[1].kind = "flush"
        /\ \A i \in DOMAIN s.writes :
             /\ i + 1 \in DOMAIN r.writes /\ s.writes[i] = r.writes[i + 1]
             /\ s.writes[i].kind # "flush" \/ r.writes[1].kind # "flush"
    BY <1>2, <1>3, <1>4, <1>5, SettledKeeps
  <1>w. \A i \in DOMAIN s.writes :
          /\ i \in Nat /\ i + 1 \in DOMAIN r.writes /\ s.writes[i] = r.writes[i + 1]
          /\ \A j \in 1..(i - 1) : j + 1 \in 1..((i + 1) - 1) /\ s.writes[j] = r.writes[j + 1]
    BY <1>1, <1>4, SavesTail
  <1>8. Growing(s, d)
    BY <1>w, <1>4 DEF TabSound, Growing
  <1>9. Agreed(s, d)
    BY <1>3, <1>4, <1>7 DEF TabSound, Agreed, SameAdoption
  <1>10. Reported(s, d)
    <2>1. s.role = "editor" => \A i \in DOMAIN s.writes :
            s.writes[i].kind = "flush" => s.typed \subseteq s.writes[i].doc
      BY <1>w, <1>3, <1>4 DEF TabSound, Reported, SameLock
    <2> QED  BY <2>1, <1>3, <1>4, <1>6, <1>7 DEF TabSound, Reported, SameLock
  <1> QED  BY <1>2, <1>7, <1>8, <1>9, <1>10 DEF TabSound, s

\* A save that is in the file.
LEMMA SettledSaved ==
  ASSUME NEW t, NEW r \in TabStates, NEW box \in Seq(LockAnswers), NEW h, NEW queued,
         NEW d \in Documents, NEW e \in Documents,
         TabSound(t, r, box, h, queued, d), r.writes # <<>>,
         e = r.writes[1].doc, d \subseteq e
  PROVE  /\ [Settled(r, TRUE) EXCEPT !.base = e] \in TabStates
         /\ TabSound(t, [Settled(r, TRUE) EXCEPT !.base = e], box, h, queued, e)
  <1> DEFINE s == [Settled(r, TRUE) EXCEPT !.base = e]
  <1>1. /\ Head(r.writes) = r.writes[1] /\ Tail(r.writes) \in Seq(TabSaves)
        /\ Len(r.writes) \in Nat /\ DOMAIN r.writes = 1..Len(r.writes)
        /\ 1 \in DOMAIN r.writes
    BY SavesTail
  <1>2. s \in TabStates
    <2>1. Settled(r, TRUE) \in TabStates
      BY SettledType
    <2> QED  BY <2>1 DEF TabStates
  <1>3. SameLock(r, s) /\ SameAdoption(r, s)
    BY DEF TabStates, Settled, SameLock, SameAdoption
  <1>4. /\ s.asking = r.asking /\ s.answering = r.answering /\ s.reloaded = r.reloaded
        /\ s.armed = r.armed /\ s.typed = r.typed /\ s.lost = r.lost
        /\ s.doc = r.doc /\ s.base = e
        /\ s.writes = Tail(r.writes)
    BY DEF TabStates, Settled
  <1>5. s.flush = IF r.writes[1].kind = "flush" THEN "done" ELSE r.flush
    BY <1>1 DEF TabStates, Settled
  <1>6. (s.flushFailed <=> r.flushFailed) /\ (s.dirty <=> r.dirty /\ ~r.writes[1].fresh)
    <2>1. r.flushFailed \in BOOLEAN /\ r.dirty \in BOOLEAN /\ r.writes[1].fresh \in BOOLEAN
      <3>1. r.writes[1] \in TabSaves
        BY SavesTail
      <3> QED  BY <3>1 DEF TabStates, TabSaves, Flags
    <2>2. s.flushFailed = (r.flushFailed \/ (r.writes[1].kind = "flush" /\ ~TRUE))
      BY <1>1 DEF TabStates, Settled
    <2>3. s.dirty = IF r.writes[1].fresh THEN FALSE ELSE r.dirty
      BY <1>1 DEF TabStates, Settled
    <2> QED  BY <2>1, <2>2, <2>3
  <1> HIDE DEF s
  <1>7. /\ Alternates(s.held, box, h, t) /\ Beginning(s, box, t, queued)
        /\ Roles(s, box) /\ Answered(s, box)
        /\ r.adopting \notin {"read", "asking"}
        /\ s.flush = "done" => r.flush = "done" \/ r.writes[1].kind = "flush"
        /\ \A i \in DOMAIN s.writes :
             /\ i + 1 \in DOMAIN r.writes /\ s.writes[i] = r.writes[i + 1]
             /\ s.writes[i].kind # "flush" \/ r.writes[1].kind # "flush"
    BY <1>2, <1>3, <1>4, <1>5, SettledKeeps
  <1>w. \A i \in DOMAIN s.writes :
          /\ i \in Nat /\ i + 1 \in DOMAIN r.writes /\ s.writes[i] = r.writes[i + 1]
          /\ 1 \in 1..((i + 1) - 1)
          /\ \A j \in 1..(i - 1) : j + 1 \in 1..((i + 1) - 1) /\ s.writes[j] = r.writes[j + 1]
    BY <1>1, <1>4, SavesTail
  <1>8. Growing(s, e)
    <2>1. Growing(r, d)
      BY DEF TabSound
    <2>2. e \subseteq s.doc /\ s.typed \subseteq s.doc
      BY <2>1, <1>1, <1>4 DEF Growing
    <2>3. ASSUME NEW i \in DOMAIN s.writes
          PROVE  /\ e \subseteq s.writes[i].doc /\ s.writes[i].doc \subseteq s.doc
                 /\ s.writes[i].fresh => s.doc \subseteq s.writes[i].doc
                 /\ \A j \in 1..(i - 1) : s.writes[j].doc \subseteq s.writes[i].doc
      <3>1. i + 1 \in DOMAIN r.writes /\ s.writes[i] = r.writes[i + 1]
            /\ \A j \in 1..(i - 1) : s.writes[j] = r.writes[j + 1]
        BY <1>w
      <3>2. \A j \in 1..((i + 1) - 1) : r.writes[j].doc \subseteq r.writes[i + 1].doc
        BY <2>1, <3>1 DEF Growing
      <3>3. e \subseteq s.writes[i].doc
        BY <3>1, <3>2, <1>w
      <3>4. \A j \in 1..(i - 1) : s.writes[j].doc \subseteq s.writes[i].doc
        BY <3>1, <3>2, <1>w
      <3>5. /\ r.writes[i + 1].doc \subseteq r.doc
            /\ r.writes[i + 1].fresh => r.doc \subseteq r.writes[i + 1].doc
        BY <2>1, <3>1 DEF Growing
      <3> QED  BY <3>1, <3>3, <3>4, <3>5, <1>4
    <2>4. ~s.dirty => s.doc \subseteq e
      BY <2>1, <1>1, <1>4, <1>6 DEF Growing
    <2> QED  BY <2>2, <2>3, <2>4, <1>4 DEF Growing
  <1>9. Agreed(s, e)
    BY <1>3, <1>4, <1>7 DEF TabSound, Agreed, SameAdoption
  <1>10. Reported(s, e)
    <2>1. s.role = "editor" => \A i \in DOMAIN s.writes :
            s.writes[i].kind = "flush" => s.typed \subseteq s.writes[i].doc
      BY <1>w, <1>3, <1>4 DEF TabSound, Reported, SameLock
    <2>2. ~s.dirty => s.typed \subseteq e
      BY <1>8 DEF Growing
    <2>3. s.role = "editor" /\ s.flush = "done" =>
             s.typed \subseteq e \/ s.flushFailed
      BY <1>1, <1>3, <1>4, <1>6, <1>7 DEF TabSound, Reported, SameLock
    <2> QED  BY <2>1, <2>2, <2>3, <1>3, <1>4 DEF TabSound, Reported, SameLock
  <1> QED  BY <1>2, <1>7, <1>8, <1>9, <1>10 DEF TabSound, s

\* What the parts of a tab's state can be.
LEMMA TabParts ==
  /\ TRUE \in Flags /\ FALSE \in Flags /\ \A x : x \in Flags <=> x \in BOOLEAN
  /\ {"away", "read", "open"} \subseteq Lives
  /\ {"acquiring", "editor", "secondary"} \subseteq TabRoles
  /\ {"none", "writing", "done"} \subseteq Flushes
  /\ {"none", "reading", "read", "asking"} \subseteq Adoptions
  /\ {"requested", "editor-closed"} \subseteq Reasons
  /\ {"none", "requested", "editor-closed"} \subseteq Questions
  /\ Reasons \subseteq Questions
  BY DEF Flags, Lives, TabRoles, Flushes, Adoptions, Reasons, Questions

\* The events of the coordinator keep a tab's type.
LEMMA AcquiredType ==
  ASSUME NEW r \in TabStates, NEW cause \in {"initial", "requested", "vacated"}
  PROVE  Acquired(r, cause) \in TabStates
  <1> DEFINE s == [Superseded(r) EXCEPT !.consent = FALSE]
             why == IF cause = "vacated" THEN "editor-closed" ELSE "requested"
  <1>1. s \in TabStates
    <2>1. Superseded(r) \in TabStates
      BY TabParts DEF Superseded, TabStates
    <2> QED  BY <2>1, TabParts DEF TabStates
  <1>2. why \in Reasons
    BY TabParts
  <1>3. r.dirty \in Flags
    BY DEF TabStates
  <1> HIDE DEF s, why
  <1>4. [s EXCEPT !.role = "editor", !.armed = r.dirty] \in TabStates
    BY <1>1, <1>3, TabParts DEF TabStates
  <1>5. [s EXCEPT !.adopting = "reading", !.why = why, !.fresh = TRUE,
                  !.confirm = "none", !.switching = TRUE] \in TabStates
    BY <1>1, <1>2, TabParts DEF TabStates
  <1>6. [s EXCEPT !.switching = FALSE, !.confirm = why] \in TabStates
    BY <1>1, <1>2, TabParts DEF TabStates
  <1> QED  BY <1>4, <1>5, <1>6 DEF Acquired, s, why

LEMMA SecondaryType ==
  ASSUME NEW r \in TabStates, NEW cause
  PROVE  Secondary(r, cause) \in TabStates
  <1> DEFINE lostNow == \/ r.lost
                        \/ (cause = "stolen" /\ r.dirty)
                        \/ (cause = "handed-over" /\ r.flushFailed)
             confirmNow == IF r.confirm = "editor-closed" THEN "none" ELSE r.confirm
  <1>1. lostNow \in Flags
    BY DEF Flags
  <1>2. confirmNow \in Questions
    BY TabParts DEF TabStates
  <1>3. Superseded(r) \in TabStates
    BY TabParts DEF Superseded, TabStates
  <1>5. Secondary(r, cause) =
          [Superseded(r) EXCEPT !.role = "secondary", !.consent = FALSE, !.switching = FALSE,
                                !.armed = FALSE, !.confirm = confirmNow, !.lost = lostNow]
    BY DEF Secondary, Superseded, TabStates
  <1> HIDE DEF lostNow, confirmNow
  <1>6. [Superseded(r) EXCEPT !.role = "secondary", !.consent = FALSE, !.switching = FALSE,
                              !.armed = FALSE, !.confirm = confirmNow, !.lost = lostNow]
          \in TabStates
    BY <1>1, <1>2, <1>3, TabParts DEF TabStates
  <1> QED  BY <1>5, <1>6

LEMMA HoldType ==
  ASSUME NEW r \in TabStates, NEW cause \in {"initial", "requested", "vacated"}
  PROVE  Granted(r, cause) \in TabStates /\ Ended(r) \in TabStates
  <1>1. [r EXCEPT !.held = TRUE, !.yielding = FALSE, !.handedOver = FALSE] \in TabStates
    BY TabParts DEF TabStates
  <1>2. ASSUME NEW x \in TabStates
        PROVE  [x EXCEPT !.held = FALSE, !.timer = FALSE, !.yielding = FALSE,
                         !.handedOver = FALSE] \in TabStates
    BY TabParts DEF TabStates
  <1>3. Granted(r, cause) \in TabStates
    BY <1>1, AcquiredType DEF Granted
  <1>4. Ended(r) \in TabStates
    BY <1>2, SecondaryType DEF Ended
  <1> QED  BY <1>3, <1>4

\* A hold begins: the lock was free when the project was opened, was taken from
\* another tab, or came to a tab that waited.
LEMMA HeardGain ==
  ASSUME NEW t, NEW r \in TabStates, NEW box \in Seq(LockAnswers), NEW h, NEW queued, NEW d,
         TabSound(t, r, box, h, queued, d), box # <<>>, r.flush = "none",
         NEW cause \in {"initial", "requested", "vacated"},
         Head(box) \in Gains, Head(box) = "initial" <=> cause = "initial"
  PROVE  /\ Granted(r, cause) \in TabStates
         /\ TabSound(t, Granted(r, cause), Tail(box), h, queued, d)
         /\ Granted(r, cause).adopting \notin {"read", "asking"}
         /\ Granted(r, cause).role = "editor" => ~Granted(r, cause).reloaded
         /\ Granted(r, cause).writes = r.writes
  <1> DEFINE s == Granted(r, cause)
             left == Tail(box)
  <1>0. /\ TabSound(t, r, Tail(box), h, queued, d) \/ ~r.held
        /\ r.life = "open" /\ 1 \in DOMAIN box /\ Head(box) = box[1] /\ left \in Seq(LockAnswers)
        /\ Len(box) \in Nat /\ DOMAIN left = 1..(Len(box) - 1)
        /\ \A i \in DOMAIN left : left[i] = box[i + 1] /\ i + 1 \in DOMAIN box
    <2>1. r.held \in BOOLEAN /\ Alternates(r.held, box, h, t)
      BY DEF TabSound, TabStates, Flags
    <2>2. ~r.held
      <3>1. 1 \in DOMAIN box /\ box[1] \in Gains /\ \A k \in 1..(1 - 1) : FALSE
        BY TailBox
      <3> QED  BY <2>1, <3>1 DEF Alternates
    <2> QED  BY <2>2, TailBox DEF TabSound, Beginning
  <1>1. ~r.held /\ Alternates(TRUE, left, h, t)
    <2>1. r.held \in BOOLEAN /\ Alternates(r.held, box, h, t)
      BY DEF TabSound, TabStates, Flags
    <2>2. Head(box) # "ended"
      BY GainsDiffer
    <2>3. \A after \in BOOLEAN : after => Alternates(after, left, h, t) /\ ~r.held
      BY <2>1, <2>2, AlternatesTail
    <2> QED  BY <2>3
  <1>2. s \in TabStates
    BY HoldType
  <1>3. /\ s.life = r.life /\ s.held /\ ~s.yielding /\ ~s.handedOver
        /\ s.asking = r.asking /\ s.flush = r.flush /\ s.flushFailed = r.flushFailed
        /\ s.answering = r.answering /\ ~s.consent
        /\ s.doc = r.doc /\ s.base = r.base /\ s.dirty = r.dirty /\ s.writes = r.writes
        /\ s.reloaded = r.reloaded /\ s.agreed = r.agreed /\ s.typed = r.typed
        /\ s.lost = r.lost
    BY DEF TabStates, Granted, Acquired, Superseded
  <1>4. cause = "initial" => s.role = "editor" /\ s.adopting = "none"
    BY DEF TabStates, Granted, Acquired, Superseded
  <1>5. cause # "initial" =>
          /\ s.role = r.role /\ s.armed = r.armed
          /\ \/ s.adopting = "none"
             \/ /\ s.adopting = "reading" /\ s.switching /\ s.confirm = "none"
                /\ (cause = "requested" /\ r.consent) \/ (cause = "vacated" /\ ~r.dirty)
    BY DEF TabStates, Granted, Acquired, Superseded, Covered
  <1>6. r.role # "editor" /\ ~r.armed
    BY <1>1 DEF TabSound, Roles
  <1>7. /\ cause = "initial" => r.role = "acquiring"
        /\ cause # "initial" => r.role = "secondary"
    <2>1. Beginning(r, box, t, queued)
      BY DEF TabSound
    <2>2. cause = "initial" => r.role = "acquiring"
      BY <1>0, <2>1 DEF Beginning
    <2>3. cause # "initial" => Has(box, {"taken", "granted"})
      <3>1. cause # "initial" => box[1] \in {"taken", "granted"}
        BY <1>0 DEF Gains
      <3> QED  BY <3>1, <1>0 DEF Has
    <2>4. cause # "initial" => r.role # "acquiring"
      BY <2>1, <2>3 DEF Beginning
    <2> QED  BY <2>2, <2>4, <1>6 DEF TabStates, TabRoles
  <1>8. \A i \in DOMAIN left : left[i] \notin {"initial", "occupied"}
    <2>1. \A i \in DOMAIN left : i + 1 # 1
      BY <1>0
    <2> QED  BY <1>0, <2>1 DEF TabSound, Beginning
  <1> HIDE DEF s, left
  <1>a. Alternates(s.held, left, h, t)
    BY <1>1, <1>2, <1>3 DEF TabStates
  <1>b. Beginning(s, left, t, queued)
    BY <1>0, <1>3, <1>4, <1>5, <1>7, <1>8 DEF TabSound, Beginning
  <1>c. Roles(s, left)
    <2>1. \A i \in DOMAIN s.writes : s.writes[i].kind = "flush" =>
            /\ s.flush = "writing"
            /\ \A j \in DOMAIN s.writes : s.writes[j].kind = "flush" => i = j
      BY <1>3 DEF TabSound, Roles
    <2>2. s.adopting \in {"none", "reading"}
      BY <1>4, <1>5
    <2>3. s.role = "editor" => cause = "initial" /\ s.adopting = "none"
      BY <1>4, <1>5, <1>7
    <2>4. s.armed => s.role = "editor"
      BY <1>4, <1>5, <1>6
    <2>5. s.adopting # "none" => s.switching /\ s.confirm = "none" /\ ~s.consent
      BY <1>3, <1>4, <1>5
    <2> QED  BY <2>1, <2>2, <2>3, <2>4, <2>5, <1>3 DEF Roles
  <1>9. s.adopting \in {"none", "reading"}
    BY <1>4, <1>5
  <1>d. Answered(s, left)
    BY <1>9 DEF Answered
  <1>e. Growing(s, d)
    BY <1>3 DEF TabSound, Growing
  <1>f. Agreed(s, d)
    BY <1>3, <1>4, <1>5, <1>9 DEF TabSound, Agreed, Growing
  <1>g. Reported(s, d)
    <2>1. cause = "initial" => s.typed = {}
      BY <1>3, <1>7 DEF TabSound, Beginning
    <2>2. cause = "initial" => Reported(s, d)
      BY <2>1, <1>4 DEF Reported
    <2>3. cause # "initial" => Reported(s, d)
      BY <1>3, <1>5, <1>7 DEF TabSound, Reported
    <2> QED  BY <2>2, <2>3
  <1>10. s.role = "editor" => ~s.reloaded
    BY <1>3, <1>5, <1>7 DEF TabSound, Beginning
  <1> QED
    BY <1>2, <1>3, <1>9, <1>10, <1>a, <1>b, <1>c, <1>d, <1>e, <1>f, <1>g DEF TabSound, s, left

\* A hold is over, handed over, given up or stolen.
LEMMA HeardEnded ==
  ASSUME NEW t, NEW r \in TabStates, NEW box \in Seq(LockAnswers), NEW h, NEW queued, NEW d,
         TabSound(t, r, box, h, queued, d), box # <<>>, Head(box) = "ended"
  PROVE  /\ Ended(r) \in TabStates
         /\ TabSound(t, Ended(r), Tail(box), h, queued, d)
         /\ ~Ended(r).held /\ Ended(r).role = "secondary"
         /\ Ended(r).writes = r.writes
  <1> DEFINE s == Ended(r)
             left == Tail(box)
  <1>0. /\ 1 \in DOMAIN box /\ Head(box) = box[1] /\ left \in Seq(LockAnswers)
        /\ Len(box) \in Nat /\ DOMAIN left = 1..(Len(box) - 1)
        /\ \A i \in DOMAIN left : left[i] = box[i + 1] /\ i + 1 \in DOMAIN box
    BY TailBox
  <1>1. r.held /\ Alternates(FALSE, left, h, t)
    <2>1. r.held \in BOOLEAN /\ Alternates(r.held, box, h, t)
      BY DEF TabSound, TabStates, Flags
    <2>2. Head(box) \notin Gains
      BY GainsDiffer
    <2>3. \A after \in BOOLEAN : ~after => Alternates(after, left, h, t) /\ r.held
      BY <2>1, <2>2, AlternatesTail
    <2> QED  BY <2>3
  <1>r. r.life = "open" /\ r.role # "acquiring"
    BY <1>0, <1>1 DEF TabSound, Beginning
  <1>2. s \in TabStates
    BY HoldType
  <1>3. /\ s.life = r.life /\ ~s.held /\ ~s.yielding /\ ~s.handedOver
        /\ s.asking = r.asking /\ s.flush = r.flush /\ s.flushFailed = r.flushFailed
        /\ s.answering = r.answering
        /\ s.doc = r.doc /\ s.base = r.base /\ s.dirty = r.dirty /\ s.writes = r.writes
        /\ s.reloaded = r.reloaded /\ s.agreed = r.agreed /\ s.typed = r.typed
        /\ s.read = r.read /\ s.fresh = r.fresh
    BY DEF TabStates, Ended, Secondary, Superseded
  <1>4. ~r.handedOver => s.role = "secondary" /\ s.adopting = "none" /\ ~s.consent /\ ~s.armed
                         /\ (r.lost => s.lost) /\ (r.dirty => s.lost)
    BY DEF TabStates, Ended, Secondary, Superseded
  <1>5. r.handedOver => s.role = r.role /\ s.adopting = r.adopting /\ s.consent = r.consent
                        /\ s.armed = r.armed /\ s.lost = r.lost
                        /\ s.switching = r.switching /\ s.confirm = r.confirm
    BY DEF TabStates, Ended
  <1>6. r.handedOver => r.role = "secondary"
    BY <1>r DEF TabSound, Roles, TabStates, TabRoles
  <1>8. \A i \in DOMAIN left : left[i] \notin {"initial", "occupied"}
    <2>1. \A i \in DOMAIN left : i + 1 # 1
      BY <1>0
    <2> QED  BY <1>0, <2>1 DEF TabSound, Beginning
  <1> HIDE DEF s, left
  <1>7. s.role = "secondary" /\ ~s.armed
    BY <1>4, <1>5, <1>6 DEF TabSound, Roles
  <1>a. Alternates(s.held, left, h, t)
    BY <1>1, <1>2, <1>3 DEF TabStates, Flags
  <1>b. Beginning(s, left, t, queued)
    BY <1>r, <1>3, <1>7, <1>8 DEF Beginning
  <1>c. Roles(s, left)
    <2>1. \A i \in DOMAIN s.writes : s.writes[i].kind = "flush" =>
            /\ s.flush = "writing"
            /\ \A j \in DOMAIN s.writes : s.writes[j].kind = "flush" => i = j
      BY <1>3 DEF TabSound, Roles
    <2>2. s.adopting # "none" => s.switching /\ s.confirm = "none" /\ ~s.consent
      BY <1>4, <1>5 DEF TabSound, Roles
    <2>3. s.adopting \in {"read", "asking"} => s.writes = <<>>
      BY <1>3, <1>4, <1>5 DEF TabSound, Roles
    <2>4. /\ s.flush # "none" => s.answering # 0
          /\ s.flush = "writing" => \E i \in DOMAIN s.writes : s.writes[i].kind = "flush"
      BY <1>3 DEF TabSound, Roles
    <2> QED  BY <2>1, <2>2, <2>3, <2>4, <1>3, <1>7 DEF Roles
  <1>d. Answered(s, left)
    <2>1. s.adopting \in {"read", "asking"} => ~r.handedOver /\ FALSE
      BY <1>4, <1>5 DEF TabSound, Roles
    <2> QED  BY <2>1 DEF Answered
  <1>e. Growing(s, d)
    BY <1>3 DEF TabSound, Growing
  <1>f. Agreed(s, d)
    BY <1>3, <1>4, <1>5 DEF TabSound, Agreed
  <1>g. Reported(s, d)
    <2>1. r.role = "editor" => ~r.handedOver
      BY DEF TabSound, Roles
    <2> QED  BY <2>1, <1>r, <1>3, <1>4, <1>5, <1>7 DEF TabSound, Reported, TabStates, TabRoles
  <1> QED
    BY <1>2, <1>3, <1>7, <1>a, <1>b, <1>c, <1>d, <1>e, <1>f, <1>g DEF TabSound, s, left

\* The lock was held or waited for when the project was opened.
LEMMA HeardOccupied ==
  ASSUME NEW t, NEW r \in TabStates, NEW box \in Seq(LockAnswers), NEW h, NEW queued, NEW d,
         TabSound(t, r, box, h, queued, d), box # <<>>, Head(box) = "occupied"
  PROVE  /\ Secondary(r, "occupied") \in TabStates
         /\ TabSound(t, Secondary(r, "occupied"), Tail(box), h, queued, d)
         /\ ~Secondary(r, "occupied").held /\ Secondary(r, "occupied").role = "secondary"
         /\ Secondary(r, "occupied").writes = r.writes
  <1> DEFINE s == Secondary(r, "occupied")
             left == Tail(box)
  <1>0. TabSound(t, r, left, h, queued, d)
    <2>1. Head(box) \notin Gains /\ Head(box) # "ended"
      BY GainsDiffer
    <2> QED  BY <2>1, HeardSame
  <1>1. r.role = "acquiring" /\ r.life = "open"
    <2>1. 1 \in DOMAIN box /\ box[1] = "occupied"
      BY TailBox
    <2> QED  BY <2>1 DEF TabSound, Beginning
  <1>2. /\ ~r.held /\ ~r.reloaded /\ r.typed = {} /\ r.writes = <<>> /\ r.flush = "none"
        /\ r.adopting = "none"
    BY <1>1 DEF TabSound, Beginning
  <1>3. s \in TabStates
    BY SecondaryType
  <1>4. /\ s.life = r.life /\ s.held = r.held /\ s.yielding = r.yielding
        /\ s.handedOver = r.handedOver /\ s.role = "secondary" /\ s.adopting = "none"
        /\ ~s.armed /\ ~s.consent
        /\ s.flush = r.flush /\ s.doc = r.doc /\ s.base = r.base /\ s.dirty = r.dirty
        /\ s.writes = r.writes /\ s.typed = r.typed /\ s.answering = r.answering
    BY DEF TabStates, Secondary, Superseded
  <1> HIDE DEF s, left
  <1>a. Alternates(s.held, left, h, t)
    BY <1>0, <1>4 DEF TabSound
  <1>b. Beginning(s, left, t, queued)
    <2>1. \A i \in DOMAIN left : left[i] \notin {"initial", "occupied"}
      <3>1. /\ Len(box) \in Nat /\ DOMAIN left = 1..(Len(box) - 1)
            /\ \A i \in DOMAIN left : left[i] = box[i + 1] /\ i + 1 \in DOMAIN box
        BY TailBox DEF left
      <3>2. \A i \in DOMAIN left : i + 1 # 1
        BY <3>1
      <3> QED  BY <3>1, <3>2 DEF TabSound, Beginning
    <2> QED  BY <2>1, <1>1, <1>4 DEF Beginning
  <1>c. Roles(s, left)
    BY <1>0, <1>2, <1>4 DEF TabSound, Roles
  <1>d. Answered(s, left)
    BY <1>4 DEF Answered
  <1>e. Growing(s, d)
    BY <1>0, <1>4 DEF TabSound, Growing
  <1>f. Agreed(s, d)
    BY <1>4 DEF Agreed
  <1>g. Reported(s, d)
    BY <1>2, <1>4 DEF Reported
  <1> QED
    BY <1>2, <1>3, <1>4, <1>a, <1>b, <1>c, <1>d, <1>e, <1>f, <1>g DEF TabSound, s, left

\* The lock manager has said whose the lock is: the role is taken with what was
\* read, or the user is asked again, or the adoption is given up.
LEMMA HeardAdopt ==
  ASSUME NEW t, NEW r \in TabStates, NEW box \in Seq(LockAnswers), NEW h, NEW queued, NEW d,
         TabSound(t, r, box, h, queued, d), NEW e \in {"adopt", "leave"},
         MayAdopt(r, e), r.role # "acquiring" \/ r.adopting = "none"
  PROVE  /\ Told(r, e) \in TabStates
         /\ TabSound(t, Told(r, e), box, h, queued, d)
         /\ Told(r, e).writes = r.writes /\ Told(r, e).held = r.held
         /\ Adopts(r, Told(r, e))
  <1> DEFINE s == Told(r, e)
  <1>0. e = "adopt" /\ r.adopting = "asking" => r.held
    BY DEF MayAdopt
  <1>1. CASE r.adopting # "asking"
    <2>1. s = r
      BY <1>1 DEF Told, Adopted
    <2> QED  BY <2>1 DEF Adopts
  <1>2. CASE r.adopting = "asking" /\ ~(e = "adopt" /\ r.fresh)
    <2> DEFINE confirmNow == IF e = "adopt" THEN r.why ELSE r.confirm
    <2>1. confirmNow \in Questions
      BY TabParts DEF TabStates
    <2>2. s = [r EXCEPT !.adopting = "none", !.switching = FALSE, !.confirm = confirmNow]
      BY <1>2 DEF Told, Adopted, TabStates
    <2> HIDE DEF confirmNow
    <2>3. s \in TabStates
      <3>1. [r EXCEPT !.adopting = "none", !.switching = FALSE, !.confirm = confirmNow]
              \in TabStates
        BY <2>1, TabParts DEF TabStates
      <3> QED  BY <2>2, <3>1
    <2>4. /\ SameLock(r, s) /\ SameFlush(r, s) /\ SameWords(r, s) /\ s.asking = r.asking
          /\ s.adopting = "none" /\ s.consent = r.consent /\ s.agreed = r.agreed
      BY <2>2 DEF TabStates, SameLock, SameFlush, SameWords
    <2> HIDE DEF s
    <2>a. Alternates(s.held, box, h, t)
      BY <2>4 DEF TabSound, SameLock
    <2>b. Beginning(s, box, t, queued)
      BY <2>4 DEF TabSound, Beginning, SameLock, SameFlush, SameWords
    <2>c. Roles(s, box)
      BY <2>4, <1>2 DEF TabSound, Roles, SameLock, SameFlush, SameWords
    <2>d. Answered(s, box)
      BY <2>4 DEF Answered
    <2>e. Growing(s, d)
      BY <2>4 DEF TabSound, Growing, SameFlush, SameWords
    <2>f. Agreed(s, d)
      BY <2>4 DEF TabSound, Agreed, SameWords
    <2>g. Reported(s, d)
      BY <2>4 DEF TabSound, Reported, SameLock, SameFlush, SameWords
    <2>h. TabSound(t, s, box, h, queued, d)
      BY <2>a, <2>b, <2>c, <2>d, <2>e, <2>f, <2>g DEF TabSound
    <2>i. s.writes = r.writes /\ s.held = r.held /\ s.role = r.role
      BY <2>4 DEF SameLock, SameFlush
    <2> QED  BY <2>3, <2>4, <2>h, <2>i DEF s, Adopts
  <1>3. CASE r.adopting = "asking" /\ e = "adopt" /\ r.fresh
    <2>2. s = [r EXCEPT !.adopting = "none", !.switching = FALSE, !.role = "editor",
                        !.doc = r.read, !.base = r.read, !.dirty = FALSE, !.armed = FALSE,
                        !.behind = FALSE, !.lost = FALSE, !.reloaded = TRUE, !.typed = {}]
      BY <1>3 DEF Told, Adopted, TabStates
    <2>3. s \in TabStates
      <3>1. {} \in Documents
        BY DEF Documents
      <3>2. [r EXCEPT !.adopting = "none", !.switching = FALSE, !.role = "editor",
                      !.doc = r.read, !.base = r.read, !.dirty = FALSE, !.armed = FALSE,
                      !.behind = FALSE, !.lost = FALSE, !.reloaded = TRUE, !.typed = {}]
              \in TabStates
        <4> DEFINE q == [r EXCEPT !.adopting = "none", !.switching = FALSE, !.role = "editor",
                                  !.doc = r.read, !.base = r.read]
        <4>1. r.read \in Documents
          BY DEF TabStates
        <4>2. q \in TabStates
          BY <4>1, TabParts DEF TabStates
        <4>3. [r EXCEPT !.adopting = "none", !.switching = FALSE, !.role = "editor",
                      !.doc = r.read, !.base = r.read, !.dirty = FALSE, !.armed = FALSE,
                      !.behind = FALSE, !.lost = FALSE, !.reloaded = TRUE, !.typed = {}]
              = [q EXCEPT !.dirty = FALSE, !.armed = FALSE,
                      !.behind = FALSE, !.lost = FALSE, !.reloaded = TRUE, !.typed = {}]
          OBVIOUS
        <4> HIDE DEF q
        <4>4. [q EXCEPT !.dirty = FALSE, !.armed = FALSE,
                      !.behind = FALSE, !.lost = FALSE, !.reloaded = TRUE, !.typed = {}]
              \in TabStates
          BY <3>1, <4>2, TabParts DEF TabStates
        <4> QED  BY <4>3, <4>4
      <3> QED  BY <2>2, <3>2
    <2>4. /\ s.life = r.life /\ s.held = r.held /\ s.yielding = r.yielding
          /\ s.handedOver = r.handedOver /\ s.role = "editor" /\ s.asking = r.asking
          /\ SameFlush(r, s) /\ s.adopting = "none" /\ s.consent = r.consent
          /\ s.agreed = r.agreed /\ s.doc = r.read /\ s.base = r.read /\ s.typed = {}
          /\ ~s.dirty /\ ~s.armed
      BY <2>2 DEF TabStates, SameFlush
    <2> HIDE DEF s
    <2>5. /\ r.held /\ ~r.handedOver /\ r.writes = <<>> /\ ~r.consent
          /\ r.flush # "writing" /\ r.read \subseteq d
          /\ r.doc \subseteq r.agreed \/ r.doc \subseteq r.read
      BY <1>0, <1>3 DEF TabSound, Roles, Agreed
    <2>6. s.writes = <<>> /\ DOMAIN s.writes = {}
      BY <2>4, <2>5 DEF SameFlush
    <2>a. Alternates(s.held, box, h, t)
      BY <2>4 DEF TabSound
    <2>b. Beginning(s, box, t, queued)
      BY <2>4, <1>3 DEF TabSound, Beginning
    <2>c. Roles(s, box)
      BY <2>4, <2>5, <2>6 DEF TabSound, Roles, SameFlush
    <2>d. Answered(s, box)
      BY <2>4 DEF Answered
    <2>e. Growing(s, d)
      BY <2>4, <2>5, <2>6 DEF Growing
    <2>f. Agreed(s, d)
      BY <2>4, <2>5 DEF Agreed
    <2>g. Reported(s, d)
      BY <2>4, <2>6 DEF Reported
    <2>h. TabSound(t, s, box, h, queued, d)
      BY <2>a, <2>b, <2>c, <2>d, <2>e, <2>f, <2>g DEF TabSound
    <2>i. s.writes = r.writes
      BY <2>4 DEF SameFlush
    <2> QED  BY <1>3, <2>3, <2>4, <2>5, <2>h, <2>i DEF s, Adopts
  <1> QED  BY <1>1, <1>2, <1>3

\* A handover goes on when its save is over.
LEMMA HandsOver ==
  ASSUME NEW t, NEW r \in TabStates, NEW box \in Seq(LockAnswers), NEW h, NEW queued, NEW d,
         TabSound(t, r, box, h, queued, d), r.flush = "done", r.held,
         NEW s,
         s = HandedOver(r)
  PROVE  /\ s \in TabStates /\ TabSound(t, s, box, h, queued, d)
         /\ s.role = "secondary" /\ s.adopting = "none" /\ s.writes = r.writes
  <1> DEFINE q == [[r EXCEPT !.flush = "none", !.answering = 0]
                          EXCEPT !.handedOver = TRUE, !.timer = TRUE]
  <1>1. q \in TabStates
    <2>1. 0 \in Asks
      BY TabsAssumption DEF Asks
    <2>2. [r EXCEPT !.flush = "none", !.answering = 0] \in TabStates
      BY <2>1, TabParts DEF TabStates
    <2> QED  BY <2>2, TabParts DEF TabStates
  <1>2. s \in TabStates
    BY <1>1, SecondaryType DEF HandedOver, Unanswered
  <1>3. /\ s.life = r.life /\ s.held = r.held /\ s.yielding = r.yielding /\ s.handedOver
        /\ s.role = "secondary" /\ s.asking = r.asking /\ s.flush = "none"
        /\ s.adopting = "none" /\ ~s.consent /\ ~s.armed
        /\ s.doc = r.doc /\ s.base = r.base /\ s.dirty = r.dirty /\ s.writes = r.writes
        /\ s.typed = r.typed
        /\ (r.lost => s.lost) /\ (r.flushFailed => s.lost)
    BY DEF Secondary, Superseded, TabStates, HandedOver, Unanswered
  <1> HIDE DEF q
  <1>4. r.yielding /\ r.role \in {"editor", "secondary"} /\ r.life = "open"
    <2>1. r.role # "acquiring"
      BY DEF TabSound, Beginning
    <2> QED  BY <2>1 DEF TabSound, Roles, Beginning, TabStates, TabRoles
  <1>a. Alternates(s.held, box, h, t)
    BY <1>3 DEF TabSound
  <1>b. Beginning(s, box, t, queued)
    <2>1. \A i \in DOMAIN box : box[i] \in {"initial", "occupied"} => FALSE
      BY <1>4 DEF TabSound, Beginning
    <2> QED  BY <2>1, <1>3, <1>4 DEF Beginning
  <1>c. Roles(s, box)
    <2>1. \A i \in DOMAIN r.writes : r.writes[i].kind # "flush"
      BY DEF TabSound, Roles
    <2>2. \A i \in DOMAIN s.writes : s.writes[i].kind # "flush"
      BY <1>3, <2>1
    <2>3. s.held /\ s.yielding /\ s.flush = "none" /\ s.adopting = "none" /\ ~s.armed
          /\ s.role # "editor"
      BY <1>3, <1>4
    <2> QED  BY <2>2, <2>3 DEF Roles
  <1>d. Answered(s, box)
    BY <1>3 DEF Answered
  <1>e. Growing(s, d)
    BY <1>3 DEF TabSound, Growing
  <1>f. Agreed(s, d)
    BY <1>3 DEF Agreed
  <1>g. Reported(s, d)
    BY <1>3, <1>4 DEF TabSound, Reported
  <1>h. TabSound(t, s, box, h, queued, d)
    BY <1>a, <1>b, <1>c, <1>d, <1>e, <1>f, <1>g DEF TabSound
  <1> QED  BY <1>2, <1>3, <1>h

\* A handover whose lock has gone is forgotten.
LEMMA ForgetsHandover ==
  ASSUME NEW t, NEW r \in TabStates, NEW box \in Seq(LockAnswers), NEW h, NEW queued, NEW d,
         TabSound(t, r, box, h, queued, d), r.flush = "done", ~r.held,
         NEW s, s = Unanswered(r)
  PROVE  s \in TabStates /\ TabSound(t, s, box, h, queued, d)
         /\ SameLock(r, s) /\ SameAdoption(r, s) /\ SameWords(r, s) /\ s.writes = r.writes
  <1>1. s \in TabStates
    <2>1. 0 \in Asks
      BY TabsAssumption DEF Asks
    <2> QED  BY <2>1, TabParts DEF TabStates, Unanswered
  <1>2. /\ SameLock(r, s) /\ SameAdoption(r, s) /\ SameWords(r, s)
        /\ s.asking = r.asking /\ s.flush = "none" /\ s.writes = r.writes
    BY DEF TabStates, SameLock, SameAdoption, SameWords, Unanswered
  <1>3. r.role # "editor"
    BY DEF TabSound, Roles
  <1>a. Alternates(s.held, box, h, t)
    BY <1>2 DEF TabSound, SameLock
  <1>b. Beginning(s, box, t, queued)
    BY <1>2 DEF TabSound, Beginning, SameLock, SameWords, SameAdoption
  <1>c. Roles(s, box)
    BY <1>2 DEF TabSound, Roles, SameLock, SameWords, SameAdoption
  <1>d. Answered(s, box)
    BY <1>2 DEF TabSound, Answered, SameLock, SameAdoption
  <1>e. Growing(s, d)
    BY <1>2 DEF TabSound, Growing, SameWords
  <1>f. Agreed(s, d)
    BY <1>2 DEF TabSound, Agreed, SameWords, SameAdoption
  <1>g. Reported(s, d)
    BY <1>2, <1>3 DEF TabSound, Reported, SameLock, SameWords
  <1>h. TabSound(t, s, box, h, queued, d)
    BY <1>a, <1>b, <1>c, <1>d, <1>e, <1>f, <1>g DEF TabSound
  <1> QED  BY <1>1, <1>2, <1>h

\* The editor is asked for the role: what is unsaved is queued as one save.
LEMMA AnswersARequest ==
  ASSUME NEW t, NEW r \in TabStates, NEW box \in Seq(LockAnswers), NEW h, NEW queued, NEW d,
         TabSound(t, r, box, h, queued, d), NEW id \in Asks, id # 0
  PROVE  /\ Answers(r, id) \in TabStates
         /\ TabSound(t, Answers(r, id), box, h, queued, d)
         /\ Answers(r, id).held = r.held /\ Answers(r, id).role = r.role
         /\ SameAdoption(r, Answers(r, id)) /\ SameWords(r, Answers(r, id))
         /\ r.writes # <<>> => Answers(r, id).writes # <<>>
                               /\ Answers(r, id).writes[1] = r.writes[1]
  <1> DEFINE s == Answers(r, id)
             q == [r EXCEPT !.yielding = TRUE, !.answering = id, !.flushFailed = FALSE]
             w == Write("flush", r.doc)
  <1>1. CASE ~r.held \/ r.yielding
    <2>1. s = r
      BY <1>1 DEF Answers
    <2> QED  BY <2>1 DEF SameAdoption, SameWords
  <1>2. CASE r.held /\ ~r.yielding
    <2>1. /\ q \in TabStates /\ SameAdoption(r, q) /\ SameWords(r, q)
          /\ q.life = r.life /\ q.role = r.role /\ q.held = r.held /\ q.yielding
          /\ q.handedOver = r.handedOver /\ q.asking = r.asking /\ q.answering = id
          /\ q.flush = r.flush /\ q.writes = r.writes
      BY TabParts DEF TabStates, SameAdoption, SameWords
    <2>2. r.flush = "none" /\ r.role # "acquiring"
      BY <1>2 DEF TabSound, Roles, Beginning
    <2>3. \A i \in DOMAIN r.writes : r.writes[i].kind # "flush"
      BY <2>2 DEF TabSound, Roles
    <2>4. CASE ~(r.role = "editor" /\ r.dirty)
      <3>1. s = [q EXCEPT !.flush = "done"]
        BY <1>2, <2>4 DEF Answers
      <3> HIDE DEF q
      <3>2. s \in TabStates
        BY <3>1, <2>1, TabParts DEF TabStates
      <3>3. /\ SameAdoption(r, s) /\ SameWords(r, s)
            /\ s.life = r.life /\ s.role = r.role /\ s.held = r.held /\ s.yielding
            /\ s.handedOver = r.handedOver /\ s.asking = r.asking /\ s.answering = id
            /\ s.flush = "done" /\ s.writes = r.writes
        BY <3>1, <2>1 DEF TabStates, SameAdoption, SameWords
      <3> HIDE DEF s
      <3>a. Alternates(s.held, box, h, t)
        BY <3>3 DEF TabSound
      <3>b. Beginning(s, box, t, queued)
        BY <3>3, <2>2 DEF TabSound, Beginning, SameWords, SameAdoption
      <3>c. Roles(s, box)
        <4>1. s.handedOver => Has(box, {"ended"})
          BY <3>3, <1>2 DEF TabSound, Roles
        <4> QED  BY <3>3, <1>2, <2>3, <4>1 DEF TabSound, Roles, SameWords, SameAdoption
      <3>d. Answered(s, box)
        BY <3>3 DEF TabSound, Answered, SameAdoption
      <3>e. Growing(s, d)
        BY <3>3 DEF TabSound, Growing, SameWords
      <3>f. Agreed(s, d)
        BY <3>3 DEF TabSound, Agreed, SameWords, SameAdoption
      <3>g. Reported(s, d)
        BY <3>3, <2>3, <2>4 DEF TabSound, Reported, SameWords
      <3>h. TabSound(t, s, box, h, queued, d)
        BY <3>a, <3>b, <3>c, <3>d, <3>e, <3>f, <3>g DEF TabSound
      <3> QED  BY <3>2, <3>3, <3>h DEF s
    <2>5. CASE r.role = "editor" /\ r.dirty
      <3>1. s = [q EXCEPT !.flush = "writing", !.writes = Append(@, w)]
        BY <1>2, <2>5 DEF Answers
      <3>w. /\ Append(r.writes, w) \in Seq(TabSaves) /\ Len(r.writes) \in Nat
            /\ DOMAIN r.writes = 1..Len(r.writes)
            /\ DOMAIN Append(r.writes, w) = 1..(Len(r.writes) + 1)
            /\ \A i \in DOMAIN r.writes : Append(r.writes, w)[i] = r.writes[i]
            /\ Append(r.writes, w)[Len(r.writes) + 1] = w
            /\ Append(r.writes, w) # <<>>
            /\ w.kind = "flush" /\ w.doc = r.doc
        BY QueuedSave
      <3> HIDE DEF q, w
      <3>2. s \in TabStates
        <4>1. Append(r.writes, w) \in SaveQueues
          BY <3>w DEF SaveQueues
        <4>2. q.writes = r.writes
          BY <2>1
        <4>3. [q EXCEPT !.flush = "writing", !.writes = Append(r.writes, w)] \in TabStates
          BY <4>1, <2>1, TabParts DEF TabStates
        <4> QED  BY <3>1, <4>2, <4>3
      <3>3. /\ SameAdoption(r, s) /\ SameWords(r, s)
            /\ s.life = r.life /\ s.role = r.role /\ s.held = r.held /\ s.yielding
            /\ s.handedOver = r.handedOver /\ s.asking = r.asking /\ s.answering = id
            /\ s.flush = "writing" /\ s.writes = Append(r.writes, w)
        BY <3>1, <2>1 DEF TabStates, SameAdoption, SameWords
      <3> HIDE DEF s
      <3>4. r.adopting = "none" /\ ~r.handedOver
        BY <2>5 DEF TabSound, Roles
      <3>5. \A i \in DOMAIN s.writes : s.writes[i].kind = "flush" =>
              i = Len(r.writes) + 1 /\ s.writes[i].doc = r.doc
        BY <3>w, <3>3, <2>3
      <3>6. Len(r.writes) + 1 \in DOMAIN s.writes /\ s.writes[Len(r.writes) + 1].kind = "flush"
        BY <3>w, <3>3
      <3>a. Alternates(s.held, box, h, t)
        BY <3>3 DEF TabSound
      <3>b. Beginning(s, box, t, queued)
        BY <3>3, <2>2 DEF TabSound, Beginning, SameWords, SameAdoption
      <3>c. Roles(s, box)
        BY <3>3, <3>4, <3>5, <3>6, <1>2 DEF TabSound, Roles, SameWords, SameAdoption
      <3>d. Answered(s, box)
        BY <3>3 DEF TabSound, Answered, SameAdoption
      <3>e. Growing(s, d)
        BY <3>2, <3>3, GrowsByASave DEF TabSound, SameWords, w
      <3>f. Agreed(s, d)
        BY <3>3 DEF TabSound, Agreed, SameWords, SameAdoption
      <3>g. Reported(s, d)
        BY <3>3, <3>5, <2>5 DEF TabSound, Reported, SameWords, Growing
      <3>h. TabSound(t, s, box, h, queued, d)
        BY <3>a, <3>b, <3>c, <3>d, <3>e, <3>f, <3>g DEF TabSound
      <3>i. r.writes # <<>> => s.writes # <<>> /\ s.writes[1] = r.writes[1]
        <4>1. r.writes # <<>> => 1 \in DOMAIN r.writes
          BY SavesTail
        <4> QED  BY <4>1, <3>w, <3>3
      <3> QED  BY <3>2, <3>3, <3>h, <3>i DEF s
    <2> QED  BY <2>4, <2>5
  <1>3. r.held \in BOOLEAN /\ r.yielding \in BOOLEAN
    BY DEF TabStates, Flags
  <1> QED  BY <1>1, <1>2, <1>3

\* A tab whose hold is over, which it will hear, gives the lock up.
LEMMA GivesUp ==
  ASSUME NEW t, NEW r \in TabStates, NEW box \in Seq(LockAnswers), NEW h, NEW queued, NEW d,
         TabSound(t, r, box, h, queued, d),
         Has(box, {"ended"}), r.held, r.role # "editor", r.adopting = "none",
         NEW s, s = GivenUp(r)
  PROVE  /\ s \in TabStates /\ TabSound(t, s, box, h, queued, d)
         /\ s.role # "editor" /\ s.adopting = "none" /\ s.writes = r.writes
  <1>1. s \in TabStates
    BY TabParts DEF TabStates, GivenUp
  <1>2. /\ s.life = r.life /\ s.role = r.role /\ s.held = r.held /\ s.yielding = r.yielding
        /\ s.handedOver /\ SameFlush(r, s) /\ SameWords(r, s) /\ s.asking = r.asking
        /\ s.adopting = r.adopting /\ s.consent = r.consent /\ s.agreed = r.agreed
    BY DEF TabStates, SameFlush, SameWords, GivenUp
  <1>a. Alternates(s.held, box, h, t)
    BY <1>2 DEF TabSound
  <1>b. Beginning(s, box, t, queued)
    BY <1>2 DEF TabSound, Beginning, SameFlush, SameWords
  <1>c. Roles(s, box)
    BY <1>2 DEF TabSound, Roles, SameFlush, SameWords
  <1>d. Answered(s, box)
    BY <1>2 DEF Answered
  <1>e. Growing(s, d)
    BY <1>2 DEF TabSound, Growing, SameFlush, SameWords
  <1>f. Agreed(s, d)
    BY <1>2 DEF TabSound, Agreed, SameWords
  <1>g. Reported(s, d)
    BY <1>2 DEF TabSound, Reported, SameFlush, SameWords
  <1>h. TabSound(t, s, box, h, queued, d)
    BY <1>a, <1>b, <1>c, <1>d, <1>e, <1>f, <1>g DEF TabSound
  <1>3. s.writes = r.writes
    BY <1>2 DEF SameFlush
  <1> QED  BY <1>1, <1>2, <1>3, <1>h

\* The question on the screen changes.
LEMMA AsksItsUser ==
  ASSUME NEW t, NEW r \in TabStates, NEW box \in Seq(LockAnswers), NEW h, NEW queued, NEW d,
         TabSound(t, r, box, h, queued, d), NEW q \in Questions,
         q = "none" \/ r.adopting = "none",
         NEW s, s = [r EXCEPT !.confirm = q]
  PROVE  /\ s \in TabStates /\ TabSound(t, s, box, h, queued, d)
         /\ SameLock(r, s) /\ SameFlush(r, s) /\ SameWords(r, s)
         /\ s.adopting = r.adopting /\ s.read = r.read
  <1>1. s \in TabStates
    BY DEF TabStates
  <1>2. /\ SameLock(r, s) /\ SameFlush(r, s) /\ SameWords(r, s) /\ s.asking = r.asking
        /\ s.adopting = r.adopting /\ s.consent = r.consent /\ s.agreed = r.agreed
        /\ s.fresh = r.fresh /\ s.read = r.read /\ s.switching = r.switching
    BY DEF TabStates, SameLock, SameFlush, SameWords
  <1>3. s.confirm = q
    BY DEF TabStates
  <1>a. Alternates(s.held, box, h, t)
    BY <1>2 DEF TabSound, SameLock
  <1>b. Beginning(s, box, t, queued)
    BY <1>2 DEF TabSound, Beginning, SameLock, SameFlush, SameWords
  <1>c. Roles(s, box)
    BY <1>2, <1>3 DEF TabSound, Roles, SameLock, SameFlush, SameWords
  <1>d. Answered(s, box)
    BY <1>2 DEF TabSound, Answered, SameLock
  <1>e. Growing(s, d)
    BY <1>2 DEF TabSound, Growing, SameFlush, SameWords
  <1>f. Agreed(s, d)
    BY <1>2 DEF TabSound, Agreed, SameWords
  <1>g. Reported(s, d)
    BY <1>2 DEF TabSound, Reported, SameLock, SameFlush, SameWords
  <1>h. TabSound(t, s, box, h, queued, d)
    BY <1>a, <1>b, <1>c, <1>d, <1>e, <1>f, <1>g DEF TabSound
  <1> QED  BY <1>1, <1>2, <1>h

\* The folder is read for an adoption: no save of the tab is left, and the tab
\* has heard all that the lock manager decided.
LEMMA ReadsToAdopt ==
  ASSUME NEW t, NEW r \in TabStates, NEW h, NEW queued, NEW d \in Documents,
         TabSound(t, r, <<>>, h, queued, d), r.adopting = "reading", r.writes = <<>>,
         NEW s, s = HasRead(r, d)
  PROVE  s \in TabStates /\ TabSound(t, s, <<>>, h, queued, d)
         /\ s.role = r.role /\ s.held = r.held /\ s.adopting = "read" /\ s.read = d
         /\ s.writes = <<>>
  <1>1. s \in TabStates
    BY TabParts DEF TabStates, HasRead
  <1>2. /\ SameLock(r, s) /\ SameFlush(r, s) /\ SameWords(r, s) /\ s.asking = r.asking
        /\ s.adopting = "read" /\ s.read = d /\ s.consent = r.consent /\ s.agreed = r.agreed
        /\ s.fresh = r.fresh /\ s.switching = r.switching /\ s.confirm = r.confirm
    BY DEF TabStates, SameLock, SameFlush, SameWords, HasRead
  <1>3. ~Has(<<>>, {"ended"}) /\ ~Has(<<>>, {"adopt", "leave"})
    BY DEF Has
  <1>4. r.role # "acquiring" /\ ~r.handedOver
    BY <1>3 DEF TabSound, Beginning, Roles
  <1>a. Alternates(s.held, <<>>, h, t)
    BY <1>2 DEF TabSound, SameLock
  <1>b. Beginning(s, <<>>, t, queued)
    BY <1>2, <1>4 DEF TabSound, Beginning, SameLock
  <1>c. Roles(s, <<>>)
    <2>1. s.writes = <<>> /\ ~s.handedOver /\ s.role # "editor"
      BY <1>2, <1>4 DEF TabSound, Roles, SameLock, SameFlush
    <2> QED  BY <1>2, <2>1 DEF TabSound, Roles, SameLock, SameFlush, SameWords
  <1>d. Answered(s, <<>>)
    BY <1>2, <1>3 DEF Answered
  <1>e. Growing(s, d)
    BY <1>2 DEF TabSound, Growing, SameFlush, SameWords
  <1>f. Agreed(s, d)
    BY <1>2 DEF TabSound, Agreed, SameWords
  <1>g. Reported(s, d)
    BY <1>2 DEF TabSound, Reported, SameLock, SameFlush, SameWords
  <1>h. TabSound(t, s, <<>>, h, queued, d)
    BY <1>a, <1>b, <1>c, <1>d, <1>e, <1>f, <1>g DEF TabSound
  <1>5. s.role = r.role /\ s.held = r.held /\ s.writes = <<>>
    BY <1>2 DEF SameLock, SameFlush
  <1> QED  BY <1>1, <1>2, <1>5, <1>h

\* The folder cannot be read: the switch ends.
LEMMA StopsAdopting ==
  ASSUME NEW t, NEW r \in TabStates, NEW box \in Seq(LockAnswers), NEW h, NEW queued, NEW d,
         TabSound(t, r, box, h, queued, d),
         NEW s, s = StaysSecondary(r)
  PROVE  s \in TabStates /\ TabSound(t, s, box, h, queued, d)
         /\ SameLock(r, s) /\ SameFlush(r, s) /\ SameWords(r, s) /\ s.adopting = "none"
  <1>1. s \in TabStates
    BY TabParts DEF TabStates, StaysSecondary
  <1>2. /\ SameLock(r, s) /\ SameFlush(r, s) /\ SameWords(r, s) /\ s.asking = r.asking
        /\ s.adopting = "none" /\ s.consent = r.consent /\ s.agreed = r.agreed
    BY DEF TabStates, SameLock, SameFlush, SameWords, StaysSecondary
  <1>a. Alternates(s.held, box, h, t)
    BY <1>2 DEF TabSound, SameLock
  <1>b. Beginning(s, box, t, queued)
    BY <1>2 DEF TabSound, Beginning, SameLock, SameFlush, SameWords
  <1>c. Roles(s, box)
    BY <1>2 DEF TabSound, Roles, SameLock, SameFlush, SameWords
  <1>d. Answered(s, box)
    BY <1>2 DEF Answered
  <1>e. Growing(s, d)
    BY <1>2 DEF TabSound, Growing, SameFlush, SameWords
  <1>f. Agreed(s, d)
    BY <1>2 DEF TabSound, Agreed, SameWords
  <1>g. Reported(s, d)
    BY <1>2 DEF TabSound, Reported, SameLock, SameFlush, SameWords
  <1>h. TabSound(t, s, box, h, queued, d)
    BY <1>a, <1>b, <1>c, <1>d, <1>e, <1>f, <1>g DEF TabSound
  <1> QED  BY <1>1, <1>2, <1>h

\* The lock manager is asked whether the tab that has read the folder holds the
\* lock: it will be told to adopt only if it does and knows so.
LEMMA AsksToAdopt ==
  ASSUME NEW t, NEW r \in TabStates, NEW box \in Seq(LockAnswers), NEW h, NEW queued, NEW d,
         TabSound(t, r, box, h, queued, d), r.adopting = "read",
         NEW e, e = IF r.held /\ h = t THEN "adopt" ELSE "leave",
         NEW s, s = [r EXCEPT !.adopting = "asking"]
  PROVE  s \in TabStates /\ TabSound(t, s, Append(box, e), h, queued, d)
         /\ s.role = r.role /\ s.held = r.held /\ s.adopting = "asking" /\ s.read = r.read
         /\ s.writes = r.writes /\ e \in {"adopt", "leave"} /\ s.reloaded = r.reloaded
         /\ s.base = r.base
  <1> DEFINE left == Append(box, e)
  <1>0. e \in LockAnswers /\ e \notin Gains /\ e \in {"adopt", "leave"}
    BY GainsDiffer
  <1>1. s \in TabStates
    BY TabParts DEF TabStates
  <1>2. /\ SameLock(r, s) /\ SameFlush(r, s) /\ SameWords(r, s) /\ s.asking = r.asking
        /\ s.adopting = "asking" /\ s.consent = r.consent /\ s.agreed = r.agreed
        /\ s.fresh = r.fresh /\ s.switching = r.switching /\ s.confirm = r.confirm
        /\ s.read = r.read
    BY DEF TabStates, SameLock, SameFlush, SameWords
  <1>3. r.role # "acquiring" /\ r.life = "open" /\ r.held \in BOOLEAN
    BY DEF TabSound, Beginning, TabStates, Flags
  <1>4. /\ Len(box) \in Nat /\ DOMAIN left = 1..(Len(box) + 1) /\ DOMAIN box = 1..Len(box)
        /\ \A i \in DOMAIN box : left[i] = box[i] /\ i \in DOMAIN left
        /\ left[Len(box) + 1] = e
    BY <1>0, AppendBox
  <1>5. \A S : Has(left, S) <=> Has(box, S) \/ e \in S
    BY <1>0, HasAppend
  <1>a. Alternates(s.held, left, h, t)
    <2>1. Alternates(r.held, box, h, t)
      BY DEF TabSound
    <2>2. Alternates(r.held, left, h, t)
      BY <1>0, <1>3, <2>1, AlternatesAppend
    <2> QED  BY <2>2, <1>2 DEF SameLock
  <1> HIDE DEF left
  <1>b. Beginning(s, left, t, queued)
    <2>1. \A i \in DOMAIN left :
             left[i] \in {"initial", "occupied"} => i \in DOMAIN box /\ box[i] = left[i]
      BY <1>0, <1>4
    <2>2. \A i \in DOMAIN left : left[i] \notin {"initial", "occupied"}
      BY <2>1, <1>3 DEF TabSound, Beginning
    <2> QED  BY <1>2, <1>3, <2>2 DEF Beginning, SameLock
  <1>c. Roles(s, left)
    BY <1>2, <1>5 DEF TabSound, Roles, SameLock, SameFlush, SameWords
  <1>d. Answered(s, left)
    <2>1. ASSUME NEW i \in DOMAIN left, left[i] = "adopt",
                  \A k \in 1..(i - 1) : left[k] \notin Gains
          PROVE  s.held /\ \A k \in 1..(i - 1) : left[k] # "ended"
      <3>1. ~Has(box, {"adopt", "leave"})
        BY DEF TabSound, Answered
      <3>2. i = Len(box) + 1 /\ e = "adopt"
        BY <2>1, <3>1, <1>4 DEF Has
      <3>3. r.held /\ h = t
        BY <3>2
      <3>4. \A k \in DOMAIN box : box[k] \notin Gains
        BY <2>1, <3>2, <1>4
      <3>5. \A k \in DOMAIN box : box[k] # "ended"
        <4>1. ASSUME NEW k \in DOMAIN box, box[k] = "ended" PROVE FALSE
          <5>1. \E j \in (k + 1)..Len(box) : box[j] \in Gains
            BY <4>1, <3>3 DEF TabSound, Alternates
          <5>2. \A j \in (k + 1)..Len(box) : j \in DOMAIN box
            BY <1>4, <4>1
          <5> QED  BY <5>1, <5>2, <3>4
        <4> QED  BY <4>1
      <3>6. \A k \in 1..(i - 1) : k \in DOMAIN box /\ left[k] = box[k]
        BY <3>2, <1>4
      <3>7. s.held
        BY <3>3, <1>2 DEF SameLock
      <3> QED  BY <3>5, <3>6, <3>7
    <2> QED  BY <2>1, <1>2 DEF Answered
  <1>e. Growing(s, d)
    BY <1>2 DEF TabSound, Growing, SameFlush, SameWords
  <1>f. Agreed(s, d)
    BY <1>2 DEF TabSound, Agreed, SameWords
  <1>g. Reported(s, d)
    BY <1>2 DEF TabSound, Reported, SameLock, SameFlush, SameWords
  <1>h. TabSound(t, s, left, h, queued, d)
    BY <1>a, <1>b, <1>c, <1>d, <1>e, <1>f, <1>g DEF TabSound
  <1>6. s.role = r.role /\ s.held = r.held /\ s.writes = r.writes /\ s.base = r.base
        /\ s.reloaded = r.reloaded
    BY <1>2 DEF SameLock, SameFlush, SameWords
  <1> QED  BY <1>0, <1>1, <1>2, <1>6, <1>h DEF left

\* A save's marks change: its role was checked, or an edit came after it.
LEMMA MarksSaves ==
  ASSUME NEW t, NEW r \in TabStates, NEW box \in Seq(LockAnswers), NEW h, NEW queued, NEW d,
         TabSound(t, r, box, h, queued, d),
         NEW s \in TabStates, SameLock(r, s), SameAdoption(r, s), SameWords(r, s),
         s.asking = r.asking, s.answering = r.answering, s.flush = r.flush,
         s.flushFailed = r.flushFailed, DOMAIN s.writes = DOMAIN r.writes,
         r.writes # <<>>, s.writes # <<>>,
         \A i \in DOMAIN r.writes : /\ s.writes[i].kind = r.writes[i].kind
                                    /\ s.writes[i].doc = r.writes[i].doc
                                    /\ s.writes[i].fresh => r.writes[i].fresh
  PROVE  TabSound(t, s, box, h, queued, d)
  <1>a. Alternates(s.held, box, h, t)
    BY DEF TabSound, SameLock
  <1>b. Beginning(s, box, t, queued)
    BY DEF TabSound, Beginning, SameLock, SameWords, SameAdoption
  <1>c. Roles(s, box)
    <2>1. /\ s.flush = "writing" => \E i \in DOMAIN s.writes : s.writes[i].kind = "flush"
          /\ \A i \in DOMAIN s.writes : s.writes[i].kind = "flush" =>
               /\ s.flush = "writing"
               /\ \A j \in DOMAIN s.writes : s.writes[j].kind = "flush" => i = j
      BY DEF TabSound, Roles
    <2> QED  BY <2>1 DEF TabSound, Roles, SameLock, SameWords, SameAdoption
  <1>d. Answered(s, box)
    BY DEF TabSound, Answered, SameLock, SameAdoption
  <1>e. Growing(s, d)
    <2>1. ASSUME NEW i \in DOMAIN s.writes
          PROVE  /\ s.base \subseteq s.writes[i].doc /\ s.writes[i].doc \subseteq s.doc
                 /\ s.writes[i].fresh => s.doc \subseteq s.writes[i].doc
                 /\ \A j \in 1..(i - 1) : s.writes[j].doc \subseteq s.writes[i].doc
      <3>1. /\ r.base \subseteq r.writes[i].doc /\ r.writes[i].doc \subseteq r.doc
            /\ r.writes[i].fresh => r.doc \subseteq r.writes[i].doc
            /\ \A j \in 1..(i - 1) : r.writes[j].doc \subseteq r.writes[i].doc
        BY DEF TabSound, Growing
      <3>2. \A j \in 1..(i - 1) : j \in DOMAIN r.writes
        BY SavesTail
      <3> QED  BY <3>1, <3>2 DEF SameWords
    <2>2. /\ s.base \subseteq s.doc /\ s.typed \subseteq s.doc
          /\ ~s.dirty => s.doc \subseteq d
      BY DEF TabSound, Growing, SameWords
    <2> QED  BY <2>1, <2>2 DEF Growing
  <1>f. Agreed(s, d)
    BY DEF TabSound, Agreed, SameWords, SameAdoption
  <1>g. Reported(s, d)
    <2>1. s.role = "editor" => \A i \in DOMAIN s.writes :
            s.writes[i].kind = "flush" => s.typed \subseteq s.writes[i].doc
      BY DEF TabSound, Reported, SameLock, SameWords
    <2> QED  BY <2>1 DEF TabSound, Reported, SameLock, SameWords
  <1> QED  BY <1>a, <1>b, <1>c, <1>d, <1>e, <1>f, <1>g DEF TabSound

\* The editor's role is checked when its save runs.
LEMMA ChecksRole ==
  ASSUME NEW t, NEW r \in TabStates, NEW box \in Seq(LockAnswers), NEW h, NEW queued, NEW d,
         TabSound(t, r, box, h, queued, d), r.writes # <<>>,
         NEW s, s = RoleChecked(r)
  PROVE  s \in TabStates /\ TabSound(t, s, box, h, queued, d)
         /\ SameLock(r, s) /\ SameAdoption(r, s) /\ SameWords(r, s)
         /\ s.writes # <<>> /\ s.writes[1].checked
         /\ s.writes[1].doc = r.writes[1].doc
  <1> DEFINE ws == [r.writes EXCEPT ![1].checked = TRUE]
  <1>0. /\ 1 \in DOMAIN r.writes /\ r.writes[1] \in TabSaves /\ r.writes \in Seq(TabSaves)
        /\ DOMAIN r.writes = 1..Len(r.writes) /\ Len(r.writes) \in Nat
    BY SavesTail DEF TabStates, SaveQueues
  <1>1. [r.writes[1] EXCEPT !.checked = TRUE] \in TabSaves
    BY <1>0 DEF TabSaves
  <1>2. ws \in Seq(TabSaves) /\ DOMAIN ws = DOMAIN r.writes /\ ws # <<>>
        /\ \A i \in DOMAIN ws : i # 1 => ws[i] = r.writes[i]
        /\ ws[1] = [r.writes[1] EXCEPT !.checked = TRUE]
    BY <1>0, <1>1
  <1>3. /\ ws[1].kind = r.writes[1].kind /\ ws[1].doc = r.writes[1].doc
        /\ ws[1].fresh = r.writes[1].fresh /\ ws[1].checked
    BY <1>0, <1>2 DEF TabSaves
  <1>4. s = [r EXCEPT !.writes = ws]
    BY DEF TabStates, RoleChecked
  <1> HIDE DEF ws
  <1>5. s \in TabStates
    <2>1. ws \in SaveQueues
      BY <1>2 DEF SaveQueues
    <2>2. [r EXCEPT !.writes = ws] \in TabStates
      BY <2>1 DEF TabStates
    <2> QED  BY <1>4, <2>2
  <1>6. /\ SameLock(r, s) /\ SameAdoption(r, s) /\ SameWords(r, s)
        /\ s.asking = r.asking /\ s.answering = r.answering /\ s.flush = r.flush
        /\ s.flushFailed = r.flushFailed /\ s.writes = ws
    BY <1>4 DEF TabStates, SameLock, SameAdoption, SameWords
  <1>7. \A i \in DOMAIN r.writes : /\ ws[i].kind = r.writes[i].kind
                                   /\ ws[i].doc = r.writes[i].doc
                                   /\ ws[i].fresh => r.writes[i].fresh
    BY <1>2, <1>3
  <1>8. TabSound(t, s, box, h, queued, d)
    BY <1>2, <1>5, <1>6, <1>7, MarksSaves
  <1> QED  BY <1>2, <1>3, <1>5, <1>6, <1>8

\* The user edits: whatever was asked, agreed or being saved no longer covers the
\* document.
LEMMA EditsOn ==
  ASSUME NEW t, NEW r \in TabStates, NEW box \in Seq(LockAnswers), NEW h, NEW queued, NEW d,
         TabSound(t, r, box, h, queued, d), NEW e \in Edits,
         NEW s, s = Edited(r, e)
  PROVE  /\ s \in TabStates /\ TabSound(t, s, box, h, queued, d)
         /\ SameLock(r, s) /\ SameReading(r, s)
         /\ \A inside : First(inside, r.writes) => First(inside, s.writes)
  <1> DEFINE ws == [i \in DOMAIN r.writes |-> [r.writes[i] EXCEPT !.fresh = FALSE]]
             doc == r.doc \union {e}
             typed == IF r.role = "editor" /\ r.flush = "none" THEN r.typed \union {e} ELSE r.typed
             armed2 == r.role = "editor"
  <1>0. r.writes \in Seq(TabSaves) /\ r.doc \in Documents /\ r.typed \in Documents
    BY DEF TabStates, SaveQueues
  <1>1. ASSUME NEW i \in DOMAIN r.writes
        PROVE  /\ ws[i] \in TabSaves /\ ws[i].kind = r.writes[i].kind /\ ~ws[i].fresh
               /\ ws[i].doc = r.writes[i].doc /\ ws[i].checked = r.writes[i].checked
    <2>1. r.writes[i] \in TabSaves
      BY <1>0
    <2>2. ws[i] = [r.writes[i] EXCEPT !.fresh = FALSE]
      OBVIOUS
    <2> HIDE DEF ws
    <2> QED  BY <2>1, <2>2 DEF TabSaves
  <1>2. ws \in Seq(TabSaves) /\ DOMAIN ws = DOMAIN r.writes
    <2>1. Len(r.writes) \in Nat /\ DOMAIN r.writes = 1..Len(r.writes)
      BY <1>0
    <2>2. ws \in [1..Len(r.writes) -> TabSaves]
      BY <2>1, <1>1
    <2> HIDE DEF ws
    <2> QED  BY <2>1, <2>2
  <1>3. doc \in Documents /\ typed \in Documents /\ armed2 \in Flags
    BY <1>0 DEF Documents, Flags
  <1>4. s = [r EXCEPT !.doc = doc, !.dirty = TRUE, !.consent = FALSE, !.fresh = FALSE,
                      !.armed = armed2, !.typed = typed, !.writes = ws]
    BY DEF TabStates, Edited
  <1>w. ws \in SaveQueues
    BY <1>2 DEF SaveQueues
  <1> HIDE DEF ws, doc, typed, armed2
  <1>5. s \in TabStates
    <2> DEFINE q == [r EXCEPT !.doc = doc, !.dirty = TRUE, !.consent = FALSE, !.fresh = FALSE]
    <2>1. q \in TabStates
      BY <1>3, TabParts DEF TabStates
    <2>2. s = [q EXCEPT !.armed = armed2, !.typed = typed, !.writes = ws]
      BY <1>4
    <2> HIDE DEF q
    <2>3. [q EXCEPT !.armed = armed2, !.typed = typed, !.writes = ws] \in TabStates
      BY <2>1, <1>3, <1>w DEF TabStates
    <2> QED  BY <2>2, <2>3
  <1>6. /\ SameLock(r, s) /\ s.asking = r.asking /\ s.answering = r.answering
        /\ s.flush = r.flush /\ s.flushFailed = r.flushFailed /\ s.adopting = r.adopting
        /\ s.read = r.read /\ s.confirm = r.confirm /\ s.switching = r.switching
        /\ s.agreed = r.agreed /\ s.base = r.base /\ s.lost = r.lost
        /\ s.reloaded = r.reloaded
    BY <1>4 DEF TabStates, SameLock
  <1>7. /\ s.doc = doc /\ s.dirty /\ ~s.consent /\ ~s.fresh /\ s.armed = armed2
        /\ s.typed = typed /\ s.writes = ws
    BY <1>4 DEF TabStates
  <1>8. /\ r.doc \subseteq s.doc /\ s.typed \subseteq r.typed \union {e} /\ e \in s.doc
        /\ r.role # "editor" \/ r.flush # "none" => s.typed = r.typed
    BY <1>7 DEF doc, typed
  <1>a. Alternates(s.held, box, h, t)
    BY <1>6 DEF TabSound, SameLock
  <1>b. Beginning(s, box, t, queued)
    <2>1. r.writes = <<>> => s.writes = <<>>
      BY <1>7, <1>2
    <2> QED  BY <2>1, <1>6, <1>8 DEF TabSound, Beginning, SameLock
  <1>c. Roles(s, box)
    <2>1. /\ s.flush = "writing" => \E i \in DOMAIN s.writes : s.writes[i].kind = "flush"
          /\ \A i \in DOMAIN s.writes : s.writes[i].kind = "flush" =>
               /\ s.flush = "writing"
               /\ \A j \in DOMAIN s.writes : s.writes[j].kind = "flush" => i = j
      BY <1>1, <1>2, <1>6, <1>7 DEF TabSound, Roles
    <2>2. r.writes = <<>> => s.writes = <<>>
      BY <1>7, <1>2
    <2>3. s.armed => s.role = "editor"
      BY <1>6, <1>7 DEF armed2, SameLock
    <2> QED  BY <2>1, <2>2, <2>3, <1>6, <1>7 DEF TabSound, Roles, SameLock
  <1>d. Answered(s, box)
    BY <1>6 DEF TabSound, Answered, SameLock
  <1>e. Growing(s, d)
    <2>1. ASSUME NEW i \in DOMAIN s.writes
          PROVE  /\ s.base \subseteq s.writes[i].doc /\ s.writes[i].doc \subseteq s.doc
                 /\ ~s.writes[i].fresh
                 /\ \A j \in 1..(i - 1) : s.writes[j].doc \subseteq s.writes[i].doc
      <3>1. /\ r.base \subseteq r.writes[i].doc /\ r.writes[i].doc \subseteq r.doc
            /\ \A j \in 1..(i - 1) : r.writes[j].doc \subseteq r.writes[i].doc
        BY <1>2, <1>7 DEF TabSound, Growing
      <3>2. \A j \in 1..(i - 1) : j \in DOMAIN r.writes
        BY <1>2, <1>7, <1>0
      <3> QED  BY <3>1, <3>2, <1>1, <1>2, <1>6, <1>7, <1>8
    <2>2. s.base \subseteq s.doc /\ s.typed \subseteq s.doc
      BY <1>6, <1>8 DEF TabSound, Growing
    <2> QED  BY <2>1, <2>2, <1>7 DEF Growing
  <1>f. Agreed(s, d)
    BY <1>6, <1>7 DEF TabSound, Agreed
  <1>g. Reported(s, d)
    <2>1. r.flush = "none" => \A i \in DOMAIN s.writes : s.writes[i].kind # "flush"
      BY <1>1, <1>2, <1>6, <1>7 DEF TabSound, Roles
    <2>2. ASSUME r.flush # "none", s.role = "editor", NEW i \in DOMAIN s.writes,
                 s.writes[i].kind = "flush"
          PROVE  s.typed \subseteq s.writes[i].doc
      BY <2>2, <1>1, <1>2, <1>6, <1>7, <1>8 DEF TabSound, Reported, SameLock
    <2> QED  BY <2>1, <2>2, <1>6, <1>7, <1>8 DEF TabSound, Reported, SameLock
  <1>h. TabSound(t, s, box, h, queued, d)
    BY <1>a, <1>b, <1>c, <1>d, <1>e, <1>f, <1>g DEF TabSound
  <1>9. r.writes # <<>> => /\ s.writes # <<>>
                           /\ s.writes[1].checked = r.writes[1].checked
                           /\ s.writes[1].doc = r.writes[1].doc
    <2>1. r.writes # <<>> => 1 \in DOMAIN r.writes
      BY SavesTail
    <2> QED  BY <2>1, <1>1, <1>2, <1>7
  <1>10. \A inside : First(inside, r.writes) => First(inside, s.writes)
    BY <1>9 DEF First
  <1>11. SameReading(r, s)
    BY <1>6 DEF SameReading
  <1> QED  BY <1>5, <1>6, <1>10, <1>11, <1>h

\* The user agrees to become editor: it waits for the answer to its request, or,
\* holding the lock, reads the folder at once.
LEMMA Agrees ==
  ASSUME NEW t, NEW r \in TabStates, NEW box \in Seq(LockAnswers), NEW h, NEW queued, NEW d,
         TabSound(t, r, box, h, queued, d), r.role = "secondary", r.adopting = "none",
         NEW n \in Asks,
         NEW s \in {Agreeing(r), Asking(r, n)}
  PROVE  s \in TabStates /\ TabSound(t, s, box, h, queued, d)
         /\ SameLock(r, s) /\ SameFlush(r, s) /\ SameWords(r, s) /\ s.adopting = "none"
         /\ s.consent
  <1> DEFINE q == [r EXCEPT !.consent = TRUE, !.confirm = "none",
                               !.switching = TRUE, !.agreed = r.doc]
  <1>1. q \in TabStates
    BY TabParts DEF TabStates
  <1>2. q = Agreeing(r)
    BY DEF Agreeing
  <1>3. /\ SameLock(r, q) /\ SameFlush(r, q) /\ SameWords(r, q) /\ q.adopting = "none"
        /\ q.agreed = r.doc /\ q.consent
    BY DEF TabStates, SameLock, SameFlush, SameWords
  <1> HIDE DEF q
  <1>4. s \in TabStates
    <2>1. [q EXCEPT !.asking = n] \in TabStates
      BY <1>1 DEF TabStates
    <2> QED  BY <1>1, <1>2, <2>1 DEF Asking
  <1>5. /\ SameLock(r, s) /\ SameFlush(r, s) /\ SameWords(r, s) /\ s.adopting = "none"
        /\ s.agreed = r.doc /\ s.consent
    <2>1. CASE s = q
      BY <2>1, <1>3
    <2>2. CASE s = [q EXCEPT !.asking = n]
      BY <2>2, <1>1, <1>3 DEF TabStates, SameLock, SameFlush, SameWords
    <2> QED  BY <1>2, <2>1, <2>2 DEF Asking
  <1>a. Alternates(s.held, box, h, t)
    BY <1>5 DEF TabSound, SameLock
  <1>b. Beginning(s, box, t, queued)
    BY <1>5 DEF TabSound, Beginning, SameLock
  <1>c. Roles(s, box)
    BY <1>5 DEF TabSound, Roles, SameLock, SameFlush, SameWords
  <1>d. Answered(s, box)
    BY <1>5 DEF Answered
  <1>e. Growing(s, d)
    BY <1>5 DEF TabSound, Growing, SameFlush, SameWords
  <1>f. Agreed(s, d)
    BY <1>5 DEF TabSound, Agreed, SameWords
  <1>g. Reported(s, d)
    BY <1>5 DEF TabSound, Reported, SameLock, SameFlush, SameWords
  <1>h. TabSound(t, s, box, h, queued, d)
    BY <1>a, <1>b, <1>c, <1>d, <1>e, <1>f, <1>g DEF TabSound
  <1> QED  BY <1>4, <1>5, <1>h

LEMMA AdoptsAtOnce ==
  ASSUME NEW t, NEW r \in TabStates, NEW box \in Seq(LockAnswers), NEW h, NEW queued, NEW d,
         TabSound(t, r, box, h, queued, d), r.role = "secondary", r.consent,
         r.held, ~r.yielding
  PROVE  LET s == Acquired(r, "requested")
         IN  s \in TabStates /\ TabSound(t, s, box, h, queued, d)
             /\ s.role = "secondary" /\ s.adopting = "reading" /\ s.writes = r.writes
  <1> DEFINE s == Acquired(r, "requested")
  <1>1. s \in TabStates
    BY AcquiredType
  <1>2. /\ SameLock(r, s) /\ SameFlush(r, s) /\ SameWords(r, s)
        /\ s.adopting = "reading" /\ s.agreed = r.agreed /\ ~s.consent
        /\ s.switching /\ s.confirm = "none"
    BY DEF TabStates, Acquired, Superseded, Covered, SameLock, SameFlush, SameWords
  <1> HIDE DEF s
  <1>a. Alternates(s.held, box, h, t)
    BY <1>2 DEF TabSound, SameLock
  <1>b. Beginning(s, box, t, queued)
    BY <1>2 DEF TabSound, Beginning, SameLock
  <1>c. Roles(s, box)
    BY <1>2 DEF TabSound, Roles, SameLock, SameFlush, SameWords
  <1>d. Answered(s, box)
    BY <1>2 DEF Answered
  <1>e. Growing(s, d)
    BY <1>2 DEF TabSound, Growing, SameFlush, SameWords
  <1>f. Agreed(s, d)
    BY <1>2 DEF TabSound, Agreed, SameWords
  <1>g. Reported(s, d)
    BY <1>2 DEF TabSound, Reported, SameLock, SameFlush, SameWords
  <1>h. TabSound(t, s, box, h, queued, d)
    BY <1>a, <1>b, <1>c, <1>d, <1>e, <1>f, <1>g DEF TabSound
  <1>3. s.role = "secondary" /\ s.writes = r.writes
    BY <1>2 DEF SameLock, SameFlush
  <1> QED  BY <1>1, <1>2, <1>3, <1>h DEF s

\* A tab that is not open, or has just read the file, and has heard nothing.
LEMMA OpensOrCloses ==
  ASSUME NEW t, NEW h, h # t, NEW queued, ~Waits(t, queued), NEW d \in Documents,
         NEW s, s = Away \/ s = Opened(d)
  PROVE  s \in TabStates /\ TabSound(t, s, <<>>, h, queued, d)
         /\ s.role = "acquiring" /\ ~s.held
  <1>1. {} \in Documents /\ 0 \in Asks /\ <<>> \in SaveQueues
    BY TabsAssumption DEF Documents, Asks, SaveQueues
  <1>2. Away \in TabStates
    BY <1>1, TabParts DEF Away, TabStates
  <1>3. s \in TabStates
    <2>1. CASE s = Away
      BY <2>1, <1>2
    <2>2. CASE s = Opened(d)
      BY <2>2, <1>2, TabParts DEF TabStates, Opened
    <2> QED  BY <2>1, <2>2
  <1>4. /\ s.role = "acquiring" /\ ~s.held /\ ~s.yielding /\ ~s.handedOver /\ ~s.reloaded
        /\ s.typed = {} /\ s.writes = <<>> /\ s.asking = 0 /\ s.flush = "none"
        /\ s.adopting = "none" /\ ~s.armed /\ ~s.consent /\ ~s.dirty
        /\ s.base = s.doc /\ s.doc \subseteq d
    <2>1. CASE s = Away
      BY <2>1 DEF Away
    <2>2. CASE s = Opened(d)
      BY <2>2 DEF Away, Opened
    <2> QED  BY <2>1, <2>2
  <1>5. DOMAIN s.writes = {} /\ \A i \in DOMAIN <<>> : FALSE
    BY <1>4
  <1>a. Alternates(s.held, <<>>, h, t)
    BY <1>4, <1>5 DEF Alternates
  <1>b. Beginning(s, <<>>, t, queued)
    BY <1>4, <1>5 DEF Beginning, Has
  <1>c. Roles(s, <<>>)
    BY <1>4, <1>5 DEF Roles
  <1>d. Answered(s, <<>>)
    BY <1>4 DEF Answered
  <1>e. Growing(s, d)
    BY <1>4, <1>5 DEF Growing
  <1>f. Agreed(s, d)
    BY <1>4 DEF Agreed
  <1>g. Reported(s, d)
    BY <1>4 DEF Reported
  <1>h. TabSound(t, s, <<>>, h, queued, d)
    BY <1>a, <1>b, <1>c, <1>d, <1>e, <1>f, <1>g DEF TabSound
  <1> QED  BY <1>3, <1>4, <1>h

\* The project is coordinated.
LEMMA JoinsTheProject ==
  ASSUME NEW t, NEW r \in TabStates, NEW box, NEW h, NEW queued, NEW d,
         TabSound(t, r, box, h, queued, d), r.life = "read",
         NEW s, s = Joined(r)
  PROVE  /\ s \in TabStates /\ SameFlush(r, s) /\ SameAdoption(r, s) /\ SameWords(r, s)
         /\ s.role = "acquiring" /\ s.writes = <<>> /\ s.adopting = "none" /\ ~s.reloaded
         /\ ~s.held /\ s.yielding = r.yielding /\ s.handedOver = r.handedOver
         /\ s.asking = 0 /\ s.life = "open"
  <1>1. s \in TabStates
    BY TabParts DEF TabStates, Joined
  <1>2. /\ s.role = r.role /\ s.held = r.held /\ s.yielding = r.yielding
        /\ s.handedOver = r.handedOver /\ SameFlush(r, s) /\ SameAdoption(r, s)
        /\ SameWords(r, s) /\ s.asking = r.asking /\ s.life = "open"
    BY DEF TabStates, Joined, SameFlush, SameAdoption, SameWords
  <1>3. /\ r.role = "acquiring" /\ ~r.held /\ ~r.reloaded /\ r.writes = <<>>
        /\ r.asking = 0 /\ r.adopting = "none"
    BY DEF TabSound, Beginning
  <1> QED  BY <1>1, <1>2, <1>3 DEF SameFlush, SameAdoption, SameWords

\* The lock is taken at once if it is free.
LEMMA Coordinates ==
  ASSUME NEW t, NEW r \in TabStates, NEW box \in Seq(LockAnswers), NEW h, NEW after,
         NEW queued, NEW d, TabSound(t, r, box, h, queued, d), r.life = "read",
         NEW e \in {"initial", "occupied"},
         e = "initial" => h # t /\ after = t, e = "occupied" => after = h,
         NEW s, s = Joined(r)
  PROVE  TabSound(t, s, Append(box, e), after, queued, d)
  <1>2. /\ s.role = r.role /\ s.held = r.held /\ s.yielding = r.yielding
        /\ s.handedOver = r.handedOver /\ SameFlush(r, s) /\ SameAdoption(r, s)
        /\ SameWords(r, s) /\ s.asking = r.asking /\ s.life = "open"
    BY DEF TabStates, Joined, SameFlush, SameAdoption, SameWords
  <1>3. box = <<>> /\ r.role = "acquiring"
    BY DEF TabSound, Beginning
  <1>4. /\ ~r.held /\ ~r.reloaded /\ r.typed = {} /\ r.writes = <<>>
        /\ r.asking = 0 /\ r.flush = "none" /\ r.adopting = "none" /\ ~Waits(t, queued)
        /\ r.held \in BOOLEAN
    BY <1>3 DEF TabSound, Beginning, TabStates, Flags
  <1>5. e \in LockAnswers /\ e # "ended" /\ e \notin {"taken", "granted", "adopt"}
        /\ (e \in Gains <=> e = "initial")
    BY DEF Gains, LockAnswers
  <1> DEFINE left == Append(box, e)
  <1>6. /\ DOMAIN left = {1} /\ left[1] = e
    <2>1. Len(box) = 0
      BY <1>3
    <2>2. DOMAIN left = 1..1 /\ left[1] = e
      BY <2>1, <1>5, AppendBox
    <2> HIDE DEF left
    <2> QED  BY <2>2
  <1>7. \A S : Has(left, S) <=> e \in S
    <2> HIDE DEF left
    <2> QED  BY <1>6 DEF Has
  <1>a. Alternates(s.held, left, after, t)
    <2>1. Alternates(r.held, box, h, t)
      BY DEF TabSound
    <2>2. Alternates(r.held, left, after, t)
      <3>1. e \in Gains => h # t /\ after = t
        BY <1>5
      <3>2. e \notin Gains /\ e # "ended" => (h = t <=> after = t)
        BY <1>5
      <3> QED  BY <1>4, <1>5, <2>1, <3>1, <3>2, AlternatesAppend
    <2> QED  BY <2>2, <1>2
  <1> HIDE DEF left
  <1>b. Beginning(s, left, t, queued)
    BY <1>2, <1>3, <1>4, <1>5, <1>6, <1>7 DEF Beginning, SameFlush, SameAdoption, SameWords
  <1>c. Roles(s, left)
    BY <1>2, <1>4, <1>7 DEF TabSound, Roles, SameFlush, SameAdoption, SameWords
  <1>d. Answered(s, left)
    BY <1>2, <1>4 DEF Answered, SameAdoption
  <1>e. Growing(s, d)
    BY <1>2 DEF TabSound, Growing, SameFlush, SameWords
  <1>f. Agreed(s, d)
    BY <1>2 DEF TabSound, Agreed, SameAdoption, SameWords
  <1>g. Reported(s, d)
    BY <1>2 DEF TabSound, Reported, SameFlush, SameWords
  <1>h. TabSound(t, s, left, after, queued, d)
    BY <1>a, <1>b, <1>c, <1>d, <1>e, <1>f, <1>g DEF TabSound
  <1> QED  BY <1>h DEF left

\* One tab moves, and with it the lock or the box of one tab at most.
LEMMA AllSound ==
  ASSUME TabsInv, NEW t \in Tabs, NEW s \in TabStates, NEW left \in Seq(LockAnswers),
         tab' = [tab EXCEPT ![t] = s], inbox' = [inbox EXCEPT ![t] = left],
         disk \subseteq disk', disk' \in Documents,
         \A u \in Tabs : u # t =>
           /\ holder = u <=> holder' = u
           /\ Waits(u, waiting') => Waits(u, waiting) \/ tab[u].role # "acquiring",
         TabSound(t, s, left, holder', waiting', disk')
  PROVE  /\ tab' \in [Tabs -> TabStates] /\ inbox' \in [Tabs -> Seq(LockAnswers)]
         /\ \A u \in Tabs : TabSound(u, tab'[u], inbox'[u], holder', waiting', disk')
  <1>1. tab \in [Tabs -> TabStates] /\ inbox \in [Tabs -> Seq(LockAnswers)] /\ disk \in Documents
    BY DEF TabsInv, TabTypes
  <1>2. ASSUME NEW u \in Tabs
        PROVE  TabSound(u, tab'[u], inbox'[u], holder', waiting', disk')
    <2>1. CASE u = t
      <3>1. tab'[u] = s /\ inbox'[u] = left
        BY <1>1, <2>1
      <3> QED  BY <2>1, <3>1
    <2>2. CASE u # t
      <3>1. tab'[u] = tab[u] /\ inbox'[u] = inbox[u]
        BY <1>1, <2>2
      <3>2. TabSound(u, tab[u], inbox[u], holder, waiting, disk)
        BY DEF TabsInv
      <3>3. TabSound(u, tab[u], inbox[u], holder', waiting', disk')
        <4>1. holder = u <=> holder' = u
          BY <2>2
        <4>2. Waits(u, waiting') => Waits(u, waiting) \/ tab[u].role # "acquiring"
          BY <2>2
        <4>3. tab[u] \in TabStates /\ inbox[u] \in Seq(LockAnswers)
          BY <1>1
        <4> QED  BY <1>1, <3>2, <4>1, <4>2, <4>3, OthersMove
      <3> QED  BY <3>1, <3>3
    <2> QED  BY <2>1, <2>2
  <1> QED  BY <1>1, <1>2

\* Whoever may not be disturbed is not: a step that leaves the save in the scope
\* or ends it, and tells no other tab to write.
LEMMA AloneStays ==
  ASSUME NEW t \in Tabs, Alone(t), scope' = scope \/ scope' = None,
         \A u \in Tabs : u # t /\ Has(inbox'[u], {"write"}) => Has(inbox[u], {"write"})
  PROVE  Alone(t)'
  BY DEF Alone

\* A step of one tab that leaves the file and every other tab as they are.
LEMMA TabSteps ==
  ASSUME TabsInv, NEW t \in Tabs, NEW s \in TabStates, NEW left \in Seq(LockAnswers),
         tab' = [tab EXCEPT ![t] = s], inbox' = [inbox EXCEPT ![t] = left], disk' = disk,
         \/ scope' = scope
         \/ scope' = None /\ scope # None /\ (scope.tab = t \/ scope.fenced),
         holder' \in Tabs \union {None}, waiting' \in Seq(Tabs),
         \A i, j \in DOMAIN waiting' : waiting'[i] = waiting'[j] => i = j,
         mail' \in [Tabs -> Seq(Letters)],
         edits' \in 0..MaxEdits, asks' \in 0..MaxAsks, opens' \in Nat, failures' \in Nat,
         \A u \in Tabs : u # t =>
           /\ holder = u <=> holder' = u
           /\ Waits(u, waiting') => Waits(u, waiting) \/ tab[u].role # "acquiring",
         TabSound(t, s, left, holder', waiting', disk),
         AsksOnce(t, left, scope'),
         Has(left, {"write"}) => Has(inbox[t], {"write"}),
         scope' # None /\ scope.tab = t => First(scope, s.writes),
         UpToDate(s, left, disk, Alone(t))
  PROVE  TabsInv'
  <1>1. /\ tab \in [Tabs -> TabStates] /\ inbox \in [Tabs -> Seq(LockAnswers)]
        /\ disk \in Documents /\ scope \in WriteScopes \union {None}
    BY DEF TabsInv, TabTypes
  <1>2. /\ tab' \in [Tabs -> TabStates] /\ inbox' \in [Tabs -> Seq(LockAnswers)]
        /\ \A u \in Tabs : TabSound(u, tab'[u], inbox'[u], holder', waiting', disk')
    <2>1. disk \subseteq disk' /\ disk' \in Documents
      BY <1>1
    <2>2. TabSound(t, s, left, holder', waiting', disk')
      OBVIOUS
    <2> QED  BY <2>1, <2>2, AllSound
  <1>3. /\ tab'[t] = s /\ inbox'[t] = left
        /\ \A u \in Tabs : u # t => tab'[u] = tab[u] /\ inbox'[u] = inbox[u]
    BY <1>1
  <1>4. TabTypes'
    <2>1. scope' \in WriteScopes \union {None} /\ disk' \in Documents
      BY <1>1
    <2> QED  BY <1>2, <2>1 DEF TabTypes
  <1>5. OneSave'
    <2>1. ASSUME NEW u \in Tabs PROVE AsksOnce(u, inbox'[u], scope')
      <3>1. CASE u = t
        BY <3>1, <1>3
      <3>2. CASE u # t /\ scope' = scope
        BY <3>2, <1>3 DEF TabsInv, OneSave
      <3>3. CASE u # t /\ scope' # scope
        <4>1. AsksOnce(u, inbox[u], scope) /\ (scope.tab # u \/ scope.fenced)
          BY <3>3 DEF TabsInv, OneSave
        <4>2. \A i \in DOMAIN inbox[u] : inbox[u][i] \notin {"write", "refuse"}
          BY <4>1 DEF AsksOnce
        <4> QED  BY <3>3, <4>2, <1>3 DEF AsksOnce
      <3> QED  BY <3>1, <3>2, <3>3
    <2>2. scope' # None =>
           /\ scope'.expected \subseteq scope'.doc
           /\ ~scope'.live => scope'.fenced
           /\ First(scope', tab'[scope'.tab].writes)
      <3>1. ASSUME scope' # None PROVE scope' = scope /\ scope # None /\ scope.tab \in Tabs
        BY <3>1, <1>1 DEF WriteScopes
      <3>2. ASSUME scope' # None PROVE First(scope, tab'[scope.tab].writes)
        <4>1. CASE scope.tab = t
          BY <3>2, <4>1, <1>3
        <4>2. CASE scope.tab # t
          BY <3>1, <3>2, <4>2, <1>3 DEF TabsInv, OneSave
        <4> QED  BY <4>1, <4>2
      <3> QED  BY <3>1, <3>2 DEF TabsInv, OneSave
    <2> QED  BY <2>1, <2>2 DEF OneSave
  <1>6. ASSUME NEW u \in Tabs PROVE Current(u)'
    <2>1. Alone(u) => Alone(u)'
      <3>1. \A v \in Tabs : v # u /\ Has(inbox'[v], {"write"}) => Has(inbox[v], {"write"})
        BY <1>3
      <3> QED  BY <3>1, AloneStays
    <2>2. UpToDate(tab'[u], inbox'[u], disk, Alone(u))
      <3>1. CASE u = t
        BY <3>1, <1>3
      <3>2. CASE u # t
        BY <3>2, <1>3 DEF TabsInv, Current
      <3> QED  BY <3>1, <3>2
    <2> QED  BY <2>1, <2>2 DEF Current, UpToDate
  <1> QED  BY <1>2, <1>4, <1>5, <1>6 DEF TabsInv

\* What the invariant says of one tab.
LEMMA TabFacts ==
  ASSUME TabsInv, NEW t \in Tabs
  PROVE  /\ tab[t] \in TabStates /\ inbox[t] \in Seq(LockAnswers) /\ mail[t] \in Seq(Letters)
         /\ tab[t].writes \in Seq(TabSaves)
         /\ TabSound(t, tab[t], inbox[t], holder, waiting, disk)
         /\ AsksOnce(t, inbox[t], scope)
         /\ scope # None /\ scope.tab = t => First(scope, tab[t].writes)
         /\ UpToDate(tab[t], inbox[t], disk, Alone(t))
         /\ disk \in Documents
         /\ tab = [tab EXCEPT ![t] = tab[t]] /\ inbox = [inbox EXCEPT ![t] = inbox[t]]
  <1>1. /\ tab \in [Tabs -> TabStates] /\ inbox \in [Tabs -> Seq(LockAnswers)]
        /\ mail \in [Tabs -> Seq(Letters)] /\ disk \in Documents
    BY DEF TabsInv, TabTypes
  <1>2. tab[t].writes \in Seq(TabSaves)
    BY <1>1 DEF TabStates, SaveQueues
  <1>3. UpToDate(tab[t], inbox[t], disk, Alone(t))
    BY DEF TabsInv, Current
  <1>4. /\ AsksOnce(t, inbox[t], scope)
        /\ scope # None /\ scope.tab = t => First(scope, tab[t].writes)
    BY DEF TabsInv, OneSave
  <1>5. TabSound(t, tab[t], inbox[t], holder, waiting, disk)
    BY DEF TabsInv
  <1> QED  BY <1>1, <1>2, <1>3, <1>4, <1>5

\* A step of one tab that the lock manager has no part in.
LEMMA TabMoves ==
  ASSUME TabsInv, NEW t \in Tabs, NEW s \in TabStates,
         Becomes(t, s), UNCHANGED <<holder, waiting, inbox, scope, disk>>,
         mail' \in [Tabs -> Seq(Letters)],
         edits' \in 0..MaxEdits, asks' \in 0..MaxAsks, opens' \in Nat, failures' \in Nat,
         TabSound(t, s, inbox[t], holder, waiting, disk),
         scope # None /\ scope.tab = t => First(scope, s.writes),
         UpToDate(s, inbox[t], disk, Alone(t))
  PROVE  TabsInv'
  <1>1. /\ tab' = [tab EXCEPT ![t] = s] /\ inbox' = [inbox EXCEPT ![t] = inbox[t]]
        /\ disk' = disk /\ scope' = scope
        /\ inbox[t] \in Seq(LockAnswers) /\ AsksOnce(t, inbox[t], scope')
    BY TabFacts DEF Becomes
  <1>2. /\ holder' \in Tabs \union {None} /\ waiting' \in Seq(Tabs)
        /\ \A i, j \in DOMAIN waiting' : waiting'[i] = waiting'[j] => i = j
    BY DEF TabsInv, TabTypes
  <1>3. \A u \in Tabs : u # t =>
          /\ holder = u <=> holder' = u
          /\ Waits(u, waiting') => Waits(u, waiting) \/ tab[u].role # "acquiring"
    OBVIOUS
  <1>4. TabSound(t, s, inbox[t], holder', waiting', disk)
    OBVIOUS
  <1>5. scope' # None /\ scope.tab = t => First(scope, s.writes)
    BY <1>1
  <1> QED  BY <1>1, <1>2, <1>3, <1>4, <1>5, TabSteps

\* The letters keep their type.
LEMMA PostTypes ==
  ASSUME TabsInv, NEW t \in Tabs, NEW type, NEW id, [type |-> type, id |-> id] \in Letters,
         Post(t, type, id)
  PROVE  mail' \in [Tabs -> Seq(Letters)]
  <1>1. mail \in [Tabs -> Seq(Letters)]
    BY DEF TabsInv, TabTypes
  <1> DEFINE letter == [type |-> type, id |-> id]
  <1>2. letter \in Letters
    OBVIOUS
  <1>3. \A u \in Tabs : Append(mail[u], letter) \in Seq(Letters)
    <2> HIDE DEF letter
    <2> QED  BY <1>1, <1>2
  <1>4. mail' = [u \in Tabs |-> IF u # t /\ tab[u].life = "open"
                               THEN Append(mail[u], letter) ELSE mail[u]]
    BY DEF Post
  <1> HIDE DEF letter
  <1> QED  BY <1>1, <1>3, <1>4

LEMMA TabsCounters ==
  ASSUME TabsInv
  PROVE  /\ edits \in 0..MaxEdits /\ asks \in 0..MaxAsks /\ opens \in Nat /\ failures \in Nat
         /\ MaxEdits \in Nat /\ MaxAsks \in Nat /\ mail \in [Tabs -> Seq(Letters)]
         /\ holder \in Tabs \union {None} /\ waiting \in Seq(Tabs) /\ None \notin Tabs
         /\ \A i, j \in DOMAIN waiting : waiting[i] = waiting[j] => i = j
         /\ scope \in WriteScopes \union {None}
  BY TabsAssumption DEF TabsInv, TabTypes

LEMMA TabsAutoSave ==
  ASSUME TabsInv, NEW t \in Tabs, AutoSave(t)
  PROVE  TabsInv'
  <1> DEFINE r == tab[t]
             w == Write("auto", r.doc)
             s == AutoSaved(r)
  <1>1. /\ r \in TabStates /\ inbox[t] \in Seq(LockAnswers) /\ r.writes \in Seq(TabSaves)
        /\ TabSound(t, r, inbox[t], holder, waiting, disk)
        /\ scope # None /\ scope.tab = t => First(scope, r.writes)
        /\ UpToDate(r, inbox[t], disk, Alone(t))
    BY TabFacts
  <1>2. r.armed /\ Becomes(t, s) /\ UNCHANGED <<holder, waiting, inbox, scope, disk>>
        /\ UNCHANGED <<mail, edits, asks, opens, failures>>
    BY DEF AutoSave, AutoSaved, locks, bounds
  <1>3. s \in TabStates /\ TabSound(t, s, inbox[t], holder, waiting, disk)
    BY <1>1, <1>2, SavesByTimer
  <1>4. s.writes = Append(r.writes, w) /\ s.held = r.held /\ s.role = r.role
        /\ s.adopting = r.adopting /\ s.read = r.read /\ s.reloaded = r.reloaded
        /\ s.base = r.base
    BY <1>1 DEF TabStates, AutoSaved
  <1>5. w \in TabSaves
    BY <1>1, QueuedSave
  <1> HIDE DEF s, r, w
  <1>6. UpToDate(s, inbox[t], disk, Alone(t))
    BY <1>1, <1>4 DEF UpToDate
  <1>7. scope # None /\ scope.tab = t => First(scope, s.writes)
    <2>1. r.writes # <<>> => s.writes # <<>> /\ s.writes[1] = r.writes[1]
      BY <1>1, <1>4, <1>5
    <2> QED  BY <1>1, <2>1 DEF First
  <1>8. /\ mail' \in [Tabs -> Seq(Letters)] /\ edits' \in 0..MaxEdits
        /\ asks' \in 0..MaxAsks /\ opens' \in Nat /\ failures' \in Nat
    BY <1>2, TabsCounters
  <1> QED  BY <1>2, <1>3, <1>6, <1>7, <1>8, TabMoves

LEMMA TabsYield ==
  ASSUME TabsInv, NEW t \in Tabs, Yield(t)
  PROVE  TabsInv'
  <1> DEFINE r == tab[t]
             q == Unanswered(r)
             y == HandedOver(r)
  <1>1. /\ r \in TabStates /\ inbox[t] \in Seq(LockAnswers)
        /\ TabSound(t, r, inbox[t], holder, waiting, disk)
        /\ scope # None /\ scope.tab = t => First(scope, r.writes)
        /\ UpToDate(r, inbox[t], disk, Alone(t))
    BY TabFacts
  <1>2. r.flush = "done" /\ UNCHANGED <<holder, waiting, inbox, scope, disk>>
        /\ UNCHANGED <<edits, asks, opens, failures>>
    BY DEF Yield, locks, bounds
  <1>3. edits' \in 0..MaxEdits /\ asks' \in 0..MaxAsks /\ opens' \in Nat /\ failures' \in Nat
    BY <1>2, TabsCounters
  <1>4. CASE r.held
    <2>1. Becomes(t, y) /\ Post(t, "released", r.answering)
      <3>1. q.held
        BY <1>1, <1>4 DEF TabStates, Unanswered
      <3> QED  BY <3>1 DEF Yield, Unanswered, HandedOver
    <2>2. /\ y \in TabStates /\ TabSound(t, y, inbox[t], holder, waiting, disk)
          /\ y.role = "secondary" /\ y.adopting = "none" /\ y.writes = r.writes
      BY <1>1, <1>2, <1>4, HandsOver
    <2>3. mail' \in [Tabs -> Seq(Letters)]
      <3>1. r.answering \in 1..MaxAsks
        <4>1. r.answering \in 0..MaxAsks /\ r.answering # 0
          BY <1>1, <1>2 DEF TabSound, Roles, TabStates, Asks
        <4> QED  BY <4>1, TabsCounters
      <3>2. [type |-> "released", id |-> r.answering] \in Letters
        BY <3>1 DEF Letters
      <3> QED  BY <2>1, <3>2, PostTypes
    <2> HIDE DEF y, r, q
    <2>4. UpToDate(y, inbox[t], disk, Alone(t))
      BY <2>2 DEF UpToDate
    <2>5. scope # None /\ scope.tab = t => First(scope, y.writes)
      BY <1>1, <2>2
    <2> QED  BY <1>2, <1>3, <2>1, <2>2, <2>3, <2>4, <2>5, TabMoves
  <1>5. CASE ~r.held
    <2>1. Becomes(t, q) /\ UNCHANGED mail
      <3>1. ~q.held
        BY <1>1, <1>5 DEF TabStates, Unanswered
      <3> QED  BY <3>1 DEF Yield, Unanswered
    <2>2. /\ q \in TabStates /\ TabSound(t, q, inbox[t], holder, waiting, disk)
          /\ SameLock(r, q) /\ q.writes = r.writes
      BY <1>1, <1>2, <1>5, ForgetsHandover
    <2>3. mail' \in [Tabs -> Seq(Letters)]
      BY <2>1, TabsCounters
    <2> HIDE DEF y, r, q
    <2>4. UpToDate(q, inbox[t], disk, Alone(t))
      BY <1>5, <2>2 DEF UpToDate, SameLock
    <2>5. scope # None /\ scope.tab = t => First(scope, q.writes)
      BY <1>1, <2>2
    <2> QED  BY <1>2, <1>3, <2>1, <2>2, <2>3, <2>4, <2>5, TabMoves
  <1> QED  BY <1>4, <1>5

LEMMA TabsEdit ==
  ASSUME TabsInv, NEW t \in Tabs, Edit(t)
  PROVE  TabsInv'
  <1> DEFINE r == tab[t]
             e == edits + 1
             s == Edited(r, e)
  <1>1. /\ r \in TabStates /\ inbox[t] \in Seq(LockAnswers)
        /\ TabSound(t, r, inbox[t], holder, waiting, disk)
        /\ scope # None /\ scope.tab = t => First(scope, r.writes)
        /\ UpToDate(r, inbox[t], disk, Alone(t))
    BY TabFacts
  <1>2. /\ edits < MaxEdits /\ edits' = e /\ Becomes(t, s)
        /\ UNCHANGED <<holder, waiting, inbox, scope, disk>>
        /\ UNCHANGED <<mail, asks, opens, failures>>
    BY DEF Edit, Edited, locks
  <1>3. /\ e \in Edits /\ edits' \in 0..MaxEdits /\ asks' \in 0..MaxAsks /\ opens' \in Nat
        /\ failures' \in Nat /\ mail' \in [Tabs -> Seq(Letters)]
    BY <1>2, TabsCounters DEF Edits
  <1> HIDE DEF e
  <1>4. /\ s \in TabStates /\ TabSound(t, s, inbox[t], holder, waiting, disk)
        /\ SameLock(r, s) /\ SameReading(r, s)
        /\ \A inside : First(inside, r.writes) => First(inside, s.writes)
    BY <1>1, <1>2, <1>3, EditsOn
  <1> HIDE DEF s, r
  <1>5. UpToDate(s, inbox[t], disk, Alone(t))
    BY <1>1, <1>4 DEF UpToDate, SameLock, SameReading
  <1>6. scope # None /\ scope.tab = t => First(scope, s.writes)
    BY <1>1, <1>4
  <1> QED  BY <1>2, <1>3, <1>4, <1>5, <1>6, TabMoves

LEMMA TabsEditHere ==
  ASSUME TabsInv, NEW t \in Tabs, EditHere(t)
  PROVE  TabsInv'
  <1> DEFINE r == tab[t]
             s == [r EXCEPT !.confirm = "requested"]
  <1>1. /\ r \in TabStates /\ inbox[t] \in Seq(LockAnswers)
        /\ TabSound(t, r, inbox[t], holder, waiting, disk)
        /\ scope # None /\ scope.tab = t => First(scope, r.writes)
        /\ UpToDate(r, inbox[t], disk, Alone(t))
    BY TabFacts
  <1>2. /\ ~r.switching /\ Becomes(t, s)
        /\ UNCHANGED <<holder, waiting, inbox, scope, disk>>
        /\ UNCHANGED <<mail, edits, asks, opens, failures>>
    BY DEF EditHere, locks, bounds
  <1>3. /\ edits' \in 0..MaxEdits /\ asks' \in 0..MaxAsks /\ opens' \in Nat
        /\ failures' \in Nat /\ mail' \in [Tabs -> Seq(Letters)]
    BY <1>2, TabsCounters
  <1>4. r.adopting = "none" /\ "requested" \in Questions
    BY <1>1, <1>2, TabParts DEF TabSound, Roles
  <1>5. /\ s \in TabStates /\ TabSound(t, s, inbox[t], holder, waiting, disk)
        /\ SameLock(r, s) /\ SameFlush(r, s) /\ SameWords(r, s)
        /\ s.adopting = r.adopting /\ s.read = r.read
    BY <1>1, <1>4, AsksItsUser
  <1> HIDE DEF s, r
  <1>6. UpToDate(s, inbox[t], disk, Alone(t))
    BY <1>1, <1>5 DEF UpToDate, SameLock, SameWords
  <1>7. scope # None /\ scope.tab = t => First(scope, s.writes)
    BY <1>1, <1>5 DEF SameFlush
  <1> QED  BY <1>2, <1>3, <1>5, <1>6, <1>7, TabMoves

LEMMA TabsConfirm ==
  ASSUME TabsInv, NEW t \in Tabs, Confirm(t)
  PROVE  TabsInv'
  <1> DEFINE r == tab[t]
             q == Agreeing(r)
  <1>1. /\ r \in TabStates /\ inbox[t] \in Seq(LockAnswers)
        /\ TabSound(t, r, inbox[t], holder, waiting, disk)
        /\ scope # None /\ scope.tab = t => First(scope, r.writes)
        /\ UpToDate(r, inbox[t], disk, Alone(t))
    BY TabFacts
  <1>2. /\ r.role = "secondary" /\ (r.confirm # "none" \/ ~r.switching) /\ asks < MaxAsks
        /\ UNCHANGED <<holder, waiting, inbox, scope, disk>>
        /\ UNCHANGED <<edits, opens, failures>>
    BY DEF Confirm, locks
  <1>3. \/ /\ q.held /\ ~q.yielding /\ Becomes(t, Acquired(q, "requested"))
           /\ UNCHANGED <<mail, asks>>
        \/ Becomes(t, q) /\ UNCHANGED <<mail, asks>>
        \/ /\ Becomes(t, Asking(r, asks + 1)) /\ asks' = asks + 1
           /\ Post(t, "release-request", asks + 1)
    BY DEF Confirm, Agreeing, Asking
  <1>4. /\ edits' \in 0..MaxEdits /\ asks' \in 0..MaxAsks /\ opens' \in Nat /\ failures' \in Nat
        /\ asks + 1 \in 1..MaxAsks /\ asks + 1 \in Asks
        /\ UNCHANGED mail => mail' \in [Tabs -> Seq(Letters)]
    BY <1>2, <1>3, TabsCounters DEF Asks
  <1>5. r.adopting = "none"
    BY <1>1, <1>2 DEF TabSound, Roles
  <1> HIDE DEF r, q
  <1>6. ASSUME NEW s, NEW n \in Asks, s \in {Agreeing(r), Asking(r, n)}
        PROVE  /\ s \in TabStates /\ TabSound(t, s, inbox[t], holder, waiting, disk)
               /\ SameLock(r, s) /\ SameFlush(r, s) /\ s.adopting = "none" /\ s.consent
    <2>1. /\ r \in TabStates /\ inbox[t] \in Seq(LockAnswers)
          /\ TabSound(t, r, inbox[t], holder, waiting, disk)
          /\ r.role = "secondary" /\ r.adopting = "none"
      BY <1>1, <1>2, <1>5
    <2>2. /\ s \in TabStates /\ TabSound(t, s, inbox[t], holder, waiting, disk)
          /\ SameLock(r, s) /\ SameFlush(r, s) /\ SameWords(r, s) /\ s.adopting = "none"
          /\ s.consent
      BY <1>6, <2>1, Agrees
    <2> QED  BY <2>2
  <1>7. ASSUME NEW s \in TabStates, TabSound(t, s, inbox[t], holder, waiting, disk),
               s.adopting \notin {"read", "asking"}, s.role = "secondary",
               s.writes = r.writes, Becomes(t, s), mail' \in [Tabs -> Seq(Letters)]
        PROVE  TabsInv'
    <2>1. UpToDate(s, inbox[t], disk, Alone(t))
      BY <1>7 DEF UpToDate
    <2>2. scope # None /\ scope.tab = t => First(scope, s.writes)
      BY <1>1, <1>7
    <2> QED  BY <1>2, <1>4, <1>7, <2>1, <2>2, TabMoves
  <1>8. CASE q.held /\ ~q.yielding /\ Becomes(t, Acquired(q, "requested"))
             /\ UNCHANGED <<mail, asks>>
    <2> DEFINE s == Acquired(q, "requested")
    <2>1. /\ q \in TabStates /\ TabSound(t, q, inbox[t], holder, waiting, disk)
          /\ SameLock(r, q) /\ SameFlush(r, q) /\ q.consent
      BY <1>4, <1>6 DEF q
    <2>2. q.role = "secondary" /\ q.writes = r.writes
      BY <1>2, <2>1 DEF SameLock, SameFlush
    <2>3. /\ s \in TabStates /\ TabSound(t, s, inbox[t], holder, waiting, disk)
          /\ s.role = "secondary" /\ s.adopting = "reading" /\ s.writes = q.writes
      BY <1>1, <1>8, <2>1, <2>2, AdoptsAtOnce
    <2> HIDE DEF s
    <2> QED  BY <1>4, <1>7, <1>8, <2>2, <2>3 DEF s
  <1>9. CASE Becomes(t, q) /\ UNCHANGED <<mail, asks>>
    <2>1. /\ q \in TabStates /\ TabSound(t, q, inbox[t], holder, waiting, disk)
          /\ SameLock(r, q) /\ SameFlush(r, q) /\ q.adopting = "none"
      BY <1>4, <1>6 DEF q
    <2>2. q.role = "secondary" /\ q.writes = r.writes
      BY <1>2, <2>1 DEF SameLock, SameFlush
    <2> QED  BY <1>4, <1>7, <1>9, <2>1, <2>2
  <1>10. CASE Becomes(t, Asking(r, asks + 1)) /\ Post(t, "release-request", asks + 1)
    <2> DEFINE s == Asking(r, asks + 1)
    <2>1. s = Asking(r, asks + 1)
      OBVIOUS
    <2>2. Becomes(t, s)
      BY <1>10
    <2> HIDE DEF s
    <2>3. /\ s \in TabStates /\ TabSound(t, s, inbox[t], holder, waiting, disk)
          /\ SameLock(r, s) /\ SameFlush(r, s) /\ s.adopting = "none"
      BY <1>4, <1>6, <2>1
    <2>4. s.role = "secondary" /\ s.writes = r.writes
      BY <1>2, <2>3 DEF SameLock, SameFlush
    <2>5. mail' \in [Tabs -> Seq(Letters)]
      <3>1. [type |-> "release-request", id |-> asks + 1] \in Letters
        BY <1>4 DEF Letters
      <3> QED  BY <1>10, <3>1, PostTypes
    <2> QED  BY <1>7, <2>2, <2>3, <2>4, <2>5
  <1> QED  BY <1>3, <1>8, <1>9, <1>10

LEMMA TabsAdoptRead ==
  ASSUME TabsInv, NEW t \in Tabs, AdoptRead(t)
  PROVE  TabsInv'
  <1> DEFINE r == tab[t]
             s == HasRead(r, disk)
  <1>1. /\ r \in TabStates /\ inbox[t] \in Seq(LockAnswers) /\ disk \in Documents
        /\ TabSound(t, r, inbox[t], holder, waiting, disk)
    BY TabFacts
  <1>2. /\ r.adopting = "reading" /\ r.writes = <<>> /\ scope = None /\ inbox[t] = <<>>
        /\ Becomes(t, s)
        /\ UNCHANGED <<holder, waiting, inbox, scope, disk>>
        /\ UNCHANGED <<mail, edits, asks, opens, failures>>
    BY DEF AdoptRead, HasRead, locks, bounds
  <1>3. /\ edits' \in 0..MaxEdits /\ asks' \in 0..MaxAsks /\ opens' \in Nat
        /\ failures' \in Nat /\ mail' \in [Tabs -> Seq(Letters)]
    BY <1>2, TabsCounters
  <1> HIDE DEF r
  <1>4. /\ s \in TabStates /\ TabSound(t, s, inbox[t], holder, waiting, disk)
        /\ s.role = r.role /\ s.held = r.held /\ s.adopting = "read" /\ s.read = disk
    BY <1>1, <1>2, ReadsToAdopt
  <1>5. Alone(t)
    <2>1. \A u \in Tabs : AsksOnce(u, inbox[u], None)
      BY <1>2, TabFacts
    <2> QED  BY <1>2, <2>1 DEF Alone, AsksOnce, Has
  <1>6. s.role # "editor"
    BY <1>1, <1>2, <1>4 DEF TabSound, Roles
  <1> HIDE DEF s
  <1>7. UpToDate(s, inbox[t], disk, Alone(t))
    BY <1>4, <1>5, <1>6 DEF UpToDate
  <1>8. scope # None /\ scope.tab = t => First(scope, s.writes)
    BY <1>2
  <1> QED  BY <1>2, <1>3, <1>4, <1>7, <1>8, TabMoves

LEMMA TabsAdoptFails ==
  ASSUME TabsInv, NEW t \in Tabs, AdoptFails(t)
  PROVE  TabsInv'
  <1> DEFINE r == tab[t]
             s == StaysSecondary(r)
  <1>1. /\ r \in TabStates /\ inbox[t] \in Seq(LockAnswers)
        /\ TabSound(t, r, inbox[t], holder, waiting, disk)
        /\ scope # None /\ scope.tab = t => First(scope, r.writes)
        /\ UpToDate(r, inbox[t], disk, Alone(t))
    BY TabFacts
  <1>2. /\ Becomes(t, s) /\ failures' = failures + 1
        /\ UNCHANGED <<holder, waiting, inbox, scope, disk>>
        /\ UNCHANGED <<mail, edits, asks, opens>>
    BY DEF AdoptFails, StaysSecondary, locks
  <1>3. /\ edits' \in 0..MaxEdits /\ asks' \in 0..MaxAsks /\ opens' \in Nat
        /\ failures' \in Nat /\ mail' \in [Tabs -> Seq(Letters)]
    BY <1>2, TabsCounters
  <1> HIDE DEF r
  <1>4. /\ s \in TabStates /\ TabSound(t, s, inbox[t], holder, waiting, disk)
        /\ SameLock(r, s) /\ SameFlush(r, s) /\ SameWords(r, s) /\ s.adopting = "none"
    BY <1>1, StopsAdopting
  <1> HIDE DEF s
  <1>5. UpToDate(s, inbox[t], disk, Alone(t))
    BY <1>1, <1>4 DEF UpToDate, SameLock, SameWords
  <1>6. scope # None /\ scope.tab = t => First(scope, s.writes)
    BY <1>1, <1>4 DEF SameFlush
  <1> QED  BY <1>2, <1>3, <1>4, <1>5, <1>6, TabMoves

\* A save that is refused or fails leaves what the tab has read.
LEMMA UnsavedUpToDate ==
  ASSUME NEW r \in TabStates, r.writes # <<>>, NEW box, NEW d, NEW alone,
         UpToDate(r, box, d, alone)
  PROVE  UpToDate(Settled(r, FALSE), box, d, alone)
  <1>1. LET s == Settled(r, FALSE)
        IN  s.held = r.held /\ s.adopting = r.adopting /\ s.read = r.read /\ s.role = r.role
            /\ s.reloaded = r.reloaded /\ s.base = r.base
    BY DEF TabStates, Settled
  <1> QED  BY <1>1 DEF UpToDate

LEMMA TabsRoleCheck ==
  ASSUME TabsInv, NEW t \in Tabs, RoleCheck(t)
  PROVE  TabsInv'
  <1> DEFINE r == tab[t]
  <1>1. /\ r \in TabStates /\ inbox[t] \in Seq(LockAnswers)
        /\ TabSound(t, r, inbox[t], holder, waiting, disk)
        /\ scope # None /\ scope.tab = t => First(scope, r.writes)
        /\ UpToDate(r, inbox[t], disk, Alone(t))
    BY TabFacts
  <1>2. /\ r.writes # <<>> /\ ~Head(r.writes).checked
        /\ Becomes(t, RoleChecked(r)) \/ Becomes(t, Settled(r, FALSE))
        /\ UNCHANGED <<holder, waiting, inbox, scope, disk>>
        /\ UNCHANGED <<mail, edits, asks, opens, failures>>
    BY DEF RoleCheck, RoleChecked, locks, bounds
  <1>3. /\ edits' \in 0..MaxEdits /\ asks' \in 0..MaxAsks /\ opens' \in Nat
        /\ failures' \in Nat /\ mail' \in [Tabs -> Seq(Letters)]
    BY <1>2, TabsCounters
  <1> HIDE DEF r
  <1>4. scope # None /\ scope.tab = t => ~scope.live
    <2>1. Head(r.writes) = r.writes[1]
      BY <1>1, <1>2, SavesTail
    <2> QED  BY <1>1, <1>2, <2>1 DEF First
  <1>5. CASE Becomes(t, RoleChecked(r))
    <2> DEFINE s == RoleChecked(r)
    <2>1. /\ s \in TabStates /\ TabSound(t, s, inbox[t], holder, waiting, disk)
          /\ SameLock(r, s) /\ SameAdoption(r, s) /\ SameWords(r, s)
      BY <1>1, <1>2, ChecksRole
    <2>2. Becomes(t, s)
      BY <1>5
    <2> HIDE DEF s
    <2>3. UpToDate(s, inbox[t], disk, Alone(t))
      BY <1>1, <2>1 DEF UpToDate, SameLock, SameAdoption, SameWords
    <2>4. scope # None /\ scope.tab = t => First(scope, s.writes)
      BY <1>4 DEF First
    <2> QED  BY <1>2, <1>3, <2>1, <2>2, <2>3, <2>4, TabMoves
  <1>6. CASE Becomes(t, Settled(r, FALSE))
    <2>1. /\ Settled(r, FALSE) \in TabStates
          /\ TabSound(t, Settled(r, FALSE), inbox[t], holder, waiting, disk)
      BY <1>1, <1>2, SettledUnsaved
    <2>2. UpToDate(Settled(r, FALSE), inbox[t], disk, Alone(t))
      BY <1>1, <1>2, UnsavedUpToDate
    <2>3. scope # None /\ scope.tab = t => First(scope, Settled(r, FALSE).writes)
      BY <1>4 DEF First
    <2> QED  BY <1>2, <1>3, <1>6, <2>1, <2>2, <2>3, TabMoves
  <1> QED  BY <1>2, <1>5, <1>6

\* What no part of the invariant is about changes.
LEMMA QuietChange ==
  ASSUME NEW t, NEW r \in TabStates, NEW box \in Seq(LockAnswers), NEW h, NEW queued, NEW d,
         TabSound(t, r, box, h, queued, d),
         NEW s \in {[r EXCEPT !.asking = 0], [r EXCEPT !.behind = TRUE],
                    [r EXCEPT !.timer = FALSE]}
  PROVE  /\ s \in TabStates /\ TabSound(t, s, box, h, queued, d)
         /\ SameLock(r, s) /\ SameFlush(r, s) /\ SameAdoption(r, s) /\ SameWords(r, s)
  <1>1. s \in TabStates
    <2>1. 0 \in Asks
      BY TabsAssumption DEF Asks
    <2>2. /\ [r EXCEPT !.asking = 0] \in TabStates /\ [r EXCEPT !.behind = TRUE] \in TabStates
          /\ [r EXCEPT !.timer = FALSE] \in TabStates
      BY <2>1, TabParts DEF TabStates
    <2> QED  BY <2>2
  <1>2. /\ SameLock(r, s) /\ SameFlush(r, s) /\ SameAdoption(r, s) /\ SameWords(r, s)
        /\ s.asking = r.asking \/ s.asking = 0
    BY DEF TabStates, SameLock, SameFlush, SameAdoption, SameWords
  <1>3. TabSound(t, s, box, h, queued, d)
    BY <1>1, <1>2, NothingChanges
  <1> QED  BY <1>1, <1>2, <1>3

\* What a tab read is still the file when more answers are on their way to it.
LEMMA StillUpToDate ==
  ASSUME NEW r, NEW s, NEW box, NEW left, NEW d, NEW alone, UpToDate(r, box, d, alone),
         SameLock(r, s), SameReading(r, s), Has(box, {"ended"}) => Has(left, {"ended"})
  PROVE  UpToDate(s, left, d, alone)
  BY DEF UpToDate, SameLock, SameReading

LEMMA SameReads ==
  ASSUME NEW r, NEW s, SameAdoption(r, s), SameWords(r, s)
  PROVE  SameReading(r, s)
  BY DEF SameReading, SameAdoption, SameWords

\* An answer that is not about a save leaves the save in the scope alone.
LEMMA AsksOnceAppend ==
  ASSUME NEW t, NEW box \in Seq(LockAnswers), NEW inside, AsksOnce(t, box, inside),
         NEW e \in LockAnswers, e \notin {"write", "refuse"}
  PROVE  AsksOnce(t, Append(box, e), inside)
  <1> DEFINE left == Append(box, e)
  <1>1. /\ DOMAIN left = 1..(Len(box) + 1) /\ DOMAIN box = 1..Len(box) /\ Len(box) \in Nat
        /\ \A i \in DOMAIN box : left[i] = box[i] /\ i \in DOMAIN left
        /\ left[Len(box) + 1] = e
    BY AppendBox
  <1> HIDE DEF left
  <1>2. ASSUME NEW i \in DOMAIN left, left[i] \in {"write", "refuse"}
        PROVE  i \in DOMAIN box /\ left[i] = box[i]
    BY <1>1, <1>2
  <1> QED  BY <1>2 DEF AsksOnce, left

LEMMA AsksOnceTail ==
  ASSUME NEW t, NEW box \in Seq(LockAnswers), box # <<>>, NEW inside,
         AsksOnce(t, box, inside)
  PROVE  AsksOnce(t, Tail(box), inside)
  <1> DEFINE left == Tail(box)
  <1>1. /\ DOMAIN left = 1..(Len(box) - 1) /\ Len(box) \in Nat
        /\ \A i \in DOMAIN left : left[i] = box[i + 1] /\ i + 1 \in DOMAIN box
    BY TailBox
  <1> HIDE DEF left
  <1>2. ASSUME NEW i \in DOMAIN left, left[i] \in {"write", "refuse"}
        PROVE  /\ inside # None /\ inside.tab = t /\ inside.live /\ ~inside.fenced
               /\ \A j \in DOMAIN left : left[j] \in {"write", "refuse"} => i = j
    <2>1. i + 1 \in DOMAIN box /\ box[i + 1] \in {"write", "refuse"}
      BY <1>1, <1>2
    <2>2. /\ inside # None /\ inside.tab = t /\ inside.live /\ ~inside.fenced
          /\ \A j \in DOMAIN box : box[j] \in {"write", "refuse"} => i + 1 = j
      BY <2>1 DEF AsksOnce
    <2>3. ASSUME NEW j \in DOMAIN left, left[j] \in {"write", "refuse"} PROVE i = j
      <3>1. j + 1 \in DOMAIN box /\ box[j + 1] \in {"write", "refuse"}
        BY <1>1, <2>3
      <3>2. i + 1 = j + 1 /\ i \in Nat /\ j \in Nat
        BY <1>1, <2>2, <3>1
      <3> QED  BY <3>2
    <2> QED  BY <2>2, <2>3
  <1> QED  BY <1>2 DEF AsksOnce, left

\* A step in which one tab's box gets an answer of the lock manager's about locks,
\* or none.
LEMMA TabAnswered ==
  ASSUME TabsInv, NEW t \in Tabs, NEW s \in TabStates, NEW left \in Seq(LockAnswers),
         Becomes(t, s), inbox' = [inbox EXCEPT ![t] = left], UNCHANGED <<scope, disk>>,
         NEW e \in LockAnswers, e \notin {"write", "refuse"},
         left = inbox[t] \/ left = Append(inbox[t], e),
         holder' \in Tabs \union {None}, waiting' \in Seq(Tabs),
         \A i, j \in DOMAIN waiting' : waiting'[i] = waiting'[j] => i = j,
         mail' \in [Tabs -> Seq(Letters)],
         edits' \in 0..MaxEdits, asks' \in 0..MaxAsks, opens' \in Nat, failures' \in Nat,
         \A u \in Tabs : u # t =>
           /\ holder = u <=> holder' = u
           /\ Waits(u, waiting') => Waits(u, waiting) \/ tab[u].role # "acquiring",
         TabSound(t, s, left, holder', waiting', disk),
         scope # None /\ scope.tab = t => First(scope, s.writes),
         UpToDate(s, left, disk, Alone(t))
  PROVE  TabsInv'
  <1>1. inbox[t] \in Seq(LockAnswers) /\ AsksOnce(t, inbox[t], scope)
    BY TabFacts
  <1>2. AsksOnce(t, left, scope') /\ (Has(left, {"write"}) => Has(inbox[t], {"write"}))
    <2>1. CASE left = inbox[t]
      BY <2>1, <1>1
    <2>2. CASE left = Append(inbox[t], e)
      <3>1. AsksOnce(t, Append(inbox[t], e), scope)
        BY <1>1, AsksOnceAppend
      <3>2. Has(Append(inbox[t], e), {"write"}) => Has(inbox[t], {"write"})
        BY <1>1, HasAppend
      <3> QED  BY <2>2, <3>1, <3>2
    <2> QED  BY <2>1, <2>2
  <1>3. tab' = [tab EXCEPT ![t] = s] /\ disk' = disk /\ scope' = scope
    BY DEF Becomes
  <1>4. scope' # None /\ scope.tab = t => First(scope, s.writes)
    BY <1>3
  <1> QED  BY <1>1, <1>2, <1>3, <1>4, TabSteps

\* Whom the lock manager gave the lock has the project open.
LEMMA HolderIsOpen ==
  ASSUME NEW t, NEW r, NEW box, NEW queued, NEW d, TabSound(t, r, box, t, queued, d)
  PROVE  r.life = "open"
  <1>1. Alternates(r.held, box, t, t) /\ Beginning(r, box, t, queued)
    BY DEF TabSound
  <1>2. ASSUME r.life # "open" PROVE FALSE
    <2>1. ~r.held /\ box = <<>>
      BY <1>1, <1>2 DEF Beginning
    <2>2. DOMAIN box = {}
      BY <2>1
    <2> QED  BY <1>1, <2>1, <2>2 DEF Alternates
  <1> QED  BY <1>2

\* Other tabs wait or stop waiting.
LEMMA QueueMoves ==
  ASSUME NEW t, NEW r \in TabStates, NEW box \in Seq(LockAnswers), NEW h,
         NEW queued, NEW then, NEW d \in Documents,
         TabSound(t, r, box, h, queued, d),
         Waits(t, then) => Waits(t, queued) \/ r.role # "acquiring"
  PROVE  TabSound(t, r, box, h, then, d)
  <1>1. d \subseteq d /\ (h = t <=> h = t)
    OBVIOUS
  <1> QED  BY <1>1, OthersMove

\* The queue without a tab, for the tabs in it.
LEMMA WaitsWithout ==
  ASSUME TabsInv, NEW t \in Tabs
  PROVE  /\ Without(waiting, t) \in Seq(Tabs)
         /\ \A i, j \in DOMAIN Without(waiting, t) :
              Without(waiting, t)[i] = Without(waiting, t)[j] => i = j
         /\ \A u : Waits(u, Without(waiting, t)) => Waits(u, waiting)
         /\ ~Waits(t, Without(waiting, t))
  <1>1. waiting \in Seq(Tabs) /\ \A i, j \in DOMAIN waiting : waiting[i] = waiting[j] => i = j
    BY TabsCounters
  <1>2. /\ Without(waiting, t) \in Seq(Tabs)
        /\ \A i, j \in DOMAIN Without(waiting, t) :
             Without(waiting, t)[i] = Without(waiting, t)[j] => i = j
        /\ ~Waits(t, Without(waiting, t))
        /\ \A u : u # t => (Waits(u, Without(waiting, t)) <=> Waits(u, waiting))
    BY <1>1, WithoutQueue
  <1> QED  BY <1>2

\* The lock manager takes the lock from its holder, another tab, for t.
LEMMA TabLosesToAnother ==
  ASSUME TabsInv, NEW t \in Tabs, NEW v \in Tabs, v # t, holder = v,
         NEW s \in TabStates, NEW left \in Seq(LockAnswers), NEW e \in Seq(LockAnswers),
         Becomes(t, s), inbox' = [[inbox EXCEPT ![v] = e] EXCEPT ![t] = left],
         e = Append(inbox[v], "ended"), left = Append(inbox[t], "taken"),
         holder' = t, waiting' = Without(waiting, t), UNCHANGED <<scope, disk>>,
         mail' \in [Tabs -> Seq(Letters)],
         edits' \in 0..MaxEdits, asks' \in 0..MaxAsks, opens' \in Nat, failures' \in Nat,
         TabSound(t, s, left, t, waiting', disk),
         scope # None /\ scope.tab = t => First(scope, s.writes),
         UpToDate(s, left, disk, Alone(t))
  PROVE  TabsInv'
  <1>1. /\ tab \in [Tabs -> TabStates] /\ inbox \in [Tabs -> Seq(LockAnswers)]
        /\ disk \in Documents /\ scope \in WriteScopes \union {None}
    BY DEF TabsInv, TabTypes
  <1>2. /\ tab'[t] = s /\ inbox'[t] = left /\ tab'[v] = tab[v] /\ inbox'[v] = e
        /\ \A u \in Tabs : u # t /\ u # v => tab'[u] = tab[u] /\ inbox'[u] = inbox[u]
        /\ tab' \in [Tabs -> TabStates] /\ inbox' \in [Tabs -> Seq(LockAnswers)]
    BY <1>1 DEF Becomes
  <1>3. "ended" \in LockAnswers /\ "taken" \in LockAnswers /\ "ended" \notin Gains
        /\ "taken" # "write" /\ "taken" # "refuse" /\ "ended" # "write" /\ "ended" # "refuse"
    BY GainsDiffer
  <1>4. ASSUME NEW u \in Tabs
        PROVE  TabSound(u, tab'[u], inbox'[u], holder', waiting', disk')
    <2>0. /\ TabSound(u, tab[u], inbox[u], holder, waiting, disk)
          /\ tab[u] \in TabStates /\ inbox[u] \in Seq(LockAnswers)
          /\ Waits(u, waiting') => Waits(u, waiting)
      BY <1>1, WaitsWithout DEF TabsInv
    <2>1. CASE u = t
      BY <2>1, <1>2
    <2>2. CASE u = v
      <3>1. tab[v].life = "open"
        BY <2>0, <2>2, HolderIsOpen
      <3>2. TabSound(v, tab[v], Append(inbox[v], "ended"), t, waiting, disk)
        BY <1>3, <2>0, <2>2, <3>1, AnswerComes
      <3>3. TabSound(v, tab[v], e, t, waiting', disk)
        <4>1. TabSound(v, tab[v], e, t, waiting, disk)
          BY <3>2
        <4>2. Waits(v, waiting') => Waits(v, waiting) \/ tab[v].role # "acquiring"
          BY <2>0, <2>2
        <4>3. tab[v] \in TabStates
          BY <1>1
        <4> QED  BY <1>1, <4>1, <4>2, <4>3, QueueMoves
      <3> QED  BY <1>2, <2>2, <3>3
    <2>3. CASE u # t /\ u # v
      <3>1. TabSound(u, tab[u], inbox[u], t, waiting', disk)
        BY <1>1, <2>0, <2>3, OthersMove
      <3> QED  BY <1>2, <2>3, <3>1
    <2> QED  BY <2>1, <2>2, <2>3
  <1>5. TabTypes'
    <2>1. waiting' \in Seq(Tabs)
          /\ \A i, j \in DOMAIN waiting' : waiting'[i] = waiting'[j] => i = j
      BY WaitsWithout
    <2>2. holder' \in Tabs \union {None} /\ scope' \in WriteScopes \union {None}
          /\ disk' \in Documents
      BY <1>1
    <2> QED  BY <1>2, <2>1, <2>2 DEF TabTypes
  <1>6. ASSUME NEW u \in Tabs
        PROVE  /\ AsksOnce(u, inbox'[u], scope)
               /\ Has(inbox'[u], {"write"}) => Has(inbox[u], {"write"})
               /\ Has(inbox[u], {"ended"}) => Has(inbox'[u], {"ended"})
    <2>0. inbox[u] \in Seq(LockAnswers) /\ AsksOnce(u, inbox[u], scope)
      BY TabFacts
    <2>1. ASSUME NEW x \in LockAnswers, x \notin {"write", "refuse"},
                 inbox'[u] = Append(inbox[u], x)
          PROVE  /\ AsksOnce(u, inbox'[u], scope)
                 /\ Has(inbox'[u], {"write"}) => Has(inbox[u], {"write"})
                 /\ Has(inbox[u], {"ended"}) => Has(inbox'[u], {"ended"})
      <3>1. AsksOnce(u, Append(inbox[u], x), scope)
        BY <2>0, <2>1, AsksOnceAppend
      <3>2. Has(Append(inbox[u], x), {"write"}) => Has(inbox[u], {"write"})
        BY <2>0, <2>1, HasAppend
      <3>3. Has(inbox[u], {"ended"}) => Has(Append(inbox[u], x), {"ended"})
        BY <2>0, HasAppend
      <3> QED  BY <2>1, <3>1, <3>2, <3>3
    <2>2. CASE u = t
      BY <1>2, <1>3, <2>1, <2>2
    <2>3. CASE u = v
      BY <1>2, <1>3, <2>1, <2>3
    <2>4. CASE u # t /\ u # v
      BY <1>2, <2>0, <2>4
    <2> QED  BY <2>2, <2>3, <2>4
  <1>7. OneSave'
    <2>1. scope # None => scope.tab \in Tabs
      BY <1>1 DEF WriteScopes
    <2>2. ASSUME scope # None PROVE First(scope, tab'[scope.tab].writes)
      <3>1. CASE scope.tab = t
        BY <2>2, <3>1, <1>2
      <3>2. CASE scope.tab # t
        <4>1. tab'[scope.tab] = tab[scope.tab]
          BY <1>2, <2>1, <2>2, <3>2
        <4> QED  BY <2>2, <4>1 DEF TabsInv, OneSave
      <3> QED  BY <3>1, <3>2
    <2>3. \A u \in Tabs : AsksOnce(u, inbox'[u], scope')
      BY <1>6
    <2> QED  BY <2>2, <2>3 DEF TabsInv, OneSave
  <1>8. ASSUME NEW u \in Tabs PROVE Current(u)'
    <2>1. Alone(u) => Alone(u)'
      <3>1. \A w \in Tabs : w # u /\ Has(inbox'[w], {"write"}) => Has(inbox[w], {"write"})
        BY <1>6
      <3> QED  BY <3>1, AloneStays
    <2>2. UpToDate(tab'[u], inbox'[u], disk, Alone(u))
      <3>1. CASE u = t
        BY <3>1, <1>2
      <3>2. CASE u # t
        <4>1. UpToDate(tab[u], inbox[u], disk, Alone(u)) /\ tab'[u] = tab[u]
          BY <1>2, <3>2 DEF TabsInv, Current
        <4> QED  BY <4>1, <1>6 DEF UpToDate
      <3> QED  BY <3>1, <3>2
    <2> QED  BY <2>1, <2>2 DEF Current, UpToDate
  <1> QED  BY <1>4, <1>5, <1>7, <1>8 DEF TabsInv

\* The reply came or the wait timed out: the lock is the tab's already, or the
\* lock manager takes it from its holder.
LEMMA TabsSteal ==
  ASSUME TabsInv, NEW t \in Tabs, tab[t].asking # 0, Steal(t, tab[t]),
         UNCHANGED <<scope, disk, edits, asks, opens, failures>>,
         mail' \in [Tabs -> Seq(Letters)]
  PROVE  TabsInv'
  <1> DEFINE r == tab[t]
             s == [r EXCEPT !.asking = 0]
             box == inbox[t]
  <1>1. /\ r \in TabStates /\ box \in Seq(LockAnswers)
        /\ TabSound(t, r, box, holder, waiting, disk)
        /\ scope # None /\ scope.tab = t => First(scope, r.writes)
        /\ UpToDate(r, box, disk, Alone(t))
    BY TabFacts
  <1>2. /\ edits' \in 0..MaxEdits /\ asks' \in 0..MaxAsks /\ opens' \in Nat
        /\ failures' \in Nat /\ holder \in Tabs \union {None} /\ None \notin Tabs
        /\ inbox \in [Tabs -> Seq(LockAnswers)] /\ disk \in Documents
    BY TabsCounters DEF TabsInv, TabTypes
  <1>3. r.role # "acquiring" /\ r.life = "open"
    BY <1>1 DEF TabSound, Beginning
  <1>4. /\ "ended" \in LockAnswers /\ "taken" \in LockAnswers
        /\ "ended" \notin Gains /\ "taken" \in Gains
        /\ "taken" \notin {"initial", "occupied", "adopt", "leave"}
        /\ "ended" \notin {"initial", "occupied", "adopt", "leave"}
        /\ "taken" \notin {"write", "refuse"}
    BY GainsDiffer
  <1>5. \/ Becomes(t, s) /\ UNCHANGED <<holder, waiting, inbox>>
        \/ /\ Becomes(t, s) /\ holder' = t /\ waiting' = Without(waiting, t)
           /\ inbox' = IF holder = None THEN Tell(inbox, t, "taken")
                       ELSE Tell(Tell(inbox, holder, "ended"), t, "taken")
    BY DEF Steal, locks
  <1>6. /\ s \in TabStates /\ SameLock(r, s) /\ SameFlush(r, s) /\ SameReading(r, s)
    BY <1>1, QuietChange, SameReads
  <1>7. ASSUME NEW left \in Seq(LockAnswers), NEW h, NEW queued,
                TabSound(t, r, left, h, queued, disk)
        PROVE  TabSound(t, s, left, h, queued, disk)
    BY <1>1, <1>7, QuietChange
  <1> HIDE DEF r, s, box
  <1>8. scope # None /\ scope.tab = t => First(scope, s.writes)
    BY <1>1, <1>6 DEF SameFlush
  <1>9. CASE Becomes(t, s) /\ UNCHANGED <<holder, waiting, inbox>>
    <2>1. TabSound(t, s, inbox[t], holder, waiting, disk)
      BY <1>1, <1>7 DEF box
    <2>2. UpToDate(s, inbox[t], disk, Alone(t))
      BY <1>1, <1>6, StillUpToDate DEF box
    <2> QED  BY <1>2, <1>6, <1>8, <1>9, <2>1, <2>2, TabMoves
  <1>10. CASE /\ Becomes(t, s) /\ holder' = t /\ waiting' = Without(waiting, t)
              /\ inbox' = IF holder = None THEN Tell(inbox, t, "taken")
                          ELSE Tell(Tell(inbox, holder, "ended"), t, "taken")
    <2>1. /\ waiting' \in Seq(Tabs)
          /\ \A i, j \in DOMAIN waiting' : waiting'[i] = waiting'[j] => i = j
          /\ \A u : Waits(u, waiting') => Waits(u, waiting)
      BY <1>10, WaitsWithout
    <2>2. ASSUME NEW h, h # t, NEW left \in Seq(LockAnswers),
                  TabSound(t, r, left, h, waiting, disk),
                 Has(box, {"ended"}) => Has(left, {"ended"})
          PROVE  /\ Append(left, "taken") \in Seq(LockAnswers)
                 /\ TabSound(t, s, Append(left, "taken"), t, waiting', disk)
                 /\ UpToDate(s, Append(left, "taken"), disk, Alone(t))
      <3>1. Append(left, "taken") \in Seq(LockAnswers)
        BY <1>4
      <3>2. TabSound(t, r, Append(left, "taken"), t, waiting, disk)
        BY <1>1, <1>3, <1>4, <2>2, AnswerComes
      <3>3. TabSound(t, r, Append(left, "taken"), t, waiting', disk)
        <4>1. Waits(t, waiting') => Waits(t, waiting) \/ r.role # "acquiring"
          BY <2>1
        <4> QED  BY <1>1, <1>2, <3>1, <3>2, <4>1, QueueMoves
      <3>4. Has(box, {"ended"}) => Has(Append(left, "taken"), {"ended"})
        BY <1>4, <2>2, HasAppend
      <3> QED  BY <1>1, <1>6, <1>7, <3>1, <3>3, <3>4, StillUpToDate
    <2>3. \A u \in Tabs : u # t =>
            (Waits(u, waiting') => Waits(u, waiting) \/ tab[u].role # "acquiring")
      BY <2>1
    <2>4. CASE holder = None
      <3> DEFINE left == Append(box, "taken")
      <3>1. /\ left \in Seq(LockAnswers) /\ TabSound(t, s, left, t, waiting', disk)
            /\ UpToDate(s, left, disk, Alone(t))
        BY <1>1, <1>2, <2>2, <2>4
      <3>2. inbox' = [inbox EXCEPT ![t] = left]
        BY <1>2, <1>10, <2>4 DEF Tell, box
      <3>3. left = Append(inbox[t], "taken")
        BY DEF box
      <3> HIDE DEF left
      <3>4. \A u \in Tabs : u # t =>
              /\ holder = u <=> holder' = u
              /\ Waits(u, waiting') => Waits(u, waiting) \/ tab[u].role # "acquiring"
        BY <1>2, <1>10, <2>3, <2>4
      <3>5. TabSound(t, s, left, holder', waiting', disk) /\ holder' \in Tabs \union {None}
        BY <1>10, <3>1
      <3> QED  BY <1>2, <1>4, <1>6, <1>8, <1>10, <2>1, <3>1, <3>2, <3>3, <3>4, <3>5, TabAnswered
    <2>5. CASE holder = t
      <3> DEFINE m == Append(box, "ended")
                 left == Append(m, "taken")
      <3>1. m \in Seq(LockAnswers) /\ Has(m, {"ended"})
        BY <1>1, <1>4, HasAppend
      <3>2. TabSound(t, r, m, None, waiting, disk)
        <4>1. TabSound(t, r, box, t, waiting, disk)
          BY <1>1, <2>5
        <4> QED  BY <1>1, <1>2, <1>3, <1>4, <4>1, AnswerComes
      <3>3. /\ left \in Seq(LockAnswers) /\ TabSound(t, s, left, t, waiting', disk)
            /\ UpToDate(s, left, disk, Alone(t))
        <4> HIDE DEF m
        <4> QED  BY <1>2, <2>2, <3>1, <3>2
      <3>4. inbox' = [inbox EXCEPT ![t] = left]
        <4>1. inbox' = Tell(Tell(inbox, t, "ended"), t, "taken")
          BY <1>2, <1>10, <2>5
        <4>2. Tell(inbox, t, "ended") = [inbox EXCEPT ![t] = m]
          BY DEF Tell, box
        <4>3. [inbox EXCEPT ![t] = m][t] = m
          BY <1>2
        <4> HIDE DEF m
        <4> QED  BY <1>2, <4>1, <4>2, <4>3 DEF Tell
      <3>5. \A u \in Tabs : u # t => inbox'[u] = inbox[u]
        BY <1>2, <3>4
      <3>6. TabsInv' 
        <4>1. AsksOnce(t, left, scope)
          <5>1. AsksOnce(t, box, scope)
            BY TabFacts DEF box
          <5>2. AsksOnce(t, m, scope)
            BY <1>1, <1>4, <5>1, AsksOnceAppend
          <5> HIDE DEF m
          <5> QED  BY <1>4, <3>1, <5>2, AsksOnceAppend
        <4>2. Has(left, {"write"}) => Has(box, {"write"})
          <5>1. Has(m, {"write"}) => Has(box, {"write"})
            BY <1>1, <1>4, HasAppend
          <5> HIDE DEF m
          <5>2. Has(left, {"write"}) => Has(m, {"write"})
            BY <1>4, <3>1, HasAppend
          <5> QED  BY <5>1, <5>2
        <4> HIDE DEF left, m
        <4>3. \A u \in Tabs : u # t =>
                /\ holder = u <=> holder' = u
                /\ Waits(u, waiting') => Waits(u, waiting) \/ tab[u].role # "acquiring"
          BY <1>10, <2>3, <2>5
        <4>4. /\ TabSound(t, s, left, holder', waiting', disk) /\ holder' \in Tabs \union {None}
              /\ tab' = [tab EXCEPT ![t] = s] /\ disk' = disk /\ scope' = scope
              /\ AsksOnce(t, left, scope')
              /\ scope' # None /\ scope.tab = t => First(scope, s.writes)
          BY <1>8, <1>10, <3>3, <4>1 DEF Becomes
        <4>5. Has(left, {"write"}) => Has(inbox[t], {"write"})
          BY <4>2 DEF box
        <4> QED  BY <1>2, <1>6, <2>1, <3>3, <3>4, <4>3, <4>4, <4>5, TabSteps
      <3> QED  BY <3>6
    <2>6. CASE holder # None /\ holder # t
      <3> DEFINE v == holder
                 e == Append(inbox[v], "ended")
                 left == Append(box, "taken")
      <3>1. v \in Tabs /\ v # t
        BY <1>2, <2>6
      <3>2. /\ left \in Seq(LockAnswers) /\ TabSound(t, s, left, t, waiting', disk)
            /\ UpToDate(s, left, disk, Alone(t))
        BY <1>1, <2>2, <2>6
      <3>3. e \in Seq(LockAnswers)
        BY <1>2, <1>4, <3>1
      <3>4. inbox' = [[inbox EXCEPT ![v] = e] EXCEPT ![t] = left]
        <4>1. inbox' = Tell(Tell(inbox, v, "ended"), t, "taken")
          BY <1>10, <2>6
        <4>2. Tell(inbox, v, "ended") = [inbox EXCEPT ![v] = e]
          BY DEF Tell
        <4>3. [inbox EXCEPT ![v] = e][t] = inbox[t]
          BY <1>2, <3>1
        <4> HIDE DEF e
        <4> QED  BY <1>2, <4>1, <4>2, <4>3 DEF Tell, box
      <3>5. left = Append(inbox[t], "taken") /\ holder = v /\ e = Append(inbox[v], "ended")
        BY DEF box
      <3> HIDE DEF v, e, left
      <3> QED  BY <1>2, <1>6, <1>8, <1>10, <3>1, <3>2, <3>3, <3>4, <3>5, TabLosesToAnother
    <2> QED  BY <2>4, <2>5, <2>6
  <1> QED  BY <1>5, <1>9, <1>10

LEMMA TabsReplyTimeout ==
  ASSUME TabsInv, NEW t \in Tabs, ReplyTimeout(t)
  PROVE  TabsInv'
  <1>1. /\ tab[t].asking # 0 /\ Steal(t, tab[t])
        /\ UNCHANGED <<scope, disk, edits, asks, opens, failures>> /\ UNCHANGED mail
    BY DEF ReplyTimeout, bounds
  <1>2. mail' \in [Tabs -> Seq(Letters)]
    BY <1>1, TabsCounters
  <1> QED  BY <1>1, <1>2, TabsSteal

LEMMA TabsReceive ==
  ASSUME TabsInv, NEW t \in Tabs, Receive(t)
  PROVE  TabsInv'
  <1> DEFINE r == tab[t]
             m == Head(mail[t])
  <1>1. /\ r \in TabStates /\ inbox[t] \in Seq(LockAnswers) /\ mail[t] \in Seq(Letters)
        /\ TabSound(t, r, inbox[t], holder, waiting, disk)
        /\ scope # None /\ scope.tab = t => First(scope, r.writes)
        /\ UpToDate(r, inbox[t], disk, Alone(t))
    BY TabFacts
  <1>2. /\ mail[t] # <<>> /\ mail' = [mail EXCEPT ![t] = Tail(mail[t])]
        /\ UNCHANGED <<scope, disk, edits, asks, opens, failures>>
    BY DEF Receive, bounds
  <1>3. /\ edits' \in 0..MaxEdits /\ asks' \in 0..MaxAsks /\ opens' \in Nat
        /\ failures' \in Nat /\ MaxAsks \in Nat /\ mail \in [Tabs -> Seq(Letters)]
    BY <1>2, TabsCounters
  <1>4. m \in Letters /\ mail' \in [Tabs -> Seq(Letters)]
    <2>1. Tail(mail[t]) \in Seq(Letters) /\ m \in Letters
      BY <1>1, <1>2
    <2> QED  BY <1>2, <1>3, <2>1
  <1>5. CASE /\ m.type = "saved" /\ Becomes(t, [r EXCEPT !.behind = TRUE])
             /\ UNCHANGED <<locks, inbox>>
    <2> DEFINE s == [r EXCEPT !.behind = TRUE]
    <2>1. /\ s \in TabStates /\ TabSound(t, s, inbox[t], holder, waiting, disk)
          /\ SameLock(r, s) /\ SameFlush(r, s) /\ SameReading(r, s)
      BY <1>1, QuietChange, SameReads
    <2>2. Becomes(t, s) /\ UNCHANGED <<holder, waiting, inbox>>
      BY <1>5 DEF locks
    <2> HIDE DEF s, r
    <2>3. scope # None /\ scope.tab = t => First(scope, s.writes)
      BY <1>1, <2>1 DEF SameFlush
    <2>4. UpToDate(s, inbox[t], disk, Alone(t))
      BY <1>1, <2>1, StillUpToDate
    <2> QED  BY <1>2, <1>3, <1>4, <2>1, <2>2, <2>3, <2>4, TabMoves
  <1>6. CASE /\ m.type = "release-request" /\ Becomes(t, Answers(r, m.id))
             /\ UNCHANGED <<locks, inbox>>
    <2> DEFINE s == Answers(r, m.id)
    <2>1. m.id \in Asks /\ m.id # 0
      BY <1>3, <1>4, <1>6 DEF Letters, Asks
    <2>2. /\ s \in TabStates /\ TabSound(t, s, inbox[t], holder, waiting, disk)
          /\ s.held = r.held /\ s.role = r.role /\ SameReading(r, s)
          /\ r.writes # <<>> => s.writes # <<>> /\ s.writes[1] = r.writes[1]
      <3>1. /\ s \in TabStates /\ TabSound(t, s, inbox[t], holder, waiting, disk)
            /\ s.held = r.held /\ s.role = r.role
            /\ SameAdoption(r, s) /\ SameWords(r, s)
            /\ r.writes # <<>> => s.writes # <<>> /\ s.writes[1] = r.writes[1]
        <4> HIDE DEF m, r
        <4>1. ASSUME NEW id \in Asks, id # 0
              PROVE  /\ Answers(r, id) \in TabStates
                     /\ TabSound(t, Answers(r, id), inbox[t], holder, waiting, disk)
                     /\ Answers(r, id).held = r.held /\ Answers(r, id).role = r.role
                     /\ SameAdoption(r, Answers(r, id)) /\ SameWords(r, Answers(r, id))
                     /\ r.writes # <<>> => /\ Answers(r, id).writes # <<>>
                                           /\ Answers(r, id).writes[1] = r.writes[1]
          BY <1>1, <4>1, AnswersARequest
        <4> QED  BY <2>1, <4>1
      <3> HIDE DEF s
      <3> QED  BY <3>1, SameReads
    <2>3. Becomes(t, s) /\ UNCHANGED <<holder, waiting, inbox>>
      BY <1>6 DEF locks
    <2> HIDE DEF s, r
    <2>4. scope # None /\ scope.tab = t => First(scope, s.writes)
      BY <1>1, <2>2 DEF First
    <2>5. UpToDate(s, inbox[t], disk, Alone(t))
      BY <1>1, <2>2 DEF UpToDate, SameReading
    <2> QED  BY <1>2, <1>3, <1>4, <2>2, <2>3, <2>4, <2>5, TabMoves
  <1>7. CASE m.type = "released" /\ m.id = r.asking /\ Steal(t, tab[t])
    <2>1. r.asking # 0
      BY <1>3, <1>4, <1>7 DEF Letters
    <2> QED  BY <1>2, <1>4, <1>7, <2>1, TabsSteal
  <1>8. CASE m.type = "released" /\ UNCHANGED <<tab, locks, inbox>>
    <2>1. Becomes(t, r) /\ UNCHANGED <<holder, waiting, inbox>>
      BY <1>8, TabFacts DEF Becomes, locks
    <2> HIDE DEF r
    <2> QED  BY <1>1, <1>2, <1>3, <1>4, <2>1, TabMoves
  <1>9. \/ /\ m.type = "saved" /\ Becomes(t, [r EXCEPT !.behind = TRUE])
           /\ UNCHANGED <<locks, inbox>>
        \/ /\ m.type = "release-request" /\ Becomes(t, Answers(r, m.id))
           /\ UNCHANGED <<locks, inbox>>
        \/ m.type = "released" /\ m.id = r.asking /\ Steal(t, tab[t])
        \/ m.type = "released" /\ UNCHANGED <<tab, locks, inbox>>
    BY DEF Receive
  <1> QED  BY <1>5, <1>6, <1>7, <1>8, <1>9

\* A tab that gives its lock up, or no longer has it, hears so.
LEMMA Releases ==
  ASSUME TabsInv, NEW t \in Tabs, Release(t)
  PROVE  \/ /\ holder # t /\ UNCHANGED <<holder, inbox>>
         \/ /\ holder = t /\ holder' = None
            /\ inbox' = [inbox EXCEPT ![t] = Append(inbox[t], "ended")]
            /\ Append(inbox[t], "ended") \in Seq(LockAnswers)
            /\ TabSound(t, tab[t], Append(inbox[t], "ended"), None, waiting, disk)
            /\ Has(Append(inbox[t], "ended"), {"ended"})
  <1>1. /\ tab[t] \in TabStates /\ inbox[t] \in Seq(LockAnswers)
        /\ TabSound(t, tab[t], inbox[t], holder, waiting, disk)
    BY TabFacts
  <1>2. /\ "ended" \in LockAnswers /\ "ended" \notin Gains
        /\ "ended" \notin {"initial", "occupied", "adopt", "leave"}
    BY GainsDiffer
  <1>3. CASE holder = t
    <2>1. holder' = None /\ inbox' = [inbox EXCEPT ![t] = Append(inbox[t], "ended")]
      BY <1>3 DEF Release, Tell
    <2>2. Append(inbox[t], "ended") \in Seq(LockAnswers)
          /\ Has(Append(inbox[t], "ended"), {"ended"})
      BY <1>1, <1>2, HasAppend
    <2>3. TabSound(t, tab[t], Append(inbox[t], "ended"), None, waiting, disk)
      <3>1. tab[t].life = "open"
        BY <1>1, <1>3, HolderIsOpen
      <3>2. None # t /\ TabSound(t, tab[t], inbox[t], t, waiting, disk)
        BY <1>1, <1>3, TabsCounters
      <3> QED  BY <1>1, <1>2, <3>1, <3>2, AnswerComes
    <2> QED  BY <1>3, <2>1, <2>2, <2>3
  <1>4. CASE holder # t
    BY <1>4 DEF Release
  <1> QED  BY <1>3, <1>4

\* Its hold is over: what the tab read need not be the file any more.
LEMMA TabsReleased ==
  ASSUME TabsInv, NEW t \in Tabs, NEW s \in TabStates, NEW left \in Seq(LockAnswers),
         Becomes(t, s), holder = t, holder' = None,
         inbox' = [inbox EXCEPT ![t] = left], left = Append(inbox[t], "ended"),
         Has(left, {"ended"}), UNCHANGED <<waiting, scope, disk, mail>>,
         UNCHANGED <<edits, asks, opens, failures>>,
         TabSound(t, s, left, None, waiting, disk), s.writes = tab[t].writes
  PROVE  TabsInv'
  <1>1. /\ edits' \in 0..MaxEdits /\ asks' \in 0..MaxAsks /\ opens' \in Nat
        /\ failures' \in Nat /\ mail' \in [Tabs -> Seq(Letters)]
        /\ holder' \in Tabs \union {None} /\ waiting' \in Seq(Tabs) /\ None \notin Tabs
        /\ \A i, j \in DOMAIN waiting' : waiting'[i] = waiting'[j] => i = j
    BY TabsCounters
  <1>2. UpToDate(s, left, disk, Alone(t))
    BY DEF UpToDate
  <1>3. scope # None /\ scope.tab = t => First(scope, s.writes)
    BY TabFacts
  <1>4. \A u \in Tabs : u # t =>
          /\ holder = u <=> holder' = u
          /\ Waits(u, waiting') => Waits(u, waiting) \/ tab[u].role # "acquiring"
    BY <1>1
  <1>5. "ended" \in LockAnswers /\ "ended" \notin {"write", "refuse"}
    BY GainsDiffer
  <1>6. TabSound(t, s, left, holder', waiting', disk) /\ UNCHANGED <<scope, disk>>
    OBVIOUS
  <1> QED  BY <1>1, <1>2, <1>3, <1>4, <1>5, <1>6, TabAnswered

LEMMA TabsYieldTimeout ==
  ASSUME TabsInv, NEW t \in Tabs, YieldTimeout(t)
  PROVE  TabsInv'
  <1> DEFINE r == tab[t]
             s == [r EXCEPT !.timer = FALSE]
  <1>1. /\ r \in TabStates /\ inbox[t] \in Seq(LockAnswers)
        /\ TabSound(t, r, inbox[t], holder, waiting, disk)
        /\ scope # None /\ scope.tab = t => First(scope, r.writes)
        /\ UpToDate(r, inbox[t], disk, Alone(t))
    BY TabFacts
  <1>2. /\ Becomes(t, s) /\ Release(t) /\ UNCHANGED <<waiting, mail, scope, disk>>
        /\ UNCHANGED <<edits, asks, opens, failures>>
    BY DEF YieldTimeout, bounds
  <1>3. /\ edits' \in 0..MaxEdits /\ asks' \in 0..MaxAsks /\ opens' \in Nat
        /\ failures' \in Nat /\ mail' \in [Tabs -> Seq(Letters)]
    BY <1>2, TabsCounters
  <1>4. /\ s \in TabStates /\ TabSound(t, s, inbox[t], holder, waiting, disk)
        /\ SameLock(r, s) /\ SameFlush(r, s) /\ SameReading(r, s)
    BY <1>1, QuietChange, SameReads
  <1>5. s.writes = r.writes
    BY <1>4 DEF SameFlush
  <1>6. ASSUME NEW left \in Seq(LockAnswers), NEW h, TabSound(t, r, left, h, waiting, disk)
        PROVE  TabSound(t, s, left, h, waiting, disk)
    BY <1>1, <1>6, QuietChange
  <1> HIDE DEF s
  <1>7. CASE UNCHANGED <<holder, inbox>>
    <2>1. UpToDate(s, inbox[t], disk, Alone(t))
      BY <1>1, <1>4, StillUpToDate
    <2> QED  BY <1>1, <1>2, <1>3, <1>4, <1>5, <1>7, <2>1, TabMoves
  <1>8. CASE ~UNCHANGED <<holder, inbox>>
    <2> DEFINE left == Append(inbox[t], "ended")
    <2>1. /\ holder = t /\ holder' = None /\ inbox' = [inbox EXCEPT ![t] = left]
          /\ left \in Seq(LockAnswers) /\ Has(left, {"ended"})
          /\ TabSound(t, r, left, None, waiting, disk)
      BY <1>2, <1>8, Releases
    <2>2. TabSound(t, s, left, None, waiting, disk)
      <3> HIDE DEF left
      <3> QED  BY <1>6, <2>1
    <2> QED  BY <1>2, <1>4, <1>5, <2>1, <2>2, TabsReleased
  <1> QED  BY <1>7, <1>8

LEMMA TabsCancel ==
  ASSUME TabsInv, NEW t \in Tabs, Cancel(t)
  PROVE  TabsInv'
  <1> DEFINE r == tab[t]
             q == [r EXCEPT !.confirm = "none"]
             g == GivenUp(r)
  <1>1. /\ r \in TabStates /\ inbox[t] \in Seq(LockAnswers)
        /\ TabSound(t, r, inbox[t], holder, waiting, disk)
        /\ scope # None /\ scope.tab = t => First(scope, r.writes)
        /\ UpToDate(r, inbox[t], disk, Alone(t))
    BY TabFacts
  <1>2. /\ r.confirm # "none" /\ UNCHANGED <<waiting, mail, scope, disk>>
        /\ UNCHANGED <<edits, asks, opens, failures>>
    BY DEF Cancel, bounds
  <1>3. \/ r.role # "editor" /\ r.held /\ Becomes(t, g) /\ Release(t)
        \/ Becomes(t, q) /\ UNCHANGED <<holder, inbox>>
    <2>1. q.role = r.role /\ q.held = r.held
      BY <1>1 DEF TabStates
    <2> QED  BY <2>1 DEF Cancel, GivenUp
  <1>4. /\ edits' \in 0..MaxEdits /\ asks' \in 0..MaxAsks /\ opens' \in Nat
        /\ failures' \in Nat /\ mail' \in [Tabs -> Seq(Letters)]
    BY <1>2, TabsCounters
  <1>5. r.adopting = "none"
    BY <1>1, <1>2 DEF TabSound, Roles
  <1>6. CASE Becomes(t, q) /\ UNCHANGED <<holder, inbox>>
    <2>1. /\ q \in TabStates /\ TabSound(t, q, inbox[t], holder, waiting, disk)
          /\ SameLock(r, q) /\ SameFlush(r, q) /\ SameWords(r, q)
          /\ q.adopting = r.adopting /\ q.read = r.read
      <3>1. "none" \in Questions
        BY TabParts
      <3> QED  BY <1>1, <3>1, AsksItsUser
    <2> HIDE DEF q, r
    <2>2. UpToDate(q, inbox[t], disk, Alone(t))
      BY <1>1, <2>1 DEF UpToDate, SameLock, SameWords
    <2>3. scope # None /\ scope.tab = t => First(scope, q.writes)
      BY <1>1, <2>1 DEF SameFlush
    <2> QED  BY <1>1, <1>2, <1>4, <1>6, <2>1, <2>2, <2>3, TabMoves
  <1>7. CASE r.role # "editor" /\ r.held /\ Becomes(t, g) /\ Release(t)
    <2>1. ASSUME NEW left \in Seq(LockAnswers), NEW h, TabSound(t, r, left, h, waiting, disk),
                 Has(left, {"ended"})
          PROVE  /\ g \in TabStates /\ TabSound(t, g, left, h, waiting, disk)
                 /\ g.role # "editor" /\ g.adopting = "none" /\ g.writes = r.writes
      <3>1. g = GivenUp(r)
        OBVIOUS
      <3>2. r \in TabStates /\ r.held /\ r.role # "editor" /\ r.adopting = "none"
        BY <1>1, <1>5, <1>7
      <3> HIDE DEF g, r
      <3>3. TabSound(t, r, left, h, waiting, disk) /\ Has(left, {"ended"})
        BY <2>1
      <3> QED  BY <3>1, <3>2, <3>3, GivesUp
    <2> HIDE DEF g
    <2>2. CASE UNCHANGED <<holder, inbox>> /\ holder # t
      <3>1. Has(inbox[t], {"ended"})
        BY <1>1, <1>7, <2>2 DEF TabSound, Alternates, Has
      <3>2. /\ g \in TabStates /\ TabSound(t, g, inbox[t], holder, waiting, disk)
            /\ g.role # "editor" /\ g.adopting = "none" /\ g.writes = r.writes
        BY <1>1, <2>1, <3>1
      <3>3. UpToDate(g, inbox[t], disk, Alone(t))
        BY <3>2 DEF UpToDate
      <3>4. scope # None /\ scope.tab = t => First(scope, g.writes)
        BY <1>1, <3>2
      <3> QED  BY <1>2, <1>4, <1>7, <2>2, <3>2, <3>3, <3>4, TabMoves
    <2>3. CASE ~(UNCHANGED <<holder, inbox>> /\ holder # t)
      <3> DEFINE left == Append(inbox[t], "ended")
      <3>1. /\ holder = t /\ holder' = None /\ inbox' = [inbox EXCEPT ![t] = left]
            /\ left \in Seq(LockAnswers) /\ Has(left, {"ended"})
            /\ TabSound(t, r, left, None, waiting, disk)
        BY <1>7, <2>3, Releases
      <3>2. /\ g \in TabStates /\ TabSound(t, g, left, None, waiting, disk)
            /\ g.writes = r.writes
        <4> HIDE DEF left
        <4> QED  BY <2>1, <3>1
      <3> QED  BY <1>2, <1>7, <3>1, <3>2, TabsReleased
    <2> QED  BY <2>2, <2>3
  <1> QED  BY <1>3, <1>6, <1>7

LEMMA TabsAdoptAsks ==
  ASSUME TabsInv, NEW t \in Tabs, AdoptAsks(t)
  PROVE  TabsInv'
  <1> DEFINE r == tab[t]
             e == IF r.held /\ holder = t THEN "adopt" ELSE "leave"
             s == [r EXCEPT !.adopting = "asking"]
             left == Append(inbox[t], e)
  <1>1. /\ r \in TabStates /\ inbox[t] \in Seq(LockAnswers)
        /\ TabSound(t, r, inbox[t], holder, waiting, disk)
        /\ scope # None /\ scope.tab = t => First(scope, r.writes)
        /\ UpToDate(r, inbox[t], disk, Alone(t))
    BY TabFacts
  <1>2. /\ r.adopting = "read" /\ Becomes(t, s) /\ inbox' = [inbox EXCEPT ![t] = left]
        /\ UNCHANGED <<holder, waiting, mail, scope, disk>>
        /\ UNCHANGED <<edits, asks, opens, failures>>
    BY DEF AdoptAsks, HoldsEditorLock, Tell, locks, bounds
  <1>3. /\ edits' \in 0..MaxEdits /\ asks' \in 0..MaxAsks /\ opens' \in Nat
        /\ failures' \in Nat /\ mail' \in [Tabs -> Seq(Letters)]
        /\ holder' \in Tabs \union {None} /\ waiting' \in Seq(Tabs)
        /\ \A i, j \in DOMAIN waiting' : waiting'[i] = waiting'[j] => i = j
    BY <1>2, TabsCounters
  <1>4. /\ s \in TabStates /\ TabSound(t, s, left, holder, waiting, disk)
        /\ s.role = r.role /\ s.held = r.held /\ s.adopting = "asking" /\ s.read = r.read
        /\ s.writes = r.writes /\ e \in {"adopt", "leave"} /\ s.reloaded = r.reloaded
        /\ s.base = r.base
    <2>1. e = IF r.held /\ holder = t THEN "adopt" ELSE "leave"
      OBVIOUS
    <2>2. s = [r EXCEPT !.adopting = "asking"]
      OBVIOUS
    <2> HIDE DEF e, s, r
    <2> QED  BY <1>1, <1>2, <2>1, <2>2, AsksToAdopt
  <1> HIDE DEF s, e, r
  <1>5. /\ e \in LockAnswers /\ e \notin {"write", "refuse"} /\ left \in Seq(LockAnswers)
        /\ left = Append(inbox[t], e)
    BY <1>1, <1>4, GainsDiffer
  <1>6. Has(inbox[t], {"ended"}) => Has(left, {"ended"})
    BY <1>1, <1>5, HasAppend
  <1> HIDE DEF left
  <1>7. UpToDate(s, left, disk, Alone(t))
    BY <1>1, <1>2, <1>4, <1>6 DEF UpToDate
  <1>8. \A u \in Tabs : u # t =>
          /\ holder = u <=> holder' = u
          /\ Waits(u, waiting') => Waits(u, waiting) \/ tab[u].role # "acquiring"
    BY <1>2
  <1>9. /\ TabSound(t, s, left, holder', waiting', disk)
        /\ scope # None /\ scope.tab = t => First(scope, s.writes)
    BY <1>1, <1>2, <1>4
  <1> QED  BY <1>2, <1>3, <1>4, <1>5, <1>7, <1>8, <1>9, TabAnswered

LEMMA TabsCoordinate ==
  ASSUME TabsInv, NEW t \in Tabs, Coordinate(t)
  PROVE  TabsInv'
  <1> DEFINE r == tab[t]
             e == IF holder = None /\ waiting = <<>> THEN "initial" ELSE "occupied"
             s == Joined(r)
             left == Append(inbox[t], e)
  <1>1. /\ r \in TabStates /\ inbox[t] \in Seq(LockAnswers)
        /\ TabSound(t, r, inbox[t], holder, waiting, disk)
        /\ scope # None /\ scope.tab = t => First(scope, r.writes)
    BY TabFacts
  <1>2. /\ r.life = "read" /\ Becomes(t, s) /\ inbox' = [inbox EXCEPT ![t] = left]
        /\ (e = "initial" /\ holder = None /\ holder' = t) \/ (e = "occupied" /\ holder' = holder)
        /\ UNCHANGED <<waiting, mail, scope, disk>>
        /\ UNCHANGED <<edits, asks, opens, failures>>
    BY DEF Coordinate, Joined, Tell, bounds
  <1>3. /\ edits' \in 0..MaxEdits /\ asks' \in 0..MaxAsks /\ opens' \in Nat
        /\ failures' \in Nat /\ mail' \in [Tabs -> Seq(Letters)]
        /\ holder' \in Tabs \union {None} /\ waiting' \in Seq(Tabs) /\ None \notin Tabs
        /\ \A i, j \in DOMAIN waiting' : waiting'[i] = waiting'[j] => i = j
    BY <1>2, TabsCounters
  <1>4. /\ s \in TabStates /\ TabSound(t, s, left, holder', waiting, disk)
        /\ s.role = "acquiring" /\ s.writes = <<>> /\ s.adopting = "none" /\ e \in LockAnswers
    <2>1. s = Joined(r)
      OBVIOUS
    <2>2. (e = "initial" /\ holder # t /\ holder' = t) \/ (e = "occupied" /\ holder' = holder)
      BY <1>2, <1>3
    <2>3. /\ r \in TabStates /\ inbox[t] \in Seq(LockAnswers) /\ r.life = "read"
          /\ TabSound(t, r, inbox[t], holder, waiting, disk)
      BY <1>1, <1>2
    <2> HIDE DEF e, s, r
    <2>4. /\ e \in {"initial", "occupied"}
          /\ e = "initial" => holder # t /\ holder' = t
          /\ e = "occupied" => holder' = holder
      BY <2>2
    <2>5. s \in TabStates /\ s.role = "acquiring" /\ s.writes = <<>> /\ s.adopting = "none"
      BY <2>1, <2>3, JoinsTheProject
    <2>6. TabSound(t, s, Append(inbox[t], e), holder', waiting, disk)
      BY <2>1, <2>3, <2>4, Coordinates
    <2>7. e \in LockAnswers
      BY <2>4, GainsDiffer
    <2> QED  BY <2>5, <2>6, <2>7
  <1>5. left \in Seq(LockAnswers) /\ e \notin {"write", "refuse"} /\ left = Append(inbox[t], e)
    BY <1>1, <1>4
  <1>6. r.writes = <<>>
    BY <1>1, <1>2 DEF TabSound, Beginning
  <1> HIDE DEF s, e, r, left
  <1>7. UpToDate(s, left, disk, Alone(t))
    BY <1>4 DEF UpToDate
  <1>8. \A u \in Tabs : u # t =>
          /\ holder = u <=> holder' = u
          /\ Waits(u, waiting') => Waits(u, waiting) \/ tab[u].role # "acquiring"
    BY <1>2, <1>3
  <1>9. /\ TabSound(t, s, left, holder', waiting', disk)
        /\ scope # None /\ scope.tab = t => First(scope, s.writes)
    BY <1>1, <1>2, <1>4, <1>6
  <1> QED  BY <1>2, <1>3, <1>4, <1>5, <1>7, <1>8, <1>9, TabAnswered

LEMMA TabsGrant ==
  ASSUME TabsInv, Grant
  PROVE  TabsInv'
  <1> DEFINE t == Head(waiting)
             r == tab[t]
             left == Append(inbox[t], "granted")
  <1>1. /\ waiting \in Seq(Tabs) /\ \A i, j \in DOMAIN waiting : waiting[i] = waiting[j] => i = j
        /\ holder = None /\ waiting # <<>> /\ holder' = t /\ waiting' = Tail(waiting)
        /\ inbox' = [inbox EXCEPT ![t] = left] /\ UNCHANGED <<tab, scope, disk>>
        /\ UNCHANGED <<mail, edits, asks, opens, failures>>
    BY TabsCounters DEF Grant, Tell, bounds
  <1>2. /\ t \in Tabs /\ waiting' \in Seq(Tabs) /\ Waits(t, waiting)
        /\ \A i, j \in DOMAIN waiting' : waiting'[i] = waiting'[j] => i = j
        /\ \A u : u # t => (Waits(u, waiting') <=> Waits(u, waiting))
        /\ ~Waits(t, waiting')
    BY <1>1, WaitingTail
  <1> HIDE DEF t
  <1>3. /\ r \in TabStates /\ inbox[t] \in Seq(LockAnswers) /\ Becomes(t, r)
        /\ TabSound(t, r, inbox[t], holder, waiting, disk)
        /\ scope # None /\ scope.tab = t => First(scope, r.writes)
        /\ UpToDate(r, inbox[t], disk, Alone(t)) /\ disk \in Documents
    BY <1>1, <1>2, TabFacts DEF Becomes
  <1>4. /\ edits' \in 0..MaxEdits /\ asks' \in 0..MaxAsks /\ opens' \in Nat
        /\ failures' \in Nat /\ mail' \in [Tabs -> Seq(Letters)] /\ None \notin Tabs
    BY <1>1, TabsCounters
  <1>5. r.role # "acquiring" /\ r.life = "open"
    BY <1>2, <1>3 DEF TabSound, Beginning
  <1>6. /\ "granted" \in LockAnswers /\ "granted" \in Gains
        /\ "granted" \notin {"initial", "occupied", "adopt", "leave"}
        /\ "granted" \notin {"write", "refuse"}
    BY GainsDiffer
  <1>7. left \in Seq(LockAnswers) /\ left = Append(inbox[t], "granted")
    BY <1>3, <1>6
  <1>8. TabSound(t, r, left, holder', waiting', disk)
    <2>1. holder # t
      BY <1>1, <1>2, <1>4
    <2>2. TabSound(t, r, Append(inbox[t], "granted"), t, waiting, disk)
      <3> HIDE DEF r
      <3> QED  BY <1>3, <1>5, <1>6, <2>1, AnswerComes
    <2>3. TabSound(t, r, left, t, waiting', disk)
      <3> HIDE DEF r
      <3> QED  BY <1>2, <1>3, <1>7, <2>2, QueueMoves
    <2> QED  BY <1>1, <2>3
  <1>9. UpToDate(r, left, disk, Alone(t))
    <2>1. Has(inbox[t], {"ended"}) => Has(left, {"ended"})
      BY <1>3, <1>6, HasAppend
    <2> QED  BY <1>3, <2>1 DEF UpToDate
  <1>10. \A u \in Tabs : u # t =>
           /\ holder = u <=> holder' = u
           /\ Waits(u, waiting') => Waits(u, waiting) \/ tab[u].role # "acquiring"
    BY <1>1, <1>2, <1>4
  <1> HIDE DEF left, r
  <1>11. holder' \in Tabs \union {None} /\ inbox' = [inbox EXCEPT ![t] = left]
         /\ UNCHANGED <<scope, disk>>
    BY <1>1, <1>2
  <1> QED  BY <1>2, <1>3, <1>4, <1>6, <1>7, <1>8, <1>9, <1>10, <1>11, TabAnswered

LEMMA TabsOpen ==
  ASSUME TabsInv, NEW t \in Tabs, Open(t)
  PROVE  TabsInv'
  <1> DEFINE r == tab[t]
             s == Opened(disk)
  <1>1. /\ r \in TabStates /\ inbox[t] \in Seq(LockAnswers) /\ disk \in Documents
        /\ TabSound(t, r, inbox[t], holder, waiting, disk)
        /\ scope # None /\ scope.tab = t => First(scope, r.writes)
    BY TabFacts
  <1>2. /\ r.life = "away" /\ opens' = opens + 1 /\ Becomes(t, s)
        /\ UNCHANGED <<holder, waiting, inbox, scope, disk>>
        /\ UNCHANGED <<mail, edits, asks, failures>>
    BY DEF Open, Opened, locks
  <1>3. /\ edits' \in 0..MaxEdits /\ asks' \in 0..MaxAsks /\ opens' \in Nat
        /\ failures' \in Nat /\ mail' \in [Tabs -> Seq(Letters)]
    BY <1>2, TabsCounters
  <1>4. /\ inbox[t] = <<>> /\ r.writes = <<>> /\ ~Waits(t, waiting) /\ holder # t
    BY <1>1, <1>2, HolderIsOpen DEF TabSound, Beginning
  <1>5. /\ s \in TabStates /\ TabSound(t, s, inbox[t], holder, waiting, disk)
        /\ s.role = "acquiring" /\ ~s.held
    <2> QED  BY <1>1, <1>4, OpensOrCloses
  <1> HIDE DEF s, r
  <1>6. UpToDate(s, inbox[t], disk, Alone(t))
    BY <1>5 DEF UpToDate
  <1>7. scope # None /\ scope.tab = t => First(scope, s.writes)
    BY <1>1, <1>4 DEF First
  <1> QED  BY <1>2, <1>3, <1>5, <1>6, <1>7, TabMoves

\* A step of one tab that may change the save in the scope and the file.
LEMMA TabsWrite ==
  ASSUME TabsInv, NEW t \in Tabs, NEW s \in TabStates, NEW left \in Seq(LockAnswers),
         tab' = [tab EXCEPT ![t] = s], inbox' = [inbox EXCEPT ![t] = left],
         disk \subseteq disk', disk' \in Documents, scope' \in WriteScopes \union {None},
         holder' \in Tabs \union {None}, waiting' \in Seq(Tabs),
         \A i, j \in DOMAIN waiting' : waiting'[i] = waiting'[j] => i = j,
         mail' \in [Tabs -> Seq(Letters)],
         edits' \in 0..MaxEdits, asks' \in 0..MaxAsks, opens' \in Nat, failures' \in Nat,
         \A u \in Tabs : u # t =>
           /\ holder = u <=> holder' = u
           /\ Waits(u, waiting') => Waits(u, waiting) \/ tab[u].role # "acquiring",
         TabSound(t, s, left, holder', waiting', disk'),
         AsksOnce(t, left, scope'), \A u \in Tabs : u # t => AsksOnce(u, inbox[u], scope'),
         scope' # None => /\ scope'.expected \subseteq scope'.doc
                          /\ ~scope'.live => scope'.fenced
                          /\ scope'.tab = t => First(scope', s.writes)
                          /\ scope'.tab # t => First(scope', tab[scope'.tab].writes),
         UpToDate(s, left, disk', Alone(t)'),
         \A u \in Tabs : u # t => UpToDate(tab[u], inbox[u], disk', Alone(u)')
  PROVE  TabsInv'
  <1>1. /\ tab \in [Tabs -> TabStates] /\ inbox \in [Tabs -> Seq(LockAnswers)]
    BY DEF TabsInv, TabTypes
  <1>2. /\ tab' \in [Tabs -> TabStates] /\ inbox' \in [Tabs -> Seq(LockAnswers)]
        /\ \A u \in Tabs : TabSound(u, tab'[u], inbox'[u], holder', waiting', disk')
    BY AllSound
  <1>3. /\ tab'[t] = s /\ inbox'[t] = left
        /\ \A u \in Tabs : u # t => tab'[u] = tab[u] /\ inbox'[u] = inbox[u]
    BY <1>1
  <1>4. TabTypes'
    BY <1>2 DEF TabTypes
  <1>5. OneSave'
    <2>1. \A u \in Tabs : AsksOnce(u, inbox'[u], scope')
      BY <1>3
    <2>2. ASSUME scope' # None PROVE First(scope', tab'[scope'.tab].writes)
      <3>1. scope'.tab \in Tabs
        BY <2>2 DEF WriteScopes
      <3> QED  BY <2>2, <3>1, <1>3
    <2> QED  BY <2>1, <2>2 DEF OneSave
  <1>6. ASSUME NEW u \in Tabs PROVE Current(u)'
    BY <1>3 DEF Current
  <1> QED  BY <1>2, <1>4, <1>5, <1>6 DEF TabsInv

LEMMA TabsClose ==
  ASSUME TabsInv, NEW t \in Tabs, Close(t)
  PROVE  TabsInv'
  <1> DEFINE s == Away
  <1>1. /\ tab[t] \in TabStates /\ disk \in Documents
        /\ inbox \in [Tabs -> Seq(LockAnswers)] /\ mail \in [Tabs -> Seq(Letters)]
        /\ scope \in WriteScopes \union {None} /\ None \notin Tabs
        /\ edits \in 0..MaxEdits /\ asks \in 0..MaxAsks /\ opens \in Nat /\ failures \in Nat
        /\ holder \in Tabs \union {None}
    BY TabFacts, TabsCounters DEF TabsInv, TabTypes
  <1>2. /\ tab' = [tab EXCEPT ![t] = s] /\ inbox' = [inbox EXCEPT ![t] = <<>>]
        /\ holder' = (IF holder = t THEN None ELSE holder) /\ waiting' = Without(waiting, t)
        /\ mail' = [mail EXCEPT ![t] = <<>>] /\ UNCHANGED <<disk, edits, asks, opens, failures>>
        /\ \/ scope' = scope /\ (scope = None \/ scope.tab # t)
           \/ scope' = None /\ scope # None /\ scope.tab = t
           \/ /\ scope # None /\ scope.tab = t /\ scope.fenced
              /\ scope' = [scope EXCEPT !.live = FALSE]
    BY DEF Close, Becomes, bounds
  <1>3. /\ waiting' \in Seq(Tabs) /\ holder' \in Tabs \union {None} /\ holder' # t
        /\ \A i, j \in DOMAIN waiting' : waiting'[i] = waiting'[j] => i = j
        /\ mail' \in [Tabs -> Seq(Letters)] /\ <<>> \in Seq(LockAnswers)
        /\ ~Waits(t, waiting')
    BY <1>1, <1>2, WaitsWithout
  <1>4. \A u \in Tabs : u # t =>
          /\ holder = u <=> holder' = u
          /\ Waits(u, waiting') => Waits(u, waiting) \/ tab[u].role # "acquiring"
    BY <1>1, <1>2, WaitsWithout
  <1>5. /\ s \in TabStates /\ TabSound(t, s, <<>>, holder', waiting', disk)
        /\ s.role = "acquiring" /\ ~s.held
    <2> HIDE DEF s
    <2>1. s = Away
      BY DEF s
    <2> QED  BY <1>1, <1>3, <2>1, OpensOrCloses
  <1> HIDE DEF s
  <1>6. /\ AsksOnce(t, <<>>, scope') /\ (Has(<<>>, {"write"}) => Has(inbox[t], {"write"}))
    BY DEF AsksOnce, Has
  <1>7. ASSUME NEW alone PROVE UpToDate(s, <<>>, disk, alone)
    BY <1>5 DEF UpToDate
  <1>8. /\ edits' \in 0..MaxEdits /\ asks' \in 0..MaxAsks /\ opens' \in Nat /\ failures' \in Nat
        /\ disk' = disk
    BY <1>1, <1>2
  <1>9. CASE scope' = scope \/ scope' = None
    <2>1. CASE scope' = None /\ scope # None /\ scope.tab = t
      <3>1. scope' # None /\ scope.tab = t => First(scope, s.writes)
        BY <2>1
      <3> QED  BY <1>2, <1>3, <1>4, <1>5, <1>6, <1>7, <1>8, <2>1, <3>1, TabSteps
    <2>2. CASE scope' = scope /\ (scope = None \/ scope.tab # t)
      <3>1. scope' # None /\ scope.tab = t => First(scope, s.writes)
        BY <2>2
      <3> QED  BY <1>2, <1>3, <1>4, <1>5, <1>6, <1>7, <1>8, <2>2, <3>1, TabSteps
    <2>3. CASE scope' = scope /\ scope # None /\ scope.tab = t
      <3>1. ~scope.live
        BY <1>1, <1>2, <1>9, <2>3 DEF WriteScopes
      <3>2. scope' # None /\ scope.tab = t => First(scope, s.writes)
        BY <3>1 DEF First
      <3> QED  BY <1>2, <1>3, <1>4, <1>5, <1>6, <1>7, <1>8, <2>3, <3>2, TabSteps
    <2> QED  BY <1>2, <1>9, <2>1, <2>2, <2>3
  <1>10. CASE /\ scope # None /\ scope.tab = t /\ scope.fenced
              /\ scope' = [scope EXCEPT !.live = FALSE]
    <2>1. /\ scope' \in WriteScopes /\ scope'.tab = t /\ scope'.fenced /\ ~scope'.live
          /\ scope'.doc = scope.doc /\ scope'.expected = scope.expected /\ scope' # None
      <3>1. scope \in WriteScopes /\ None \notin Tabs
        BY <1>1, <1>10
      <3>2. /\ scope' \in WriteScopes /\ scope'.tab = t /\ scope'.fenced /\ ~scope'.live
            /\ scope'.doc = scope.doc /\ scope'.expected = scope.expected
        BY <1>10, <3>1 DEF WriteScopes
      <3>3. scope' # None
        BY <3>2, ScopeAssumption
      <3> QED  BY <3>2, <3>3
    <2>2. scope'.expected \subseteq scope'.doc
      BY <1>10, <2>1 DEF TabsInv, OneSave
    <2>3. First(scope', s.writes)
      BY <2>1 DEF First
    <2>4. ASSUME NEW u \in Tabs, u # t
          PROVE  /\ AsksOnce(u, inbox[u], scope')
                 /\ UpToDate(tab[u], inbox[u], disk', Alone(u)')
      <3>1. /\ AsksOnce(u, inbox[u], scope) /\ UpToDate(tab[u], inbox[u], disk, Alone(u))
        BY TabFacts
      <3>2. \A i \in DOMAIN inbox[u] : inbox[u][i] \notin {"write", "refuse"}
        BY <1>10, <2>4, <3>1 DEF AsksOnce
      <3>3. ~Alone(u)
        BY <1>10, <2>4 DEF Alone
      <3> QED  BY <1>8, <3>1, <3>2, <3>3 DEF AsksOnce, UpToDate
    <2>5. TabSound(t, s, <<>>, holder', waiting', disk') /\ UpToDate(s, <<>>, disk', Alone(t)')
      BY <1>5, <1>7, <1>8
    <2>6. disk \subseteq disk' /\ disk' \in Documents
      BY <1>1, <1>8
    <2> QED  BY <1>2, <1>3, <1>4, <1>5, <1>6, <1>8, <2>1, <2>2, <2>3, <2>4, <2>5, <2>6, TabsWrite
  <1> QED  BY <1>2, <1>9, <1>10

\* The save in the scope ends unsaved.
LEMMA TabsUnsaved ==
  ASSUME TabsInv, NEW t \in Tabs, scope # None, scope.tab = t, scope.fenced, scope' = None,
         IF scope.live THEN Becomes(t, Settled(tab[t], FALSE)) ELSE UNCHANGED tab,
         UNCHANGED <<holder, waiting, inbox, disk>>, mail' \in [Tabs -> Seq(Letters)],
         edits' \in 0..MaxEdits, asks' \in 0..MaxAsks, opens' \in Nat, failures' \in Nat
  PROVE  TabsInv'
  <1> DEFINE r == tab[t]
  <1>1. /\ r \in TabStates /\ inbox[t] \in Seq(LockAnswers)
        /\ TabSound(t, r, inbox[t], holder, waiting, disk)
        /\ AsksOnce(t, inbox[t], scope) /\ First(scope, r.writes)
        /\ UpToDate(r, inbox[t], disk, Alone(t))
        /\ tab = [tab EXCEPT ![t] = r] /\ inbox' = [inbox EXCEPT ![t] = inbox[t]]
    BY TabFacts
  <1>2. AsksOnce(t, inbox[t], scope')
    BY <1>1 DEF AsksOnce
  <1>3. /\ holder' \in Tabs \union {None} /\ waiting' \in Seq(Tabs)
        /\ \A i, j \in DOMAIN waiting' : waiting'[i] = waiting'[j] => i = j
    BY TabsCounters
  <1>4. \A u \in Tabs : u # t =>
          /\ holder = u <=> holder' = u
          /\ Waits(u, waiting') => Waits(u, waiting) \/ tab[u].role # "acquiring"
    OBVIOUS
  <1>5. ASSUME NEW s \in TabStates, tab' = [tab EXCEPT ![t] = s],
               TabSound(t, s, inbox[t], holder, waiting, disk),
               UpToDate(s, inbox[t], disk, Alone(t))
        PROVE  TabsInv'
    <2>1. TabSound(t, s, inbox[t], holder', waiting', disk)
      BY <1>5
    <2>2. scope' # None /\ scope.tab = t => First(scope, s.writes)
      OBVIOUS
    <2>3. disk' = disk /\ scope' = None /\ scope # None /\ (scope.tab = t \/ scope.fenced)
      OBVIOUS
    <2> QED  BY <1>1, <1>2, <1>3, <1>4, <1>5, <2>1, <2>2, <2>3, TabSteps
  <1>6. CASE scope.live
    <2>1. r.writes # <<>>
      BY <1>1, <1>6 DEF First
    <2>2. /\ Settled(r, FALSE) \in TabStates
          /\ TabSound(t, Settled(r, FALSE), inbox[t], holder, waiting, disk)
      BY <1>1, <2>1, SettledUnsaved
    <2>3. UpToDate(Settled(r, FALSE), inbox[t], disk, Alone(t))
      BY <1>1, <2>1, UnsavedUpToDate
    <2>4. tab' = [tab EXCEPT ![t] = Settled(r, FALSE)]
      BY <1>6 DEF Becomes
    <2> QED  BY <1>5, <2>2, <2>3, <2>4
  <1>7. CASE ~scope.live
    <2>1. tab' = [tab EXCEPT ![t] = r]
      BY <1>1, <1>7
    <2> HIDE DEF r
    <2> QED  BY <1>1, <1>5, <2>1
  <1> QED  BY <1>6, <1>7

LEMMA TabsWriteFails ==
  ASSUME TabsInv, NEW t \in Tabs, WriteFails(t)
  PROVE  TabsInv'
  <1>1. /\ scope # None /\ scope.tab = t /\ scope.fenced /\ scope' = None
        /\ IF scope.live THEN Becomes(t, Settled(tab[t], FALSE)) ELSE UNCHANGED tab
        /\ UNCHANGED <<holder, waiting, inbox, disk>> /\ failures' = failures + 1
        /\ UNCHANGED <<mail, edits, asks, opens>>
    BY DEF WriteFails, locks
  <1>2. /\ edits' \in 0..MaxEdits /\ asks' \in 0..MaxAsks /\ opens' \in Nat
        /\ failures' \in Nat /\ mail' \in [Tabs -> Seq(Letters)]
    BY <1>1, TabsCounters
  <1> QED  BY <1>1, <1>2, TabsUnsaved

\* The save of an open tab replaces the file.
LEMMA TabsSaved ==
  ASSUME TabsInv, NEW t \in Tabs, scope # None, scope.tab = t, scope.fenced, scope' = None,
         disk = scope.expected, disk' = scope.doc,
         IF scope.live
         THEN Becomes(t, [Settled(tab[t], TRUE) EXCEPT !.base = scope.doc])
         ELSE UNCHANGED tab,
         UNCHANGED <<holder, waiting, inbox>>, mail' \in [Tabs -> Seq(Letters)],
         edits' \in 0..MaxEdits, asks' \in 0..MaxAsks, opens' \in Nat, failures' \in Nat
  PROVE  TabsInv'
  <1> DEFINE r == tab[t]
  <1>1. /\ r \in TabStates /\ inbox[t] \in Seq(LockAnswers) /\ disk \in Documents
        /\ TabSound(t, r, inbox[t], holder, waiting, disk)
        /\ AsksOnce(t, inbox[t], scope) /\ First(scope, r.writes)
        /\ UpToDate(r, inbox[t], disk, Alone(t))
        /\ tab = [tab EXCEPT ![t] = r] /\ inbox' = [inbox EXCEPT ![t] = inbox[t]]
    BY TabFacts
  <1>2. disk \subseteq disk' /\ disk' \in Documents
    <2>1. scope \in WriteScopes /\ scope.expected \subseteq scope.doc
      BY DEF TabsInv, TabTypes, OneSave
    <2> QED  BY <2>1 DEF WriteScopes, Documents
  <1>3. /\ holder' \in Tabs \union {None} /\ waiting' \in Seq(Tabs)
        /\ \A i, j \in DOMAIN waiting' : waiting'[i] = waiting'[j] => i = j
    BY TabsCounters
  <1>4. \A u \in Tabs : u # t =>
          /\ holder = u <=> holder' = u
          /\ Waits(u, waiting') => Waits(u, waiting) \/ tab[u].role # "acquiring"
    OBVIOUS
  <1>5. AsksOnce(t, inbox[t], scope')
    BY <1>1 DEF AsksOnce
  <1>6. ASSUME NEW u \in Tabs, u # t
        PROVE  AsksOnce(u, inbox[u], scope') /\ UpToDate(tab[u], inbox[u], disk', Alone(u)')
    <2>1. AsksOnce(u, inbox[u], scope) /\ UpToDate(tab[u], inbox[u], disk, Alone(u))
      BY TabFacts
    <2>2. ~Alone(u)
      BY <1>6 DEF Alone
    <2> QED  BY <1>6, <2>1, <2>2 DEF AsksOnce, UpToDate
  <1>7. ASSUME NEW s \in TabStates, tab' = [tab EXCEPT ![t] = s],
               TabSound(t, s, inbox[t], holder, waiting, disk'),
               UpToDate(s, inbox[t], disk', Alone(t)')
        PROVE  TabsInv'
    <2>1. TabSound(t, s, inbox[t], holder', waiting', disk')
      BY <1>7
    <2>2. /\ scope' \in WriteScopes \union {None}
          /\ scope' # None => /\ scope'.expected \subseteq scope'.doc
                              /\ ~scope'.live => scope'.fenced
                              /\ scope'.tab = t => First(scope', s.writes)
                              /\ scope'.tab # t => First(scope', tab[scope'.tab].writes)
      OBVIOUS
    <2> QED  BY <1>1, <1>2, <1>3, <1>4, <1>5, <1>6, <1>7, <2>1, <2>2, TabsWrite
  <1>8. CASE scope.live
    <2> DEFINE s == [Settled(r, TRUE) EXCEPT !.base = scope.doc]
    <2>1. r.writes # <<>> /\ r.writes[1].doc = disk'
      BY <1>1, <1>8 DEF First
    <2>2. s \in TabStates /\ TabSound(t, s, inbox[t], holder, waiting, disk')
      <3>1. scope.doc = r.writes[1].doc /\ disk \subseteq scope.doc /\ scope.doc \in Documents
        BY <1>2, <2>1
      <3> HIDE DEF r
      <3>2. /\ [Settled(r, TRUE) EXCEPT !.base = scope.doc] \in TabStates
            /\ TabSound(t, [Settled(r, TRUE) EXCEPT !.base = scope.doc], inbox[t], holder,
                        waiting, scope.doc)
        BY <1>1, <2>1, <3>1, SettledSaved
      <3> QED  BY <3>2
    <2>3. s.held = r.held /\ s.role = r.role /\ s.adopting = r.adopting /\ s.base = disk'
          /\ s.reloaded = r.reloaded
      BY <1>1 DEF TabStates, Settled
    <2>4. tab' = [tab EXCEPT ![t] = s]
      BY <1>8 DEF Becomes
    <2> HIDE DEF s
    <2>5. Alone(t) => Alone(t)'
      BY DEF Alone
    <2>6. r.adopting \notin {"read", "asking"}
      BY <1>1, <2>1 DEF TabSound, Roles
    <2>7. UpToDate(s, inbox[t], disk', Alone(t)')
      BY <1>1, <2>3, <2>5, <2>6 DEF UpToDate
    <2> QED  BY <1>7, <2>2, <2>4, <2>7
  <1>9. CASE ~scope.live
    <2>1. tab' = [tab EXCEPT ![t] = r]
      BY <1>1, <1>9
    <2> HIDE DEF r
    <2>2. TabSound(t, r, inbox[t], holder, waiting, disk')
      <3>1. /\ holder = t <=> holder = t
             /\ (Waits(t, waiting) => Waits(t, waiting) \/ r.role # "acquiring")
        OBVIOUS
      <3> QED  BY <1>1, <1>2, <3>1, OthersMove
    <2>3. ~Alone(t)
      BY <1>9 DEF Alone
    <2>4. UpToDate(r, inbox[t], disk', Alone(t)')
      BY <1>1, <2>3 DEF UpToDate
    <2> QED  BY <1>1, <1>7, <2>1, <2>2, <2>4
  <1> QED  BY <1>8, <1>9

LEMMA TabsLand ==
  ASSUME TabsInv, NEW t \in Tabs, Land(t)
  PROVE  TabsInv'
  <1>1. /\ scope # None /\ scope.tab = t /\ scope.fenced /\ scope' = None
        /\ UNCHANGED <<holder, waiting, inbox>> /\ UNCHANGED <<edits, asks, opens, failures>>
    BY DEF Land, locks, bounds
  <1>2. /\ edits' \in 0..MaxEdits /\ asks' \in 0..MaxAsks /\ opens' \in Nat
        /\ failures' \in Nat /\ mail \in [Tabs -> Seq(Letters)]
    BY <1>1, TabsCounters
  <1>3. UNCHANGED mail \/ Post(t, "saved", 0)
    BY DEF Land
  <1>4. mail' \in [Tabs -> Seq(Letters)]
    <2>1. [type |-> "saved", id |-> 0] \in Letters
      BY DEF Letters
    <2> QED  BY <1>2, <1>3, <2>1, PostTypes
  <1>5. CASE disk = scope.expected
    <2>1. /\ disk' = scope.doc
          /\ IF scope.live
             THEN Becomes(t, [Settled(tab[t], TRUE) EXCEPT !.base = scope.doc])
             ELSE UNCHANGED tab
      BY <1>5 DEF Land
    <2> QED  BY <1>1, <1>2, <1>4, <1>5, <2>1, TabsSaved
  <1>6. CASE disk # scope.expected
    <2>1. /\ disk' = disk
          /\ IF scope.live THEN Becomes(t, Settled(tab[t], FALSE)) ELSE UNCHANGED tab
      BY <1>6 DEF Land
    <2> QED  BY <1>1, <1>2, <1>4, <2>1, TabsUnsaved
  <1> QED  BY <1>5, <1>6

LEMMA TabsEnter ==
  ASSUME TabsInv, NEW t \in Tabs, Enter(t)
  PROVE  TabsInv'
  <1> DEFINE r == tab[t]
             e == IF HoldsEditorLock(t) THEN "write" ELSE "refuse"
             left == Append(inbox[t], e)
  <1>1. /\ r \in TabStates /\ inbox[t] \in Seq(LockAnswers) /\ disk \in Documents
        /\ TabSound(t, r, inbox[t], holder, waiting, disk) /\ r.writes \in Seq(TabSaves)
        /\ UpToDate(r, inbox[t], disk, Alone(t))
        /\ tab = [tab EXCEPT ![t] = r] /\ inbox \in [Tabs -> Seq(LockAnswers)]
    BY TabFacts DEF TabsInv, TabTypes
  <1>2. /\ r.writes # <<>> /\ Head(r.writes).checked /\ scope = None
        /\ scope' = [tab |-> t, fenced |-> FALSE, live |-> TRUE,
                     doc |-> Head(r.writes).doc, expected |-> r.base]
        /\ inbox' = [inbox EXCEPT ![t] = left]
        /\ UNCHANGED <<tab, holder, waiting, mail, disk>>
        /\ UNCHANGED <<edits, asks, opens, failures>>
    BY DEF Enter, Tell, locks, bounds
  <1>3. /\ edits' \in 0..MaxEdits /\ asks' \in 0..MaxAsks /\ opens' \in Nat
        /\ failures' \in Nat /\ mail' \in [Tabs -> Seq(Letters)]
        /\ holder' \in Tabs \union {None} /\ waiting' \in Seq(Tabs)
        /\ \A i, j \in DOMAIN waiting' : waiting'[i] = waiting'[j] => i = j
    BY <1>2, TabsCounters
  <1>4. /\ e \in {"write", "refuse"} /\ (e = "write" => holder = t)
    BY DEF HoldsEditorLock
  <1>5. tab' = [tab EXCEPT ![t] = r]
    BY <1>1, <1>2
  <1> HIDE DEF e, r
  <1>6. /\ e \in LockAnswers /\ e \notin Gains /\ e # "ended"
        /\ e \notin {"initial", "occupied", "adopt", "leave"} /\ e \notin {"taken", "granted"}
    BY <1>4, GainsDiffer
  <1>7. left \in Seq(LockAnswers) /\ TabSound(t, r, left, holder', waiting', disk')
    <2>1. r.role # "acquiring" /\ r.life = "open"
      BY <1>1, <1>2 DEF TabSound, Beginning
    <2>2. TabSound(t, r, Append(inbox[t], e), holder, waiting, disk)
      BY <1>1, <1>6, <2>1, AnswerComes
    <2> QED  BY <1>1, <1>2, <1>6, <2>2
  <1>8. \A u \in Tabs : \A i \in DOMAIN inbox[u] : inbox[u][i] \notin {"write", "refuse"}
    BY <1>2, TabFacts DEF AsksOnce
  <1>9. /\ scope'.tab = t /\ ~scope'.fenced /\ scope'.live
        /\ scope'.doc = r.writes[1].doc /\ scope'.expected = r.base
        /\ r.writes[1].checked /\ scope' \in WriteScopes
    <2>1. Head(r.writes) = r.writes[1] /\ r.writes[1] \in TabSaves
      BY <1>1, <1>2, SavesTail
    <2>2. r.base \in Documents /\ r.writes[1].doc \in Documents
      BY <1>1, <2>1 DEF TabStates, TabSaves
    <2> QED  BY <1>2, <2>1, <2>2 DEF WriteScopes, Documents
  <1>10. scope' # None /\ First(scope', r.writes) /\ scope'.expected \subseteq scope'.doc
    <2>1. 1 \in DOMAIN r.writes
      BY <1>1, <1>2, SavesTail
    <2>2. r.base \subseteq r.writes[1].doc
      BY <1>1, <2>1 DEF TabSound, Growing
    <2> QED  BY <1>2, <1>9, <2>2, ScopeAssumption DEF First
  <1>11. AsksOnce(t, left, scope')
    <2>1. /\ DOMAIN left = 1..(Len(inbox[t]) + 1) /\ DOMAIN inbox[t] = 1..Len(inbox[t])
          /\ \A i \in DOMAIN inbox[t] : left[i] = inbox[t][i] /\ Len(inbox[t]) \in Nat
      BY <1>1, <1>6, AppendBox
    <2>2. Len(inbox[t]) \in Nat
      BY <1>1
    <2> HIDE DEF left
    <2>3. ASSUME NEW i \in DOMAIN left, left[i] \in {"write", "refuse"}
          PROVE  i = Len(inbox[t]) + 1
      <3>1. i \notin DOMAIN inbox[t]
        BY <1>8, <2>1, <2>3
      <3> QED  BY <2>1, <2>2, <3>1
    <2> QED  BY <1>9, <1>10, <2>3 DEF AsksOnce
  <1>12. Has(left, {"ended"}) <=> Has(inbox[t], {"ended"})
    BY <1>1, <1>6, HasAppend
  <1>13. \A u \in Tabs : u # t => inbox'[u] = inbox[u]
    BY <1>1, <1>2
  <1>14. e = "refuse" => ~Has(left, {"write"})
    <2>1. Has(left, {"write"}) => Has(inbox[t], {"write"}) \/ e \in {"write"}
      BY <1>1, <1>6, HasAppend
    <2> QED  BY <1>8, <2>1 DEF Has
  <1>15. inbox'[t] = left
    BY <1>1, <1>2
  <1> HIDE DEF left
  <1>16. UpToDate(r, left, disk', Alone(t)')
    <2>1. Alone(t)'
      BY <1>8, <1>9, <1>13 DEF Alone, Has
    <2> QED  BY <1>1, <1>2, <1>12, <2>1 DEF UpToDate
  <1>17. ASSUME NEW u \in Tabs, u # t
         PROVE  AsksOnce(u, inbox[u], scope') /\ UpToDate(tab[u], inbox[u], disk', Alone(u)')
    <2>1. /\ TabSound(u, tab[u], inbox[u], holder, waiting, disk)
          /\ UpToDate(tab[u], inbox[u], disk, Alone(u))
      BY TabFacts
    <2>2. AsksOnce(u, inbox[u], scope')
      BY <1>8 DEF AsksOnce
    <2>3. ASSUME tab[u].held, ~Has(inbox[u], {"ended"})
          PROVE  Alone(u)'
      <3>1. holder = u
        BY <2>1, <2>3 DEF TabSound, Alternates, Has
      <3>2. ~Has(left, {"write"})
        BY <1>4, <1>14, <1>17, <3>1
      <3>3. \A v \in Tabs : ~Has(inbox'[v], {"write"})
        BY <1>8, <1>13, <1>15, <3>2 DEF Has
      <3> QED  BY <1>9, <3>3 DEF Alone
    <2> QED  BY <1>2, <2>1, <2>2, <2>3 DEF UpToDate
  <1>18. \A u \in Tabs : u # t =>
           /\ holder = u <=> holder' = u
           /\ Waits(u, waiting') => Waits(u, waiting) \/ tab[u].role # "acquiring"
    BY <1>2
  <1>19. disk \subseteq disk' /\ disk' \in Documents /\ r \in TabStates
    BY <1>1, <1>2
  <1>20. scope' # None => /\ scope'.expected \subseteq scope'.doc
                          /\ ~scope'.live => scope'.fenced
                          /\ scope'.tab = t => First(scope', r.writes)
                          /\ scope'.tab # t => First(scope', tab[scope'.tab].writes)
    BY <1>9, <1>10
  <1>21. scope' \in WriteScopes \union {None} /\ inbox' = [inbox EXCEPT ![t] = left]
    BY <1>2, <1>9
  <1> QED  BY <1>3, <1>5, <1>7, <1>11, <1>16, <1>17, <1>18, <1>19, <1>20, <1>21, TabsWrite

\* A tab hears of a lock.
LEMMA TabsHeard ==
  ASSUME TabsInv, NEW t \in Tabs, NEW s \in TabStates, inbox[t] # <<>>,
         Head(inbox[t]) \notin {"write", "refuse"},
         Becomes(t, s), inbox' = [inbox EXCEPT ![t] = Tail(inbox[t])],
         UNCHANGED <<holder, scope, disk, mail>>, UNCHANGED <<edits, asks, opens, failures>>,
         waiting' = waiting \/ (s.role = "secondary" /\ waiting' = Append(Without(waiting, t), t)),
         TabSound(t, s, Tail(inbox[t]), holder, waiting, disk), s.writes = tab[t].writes,
         UpToDate(s, Tail(inbox[t]), disk, Alone(t))
  PROVE  TabsInv'
  <1> DEFINE left == Tail(inbox[t])
  <1>1. /\ inbox[t] \in Seq(LockAnswers) /\ AsksOnce(t, inbox[t], scope)
        /\ scope # None /\ scope.tab = t => First(scope, tab[t].writes)
        /\ disk \in Documents
    BY TabFacts
  <1>2. /\ left \in Seq(LockAnswers) /\ AsksOnce(t, left, scope')
        /\ Has(left, {"write"}) => Has(inbox[t], {"write"})
    BY <1>1, TailBox, AsksOnceTail, HasTail
  <1>3. /\ edits' \in 0..MaxEdits /\ asks' \in 0..MaxAsks /\ opens' \in Nat
        /\ failures' \in Nat /\ mail' \in [Tabs -> Seq(Letters)]
        /\ holder' \in Tabs \union {None} /\ waiting \in Seq(Tabs)
        /\ \A i, j \in DOMAIN waiting : waiting[i] = waiting[j] => i = j
    BY TabsCounters
  <1>4. /\ waiting' \in Seq(Tabs)
        /\ \A i, j \in DOMAIN waiting' : waiting'[i] = waiting'[j] => i = j
        /\ \A u : u # t => (Waits(u, waiting') => Waits(u, waiting))
    <2>1. CASE waiting' = waiting
      BY <1>3, <2>1
    <2>2. CASE waiting' = Append(Without(waiting, t), t)
      <3>1. /\ Append(Without(waiting, t), t) \in Seq(Tabs)
            /\ \A i, j \in DOMAIN Append(Without(waiting, t), t) :
                 Append(Without(waiting, t), t)[i] = Append(Without(waiting, t), t)[j] => i = j
            /\ \A u : u # t => (Waits(u, Append(Without(waiting, t), t)) <=> Waits(u, waiting))
        BY <1>3, AgainQueue
      <3> QED  BY <2>2, <3>1
    <2> QED  BY <2>1, <2>2
  <1>5. TabSound(t, s, left, holder', waiting', disk)
    <2>1. CASE waiting' = waiting
      BY <2>1
    <2>2. CASE s.role = "secondary"
      <3>1. Waits(t, waiting') => Waits(t, waiting) \/ s.role # "acquiring"
        BY <2>2
      <3>2. TabSound(t, s, left, holder, waiting', disk)
        <4>1. TabSound(t, s, left, holder, waiting, disk)
          OBVIOUS
        <4> HIDE DEF left
        <4> QED  BY <1>1, <1>2, <3>1, <4>1, QueueMoves
      <3> QED  BY <3>2
    <2> QED  BY <2>1, <2>2
  <1>6. \A u \in Tabs : u # t =>
          /\ holder = u <=> holder' = u
          /\ Waits(u, waiting') => Waits(u, waiting) \/ tab[u].role # "acquiring"
    BY <1>4
  <1>7. /\ tab' = [tab EXCEPT ![t] = s] /\ inbox' = [inbox EXCEPT ![t] = left]
        /\ disk' = disk /\ scope' = scope /\ UpToDate(s, left, disk, Alone(t))
        /\ scope' # None /\ scope.tab = t => First(scope, s.writes)
    BY <1>1 DEF Becomes
  <1> HIDE DEF left
  <1> QED  BY <1>2, <1>3, <1>4, <1>5, <1>6, <1>7, TabSteps

LEMMA TabsNoticeGain ==
  ASSUME TabsInv, NEW t \in Tabs, Notice(t), "late" \notin Habits \/ ~returned', Head(inbox[t]) \in Gains
  PROVE  TabsInv'
  <1> DEFINE r == tab[t]
             answer == Head(inbox[t])
             box == inbox[t]
  <1>1. /\ r \in TabStates /\ box \in Seq(LockAnswers)
        /\ TabSound(t, r, box, holder, waiting, disk)
    BY TabFacts
  <1>2. PICK cause \in {"initial", "requested", "vacated"} :
          /\ answer = "initial" <=> cause = "initial"
          /\ Told(r, answer) = Granted(r, cause)
    <2>1. answer \in {"initial", "taken", "granted"}
      BY DEF Gains
    <2>2. CASE answer = "initial"
      <3>1. Told(r, answer) = Granted(r, "initial")
        BY <2>2 DEF Told
      <3> QED  BY <2>2, <3>1
    <2>3. CASE answer = "taken"
      <3>1. Told(r, answer) = Granted(r, "requested")
        BY <2>3 DEF Told
      <3> QED  BY <2>3, <3>1
    <2>4. CASE answer = "granted"
      <3>1. Told(r, answer) = Granted(r, IF r.asking # 0 THEN "requested" ELSE "vacated")
        BY <2>4 DEF Told
      <3>2. CASE r.asking # 0
        BY <2>4, <3>1, <3>2
      <3>3. CASE r.asking = 0
        BY <2>4, <3>1, <3>3
      <3> QED  BY <3>2, <3>3
    <2> QED  BY <2>1, <2>2, <2>3, <2>4
  <1> DEFINE s == Granted(r, cause)
  <1>3. /\ box # <<>> /\ r.flush = "none" /\ Becomes(t, s)
        /\ inbox' = [inbox EXCEPT ![t] = Tail(box)]
        /\ UNCHANGED <<holder, scope, disk, mail>> /\ UNCHANGED <<edits, asks, opens, failures>>
        /\ waiting' = waiting
    <2>1. answer \notin {"occupied", "ended", "write", "refuse"}
      BY GainsDiffer
    <2> QED  BY <1>2, <2>1 DEF Notice, bounds
  <1>4. /\ s \in TabStates
        /\ TabSound(t, s, Tail(box), holder, waiting, disk)
        /\ s.adopting \notin {"read", "asking"}
        /\ s.role = "editor" => ~s.reloaded
        /\ s.writes = r.writes
    <2>1. Head(box) \in Gains /\ (Head(box) = "initial" <=> cause = "initial")
      BY <1>2
    <2> HIDE DEF r, box
    <2> QED  BY <1>1, <1>2, <1>3, <2>1, HeardGain
  <1> HIDE DEF s
  <1>5. UpToDate(s, Tail(box), disk, Alone(t))
    BY <1>4 DEF UpToDate
  <1>6. answer \notin {"write", "refuse"}
    BY GainsDiffer
  <1> QED  BY <1>3, <1>4, <1>5, <1>6, TabsHeard

LEMMA TabsNoticeEnd ==
  ASSUME TabsInv, NEW t \in Tabs, Notice(t), Head(inbox[t]) \in {"ended", "occupied"}
  PROVE  TabsInv'
  <1> DEFINE r == tab[t]
             box == inbox[t]
             s == Told(r, Head(box))
  <1>1. /\ r \in TabStates /\ box \in Seq(LockAnswers)
        /\ TabSound(t, r, box, holder, waiting, disk)
    BY TabFacts
  <1>2. /\ box # <<>> /\ Becomes(t, s) /\ inbox' = [inbox EXCEPT ![t] = Tail(box)]
        /\ UNCHANGED <<holder, scope, disk, mail>> /\ UNCHANGED <<edits, asks, opens, failures>>
        /\ waiting' = Append(Without(waiting, t), t)
    BY DEF Notice, bounds
  <1> HIDE DEF r, box
  <1>3. /\ s \in TabStates /\ TabSound(t, s, Tail(box), holder, waiting, disk)
        /\ ~s.held /\ s.role = "secondary" /\ s.writes = r.writes
    <2>1. CASE Head(box) = "ended"
      <3>1. s = Ended(r)
        BY <2>1 DEF Told
      <3> QED  BY <1>1, <1>2, <2>1, <3>1, HeardEnded
    <2>2. CASE Head(box) = "occupied"
      <3>1. s = Secondary(r, "occupied")
        BY <2>2 DEF Told
      <3> QED  BY <1>1, <1>2, <2>2, <3>1, HeardOccupied
    <2> QED  BY <2>1, <2>2 DEF box
  <1> HIDE DEF s
  <1>4. UpToDate(s, Tail(box), disk, Alone(t))
    BY <1>3 DEF UpToDate
  <1>5. Head(inbox[t]) \notin {"write", "refuse"}
    OBVIOUS
  <1> QED  BY <1>2, <1>3, <1>4, <1>5, TabsHeard DEF r, box

LEMMA TabsNoticeAdopt ==
  ASSUME TabsInv, NEW t \in Tabs, Notice(t), Head(inbox[t]) \in {"adopt", "leave"}
  PROVE  TabsInv'
  <1> DEFINE r == tab[t]
             box == inbox[t]
             e == Head(box)
             s == Told(r, e)
  <1>1. /\ r \in TabStates /\ box \in Seq(LockAnswers)
        /\ TabSound(t, r, box, holder, waiting, disk) /\ UpToDate(r, box, disk, Alone(t))
    BY TabFacts
  <1>3. /\ box # <<>> /\ Becomes(t, s) /\ inbox' = [inbox EXCEPT ![t] = Tail(box)]
        /\ UNCHANGED <<holder, scope, disk, mail>> /\ UNCHANGED <<edits, asks, opens, failures>>
        /\ waiting' = waiting
    BY DEF Notice, bounds
  <1>4. /\ Head(box) \notin Gains /\ Head(box) # "ended"
    BY GainsDiffer
  <1> HIDE DEF r
  <1>5. TabSound(t, r, Tail(box), holder, waiting, disk)
    <2> HIDE DEF box
    <2> QED  BY <1>1, <1>3, <1>4, HeardSame
  <1>6. MayAdopt(r, e)
    <2>1. box[1] = Head(box) /\ 1 \in DOMAIN box
      BY <1>1, <1>3, TailBox
    <2> HIDE DEF box
    <2>2. Answered(r, box)
      BY <1>1 DEF TabSound
    <2>3. \A k \in 1..(1 - 1) : FALSE
      OBVIOUS
    <2> QED  BY <2>1, <2>2, <2>3 DEF Answered, MayAdopt
  <1>e. e \in {"adopt", "leave"}
    OBVIOUS
  <1>7. r.role # "acquiring" \/ r.adopting = "none"
    BY <1>1 DEF TabSound, Beginning
  <1>8. Tail(box) \in Seq(LockAnswers) /\ (Has(box, {"ended"}) => Has(Tail(box), {"ended"}))
    <2>1. Head(box) \notin {"ended"}
      BY <1>4
    <2> HIDE DEF box
    <2> QED  BY <1>1, <1>3, <2>1, TailBox, HasTail
  <1>9. /\ s \in TabStates /\ TabSound(t, s, Tail(box), holder, waiting, disk)
        /\ s.writes = r.writes /\ s.held = r.held
        /\ \/ s = r
           \/ s.adopting = "none" /\ s.role = r.role
           \/ s.adopting = "none" /\ r.adopting = "asking" /\ s.base = r.read
    <2> HIDE DEF box
    <2>1. ASSUME NEW left \in Seq(LockAnswers), NEW h, NEW queued, NEW d,
                 TabSound(t, r, left, h, queued, d)
          PROVE  /\ Told(r, e) \in TabStates /\ TabSound(t, Told(r, e), left, h, queued, d)
                 /\ Told(r, e).writes = r.writes /\ Told(r, e).held = r.held
                 /\ Adopts(r, Told(r, e))
      <3>1. r \in TabStates
        BY <1>1
      <3> HIDE DEF e
      <3> QED  BY <1>6, <1>7, <1>e, <2>1, <3>1, HeardAdopt
    <2> QED  BY <1>5, <1>8, <2>1 DEF Adopts
  <1>10. r.adopting # "asking" => s = r
    BY <1>e DEF Told, Adopted
  <1>11. r.role = "editor" => r.adopting = "none"
    BY <1>1 DEF TabSound, Roles
  <1> HIDE DEF s
  <1>12. UpToDate(s, Tail(box), disk, Alone(t))
    <2> HIDE DEF box
    <2> QED  BY <1>1, <1>8, <1>9, <1>10, <1>11 DEF UpToDate
  <1>13. Head(inbox[t]) \notin {"write", "refuse"}
    OBVIOUS
  <1> QED  BY <1>3, <1>9, <1>12, <1>13, TabsHeard DEF r

\* The answer to the save in the scope is heard; no other comes.
LEMMA HearsOfTheSave ==
  ASSUME TabsInv, NEW t \in Tabs, inbox[t] # <<>>, Head(inbox[t]) \in {"write", "refuse"}
  PROVE  /\ scope # None /\ scope.tab = t /\ scope.live /\ ~scope.fenced
         /\ \A inside : AsksOnce(t, Tail(inbox[t]), inside)
         /\ ~Has(Tail(inbox[t]), {"write"})
         /\ Head(inbox[t]) = "write" => Has(inbox[t], {"write"})
  <1> DEFINE box == inbox[t]
             left == Tail(box)
  <1>1. inbox[t] \in Seq(LockAnswers) /\ AsksOnce(t, inbox[t], scope)
    BY TabFacts
  <1>2. /\ box[1] = Head(box) /\ 1 \in DOMAIN box /\ DOMAIN left = 1..(Len(box) - 1)
        /\ \A i \in DOMAIN left : left[i] = box[i + 1] /\ i + 1 \in DOMAIN box
        /\ Len(box) \in Nat
    BY <1>1, TailBox
  <1>3. box[1] \in {"write", "refuse"} /\ (Head(box) = "write" => box[1] = "write")
    BY <1>2
  <1>4. AsksOnce(t, box, scope)
    BY <1>1
  <1> HIDE DEF left, box
  <1>5. /\ scope # None /\ scope.tab = t /\ scope.live /\ ~scope.fenced
        /\ \A j \in DOMAIN box : box[j] \in {"write", "refuse"} => 1 = j
    BY <1>2, <1>3, <1>4 DEF AsksOnce
  <1>6. ASSUME NEW i \in DOMAIN left PROVE left[i] \notin {"write", "refuse"}
    <2>1. i \in Nat /\ i # 0 /\ i + 1 # 1
      BY <1>2
    <2> QED  BY <1>2, <1>5, <2>1
  <1>7. (\A inside : AsksOnce(t, left, inside)) /\ ~Has(left, {"write"})
    BY <1>6 DEF AsksOnce, Has
  <1>8. Head(box) = "write" => Has(box, {"write"})
    BY <1>2, <1>3 DEF Has
  <1> QED  BY <1>5, <1>7, <1>8 DEF left, box

LEMMA TabsNoticeRefuse ==
  ASSUME TabsInv, NEW t \in Tabs, Notice(t), Head(inbox[t]) = "refuse"
  PROVE  TabsInv'
  <1> DEFINE r == tab[t]
             box == inbox[t]
             left == Tail(box)
             s == Settled(r, FALSE)
  <1>1. /\ r \in TabStates /\ box \in Seq(LockAnswers)
        /\ TabSound(t, r, box, holder, waiting, disk) /\ UpToDate(r, box, disk, Alone(t))
        /\ scope # None /\ scope.tab = t => First(scope, r.writes)
    BY TabFacts
  <1>2. /\ box # <<>> /\ Becomes(t, s) /\ inbox' = [inbox EXCEPT ![t] = left]
        /\ scope' = None /\ UNCHANGED <<holder, disk, mail, waiting>>
        /\ UNCHANGED <<edits, asks, opens, failures>>
    BY DEF Notice, Told, bounds
  <1>3. /\ scope # None /\ scope.tab = t /\ scope.live /\ AsksOnce(t, left, None)
        /\ ~Has(left, {"write"})
    BY <1>2, HearsOfTheSave
  <1>4. r.writes # <<>>
    BY <1>1, <1>3 DEF First
  <1>5. Head(box) \notin Gains /\ Head(box) # "ended" /\ Head(box) \notin {"ended"}
    BY GainsDiffer
  <1> HIDE DEF r, box
  <1>6. /\ left \in Seq(LockAnswers) /\ TabSound(t, r, left, holder, waiting, disk)
        /\ Has(box, {"ended"}) => Has(left, {"ended"})
    BY <1>1, <1>2, <1>5, TailBox, HasTail, HeardSame
  <1> HIDE DEF left
  <1>7. s \in TabStates /\ TabSound(t, s, left, holder, waiting, disk)
    BY <1>1, <1>4, <1>6, SettledUnsaved
  <1>8. UpToDate(s, left, disk, Alone(t))
    <2>1. UpToDate(r, left, disk, Alone(t))
      BY <1>1, <1>6 DEF UpToDate
    <2> QED  BY <1>1, <1>4, <2>1, UnsavedUpToDate
  <1> HIDE DEF s
  <1>9. /\ edits' \in 0..MaxEdits /\ asks' \in 0..MaxAsks /\ opens' \in Nat
        /\ failures' \in Nat /\ mail' \in [Tabs -> Seq(Letters)]
        /\ holder' \in Tabs \union {None} /\ waiting' \in Seq(Tabs)
        /\ \A i, j \in DOMAIN waiting' : waiting'[i] = waiting'[j] => i = j
    BY <1>2, TabsCounters
  <1>10. \A u \in Tabs : u # t =>
           /\ holder = u <=> holder' = u
           /\ Waits(u, waiting') => Waits(u, waiting) \/ tab[u].role # "acquiring"
    BY <1>2
  <1>11. /\ tab' = [tab EXCEPT ![t] = s] /\ disk' = disk
         /\ TabSound(t, s, left, holder', waiting', disk) /\ AsksOnce(t, left, scope')
         /\ scope' # None /\ scope.tab = t => First(scope, s.writes)
         /\ scope' = None /\ scope # None /\ (scope.tab = t \/ scope.fenced)
         /\ Has(left, {"write"}) => Has(inbox[t], {"write"})
    BY <1>2, <1>3, <1>7 DEF Becomes
  <1> QED  BY <1>2, <1>6, <1>7, <1>8, <1>9, <1>10, <1>11, TabSteps

LEMMA TabsNoticeWrite ==
  ASSUME TabsInv, NEW t \in Tabs, Notice(t), Head(inbox[t]) = "write"
  PROVE  TabsInv'
  <1> DEFINE r == tab[t]
             box == inbox[t]
             left == Tail(box)
  <1>1. /\ r \in TabStates /\ box \in Seq(LockAnswers)
        /\ TabSound(t, r, box, holder, waiting, disk) /\ UpToDate(r, box, disk, Alone(t))
        /\ scope # None /\ scope.tab = t => First(scope, r.writes)
        /\ disk \in Documents /\ scope \in WriteScopes \union {None}
        /\ inbox \in [Tabs -> Seq(LockAnswers)]
    BY TabFacts DEF TabsInv, TabTypes
  <1>2. /\ box # <<>> /\ Becomes(t, r) /\ inbox' = [inbox EXCEPT ![t] = left]
        /\ scope' = [scope EXCEPT !.fenced = TRUE] /\ UNCHANGED <<holder, disk, mail, waiting>>
        /\ UNCHANGED <<edits, asks, opens, failures>>
    BY DEF Notice, Told, bounds
  <1>3. /\ scope # None /\ scope.tab = t /\ scope.live /\ ~scope.fenced
        /\ \A inside : AsksOnce(t, left, inside)
        /\ Has(box, {"write"})
    BY <1>2, HearsOfTheSave
  <1>4. /\ scope' \in WriteScopes /\ scope'.tab = t /\ scope'.live /\ scope'.doc = scope.doc
        /\ scope'.expected = scope.expected
    BY <1>1, <1>2, <1>3 DEF WriteScopes
  <1>5. Head(box) \notin Gains /\ Head(box) # "ended" /\ Head(box) \notin {"ended"}
    BY GainsDiffer
  <1>6. /\ left \in Seq(LockAnswers) /\ TabSound(t, r, left, holder, waiting, disk)
        /\ Has(box, {"ended"}) => Has(left, {"ended"})
    <2> HIDE DEF r, box
    <2> QED  BY <1>1, <1>2, <1>5, TailBox, HasTail, HeardSame
  <1>7. First(scope', r.writes) /\ scope'.expected \subseteq scope'.doc
    <2>1. First(scope, r.writes) /\ scope.expected \subseteq scope.doc
      BY <1>1, <1>3 DEF TabsInv, OneSave
    <2> QED  BY <1>3, <1>4, <2>1 DEF First
  <1>8. \A u \in Tabs : u # t => inbox'[u] = inbox[u]
    BY <1>1, <1>2
  <1>9. UpToDate(r, left, disk', Alone(t)')
    <2>1. Alone(t) => Alone(t)'
      BY <1>4, <1>8 DEF Alone
    <2> QED  BY <1>1, <1>2, <1>6, <2>1 DEF UpToDate
  <1>10. ASSUME NEW u \in Tabs, u # t
         PROVE  AsksOnce(u, inbox[u], scope') /\ UpToDate(tab[u], inbox[u], disk', Alone(u)')
    <2>1. AsksOnce(u, inbox[u], scope) /\ UpToDate(tab[u], inbox[u], disk, Alone(u))
      BY TabFacts
    <2>2. \A i \in DOMAIN inbox[u] : inbox[u][i] \notin {"write", "refuse"}
      BY <1>3, <1>10, <2>1 DEF AsksOnce
    <2>3. ~Alone(u)
      BY <1>3, <1>10 DEF Alone
    <2> QED  BY <1>2, <2>1, <2>2, <2>3 DEF AsksOnce, UpToDate
  <1>11. /\ edits' \in 0..MaxEdits /\ asks' \in 0..MaxAsks /\ opens' \in Nat
         /\ failures' \in Nat /\ mail' \in [Tabs -> Seq(Letters)]
         /\ holder' \in Tabs \union {None} /\ waiting' \in Seq(Tabs)
         /\ \A i, j \in DOMAIN waiting' : waiting'[i] = waiting'[j] => i = j
    BY <1>2, TabsCounters
  <1>12. \A u \in Tabs : u # t =>
           /\ holder = u <=> holder' = u
           /\ Waits(u, waiting') => Waits(u, waiting) \/ tab[u].role # "acquiring"
    BY <1>2
  <1>13. /\ tab' = [tab EXCEPT ![t] = r] /\ disk \subseteq disk' /\ disk' \in Documents
         /\ TabSound(t, r, left, holder', waiting', disk') /\ AsksOnce(t, left, scope')
         /\ scope' \in WriteScopes \union {None}
         /\ scope' # None => /\ scope'.expected \subseteq scope'.doc
                             /\ ~scope'.live => scope'.fenced
                             /\ scope'.tab = t => First(scope', r.writes)
                             /\ scope'.tab # t => First(scope', tab[scope'.tab].writes)
    BY <1>1, <1>2, <1>3, <1>4, <1>6, <1>7 DEF Becomes
  <1> HIDE DEF left, box, r
  <1> QED  BY <1>1, <1>2, <1>6, <1>9, <1>10, <1>11, <1>12, <1>13, TabsWrite

LEMMA TabsNotice ==
  ASSUME TabsInv, NEW t \in Tabs, Notice(t), "late" \notin Habits \/ ~returned'
  PROVE  TabsInv'
  <1>1. inbox[t] # <<>> /\ inbox[t] \in Seq(LockAnswers)
    BY TabFacts DEF Notice
  <1>2. Head(inbox[t]) \in LockAnswers
    BY <1>1, TailBox
  <1> QED  BY <1>2, TabsNoticeGain, TabsNoticeEnd, TabsNoticeAdopt, TabsNoticeRefuse,
              TabsNoticeWrite DEF LockAnswers

\* No tab has opened the project.
LEMMA TabsBegin ==
  ASSUME Init
  PROVE  TabsInv
  <1>1. /\ tab = [t \in Tabs |-> Away] /\ holder = None /\ waiting = <<>>
        /\ inbox = [t \in Tabs |-> <<>>] /\ mail = [t \in Tabs |-> <<>>]
        /\ scope = None /\ disk = {} /\ edits = 0 /\ asks = 0 /\ opens = 0 /\ failures = 0
    BY DEF Init
  <1>2. /\ None \notin Tabs /\ {} \in Documents /\ MaxEdits \in Nat /\ MaxAsks \in Nat
        /\ \A t \in Tabs : None # t
    BY TabsAssumption DEF Documents
  <1>3. ASSUME NEW t \in Tabs
        PROVE  /\ Away \in TabStates /\ TabSound(t, Away, <<>>, None, <<>>, {})
               /\ Away.role = "acquiring" /\ ~Away.held
    <2>1. ~Waits(t, <<>>)
      BY DEF Waits
    <2>2. \A s : s = Away => s = Away \/ s = Opened({})
      OBVIOUS
    <2> QED  BY <1>2, <2>1, <2>2, OpensOrCloses
  <1>4. \A t \in Tabs : tab[t] = Away /\ inbox[t] = <<>>
    BY <1>1
  <1>5. TabTypes
    <2>1. tab \in [Tabs -> TabStates]
      BY <1>1, <1>3
    <2>2. /\ inbox \in [Tabs -> Seq(LockAnswers)] /\ mail \in [Tabs -> Seq(Letters)]
          /\ waiting \in Seq(Tabs) /\ \A i, j \in DOMAIN waiting : waiting[i] = waiting[j] => i = j
      BY <1>1
    <2>3. /\ disk \in Documents /\ edits \in 0..MaxEdits /\ asks \in 0..MaxAsks
          /\ opens \in Nat /\ failures \in Nat
          /\ holder \in Tabs \union {None} /\ scope \in WriteScopes \union {None}
      BY <1>1, <1>2
    <2> QED  BY <2>1, <2>2, <2>3 DEF TabTypes
  <1>6. \A t \in Tabs : TabSound(t, tab[t], inbox[t], holder, waiting, disk)
    BY <1>1, <1>3, <1>4
  <1>7. OneSave
    BY <1>1, <1>4 DEF OneSave, AsksOnce
  <1>8. \A t \in Tabs : Current(t)
    BY <1>3, <1>4 DEF Current, UpToDate
  <1> QED  BY <1>5, <1>6, <1>7, <1>8 DEF TabsInv

LEMMA TabsNext ==
  ASSUME TabsInv, Next, "late" \notin Habits \/ ~returned'
  PROVE  TabsInv'
  <1>1. CASE Grant
    BY <1>1, TabsGrant
  <1>2. ASSUME NEW t \in Tabs, Runs(t)
        PROVE  TabsInv'
    <2>1. CASE Notice(t) \/ Receive(t) \/ Yield(t) \/ YieldTimeout(t) \/ ReplyTimeout(t)
      BY <2>1, TabsNotice, TabsReceive, TabsYield, TabsYieldTimeout, TabsReplyTimeout
    <2>2. CASE AdoptRead(t) \/ AdoptFails(t) \/ AdoptAsks(t) \/ AutoSave(t) \/ RoleCheck(t)
      BY <2>2, TabsAdoptRead, TabsAdoptFails, TabsAdoptAsks, TabsAutoSave, TabsRoleCheck
    <2>3. CASE Enter(t) \/ Land(t) \/ WriteFails(t) \/ Coordinate(t)
      BY <2>3, TabsEnter, TabsLand, TabsWriteFails, TabsCoordinate
    <2> QED  BY <1>2, <2>1, <2>2, <2>3 DEF Runs
  <1>3. ASSUME NEW t \in Tabs, Uses(t)
        PROVE  TabsInv'
    BY <1>3, TabsOpen, TabsClose, TabsEdit, TabsEditHere, TabsConfirm, TabsCancel DEF Uses
  <1> QED  BY <1>1, <1>2, <1>3 DEF Next

LEMMA TabsStay ==
  ASSUME TabsInv, UNCHANGED vars
  PROVE  TabsInv'
  BY DEF TabsInv, TabTypes, OneSave, Current, Alone, vars

\* A tab becomes the editor by an adoption only over edits its user agreed to lose.
Takes(r, s) ==
    r.adopting = "asking" /\ r.role # "editor" /\ s.role = "editor"
      => (r.doc \ s.doc) \subseteq r.agreed

\* Every other step leaves the role, or ends it.
LEMMA RoleStays ==
  ASSUME TabsInv, NEW t \in Tabs, NEW s,
         Becomes(t, s), s.role = tab[t].role \/ s.role # "editor"
  PROVE  \A u \in Tabs : Takes(tab[u], tab'[u])
  BY DEF TabsInv, TabTypes, Becomes, Takes

LEMMA RoleAlone ==
  ASSUME UNCHANGED tab
  PROVE  \A u \in Tabs : Takes(tab[u], tab'[u])
  BY DEF Takes

\* What the operators of the model make of a role.
LEMMA RoleAfterEvents ==
  ASSUME NEW r \in TabStates
  PROVE  /\ \A cause : Secondary(r, cause).role = "secondary"
         /\ \A cause \in {"requested", "vacated"} : Acquired(r, cause).role = r.role
         /\ \A ok : Settled(r, ok).role = r.role
         /\ \A id : Answers(r, id).role = r.role
  <1>1. \A cause : Secondary(r, cause).role = "secondary"
    BY DEF Secondary, Superseded, TabStates
  <1>2. ASSUME NEW cause \in {"requested", "vacated"}
        PROVE  Acquired(r, cause).role = r.role
    <2>1. cause # "initial"
      OBVIOUS
    <2> QED  BY <2>1 DEF Acquired, Superseded, TabStates
  <1>3. \A ok : Settled(r, ok).role = r.role
    BY DEF Settled, TabStates
  <1>4. \A id : Answers(r, id).role = r.role
    BY DEF Answers, TabStates
  <1> QED  BY <1>1, <1>2, <1>3, <1>4

\* An adoption ends in the role it found, or over what was agreed to.
LEMMA NoticeTakes ==
  ASSUME TabsInv, NEW t \in Tabs, Notice(t)
  PROVE  \A u \in Tabs : Takes(tab[u], tab'[u])
  <1> DEFINE r == tab[t]
             box == inbox[t]
             answer == Head(box)
  <1>1. /\ r \in TabStates /\ box \in Seq(LockAnswers)
        /\ TabSound(t, r, box, holder, waiting, disk)
    BY TabFacts
  <1>2. box # <<>> /\ Becomes(t, Told(r, answer))
    BY DEF Notice
  <1>3. 1 \in DOMAIN box /\ box[1] = answer /\ answer \in LockAnswers
    BY <1>1, <1>2, TailBox
  <1>4. \A u \in Tabs : u # t => tab'[u] = tab[u]
    BY DEF TabsInv, TabTypes, Notice, Becomes
  <1>5. tab'[t] = Told(r, answer)
    BY <1>2 DEF TabsInv, TabTypes, Becomes
  <1> HIDE DEF box, r
  <1>6. Takes(r, Told(r, answer))
    <2>1. CASE answer = "initial"
      <3>1. r.role = "acquiring" /\ r.adopting = "none"
        BY <1>1, <1>3, <2>1 DEF TabSound, Beginning
      <3> QED  BY <3>1 DEF Takes
    <2>2. CASE answer \in {"taken", "granted"}
      <3>1. PICK cause \in {"requested", "vacated"} : Told(r, answer) = Granted(r, cause)
        <4>1. CASE answer = "taken"
          <5>1. Told(r, answer) = Granted(r, "requested")
            BY <4>1 DEF Told
          <5> QED  BY <5>1
        <4>2. CASE answer = "granted"
          <5>1. Told(r, answer) = Granted(r, IF r.asking # 0 THEN "requested" ELSE "vacated")
            BY <4>2 DEF Told
          <5>2. (IF r.asking # 0 THEN "requested" ELSE "vacated") \in {"requested", "vacated"}
            OBVIOUS
          <5> QED  BY <5>1, <5>2
        <4> QED  BY <2>2, <4>1, <4>2
      <3> DEFINE g == [r EXCEPT !.held = TRUE, !.yielding = FALSE, !.handedOver = FALSE]
      <3>2. g \in TabStates /\ g.role = r.role
        BY <1>1, TabParts DEF TabStates
      <3>3. Granted(r, cause) = Acquired(g, cause)
        BY DEF Granted
      <3> HIDE DEF g
      <3>4. Granted(r, cause).role = r.role
        BY <3>2, <3>3, RoleAfterEvents
      <3> QED  BY <3>1, <3>4 DEF Takes
    <2>3. CASE answer = "occupied"
      BY <1>1, <2>3, RoleAfterEvents DEF Told, Takes
    <2>4. CASE answer = "ended"
      <3>1. Told(r, answer) = Ended(r)
        BY <2>4 DEF Told
      <3>2. CASE r.handedOver
        <4>1. Ended(r).role = r.role
          BY <1>1, <3>2 DEF Ended, TabStates
        <4> QED  BY <3>1, <4>1 DEF Takes
      <3>3. CASE ~r.handedOver
        <4> DEFINE s == Secondary(r, "stolen")
        <4>1. s \in TabStates /\ s.role = "secondary"
          BY <1>1, RoleAfterEvents, SecondaryType
        <4>2. Ended(r) = [s EXCEPT !.held = FALSE, !.timer = FALSE, !.yielding = FALSE,
                                   !.handedOver = FALSE]
          BY <3>3 DEF Ended
        <4> HIDE DEF s
        <4>3. Ended(r).role = "secondary"
          BY <4>1, <4>2 DEF TabStates
        <4> QED  BY <3>1, <4>3 DEF Takes
      <3> QED  BY <3>2, <3>3
    <2>5. CASE answer \in {"adopt", "leave"}
      <3>1. \A k \in 1..(1 - 1) : FALSE
        OBVIOUS
      <3>2. MayAdopt(r, answer)
        BY <1>1, <1>3, <3>1 DEF TabSound, Answered, MayAdopt
      <3>3. r.role # "acquiring" \/ r.adopting = "none"
        BY <1>1 DEF TabSound, Beginning
      <3> HIDE DEF answer
      <3>4. Adopts(r, Told(r, answer))
        BY <1>1, <2>5, <3>2, <3>3, HeardAdopt
      <3> QED  BY <3>4 DEF Adopts, Takes
    <2>6. CASE answer \in {"refuse", "write"}
      BY <1>1, <2>6, RoleAfterEvents DEF Told, Takes
    <2> QED  BY <1>3, <2>1, <2>2, <2>3, <2>4, <2>5, <2>6 DEF LockAnswers, Gains
  <1> QED  BY <1>4, <1>5, <1>6 DEF Takes, r

\* Asking the lock manager, and stealing from it, says nothing of the role.
LEMMA StealTakes ==
  ASSUME TabsInv, NEW t \in Tabs, Steal(t, tab[t])
  PROVE  \A u \in Tabs : Takes(tab[u], tab'[u])
  <1>1. tab[t] \in TabStates
    BY TabFacts
  <1>2. Becomes(t, [tab[t] EXCEPT !.asking = 0])
    BY DEF Steal
  <1>3. [tab[t] EXCEPT !.asking = 0].role = tab[t].role
    BY <1>1 DEF TabStates
  <1> QED  BY <1>2, <1>3, RoleStays

\* Every step of a tab takes the role only as agreed.
LEMMA NextTakes ==
  ASSUME TabsInv, Next
  PROVE  \A u \in Tabs : Takes(tab[u], tab'[u])
  <1>1. CASE Grant
    BY <1>1, RoleAlone DEF Grant
  <1>2. ASSUME NEW t \in Tabs, Runs(t) \/ Uses(t)
        PROVE  \A u \in Tabs : Takes(tab[u], tab'[u])
    <2> DEFINE r == tab[t]
    <2>r. r \in TabStates
      BY TabFacts
    <2>1. CASE Notice(t)
      BY <2>1, NoticeTakes
    <2>2. CASE Receive(t)
      <3> DEFINE m == Head(mail[t])
      <3>1. CASE Becomes(t, [r EXCEPT !.behind = TRUE])
        <4>1. [r EXCEPT !.behind = TRUE].role = r.role
          BY <2>r DEF TabStates
        <4> QED  BY <3>1, <4>1, RoleStays
      <3>2. CASE Becomes(t, Answers(r, m.id))
        <4>1. Answers(r, m.id).role = r.role
          BY <2>r, RoleAfterEvents
        <4> QED  BY <3>2, <4>1, RoleStays
      <3>3. CASE Steal(t, tab[t]) \/ UNCHANGED tab
        BY <3>3, StealTakes, RoleAlone
      <3> QED  BY <2>2, <3>1, <3>2, <3>3 DEF Receive
    <2>3. CASE Yield(t)
      <3> DEFINE q == Unanswered(r)
                 k == [q EXCEPT !.handedOver = TRUE, !.timer = TRUE]
      <3>1. q.role = r.role
        BY <2>r DEF TabStates, Unanswered
      <3>2. q \in TabStates
        <4>1. 0 \in Asks
          BY TabsAssumption DEF Asks
        <4> QED  BY <2>r, <4>1, TabParts DEF TabStates, Unanswered
      <3>3. k \in TabStates
        <4> HIDE DEF q
        <4> QED  BY <3>2, TabParts DEF TabStates
      <3>4. Becomes(t, q) \/ Becomes(t, Secondary(k, "handed-over"))
        BY <2>3 DEF Yield, Unanswered
      <3> HIDE DEF k, q
      <3>5. Secondary(k, "handed-over").role # "editor"
        BY <3>3, RoleAfterEvents
      <3> QED  BY <3>1, <3>4, <3>5, RoleStays
    <2>4. CASE YieldTimeout(t)
      <3>1. [r EXCEPT !.timer = FALSE].role = r.role
        BY <2>r DEF TabStates
      <3> QED  BY <2>4, <3>1, RoleStays DEF YieldTimeout
    <2>5. CASE ReplyTimeout(t)
      BY <2>5, StealTakes DEF ReplyTimeout
    <2>6. CASE AdoptRead(t)
      <3>1. [r EXCEPT !.adopting = "read", !.read = disk].role = r.role
        BY <2>r DEF TabStates
      <3> QED  BY <2>6, <3>1, RoleStays DEF AdoptRead
    <2>7. CASE AdoptFails(t)
      <3>1. [r EXCEPT !.adopting = "none", !.switching = FALSE].role = r.role
        BY <2>r DEF TabStates
      <3> QED  BY <2>7, <3>1, RoleStays DEF AdoptFails
    <2>8. CASE AdoptAsks(t)
      <3>1. [r EXCEPT !.adopting = "asking"].role = r.role
        BY <2>r DEF TabStates
      <3> QED  BY <2>8, <3>1, RoleStays DEF AdoptAsks
    <2>9. CASE AutoSave(t)
      <3>1. AutoSaved(r).role = r.role
        BY <2>r DEF TabStates, AutoSaved
      <3>2. Becomes(t, AutoSaved(r))
        BY <2>9 DEF AutoSave, AutoSaved
      <3> QED  BY <3>1, <3>2, RoleStays
    <2>10. CASE RoleCheck(t)
      <3>1. RoleChecked(r).role = r.role /\ Settled(r, FALSE).role = r.role
        BY <2>r, RoleAfterEvents DEF TabStates, RoleChecked
      <3>2. Becomes(t, RoleChecked(r)) \/ Becomes(t, Settled(r, FALSE))
        BY <2>10 DEF RoleCheck, RoleChecked
      <3> QED  BY <3>1, <3>2, RoleStays
    <2>11. CASE Enter(t)
      BY <2>11, RoleAlone DEF Enter
    <2>12. CASE Land(t) \/ WriteFails(t)
      <3> DEFINE k == Settled(r, TRUE)
                 s == [k EXCEPT !.base = scope.doc]
      <3>1. k.role = r.role /\ Settled(r, FALSE).role = r.role
        BY <2>r, RoleAfterEvents
      <3>2. s.role = r.role
        <4>1. k.role = r.role => s.role = r.role
          BY <2>r DEF Settled, TabStates
        <4> QED  BY <3>1, <4>1
      <3>3. Becomes(t, s) \/ Becomes(t, Settled(r, FALSE)) \/ UNCHANGED tab
        BY <2>12 DEF Land, WriteFails
      <3> HIDE DEF s
      <3> QED  BY <3>1, <3>2, <3>3, RoleStays, RoleAlone
    <2>13. CASE Coordinate(t)
      <3>1. [r EXCEPT !.life = "open"].role = r.role
        BY <2>r DEF TabStates
      <3> QED  BY <2>13, <3>1, RoleStays DEF Coordinate
    <2>14. CASE Open(t) \/ Close(t)
      <3>1. Away.role = "acquiring" /\ Opened(disk).role = "acquiring"
        BY DEF Away, Opened
      <3>2. Becomes(t, Away) \/ Becomes(t, Opened(disk))
        BY <2>14 DEF Open, Close, Opened
      <3> HIDE DEF r
      <3> QED  BY <3>1, <3>2, RoleStays
    <2>15. CASE Edit(t)
      <3>1. Edited(r, edits + 1).role = r.role
        BY <2>r DEF TabStates, Edited
      <3>2. Becomes(t, Edited(r, edits + 1))
        BY <2>15 DEF Edit, Edited
      <3> QED  BY <3>1, <3>2, RoleStays
    <2>16. CASE EditHere(t)
      <3>1. [r EXCEPT !.confirm = "requested"].role = r.role
        BY <2>r DEF TabStates
      <3> QED  BY <2>16, <3>1, RoleStays DEF EditHere
    <2>17. CASE Confirm(t)
      <3> DEFINE g == Agreeing(r)
                 n == asks + 1
      <3>1. g.role = r.role
        BY <2>r DEF TabStates, Agreeing
      <3>2. g \in TabStates
        <4>1. tab[t].doc \in Documents
          BY <2>r DEF TabStates
        <4> QED  BY <2>r, <4>1, TabParts DEF TabStates, Agreeing
      <3>3. /\ Acquired(g, "requested").role = r.role
            /\ [g EXCEPT !.asking = n].role = r.role
        <4> HIDE DEF g, n
        <4> QED  BY <3>1, <3>2, RoleAfterEvents DEF TabStates
      <3>4. \/ Becomes(t, Acquired(g, "requested")) \/ Becomes(t, g)
            \/ Becomes(t, [g EXCEPT !.asking = n])
        BY <2>17 DEF Confirm, Agreeing
      <3> HIDE DEF g, n
      <3> QED  BY <3>1, <3>3, <3>4, RoleStays
    <2>18. CASE Cancel(t)
      <3>1. /\ [r EXCEPT !.confirm = "none"].role = r.role /\ GivenUp(r).role = r.role
        BY <2>r DEF TabStates, GivenUp
      <3>2. Becomes(t, [r EXCEPT !.confirm = "none"]) \/ Becomes(t, GivenUp(r))
        BY <2>18 DEF Cancel, GivenUp
      <3> QED  BY <3>1, <3>2, RoleStays
    <2> QED  BY <1>2, <2>1, <2>2, <2>3, <2>4, <2>5, <2>6, <2>7, <2>8, <2>9, <2>10, <2>11,
                <2>12, <2>13, <2>14, <2>15, <2>16, <2>17, <2>18 DEF Runs, Uses
  <1> QED  BY <1>1, <1>2 DEF Next

\* Only a save that was compared with the file replaces it, and by more.
LEMMA FileGrows ==
  ASSUME TabsInv, Next
  PROVE  disk \subseteq disk'
  <1>1. ASSUME NEW t \in Tabs, Land(t)
        PROVE  disk \subseteq disk'
    <2>1. scope.expected \subseteq scope.doc
      BY <1>1 DEF TabsInv, OneSave, Land
    <2> QED  BY <1>1, <2>1 DEF Land
  <1>2. ASSUME NEW t \in Tabs, Runs(t), ~Land(t)
        PROVE  disk' = disk
    BY <1>2 DEF Runs, Notice, Receive, Yield, YieldTimeout, ReplyTimeout, AdoptRead,
       AdoptFails, AdoptAsks, AutoSave, RoleCheck, Enter, WriteFails, Coordinate
  <1>3. ASSUME NEW t \in Tabs, Uses(t)
        PROVE  disk' = disk
    BY <1>3 DEF Uses, Open, Close, Edit, EditHere, Confirm, Cancel
  <1> QED  BY <1>1, <1>2, <1>3 DEF Next, Grant
=============================================================================
