--------------------------- MODULE MCProject_proofs ---------------------------
(***************************************************************************)
(* Proofs about a project folder: one window's queue of writes, and the    *)
(* tabs that hand the editor role to each other (ProjectTabs_proofs).      *)
(***************************************************************************)
EXTENDS MCProject, ProjectTabs_proofs, TLAPS

-----------------------------------------------------------------------------
(* One window: its queue of writes and what may not be lost.               *)

Writes == [kind : {"auto", "save", "continue"} \union Window!Shared,
           doc : SUBSET Window!Items, handle : Nat \ {0},
           fresh : BOOLEAN, running : BOOLEAN]
Handles == [folder : Projects, known : SUBSET Window!Items]
Replacements == [how : {"none", "picker", "link"}, to : Projects \union {"none"},
                 step : {"none", "wait", "drain", "open"}, fresh : BOOLEAN,
                 behind : Nat]
Counts == [edits : Nat, publishes : Nat, outside : Nat, failures : Nat, opens : Nat]

WindowTypes ==
    /\ handles \in Seq(Handles) /\ handles # <<>>
    /\ mem \in SUBSET Window!Items /\ agreed \in SUBSET Window!Items
    /\ dirty \in BOOLEAN /\ armed \in BOOLEAN /\ error \in BOOLEAN
    /\ queue \in Seq(Writes)
    /\ folders \in [Projects -> SUBSET Window!Items]
    /\ asked \in {"no", "asked", "saving"}
    /\ replacing \in Replacements
    /\ used \in Counts

\* The queue is in the order of the handles, only its head runs, and what was
\* queued after the last edit is behind what was queued before it.
QueueInOrder ==
    /\ \A i \in DOMAIN queue :
         queue[i].handle <= Len(handles) /\ (queue[i].running => i = 1)
    /\ \A i, j \in DOMAIN queue : i < j =>
         /\ queue[i].handle <= queue[j].handle
         /\ queue[i].fresh => queue[j].fresh

\* A replacement that asks its user waits; while it saves first, that save is
\* in the queue, once, and of the project that is open.
AsksBeforeItActs ==
    /\ asked # "no" => replacing.step = "wait"
    /\ replacing.step = "drain" => replacing.how = "link"
    /\ replacing.step # "none" =>
         replacing.to \in Projects /\ replacing.how \in {"picker", "link"}
    /\ \A i \in DOMAIN queue : queue[i].kind = "continue" =>
         /\ asked = "saving" /\ queue[i].handle = Len(handles)
         /\ \A j \in DOMAIN queue : queue[j].kind = "continue" => i = j

OfOneProject(doc) ==
    \A p, q \in Projects : Window!Named(p) \in doc /\ Window!Named(q) \in doc => p = q

\* Whose document a write takes: a save its own project's, a publication that
\* of the project open when it starts.
OwnWrite(w) ==
    IF w.kind \in Window!Shared
    THEN (IF w.running THEN OfOneProject(w.doc) ELSE w.doc \subseteq Window!Revisions)
    ELSE \A q \in Projects : Window!Named(q) \in w.doc => q = Window!Into(w)
OwnDocuments ==
    /\ Window!ProjectsApart
    /\ \A q \in Projects : Window!Named(q) \in mem => q = Window!folder
    /\ \A i \in DOMAIN queue : OwnWrite(queue[i]) /\ queue[i].kind # "recover"

\* What is shown as saved is known to the handle, and a write that may clear
\* the mark, or a publication under way, holds what the window holds.
SavedWrite(w) ==
    Window!Here(w) /\ ~dirty =>
        /\ w.fresh
        /\ w.kind \in Window!Shared /\ w.running => mem \subseteq w.doc
SavedDocuments ==
    /\ Window!SavedMeansSaved
    /\ \A i \in DOMAIN queue : SavedWrite(queue[i])

TruthInv == WindowTypes /\ QueueInOrder /\ AsksBeforeItActs /\ OwnDocuments /\ SavedDocuments

\* What S holds T holds too, revisions and what was given up apart.
Kept(S, T) == \A e \in S : e \in Window!Revisions \/ e \in agreed \/ e \in T

\* What may still be lost of a project while it is not saved.
Unsaved(p) == IF dirty /\ p = Window!folder THEN mem ELSE {}

\* A write that holds its project's document: a save, or a publication that ran
\* while its project was open.
Writing(w) == w.kind \notin Window!Shared \/ (w.running /\ Window!Planned(w))

\* Its items are still where they may be looked for: in the window while its
\* project is open, and then in its file.
KeptSafe(w) ==
    Kept(w.doc, IF Window!Into(w) = Window!folder THEN mem ELSE folders[Window!Into(w)])

\* What it replaces, if it can, is in it or in the window, unsaved.
KeptKnown(w) ==
    w.kind \notin Window!Shared \/ Window!Unchanged(w) =>
        Kept(handles[w.handle].known, w.doc \union Unsaved(Window!Into(w)))

\* A save that clears the mark covers the window's document.
KeptFresh(w) ==
    w.kind \notin Window!Shared /\ Window!Covers(w) => Kept(mem, w.doc)

KeptSaved == ~dirty => Kept(mem, folders[Window!folder])
KeptLast == Kept(handles[Len(handles)].known, mem)
KeptAnew ==
    \A h \in DOMAIN handles :
        handles[h].folder = Window!folder /\ folders[Window!folder] = handles[h].known =>
            Kept(handles[h].known, mem)
\* A replacement that will not ask again discards nothing, or was agreed to.
Consented ==
    (replacing.step \in {"drain", "open"} /\ (replacing.fresh \/ replacing.how = "picker"))
        => ~dirty \/ Kept(mem, {})

KeptDocuments ==
    /\ \A i \in DOMAIN queue : Writing(queue[i]) =>
         KeptSafe(queue[i]) /\ KeptKnown(queue[i]) /\ KeptFresh(queue[i])
    /\ KeptSaved /\ KeptLast /\ KeptAnew /\ Consented

\* What other programs wrote, in a document.
Outer(S) == {n \in 1..MaxOutside : Window!Item("outside", n) \in S}

OuterWrite(w) ==
    Writing(w) /\ (w.kind \notin Window!Shared \/ Window!Unchanged(w)) =>
        Outer(w.doc) = Outer(handles[w.handle].known)

OuterDocuments ==
    /\ \A i \in DOMAIN queue : OuterWrite(queue[i])
    /\ Outer(mem) = Outer(handles[Len(handles)].known)
    /\ \A h \in DOMAIN handles : Outer(handles[h].known) \subseteq Outer(folders[handles[h].folder])
    /\ \A g, h \in DOMAIN handles : g < h /\ handles[g].folder = handles[h].folder =>
         Outer(handles[g].known) \subseteq Outer(handles[h].known)
    /\ \A p \in Projects : \A n \in Outer(folders[p]) : n <= used.outside

WindowInv == TruthInv /\ KeptDocuments /\ OuterDocuments

-----------------------------------------------------------------------------
(* Types.                                                                  *)

LEMMA BoundsAreNats ==
  /\ WindowEdits \in Nat /\ MaxPublishes \in Nat /\ MaxOutside \in Nat
  /\ WindowFailures \in Nat /\ MaxReplacements \in Nat /\ Projects # {}
  BY WindowAssumption

LEMMA ItemsExist ==
  /\ \A n \in 1..WindowEdits : Window!Item("edit", n) \in Window!Items
  /\ \A n \in 1..MaxOutside : Window!Item("outside", n) \in Window!Items
  /\ \A n \in 1..MaxPublishes : Window!Item("revision", n) \in Window!Revisions
  /\ Window!Revisions \subseteq Window!Items
  /\ \A p \in Projects : Window!Named(p) \in Window!Items
  BY DEF Window!Items, Window!Revisions, Window!Named

\* The kinds of items differ.
LEMMA ItemsDiffer ==
  /\ \A p \in Projects : Window!Named(p) \notin Window!Revisions
  /\ \A p, q \in Projects : Window!Named(p) = Window!Named(q) => p = q
  /\ \A p \in Projects : \A n : Window!Named(p) # Window!Item("edit", n)
  /\ \A p \in Projects : \A n : Window!Named(p) # Window!Item("outside", n)
  /\ \A m, n : Window!Item("outside", m) # Window!Item("edit", n)
  /\ \A m, n : Window!Item("outside", m) = Window!Item("outside", n) => m = n
  /\ \A m : Window!Item("outside", m) \notin Window!Revisions
  BY DEF Window!Item, Window!Revisions, Window!Named

LEMMA OutdatedQueue ==
  ASSUME queue \in Seq(Writes), queue' = Window!Outdated(queue)
  PROVE  /\ queue' \in Seq(Writes)
         /\ Len(queue') = Len(queue) /\ DOMAIN queue' = DOMAIN queue
         /\ \A i \in DOMAIN queue :
              /\ queue'[i] \in Writes /\ queue[i] \in Writes
              /\ queue'[i].kind = queue[i].kind /\ queue'[i].doc = queue[i].doc
              /\ queue'[i].handle = queue[i].handle /\ ~queue'[i].fresh
              /\ queue'[i].running = queue[i].running
<1>1. \A i \in DOMAIN queue : queue[i] \in Writes
  OBVIOUS
<1>2. \A i \in DOMAIN queue : [queue[i] EXCEPT !.fresh = FALSE] \in Writes
  BY <1>1 DEF Writes
<1>3. DOMAIN queue = 1..Len(queue) /\ Len(queue) \in Nat
  OBVIOUS
<1>4. queue' = [i \in 1..Len(queue) |-> [queue[i] EXCEPT !.fresh = FALSE]]
  BY <1>3 DEF Window!Outdated
<1>5. queue' \in Seq(Writes) /\ Len(queue') = Len(queue)
  BY <1>2, <1>3, <1>4
<1>. QED
  BY <1>1, <1>2, <1>3, <1>4, <1>5 DEF Writes

LEMMA QueuedQueue ==
  ASSUME queue \in Seq(Writes), handles \in Seq(Handles), handles # <<>>,
         NEW kind \in {"auto", "save", "continue"} \union Window!Shared,
         NEW doc \in SUBSET Window!Items,
         queue' = Window!Queued(kind, doc)
  PROVE  /\ queue' \in Seq(Writes)
         /\ Len(queue') = Len(queue) + 1 /\ DOMAIN queue' = 1..(Len(queue) + 1)
         /\ \A i \in DOMAIN queue : queue'[i] = queue[i] /\ queue[i] \in Writes
         /\ LET w == queue'[Len(queue) + 1] IN
              /\ w \in Writes /\ w.kind = kind /\ w.doc = doc
              /\ w.handle = Len(handles) /\ w.fresh /\ ~w.running
<1> DEFINE w == [kind |-> kind, doc |-> doc, handle |-> Len(handles),
                 fresh |-> TRUE, running |-> FALSE]
<1>1. w \in Writes
  BY DEF Writes
<1>2. queue' = Append(queue, w)
  BY DEF Window!Queued
<1>. QED
  BY <1>1, <1>2

LEMMA TailQueue ==
  ASSUME queue \in Seq(Writes), queue # <<>>, queue' = Tail(queue)
  PROVE  /\ queue' \in Seq(Writes) /\ Head(queue) = queue[1] /\ queue[1] \in Writes
         /\ 1 \in DOMAIN queue
         /\ Len(queue') = Len(queue) - 1 /\ DOMAIN queue' = 1..(Len(queue) - 1)
         /\ DOMAIN queue = 1..Len(queue) /\ Len(queue) \in Nat \ {0}
         /\ \A i \in DOMAIN queue' :
              queue'[i] = queue[i+1] /\ i + 1 \in DOMAIN queue /\ queue'[i] \in Writes
  OBVIOUS

LEMMA RunQueue ==
  ASSUME WindowTypes, Window!Run
  PROVE  /\ queue' \in Seq(Writes) /\ Head(queue) = queue[1] /\ queue[1] \in Writes
         /\ 1 \in DOMAIN queue /\ ~queue[1].running
         /\ Len(queue') = Len(queue) /\ DOMAIN queue' = DOMAIN queue
         /\ \A i \in DOMAIN queue : i # 1 => queue'[i] = queue[i] /\ queue[i] \in Writes
         /\ queue'[1] \in Writes /\ queue'[1].running
         /\ queue'[1].kind = queue[1].kind /\ queue'[1].handle = queue[1].handle
         /\ queue'[1].fresh = queue[1].fresh
         /\ queue'[1].doc = IF queue[1].kind \in Window!Shared
                            THEN queue[1].doc \union mem ELSE queue[1].doc
<1>1. /\ queue \in Seq(Writes) /\ queue # <<>> /\ Head(queue) = queue[1]
      /\ queue[1] \in Writes /\ 1 \in DOMAIN queue /\ ~queue[1].running
  BY DEF WindowTypes, Window!Run
<1> DEFINE doc == IF queue[1].kind \in Window!Shared THEN queue[1].doc \union mem
                                                    ELSE queue[1].doc
           w == [queue[1] EXCEPT !.running = TRUE, !.doc = doc]
<1>2. doc \in SUBSET Window!Items
  BY <1>1 DEF WindowTypes, Writes
<1>3. w \in Writes /\ w.running /\ w.kind = queue[1].kind /\ w.doc = doc
      /\ w.handle = queue[1].handle /\ w.fresh = queue[1].fresh
  BY <1>1, <1>2 DEF Writes
<1>4. queue' = [queue EXCEPT ![1] = w]
  BY <1>1 DEF Window!Run, Window!Current
<1> HIDE DEF w
<1>5. /\ queue' \in Seq(Writes) /\ Len(queue') = Len(queue) /\ DOMAIN queue' = DOMAIN queue
      /\ queue'[1] = w
      /\ \A i \in DOMAIN queue : i # 1 => queue'[i] = queue[i] /\ queue[i] \in Writes
  BY <1>1, <1>3, <1>4
<1>. QED
  BY <1>1, <1>3, <1>5

LEMMA LastHandle ==
  ASSUME WindowTypes
  PROVE  /\ Len(handles) \in Nat \ {0} /\ DOMAIN handles = 1..Len(handles)
         /\ \A h \in DOMAIN handles :
              handles[h] \in Handles /\ handles[h].folder \in Projects
              /\ handles[h].known \in SUBSET Window!Items
         /\ Window!folder = handles[Len(handles)].folder /\ Window!folder \in Projects
         /\ Window!Last(handles) = handles[Len(handles)] /\ Len(handles) \in DOMAIN handles
<1>1. handles \in Seq(Handles) /\ handles # <<>>
  BY DEF WindowTypes
<1>2. /\ Len(handles) \in Nat \ {0} /\ DOMAIN handles = 1..Len(handles)
      /\ Len(handles) \in DOMAIN handles
  BY <1>1
<1>3. \A h \in DOMAIN handles : handles[h] \in Handles
  BY <1>1
<1>4. Window!Last(handles) = handles[Len(handles)]
  BY DEF Window!Last
<1>. QED
  BY <1>2, <1>3, <1>4 DEF Handles, Window!folder

\* Land as its parts.
LEMMA LandFacts ==
  ASSUME WindowTypes, Window!Land
  PROVE  LET w == queue[1]
             covers == w.kind \notin Window!Shared /\ Window!Covers(w) IN
         /\ queue # <<>> /\ Head(queue) = w /\ w \in Writes /\ w.running
         /\ queue' = Tail(queue)
         /\ Window!Unchanged(w) /\ Window!Planned(w)
         /\ folders' = [folders EXCEPT ![Window!Into(w)] = w.doc]
         /\ handles' = [handles EXCEPT ![w.handle].known = w.doc]
         /\ mem' = Window!Afterwards(w)
         /\ dirty' = IF covers THEN FALSE ELSE dirty
         /\ armed' \in BOOLEAN /\ error' \in BOOLEAN
         /\ IF w.kind = "continue" /\ w.fresh
            THEN asked' = "no" /\ replacing' = Window!Performing(replacing, Len(queue) - 1)
            ELSE /\ asked' = IF w.kind = "continue" THEN "asked" ELSE asked
                 /\ replacing' = Window!Advanced(replacing)
         /\ UNCHANGED <<agreed, used>>
<1>1. queue \in Seq(Writes) /\ queue # <<>> /\ Head(queue) = queue[1] /\ queue[1] \in Writes
  BY DEF WindowTypes, Window!Land
<1>2. dirty \in BOOLEAN /\ armed \in BOOLEAN /\ error \in BOOLEAN
  BY DEF WindowTypes
<1>. QED
  BY <1>1, <1>2 DEF Window!Land

\* The replacement, step by step.
LEMMA ReplacementTypes ==
  ASSUME replacing \in Replacements, NEW n \in Nat, dirty \in BOOLEAN
  PROVE  /\ Window!Performing(replacing, n) \in Replacements
         /\ Window!Advanced(replacing) \in Replacements
         /\ Window!NoReplacement \in Replacements
         /\ [replacing EXCEPT !.fresh = FALSE] \in Replacements
         /\ [replacing EXCEPT !.step = "open"] \in Replacements
<1>1. Window!NoReplacement \in Replacements
  BY DEF Replacements, Window!NoReplacement
<1>2. Window!Performing(replacing, n) \in Replacements
  BY DEF Replacements, Window!Performing
<1>3. Window!Advanced(replacing) \in Replacements
  <2>1. replacing.behind \in Nat
    BY DEF Replacements
  <2> DEFINE m == IF replacing.behind > 0 THEN replacing.behind - 1 ELSE 0
  <2>2. m \in Nat
    BY <2>1
  <2>3. Window!Advanced(replacing) = [replacing EXCEPT !.behind = m]
    BY DEF Window!Advanced
  <2> HIDE DEF m
  <2>. QED
    BY <2>2, <2>3 DEF Replacements
<1>4. [replacing EXCEPT !.fresh = FALSE] \in Replacements
  BY DEF Replacements
<1>5. [replacing EXCEPT !.step = "open"] \in Replacements
  BY DEF Replacements
<1>. QED
  BY <1>1, <1>2, <1>3, <1>4, <1>5

LEMMA UseTypes ==
  ASSUME used \in Counts, NEW what, NEW bound,
         what \in {"edits", "publishes", "outside", "failures", "opens"},
         bound \in Nat, Window!Use(what, bound)
  PROVE  /\ used' \in Counts /\ used[what] \in Nat /\ used[what] + 1 \in 1..bound
         /\ used'[what] = used[what] + 1
         /\ \A other \in {"edits", "publishes", "outside", "failures", "opens"} \ {what} :
              used'[other] = used[other]
  BY DEF Counts, Window!Use

LEMMA RequestedTypes ==
  ASSUME WindowTypes, NEW how \in {"picker", "link"}, NEW to \in Projects,
         Window!Requested(how, to)
  PROVE  /\ asked' \in {"no", "asked", "saving"} /\ replacing' \in Replacements
         /\ replacing'.to = to /\ replacing'.how = how
         /\ IF dirty THEN asked' = "asked" /\ replacing'.step = "wait"
            ELSE asked' = "no" /\ replacing'.step = IF how = "link" THEN "drain" ELSE "open"
<1> DEFINE r == [Window!NoReplacement EXCEPT !.how = how, !.to = to, !.step = "wait"]
<1>1. r \in Replacements /\ r.to = to /\ r.how = how /\ r.step = "wait"
  BY DEF Window!NoReplacement, Replacements
<1>2. Len(queue) \in Nat
  BY DEF WindowTypes
<1>3. IF dirty THEN asked' = "asked" /\ replacing' = r
      ELSE asked' = "no" /\ replacing' = Window!Performing(r, Len(queue))
  BY DEF Window!Requested
<1> HIDE DEF r
<1>. QED
  BY <1>1, <1>2, <1>3 DEF Window!Performing, Replacements

LEMMA NextWindowTypes ==
  ASSUME WindowTypes, QueueInOrder, AsksBeforeItActs, Window!Next
  PROVE  WindowTypes'
<1> USE BoundsAreNats
<1>0. /\ handles \in Seq(Handles) /\ handles # <<>>
      /\ mem \in SUBSET Window!Items /\ agreed \in SUBSET Window!Items
      /\ dirty \in BOOLEAN /\ armed \in BOOLEAN /\ error \in BOOLEAN
      /\ queue \in Seq(Writes) /\ Len(queue) \in Nat
      /\ folders \in [Projects -> SUBSET Window!Items]
      /\ asked \in {"no", "asked", "saving"}
      /\ replacing \in Replacements
      /\ used \in Counts
  BY DEF WindowTypes
<1>1. CASE Window!Run
  <2>1. queue' \in Seq(Writes)
    BY <1>1, RunQueue
  <2>. QED
    BY <1>0, <1>1, <2>1 DEF WindowTypes, Window!Run
<1>2. CASE Window!AutoSave
  <2>1. queue' = Window!Queued("auto", mem)
    BY <1>2 DEF Window!AutoSave
  <2>2. queue' \in Seq(Writes)
    BY <1>0, <2>1, QueuedQueue
  <2>. QED
    BY <1>0, <1>2, <2>2 DEF WindowTypes, Window!AutoSave
<1>3. CASE Window!Land
  <2> DEFINE w == queue[1]
  <2>1. /\ queue # <<>> /\ w \in Writes /\ queue' = Tail(queue)
        /\ folders' = [folders EXCEPT ![Window!Into(w)] = w.doc]
        /\ handles' = [handles EXCEPT ![w.handle].known = w.doc]
        /\ mem' = Window!Afterwards(w)
        /\ dirty' \in BOOLEAN /\ armed' \in BOOLEAN /\ error' \in BOOLEAN
        /\ UNCHANGED <<agreed, used>>
    BY <1>0, <1>3, LandFacts
  <2>2. asked' \in {"no", "asked", "saving"}
    BY <1>0, <1>3, LandFacts
  <2>3. replacing' \in Replacements
    <3>1. Len(queue) - 1 \in Nat
      BY <1>0, <2>1
    <3>. QED
      BY <1>0, <1>3, <3>1, LandFacts, ReplacementTypes
  <2>4. queue' \in Seq(Writes)
    BY <1>0, <2>1, TailQueue
  <2>5. w.doc \in SUBSET Window!Items /\ w.handle \in DOMAIN handles
    BY <1>0, <2>1 DEF Writes, QueueInOrder
  <2>6. mem' \in SUBSET Window!Items
    BY <1>0, <2>1, <2>5 DEF Window!Afterwards
  <2>7. folders' \in [Projects -> SUBSET Window!Items]
    BY <1>0, <2>1, <2>5
  <2>8. handles' \in Seq(Handles) /\ handles' # <<>>
    <3>0. handles[w.handle] \in Handles
      BY <1>0, <2>5
    <3>1. [handles[w.handle] EXCEPT !.known = w.doc] \in Handles
      BY <2>5, <3>0 DEF Handles
    <3>2. handles' = [handles EXCEPT ![w.handle] = [handles[w.handle] EXCEPT !.known = w.doc]]
      BY <2>1
    <3>. QED
      BY <1>0, <2>5, <3>1, <3>2
  <2>. QED
    BY <1>0, <2>1, <2>2, <2>3, <2>4, <2>6, <2>7, <2>8 DEF WindowTypes
<1>4. CASE Window!Fail
  <2>1. queue # <<>> /\ queue' = Tail(queue)
    BY <1>4 DEF Window!Fail
  <2>2. queue' \in Seq(Writes)
    BY <1>0, <2>1, TailQueue
  <2>3. used' \in Counts
    BY <1>0, <1>4, UseTypes DEF Window!Fail
  <2>4. replacing' \in Replacements
    BY <1>0, <1>4, ReplacementTypes DEF Window!Fail
  <2>5. error' \in BOOLEAN /\ asked' \in {"no", "asked", "saving"}
    BY <1>0, <1>4 DEF Window!Fail, Window!Here
  <2>6. UNCHANGED <<handles, mem, dirty, armed, folders, agreed>>
    BY <1>4 DEF Window!Fail
  <2>. QED
    BY <1>0, <2>2, <2>3, <2>4, <2>5, <2>6 DEF WindowTypes
<1>5. CASE Window!Edit
  <2>1. Window!Use("edits", WindowEdits) /\ queue' = Window!Outdated(queue)
    BY <1>5 DEF Window!Edit
  <2>2. used' \in Counts /\ used.edits + 1 \in 1..WindowEdits
    BY <1>0, <2>1, UseTypes
  <2>3. queue' \in Seq(Writes)
    BY <1>0, <2>1, OutdatedQueue
  <2>4. mem' \in SUBSET Window!Items
    BY <1>0, <1>5, <2>2, ItemsExist DEF Window!Edit
  <2>5. replacing' \in Replacements
    BY <1>0, <1>5, ReplacementTypes DEF Window!Edit
  <2>. QED
    BY <1>0, <1>5, <2>2, <2>3, <2>4, <2>5 DEF WindowTypes, Window!Edit
<1>6. CASE Window!SaveProject
  <2>1. queue' = Window!Queued("save", mem)
    BY <1>6 DEF Window!SaveProject
  <2>2. queue' \in Seq(Writes)
    BY <1>0, <2>1, QueuedQueue
  <2>. QED
    BY <1>0, <1>6, <2>2 DEF WindowTypes, Window!SaveProject
<1>7. CASE Window!Outside
  <2>1. Window!Use("outside", MaxOutside)
    BY <1>7 DEF Window!Outside
  <2>2. used' \in Counts /\ used.outside + 1 \in 1..MaxOutside
    BY <1>0, <2>1, UseTypes
  <2>3. folders' \in [Projects -> SUBSET Window!Items]
    BY <1>0, <1>7, <2>2, ItemsExist DEF Window!Outside
  <2>. QED
    BY <1>0, <1>7, <2>2, <2>3 DEF WindowTypes, Window!Outside
<1>8. ASSUME NEW kind \in Window!Shared, Window!WriteShared(kind)
      PROVE  WindowTypes'
  <2> DEFINE doc == {Window!Item("revision", used.publishes + 1)}
  <2>1. Window!Use("publishes", MaxPublishes) /\ queue' = Window!Queued(kind, doc)
    BY <1>8 DEF Window!WriteShared
  <2>2. used' \in Counts /\ used.publishes + 1 \in 1..MaxPublishes
    BY <1>0, <2>1, UseTypes
  <2>3. doc \in SUBSET Window!Items
    BY <2>2, ItemsExist
  <2> HIDE DEF doc
  <2>4. queue' \in Seq(Writes)
    BY <1>0, <2>1, <2>3, QueuedQueue
  <2>. QED
    BY <1>0, <1>8, <2>2, <2>4 DEF WindowTypes, Window!WriteShared
<1>9. ASSUME NEW how \in {"picker", "link"}, NEW to \in Projects,
             Window!RequestReplacement(how, to)
      PROVE  WindowTypes'
  <2>1. Window!Use("opens", MaxReplacements) /\ Window!Requested(how, to)
    BY <1>9 DEF Window!RequestReplacement
  <2>2. used' \in Counts
    BY <1>0, <2>1, UseTypes
  <2>3. asked' \in {"no", "asked", "saving"} /\ replacing' \in Replacements
    BY <2>1, RequestedTypes
  <2>. QED
    BY <1>0, <1>9, <2>2, <2>3 DEF WindowTypes, Window!RequestReplacement
<1>10. CASE Window!CancelReplacement
  <2>1. asked' = "no" /\ replacing' \in Replacements
    BY <1>0, <1>10, ReplacementTypes DEF Window!CancelReplacement
  <2>. QED
    BY <1>0, <1>10, <2>1 DEF WindowTypes, Window!CancelReplacement
<1>11. CASE Window!DiscardAndContinue
  <2>1. asked' = "no" /\ replacing' \in Replacements /\ agreed' \in SUBSET Window!Items
    BY <1>0, <1>11, ReplacementTypes DEF Window!DiscardAndContinue
  <2>. QED
    BY <1>0, <1>11, <2>1 DEF WindowTypes, Window!DiscardAndContinue
<1>12. CASE Window!SaveAndContinue
  <2>1. queue' = Window!Queued("continue", mem) /\ asked' = "saving"
    BY <1>12 DEF Window!SaveAndContinue
  <2>2. queue' \in Seq(Writes)
    BY <1>0, <2>1, QueuedQueue
  <2>. QED
    BY <1>0, <1>12, <2>1, <2>2 DEF WindowTypes, Window!SaveAndContinue
<1>13. CASE Window!Drained
  <2>1. replacing' \in Replacements
    BY <1>0, <1>13, ReplacementTypes DEF Window!Drained
  <2>. QED
    BY <1>0, <1>13, <2>1 DEF WindowTypes, Window!Drained
<1>14. CASE Window!Apply
  <2>1. replacing.to \in Projects
    BY <1>14 DEF AsksBeforeItActs, Window!Apply
  <2>2. queue' \in Seq(Writes)
    BY <1>0, <1>14, OutdatedQueue DEF Window!Apply
  <2>3. mem' \in SUBSET Window!Items
    BY <1>0, <1>14, <2>1 DEF Window!Apply
  <2>4. replacing' \in Replacements
    BY <1>0, <1>14, ReplacementTypes DEF Window!Apply
  <2>5. handles' \in Seq(Handles) /\ handles' # <<>>
    <3>1. [folder |-> replacing.to, known |-> folders[replacing.to]] \in Handles
      BY <1>0, <2>1 DEF Handles
    <3>. QED
      BY <1>0, <1>14, <3>1 DEF Window!Apply
  <2>. QED
    BY <1>0, <1>14, <2>2, <2>3, <2>4, <2>5 DEF WindowTypes, Window!Apply
<1>15. CASE Window!AskAgain
  <2>1. Window!Requested(replacing.how, replacing.to) /\ replacing.step = "open"
        /\ replacing.to \in Projects /\ replacing.how \in {"picker", "link"}
    BY <1>15 DEF Window!AskAgain, AsksBeforeItActs
  <2>2. asked' \in {"no", "asked", "saving"} /\ replacing' \in Replacements
    BY <2>1, RequestedTypes
  <2>. QED
    BY <1>0, <1>15, <2>2 DEF WindowTypes, Window!AskAgain
<1>16. CASE Window!OpenFails
  <2>1. Window!Use("failures", WindowFailures) /\ replacing' = Window!NoReplacement
    BY <1>16 DEF Window!OpenFails
  <2>2. used' \in Counts /\ replacing' \in Replacements
    BY <1>0, <2>1, UseTypes, ReplacementTypes
  <2>. QED
    BY <1>0, <1>16, <2>2 DEF WindowTypes, Window!OpenFails
<1>. QED
  BY <1>1, <1>2, <1>3, <1>4, <1>5, <1>6, <1>7, <1>8, <1>9, <1>10, <1>11, <1>12,
     <1>13, <1>14, <1>15, <1>16 DEF Window!Next

-----------------------------------------------------------------------------
(* The order of the queue, and of the questions.                           *)

\* A write of this window is queued.
Appends == \E kind \in {"auto", "save", "continue"} \union Window!Shared,
              doc \in SUBSET Window!Items : queue' = Window!Queued(kind, doc)

LEMMA WhatAppends ==
  ASSUME WindowTypes
  PROVE  /\ Window!AutoSave => queue' = Window!Queued("auto", mem) /\ Appends
         /\ Window!SaveProject => queue' = Window!Queued("save", mem) /\ Appends
         /\ Window!SaveAndContinue => queue' = Window!Queued("continue", mem) /\ Appends
         /\ \A kind \in Window!Shared : Window!WriteShared(kind) =>
              /\ Appends
              /\ queue' = Window!Queued(kind, {Window!Item("revision", used.publishes + 1)})
              /\ {Window!Item("revision", used.publishes + 1)} \subseteq Window!Revisions
<1>1. mem \in SUBSET Window!Items /\ used \in Counts
  BY DEF WindowTypes
<1>2. ASSUME NEW kind \in Window!Shared, Window!WriteShared(kind)
      PROVE  {Window!Item("revision", used.publishes + 1)} \subseteq Window!Revisions
  <2>1. used.publishes + 1 \in 1..MaxPublishes
    BY <1>1, <1>2, UseTypes, BoundsAreNats DEF Window!WriteShared
  <2>. QED
    BY <2>1, ItemsExist
<1>3. ASSUME NEW kind \in Window!Shared, Window!WriteShared(kind)
      PROVE  /\ queue' = Window!Queued(kind, {Window!Item("revision", used.publishes + 1)})
             /\ {Window!Item("revision", used.publishes + 1)} \in SUBSET Window!Items
  BY <1>2, <1>3, ItemsExist DEF Window!WriteShared
<1>. QED
  BY <1>1, <1>2, <1>3 DEF Appends, Window!AutoSave, Window!SaveProject, Window!SaveAndContinue

LEMMA NextQueueInOrder ==
  ASSUME WindowTypes, QueueInOrder, AsksBeforeItActs, Window!Next
  PROVE  QueueInOrder'
<1>0. /\ handles \in Seq(Handles) /\ handles # <<>> /\ Len(handles) \in Nat
      /\ queue \in Seq(Writes) /\ Len(queue) \in Nat /\ DOMAIN queue = 1..Len(queue)
  BY LastHandle DEF WindowTypes
<1>1. CASE Window!Run
  <2>1. /\ DOMAIN queue' = DOMAIN queue
        /\ \A i \in DOMAIN queue : i # 1 => queue'[i] = queue[i]
        /\ queue'[1].handle = queue[1].handle /\ queue'[1].fresh = queue[1].fresh
    BY <1>1, RunQueue
  <2>2. UNCHANGED handles
    BY <1>1 DEF Window!Run
  <2>3. \A i \in DOMAIN queue : /\ queue'[i].handle = queue[i].handle
                                /\ queue'[i].fresh = queue[i].fresh
                                /\ i # 1 => queue'[i].running = queue[i].running
    BY <2>1
  <2>. QED
    BY <2>1, <2>2, <2>3 DEF QueueInOrder
<1>2. CASE Appends /\ UNCHANGED handles
  <2>1. PICK kind \in {"auto", "save", "continue"} \union Window!Shared,
             doc \in SUBSET Window!Items : queue' = Window!Queued(kind, doc)
    BY <1>2 DEF Appends
  <2> DEFINE n == Len(queue) + 1
  <2>2. /\ DOMAIN queue' = 1..n /\ \A i \in DOMAIN queue : queue'[i] = queue[i]
        /\ queue'[n].handle = Len(handles) /\ queue'[n].fresh /\ ~queue'[n].running
    BY <1>0, <2>1, QueuedQueue
  <2>3. \A i \in DOMAIN queue' : i \in DOMAIN queue \/ i = n
    BY <1>0, <2>2
  <2>4. ASSUME NEW i \in DOMAIN queue'
        PROVE  queue'[i].handle <= Len(handles) /\ (queue'[i].running => i = 1)
    BY <1>0, <2>2, <2>3 DEF QueueInOrder
  <2>5. ASSUME NEW i \in DOMAIN queue', NEW j \in DOMAIN queue', i < j
        PROVE  queue'[i].handle <= queue'[j].handle /\ (queue'[i].fresh => queue'[j].fresh)
    <3>1. i \in DOMAIN queue
      BY <1>0, <2>2, <2>5
    <3>2. CASE j = n
      BY <2>2, <2>4, <3>2
    <3>3. CASE j \in DOMAIN queue
      BY <2>2, <2>5, <3>1, <3>3 DEF QueueInOrder
    <3>. QED
      BY <2>3, <3>2, <3>3
  <2>. QED
    BY <1>2, <2>4, <2>5 DEF QueueInOrder
<1>3. CASE queue # <<>> /\ queue' = Tail(queue) /\ Len(handles') = Len(handles)
           /\ queue[1].running
  <2>1. /\ DOMAIN queue' = 1..(Len(queue) - 1)
        /\ \A i \in DOMAIN queue' : queue'[i] = queue[i+1] /\ i + 1 \in DOMAIN queue
    BY <1>0, <1>3, TailQueue
  <2>2. ASSUME NEW i \in DOMAIN queue'
        PROVE  queue'[i].handle <= Len(handles) /\ (queue'[i].running => i = 1)
    <3>1. i \in Nat \ {0} /\ i + 1 # 1
      BY <2>1
    <3>. QED
      BY <2>1, <3>1 DEF QueueInOrder
  <2>3. ASSUME NEW i \in DOMAIN queue', NEW j \in DOMAIN queue', i < j
        PROVE  queue'[i].handle <= queue'[j].handle /\ (queue'[i].fresh => queue'[j].fresh)
    <3>1. i + 1 < j + 1 /\ i + 1 \in DOMAIN queue /\ j + 1 \in DOMAIN queue
      BY <1>0, <2>1, <2>3
    <3>. QED
      BY <2>1, <3>1 DEF QueueInOrder
  <2>. QED
    BY <1>3, <2>2, <2>3 DEF QueueInOrder
<1>4. CASE queue' = Window!Outdated(queue) /\ Len(handles') \in Nat
           /\ Len(handles) <= Len(handles')
  <2>1. /\ DOMAIN queue' = DOMAIN queue
        /\ \A i \in DOMAIN queue : /\ queue'[i].handle = queue[i].handle /\ ~queue'[i].fresh
                                   /\ queue'[i].running = queue[i].running
                                   /\ queue[i].handle \in Nat
    BY <1>0, <1>4, OutdatedQueue DEF Writes
  <2>2. ASSUME NEW i \in DOMAIN queue'
        PROVE  queue'[i].handle <= Len(handles') /\ (queue'[i].running => i = 1)
    BY <1>0, <1>4, <2>1 DEF QueueInOrder
  <2>3. ASSUME NEW i \in DOMAIN queue', NEW j \in DOMAIN queue', i < j
        PROVE  queue'[i].handle <= queue'[j].handle /\ (queue'[i].fresh => queue'[j].fresh)
    BY <2>1, <2>3 DEF QueueInOrder
  <2>. QED
    BY <2>2, <2>3 DEF QueueInOrder
<1>5. CASE UNCHANGED <<queue, handles>>
  BY <1>5 DEF QueueInOrder
<1>6. CASE Window!Land
  <2>1. /\ queue # <<>> /\ queue' = Tail(queue) /\ queue[1].running
        /\ handles' = [handles EXCEPT ![queue[1].handle].known = queue[1].doc]
    BY <1>6, LandFacts
  <2>2. Len(handles') = Len(handles)
    BY <1>0, <2>1
  <2>. QED
    BY <1>3, <2>1, <2>2
<1>7. CASE Window!Fail
  BY <1>0, <1>3, <1>7, TailQueue DEF Window!Fail
<1>8. CASE Window!Edit
  BY <1>0, <1>4, <1>8 DEF Window!Edit
<1>9. CASE Window!Apply
  <2>1. /\ queue' = Window!Outdated(queue)
        /\ handles' = Append(handles, [folder |-> replacing.to,
                                       known |-> folders[replacing.to]])
    BY <1>9 DEF Window!Apply
  <2>2. Len(handles') = Len(handles) + 1
    BY <1>0, <2>1
  <2>. QED
    BY <1>0, <1>4, <2>1, <2>2
<1>10. CASE Window!AutoSave \/ Window!SaveProject \/ Window!SaveAndContinue
            \/ \E kind \in Window!Shared : Window!WriteShared(kind)
  <2>1. Appends
    BY <1>10, WhatAppends
  <2>2. UNCHANGED handles
    BY <1>10 DEF Window!AutoSave, Window!SaveProject, Window!SaveAndContinue, Window!WriteShared
  <2>. QED
    BY <1>2, <2>1, <2>2
<1>11. CASE \/ Window!Outside \/ Window!CancelReplacement \/ Window!DiscardAndContinue
            \/ Window!Drained \/ Window!AskAgain \/ Window!OpenFails
            \/ \E how \in {"picker", "link"}, to \in Projects :
                 Window!RequestReplacement(how, to)
  BY <1>5, <1>11 DEF Window!Outside, Window!CancelReplacement, Window!DiscardAndContinue,
     Window!Drained, Window!AskAgain, Window!OpenFails, Window!RequestReplacement
<1>. QED
  BY <1>1, <1>6, <1>7, <1>8, <1>9, <1>10, <1>11 DEF Window!Next

LEMMA NextAsksBeforeItActs ==
  ASSUME WindowTypes, QueueInOrder, AsksBeforeItActs, Window!Next
  PROVE  AsksBeforeItActs'
<1>0. /\ handles \in Seq(Handles) /\ handles # <<>> /\ Len(handles) \in Nat
      /\ queue \in Seq(Writes) /\ Len(queue) \in Nat /\ DOMAIN queue = 1..Len(queue)
      /\ replacing \in Replacements /\ asked \in {"no", "asked", "saving"}
      /\ dirty \in BOOLEAN
  BY LastHandle DEF WindowTypes
\* What the replacement is after a write is over.
<1>a. /\ Window!Advanced(replacing).step = replacing.step
      /\ Window!Advanced(replacing).how = replacing.how
      /\ Window!Advanced(replacing).to = replacing.to
  BY <1>0 DEF Window!Advanced, Replacements
<1>b. \A n \in Nat :
        /\ Window!Performing(replacing, n).step = IF replacing.how = "link" THEN "drain" ELSE "open"
        /\ Window!Performing(replacing, n).how = replacing.how
        /\ Window!Performing(replacing, n).to = replacing.to
  BY <1>0 DEF Window!Performing, Replacements
<1>c. /\ Window!NoReplacement.step = "none" /\ Window!NoReplacement.how = "none"
  BY DEF Window!NoReplacement
\* Appending a write that is not a "continue" adds no question.
<1>d. ASSUME NEW kind \in {"auto", "save"} \union Window!Shared,
             NEW doc \in SUBSET Window!Items,
             queue' = Window!Queued(kind, doc), UNCHANGED <<handles, asked, replacing>>
      PROVE  AsksBeforeItActs'
  <2>1. /\ \A i \in DOMAIN queue : queue'[i] = queue[i]
        /\ DOMAIN queue' = 1..(Len(queue) + 1)
        /\ queue'[Len(queue) + 1].kind = kind
    BY <1>0, <1>d, QueuedQueue
  <2>2. kind # "continue"
    BY DEF Window!Shared
  <2>3. \A i \in DOMAIN queue' : queue'[i].kind = "continue" => i \in DOMAIN queue
    BY <1>0, <2>1, <2>2
  <2>. QED
    BY <1>d, <2>1, <2>3 DEF AsksBeforeItActs
<1>1. CASE Window!Run
  <2>1. /\ DOMAIN queue' = DOMAIN queue
        /\ \A i \in DOMAIN queue : i # 1 => queue'[i] = queue[i]
        /\ queue'[1].handle = queue[1].handle /\ queue'[1].kind = queue[1].kind
    BY <1>1, RunQueue
  <2>2. \A i \in DOMAIN queue :
          queue'[i].handle = queue[i].handle /\ queue'[i].kind = queue[i].kind
    BY <2>1
  <2>3. UNCHANGED <<handles, asked, replacing>>
    BY <1>1 DEF Window!Run
  <2>. QED
    BY <2>1, <2>2, <2>3 DEF AsksBeforeItActs
<1>2. CASE Window!AutoSave
  BY <1>0, <1>d, <1>2, WhatAppends DEF Window!AutoSave, WindowTypes
<1>3. CASE Window!SaveProject
  BY <1>0, <1>d, <1>3, WhatAppends DEF Window!SaveProject, WindowTypes
<1>4. ASSUME NEW kind \in Window!Shared, Window!WriteShared(kind)
      PROVE  AsksBeforeItActs'
  <2>1. /\ queue' = Window!Queued(kind, {Window!Item("revision", used.publishes + 1)})
        /\ {Window!Item("revision", used.publishes + 1)} \in SUBSET Window!Items
    BY <1>4, WhatAppends, ItemsExist
  <2>2. UNCHANGED <<handles, asked, replacing>>
    BY <1>4 DEF Window!WriteShared
  <2>. QED
    BY <1>d, <2>1, <2>2
<1>5. CASE Window!SaveAndContinue
  <2>0. asked = "asked" /\ asked' = "saving" /\ UNCHANGED <<handles, replacing>>
        /\ queue' = Window!Queued("continue", mem)
    BY <1>5 DEF Window!SaveAndContinue
  <2>1. /\ \A i \in DOMAIN queue : queue'[i] = queue[i]
        /\ DOMAIN queue' = 1..(Len(queue) + 1)
        /\ queue'[Len(queue) + 1].kind = "continue"
        /\ queue'[Len(queue) + 1].handle = Len(handles)
    BY <1>0, <2>0, QueuedQueue DEF WindowTypes
  <2>2. \A i \in DOMAIN queue : queue[i].kind # "continue"
    BY <2>0 DEF AsksBeforeItActs
  <2>3. \A i \in DOMAIN queue' : queue'[i].kind = "continue" => i = Len(queue) + 1
    BY <1>0, <2>1, <2>2
  <2>4. replacing.step = "wait"
    BY <2>0 DEF AsksBeforeItActs
  <2>. QED
    BY <2>0, <2>1, <2>3, <2>4 DEF AsksBeforeItActs
<1>6. ASSUME queue # <<>>, queue' = Tail(queue), Len(handles') = Len(handles),
             IF queue[1].kind = "continue" /\ asked' # "asked"
             THEN asked' = "no"
             ELSE asked' = IF queue[1].kind = "continue" THEN "asked" ELSE asked,
             IF asked' = "no" /\ queue[1].kind = "continue"
             THEN \E n \in Nat : replacing' = Window!Performing(replacing, n)
             ELSE replacing' = Window!Advanced(replacing)
      PROVE  AsksBeforeItActs'
  <2>1. /\ DOMAIN queue' = 1..(Len(queue) - 1)
        /\ \A i \in DOMAIN queue' : queue'[i] = queue[i+1] /\ i + 1 \in DOMAIN queue
        /\ 1 \in DOMAIN queue
    BY <1>0, <1>6, TailQueue
  <2>2. \A i, j \in DOMAIN queue' : i + 1 = j + 1 => i = j
    BY <1>0, <2>1
  <2>3. \A i \in DOMAIN queue' : i + 1 # 1
    BY <1>0, <2>1
  <2>4. CASE queue[1].kind = "continue"
    <3>1. \A i \in DOMAIN queue' : queue'[i].kind # "continue"
      BY <2>1, <2>3, <2>4 DEF AsksBeforeItActs
    <3>2. asked = "saving" /\ replacing.step = "wait"
      BY <2>1, <2>4 DEF AsksBeforeItActs
    <3>3. replacing.to \in Projects /\ replacing.how \in {"picker", "link"}
      BY <3>2 DEF AsksBeforeItActs
    <3>4. CASE asked' = "no"
      <4>1. PICK n \in Nat : replacing' = Window!Performing(replacing, n)
        BY <1>6, <2>4, <3>4
      <4>2. /\ replacing'.step = IF replacing.how = "link" THEN "drain" ELSE "open"
            /\ replacing'.how = replacing.how /\ replacing'.to = replacing.to
        BY <1>b, <4>1
      <4>. QED
        BY <3>1, <3>3, <3>4, <4>2 DEF AsksBeforeItActs
    <3>5. CASE asked' = "asked"
      <4>1. replacing'.step = "wait" /\ replacing'.how = replacing.how
            /\ replacing'.to = replacing.to
        BY <1>6, <1>a, <3>2, <3>5
      <4>. QED
        BY <3>1, <3>3, <3>5, <4>1 DEF AsksBeforeItActs
    <3>. QED
      BY <1>6, <2>4, <3>4, <3>5
  <2>5. CASE queue[1].kind # "continue"
    <3>1. asked' = asked /\ replacing' = Window!Advanced(replacing)
      BY <1>6, <2>5
    <3>2. replacing'.step = replacing.step /\ replacing'.how = replacing.how
          /\ replacing'.to = replacing.to
      BY <1>a, <3>1
    <3>. QED
      BY <1>6, <2>1, <2>2, <3>1, <3>2 DEF AsksBeforeItActs
  <2>. QED
    BY <2>4, <2>5
<1>7. CASE Window!Land
  <2>1. /\ queue # <<>> /\ queue' = Tail(queue)
        /\ handles' = [handles EXCEPT ![queue[1].handle].known = queue[1].doc]
        /\ IF queue[1].kind = "continue" /\ queue[1].fresh
           THEN asked' = "no" /\ replacing' = Window!Performing(replacing, Len(queue) - 1)
           ELSE /\ asked' = IF queue[1].kind = "continue" THEN "asked" ELSE asked
                /\ replacing' = Window!Advanced(replacing)
    BY <1>7, LandFacts
  <2>2. Len(handles') = Len(handles) /\ Len(queue) - 1 \in Nat
    BY <1>0, <2>1
  <2>. QED
    BY <1>6, <2>1, <2>2
<1>8. CASE Window!Fail
  <2>1. /\ queue # <<>> /\ queue' = Tail(queue) /\ UNCHANGED handles
        /\ asked' = IF queue[1].kind = "continue" THEN "asked" ELSE asked
        /\ replacing' = Window!Advanced(replacing)
    BY <1>0, <1>8, TailQueue DEF Window!Fail
  <2>. QED
    BY <1>6, <2>1
<1>9. CASE Window!Edit
  <2>1. /\ queue' = Window!Outdated(queue) /\ UNCHANGED <<handles, asked>>
        /\ replacing' = [replacing EXCEPT !.fresh = FALSE]
    BY <1>9 DEF Window!Edit
  <2>2. /\ DOMAIN queue' = DOMAIN queue
        /\ \A i \in DOMAIN queue : queue'[i].handle = queue[i].handle
                                   /\ queue'[i].kind = queue[i].kind
    BY <1>0, <2>1, OutdatedQueue
  <2>3. replacing'.step = replacing.step /\ replacing'.how = replacing.how
        /\ replacing'.to = replacing.to
    BY <1>0, <2>1 DEF Replacements
  <2>. QED
    BY <2>1, <2>2, <2>3 DEF AsksBeforeItActs
<1>10. CASE Window!Apply
  <2>1. /\ queue' = Window!Outdated(queue) /\ UNCHANGED asked
        /\ replacing.step = "open" /\ replacing' = Window!NoReplacement
    BY <1>10 DEF Window!Apply
  <2>2. asked = "no" /\ \A i \in DOMAIN queue : queue[i].kind # "continue"
    BY <2>1 DEF AsksBeforeItActs
  <2>3. /\ DOMAIN queue' = DOMAIN queue
        /\ \A i \in DOMAIN queue : queue'[i].kind = queue[i].kind
    BY <1>0, <2>1, OutdatedQueue
  <2>. QED
    BY <1>c, <2>1, <2>2, <2>3 DEF AsksBeforeItActs
<1>11. ASSUME NEW how \in {"picker", "link"}, NEW to \in Projects,
              asked = "no", Window!Requested(how, to), UNCHANGED <<queue, handles>>
       PROVE  AsksBeforeItActs'
  <2>1. /\ replacing'.to = to /\ replacing'.how = how
        /\ IF dirty THEN asked' = "asked" /\ replacing'.step = "wait"
           ELSE asked' = "no" /\ replacing'.step = IF how = "link" THEN "drain" ELSE "open"
    BY <1>11, RequestedTypes
  <2>2. \A i \in DOMAIN queue : queue[i].kind # "continue"
    BY <1>11 DEF AsksBeforeItActs
  <2>. QED
    BY <1>11, <2>1, <2>2 DEF AsksBeforeItActs
<1>12. CASE Window!AskAgain
  <2>1. Window!Requested(replacing.how, replacing.to) /\ replacing.step = "open"
        /\ UNCHANGED <<queue, handles>>
    BY <1>12 DEF Window!AskAgain
  <2>2. asked = "no" /\ replacing.to \in Projects /\ replacing.how \in {"picker", "link"}
    BY <2>1 DEF AsksBeforeItActs
  <2>. QED
    BY <1>11, <2>1, <2>2
<1>13. CASE \E how \in {"picker", "link"}, to \in Projects : Window!RequestReplacement(how, to)
  BY <1>11, <1>13 DEF Window!RequestReplacement
<1>14. CASE Window!CancelReplacement
  <2>1. asked = "asked" /\ asked' = "no" /\ replacing' = Window!NoReplacement
        /\ UNCHANGED <<queue, handles>>
    BY <1>14 DEF Window!CancelReplacement
  <2>2. \A i \in DOMAIN queue : queue[i].kind # "continue"
    BY <2>1 DEF AsksBeforeItActs
  <2>. QED
    BY <1>c, <2>1, <2>2 DEF AsksBeforeItActs
<1>15. CASE Window!DiscardAndContinue
  <2>1. asked = "asked" /\ asked' = "no" /\ UNCHANGED <<queue, handles>>
        /\ replacing' = Window!Performing(replacing, Len(queue))
    BY <1>15 DEF Window!DiscardAndContinue
  <2>2. \A i \in DOMAIN queue : queue[i].kind # "continue"
    BY <2>1 DEF AsksBeforeItActs
  <2>3. replacing.step = "wait" /\ replacing.to \in Projects
        /\ replacing.how \in {"picker", "link"}
    BY <2>1 DEF AsksBeforeItActs
  <2>4. /\ replacing'.step = IF replacing.how = "link" THEN "drain" ELSE "open"
        /\ replacing'.how = replacing.how /\ replacing'.to = replacing.to
    BY <1>0, <1>b, <2>1
  <2>. QED
    BY <2>1, <2>2, <2>3, <2>4 DEF AsksBeforeItActs
<1>16. CASE Window!Drained
  <2>1. replacing.step = "drain" /\ replacing' = [replacing EXCEPT !.step = "open"]
        /\ UNCHANGED <<queue, handles, asked>>
    BY <1>16 DEF Window!Drained
  <2>2. replacing'.step = "open" /\ replacing'.how = replacing.how
        /\ replacing'.to = replacing.to
    BY <1>0, <2>1 DEF Replacements
  <2>3. asked = "no"
    BY <2>1 DEF AsksBeforeItActs
  <2>. QED
    BY <2>1, <2>2, <2>3 DEF AsksBeforeItActs
<1>17. CASE Window!OpenFails
  <2>1. replacing.step = "open" /\ replacing' = Window!NoReplacement
        /\ UNCHANGED <<queue, handles, asked>>
    BY <1>17 DEF Window!OpenFails
  <2>2. asked = "no"
    BY <2>1 DEF AsksBeforeItActs
  <2>. QED
    BY <1>c, <2>1, <2>2 DEF AsksBeforeItActs
<1>18. CASE Window!Outside
  BY <1>18 DEF Window!Outside, AsksBeforeItActs
<1>. QED
  BY <1>1, <1>2, <1>3, <1>4, <1>5, <1>7, <1>8, <1>9, <1>10, <1>12, <1>13, <1>14,
     <1>15, <1>16, <1>17, <1>18 DEF Window!Next

-----------------------------------------------------------------------------
(* Whose documents there are.                                              *)

\* A landing write gives its handle new contents and leaves the folders alone.
LEMMA LandHandles ==
  ASSUME WindowTypes, QueueInOrder, Window!Land
  PROVE  LET w == queue[1] IN
         /\ Len(handles') = Len(handles) /\ DOMAIN handles' = DOMAIN handles
         /\ w.handle \in DOMAIN handles /\ 1 \in DOMAIN queue
         /\ \A h \in DOMAIN handles : handles'[h].folder = handles[h].folder
         /\ \A h \in DOMAIN handles : h # w.handle => handles'[h] = handles[h]
         /\ handles'[w.handle].known = w.doc
         /\ Window!folder' = Window!folder
         /\ Window!Into(w) \in Projects
         /\ \A p \in Projects : folders'[p] = IF p = Window!Into(w) THEN w.doc ELSE folders[p]
<1> DEFINE w == queue[1]
<1>1. /\ queue # <<>> /\ w \in Writes
      /\ folders' = [folders EXCEPT ![Window!Into(w)] = w.doc]
      /\ handles' = [handles EXCEPT ![w.handle].known = w.doc]
  BY LandFacts
<1>2. 1 \in DOMAIN queue /\ queue \in Seq(Writes) /\ handles \in Seq(Handles)
      /\ folders \in [Projects -> SUBSET Window!Items]
  BY <1>1, TailQueue DEF WindowTypes
<1>3. w.handle \in DOMAIN handles
  BY <1>1, <1>2, LastHandle DEF QueueInOrder, Writes
<1>4. \A h \in DOMAIN handles : handles[h] \in Handles
  BY LastHandle
<1> DEFINE g == [handles[w.handle] EXCEPT !.known = w.doc]
<1>5. g.folder = handles[w.handle].folder /\ g.known = w.doc
  BY <1>3, <1>4 DEF Handles
<1>6. handles' = [handles EXCEPT ![w.handle] = g]
  BY <1>1
<1> HIDE DEF g, w
<1>7. /\ Len(handles') = Len(handles) /\ DOMAIN handles' = DOMAIN handles
      /\ \A h \in DOMAIN handles : h # w.handle => handles'[h] = handles[h]
      /\ handles'[w.handle] = g
  BY <1>2, <1>3, <1>6
<1>8. \A h \in DOMAIN handles : handles'[h].folder = handles[h].folder
  BY <1>5, <1>7
<1>9. Window!folder' = Window!folder
  <2>1. Window!folder = handles[Len(handles)].folder /\ Len(handles) \in DOMAIN handles
    BY LastHandle
  <2>2. Window!folder' = handles'[Len(handles')].folder
    BY DEF Window!folder, Window!Last
  <2>. QED
    BY <1>7, <1>8, <2>1, <2>2
<1>10. Window!Into(w) \in Projects
  BY <1>3, LastHandle DEF Window!Into
<1>11. \A p \in Projects : folders'[p] = IF p = Window!Into(w) THEN w.doc ELSE folders[p]
  BY <1>1, <1>2, <1>10
<1>. QED
  BY <1>2, <1>3, <1>5, <1>7, <1>8, <1>9, <1>10, <1>11 DEF w

LEMMA ApplyHandles ==
  ASSUME WindowTypes, AsksBeforeItActs, Window!Apply
  PROVE  LET n == Len(handles) + 1 IN
         /\ Len(handles') = n /\ DOMAIN handles' = 1..n /\ replacing.to \in Projects
         /\ \A h \in DOMAIN handles : handles'[h] = handles[h] /\ h < n /\ h \in DOMAIN handles'
         /\ handles'[n].folder = replacing.to
         /\ handles'[n].known = folders[replacing.to]
         /\ Window!folder' = replacing.to
         /\ mem' = folders[replacing.to]
<1>1. /\ handles \in Seq(Handles) /\ DOMAIN handles = 1..Len(handles) /\ Len(handles) \in Nat
      /\ folders \in [Projects -> SUBSET Window!Items]
  BY LastHandle DEF WindowTypes
<1>2. /\ replacing.step = "open" /\ mem' = folders[replacing.to]
      /\ handles' = Append(handles, [folder |-> replacing.to,
                                     known |-> folders[replacing.to]])
  BY DEF Window!Apply
<1>3. replacing.to \in Projects
  BY <1>2 DEF AsksBeforeItActs
<1> DEFINE new == [folder |-> replacing.to, known |-> folders[replacing.to]]
<1>4. new \in Handles
  BY <1>1, <1>3 DEF Handles
<1>5. new.folder = replacing.to /\ new.known = folders[replacing.to]
  OBVIOUS
<1>6. handles' = Append(handles, new)
  BY <1>2
<1> HIDE DEF new
<1>7. /\ Len(handles') = Len(handles) + 1 /\ DOMAIN handles' = 1..(Len(handles) + 1)
      /\ \A h \in DOMAIN handles : handles'[h] = handles[h]
      /\ handles'[Len(handles) + 1] = new
  BY <1>1, <1>4, <1>6
<1>8. Window!folder' = handles'[Len(handles')].folder
  BY DEF Window!folder, Window!Last
<1>. QED
  BY <1>1, <1>2, <1>3, <1>5, <1>7, <1>8

\* A publication needs its own project's document, so no write goes astray.
LEMMA LandsAtHome ==
  ASSUME WindowTypes, QueueInOrder, OwnDocuments, Window!Land
  PROVE  \A q \in Projects : Window!Named(q) \in queue[1].doc => q = Window!Into(queue[1])
<1> DEFINE w == queue[1]
<1>1. w \in Writes /\ w.running /\ Window!Planned(w)
  BY LandFacts
<1>2. 1 \in DOMAIN queue /\ Window!Into(w) \in Projects
  BY LandHandles
<1>3. OwnWrite(w) /\ w.kind # "recover"
  BY <1>2 DEF OwnDocuments
<1>. QED
  BY <1>1, <1>2, <1>3 DEF OwnWrite, OfOneProject, Window!Planned, Window!Shared

LEMMA NextOwnDocuments ==
  ASSUME WindowTypes, QueueInOrder, AsksBeforeItActs, OwnDocuments, Window!Next,
         "recover" \notin WindowHabits
  PROVE  OwnDocuments'
<1>0. /\ handles \in Seq(Handles) /\ handles # <<>> /\ Len(handles) \in DOMAIN handles
      /\ queue \in Seq(Writes) /\ Len(queue) \in Nat /\ DOMAIN queue = 1..Len(queue)
      /\ Window!folder = handles[Len(handles)].folder /\ Window!folder \in Projects
      /\ folders \in [Projects -> SUBSET Window!Items]
  BY LastHandle DEF WindowTypes
<1>a. \A i \in DOMAIN queue : queue[i].handle \in DOMAIN handles
  <2>1. \A i \in DOMAIN queue : queue[i] \in Writes
    BY <1>0
  <2>2. DOMAIN handles = 1..Len(handles) /\ Len(handles) \in Nat
    BY LastHandle
  <2>. QED
    BY <2>1, <2>2 DEF QueueInOrder, Writes
\* A write that changes at most by growing old keeps its document.
<1>b. ASSUME NEW i, NEW j \in DOMAIN queue, queue'[i].kind = queue[j].kind,
             queue'[i].doc = queue[j].doc, queue'[i].running = queue[j].running,
             queue'[i].handle = queue[j].handle,
             handles'[queue[j].handle].folder = handles[queue[j].handle].folder
      PROVE  OwnWrite(queue[i])' /\ queue'[i].kind # "recover"
  <2>1. OwnWrite(queue[j]) /\ queue[j].kind # "recover"
    BY DEF OwnDocuments
  <2>. QED
    BY <1>b, <2>1 DEF OwnWrite, OfOneProject, Window!Into
<1>1. CASE Window!Run
  <2>1. /\ DOMAIN queue' = DOMAIN queue /\ 1 \in DOMAIN queue
        /\ \A i \in DOMAIN queue : i # 1 => queue'[i] = queue[i]
        /\ queue'[1].running /\ ~queue[1].running
        /\ queue'[1].kind = queue[1].kind /\ queue'[1].handle = queue[1].handle
        /\ queue'[1].doc = IF queue[1].kind \in Window!Shared
                           THEN queue[1].doc \union mem ELSE queue[1].doc
    BY <1>1, RunQueue
  <2>2. UNCHANGED <<handles, mem, folders>>
    BY <1>1 DEF Window!Run
  <2>3. OwnWrite(queue[1]) /\ queue[1].kind # "recover"
    BY <2>1 DEF OwnDocuments
  <2>4. OwnWrite(queue[1])' /\ queue'[1].kind # "recover"
    <3>1. CASE queue[1].kind \in Window!Shared
      <4>1. queue[1].doc \subseteq Window!Revisions
        BY <2>1, <2>3, <3>1 DEF OwnWrite
      <4>2. \A q \in Projects : Window!Named(q) \in queue'[1].doc => q = Window!folder
        BY <2>1, <3>1, <4>1, ItemsDiffer DEF OwnDocuments
      <4>. QED
        BY <2>1, <2>3, <3>1, <4>2 DEF OwnWrite, OfOneProject
    <3>2. CASE queue[1].kind \notin Window!Shared
      BY <2>1, <2>2, <2>3, <3>2 DEF OwnWrite, Window!Into
    <3>. QED
      BY <3>1, <3>2
  <2>5. \A i \in DOMAIN queue : i # 1 => OwnWrite(queue[i])' /\ queue'[i].kind # "recover"
    BY <1>b, <2>1, <2>2 DEF OwnDocuments
  <2>6. Window!folder' = Window!folder
    BY <2>2 DEF Window!folder
  <2>. QED
    BY <2>1, <2>2, <2>4, <2>5, <2>6 DEF OwnDocuments, Window!ProjectsApart
<1>2. ASSUME NEW kind \in {"auto", "save", "continue"} \union Window!Shared,
             NEW doc \in SUBSET Window!Items, queue' = Window!Queued(kind, doc),
             kind # "recover", UNCHANGED <<handles, mem, folders>>,
             IF kind \in Window!Shared THEN doc \subseteq Window!Revisions ELSE doc = mem
      PROVE  OwnDocuments'
  <2>1. /\ \A i \in DOMAIN queue : queue'[i] = queue[i]
        /\ DOMAIN queue' = 1..(Len(queue) + 1)
        /\ queue'[Len(queue) + 1].kind = kind /\ queue'[Len(queue) + 1].doc = doc
        /\ queue'[Len(queue) + 1].handle = Len(handles)
        /\ ~queue'[Len(queue) + 1].running
    BY <1>0, <1>2, QueuedQueue
  <2>2. \A i \in DOMAIN queue : OwnWrite(queue[i])' /\ queue'[i].kind # "recover"
    BY <1>b, <1>2, <2>1 DEF OwnDocuments
  <2>3. (\A i \in {Len(queue) + 1} : OwnWrite(queue[i])')
    BY <1>0, <1>2, <2>1 DEF OwnWrite, OwnDocuments, Window!Into
  <2>4. \A i \in DOMAIN queue' : i \in DOMAIN queue \/ i = Len(queue) + 1
    BY <1>0, <2>1
  <2>5. Window!folder' = Window!folder
    BY <1>2 DEF Window!folder
  <2>. QED
    BY <1>2, <2>1, <2>2, <2>3, <2>4, <2>5 DEF OwnDocuments, Window!ProjectsApart
<1>3. CASE Window!AutoSave
  BY <1>2, <1>3, WhatAppends DEF Window!AutoSave, Window!Shared, WindowTypes
<1>4. CASE Window!SaveProject
  BY <1>2, <1>4, WhatAppends DEF Window!SaveProject, Window!Shared, WindowTypes
<1>5. CASE Window!SaveAndContinue
  BY <1>2, <1>5, WhatAppends DEF Window!SaveAndContinue, Window!Shared, WindowTypes
<1>6. ASSUME NEW kind \in Window!Shared, Window!WriteShared(kind)
      PROVE  OwnDocuments'
  <2> DEFINE doc == {Window!Item("revision", used.publishes + 1)}
  <2>1. queue' = Window!Queued(kind, doc) /\ doc \subseteq Window!Revisions
        /\ doc \in SUBSET Window!Items
    BY <1>6, WhatAppends, ItemsExist
  <2>2. kind # "recover" /\ UNCHANGED <<handles, mem, folders>>
    BY <1>6 DEF Window!WriteShared
  <2> HIDE DEF doc
  <2>. QED
    BY <1>2, <2>1, <2>2
<1>7. CASE Window!Land
  <2> DEFINE w == queue[1]
  <2>1. /\ queue # <<>> /\ queue' = Tail(queue) /\ mem' = Window!Afterwards(w) /\ w \in Writes
    BY <1>7, LandFacts
  <2>2. /\ Len(handles') = Len(handles) /\ 1 \in DOMAIN queue
        /\ \A h \in DOMAIN handles : handles'[h].folder = handles[h].folder
        /\ Window!folder' = Window!folder /\ Window!Into(w) \in Projects
        /\ \A p \in Projects : folders'[p] = IF p = Window!Into(w) THEN w.doc ELSE folders[p]
    BY <1>7, LandHandles
  <2>3. \A q \in Projects : Window!Named(q) \in w.doc => q = Window!Into(w)
    BY <1>7, LandsAtHome
  <2>4. Window!ProjectsApart'
    BY <2>2, <2>3 DEF Window!ProjectsApart, OwnDocuments
  <2>5. \A q \in Projects : Window!Named(q) \in mem' => q = Window!folder
    <3>1. CASE w.kind \notin Window!Shared /\ Window!Covers(w)
      BY <1>0, <2>1, <2>3, <3>1 DEF Window!Afterwards, Window!Covers, Window!Here, Window!Into
    <3>2. CASE ~(w.kind \notin Window!Shared /\ Window!Covers(w))
      <4>1. mem' \subseteq mem \union Window!Revisions
        BY <2>1, <3>2 DEF Window!Afterwards
      <4>. QED
        BY <4>1, ItemsDiffer DEF OwnDocuments
    <3>. QED
      BY <3>1, <3>2
  <2>6. \A i \in DOMAIN queue' : queue'[i] = queue[i+1] /\ i + 1 \in DOMAIN queue
    BY <1>0, <2>1, TailQueue
  <2>7. \A i \in DOMAIN queue' : OwnWrite(queue[i])' /\ queue'[i].kind # "recover"
    BY <1>a, <1>b, <2>2, <2>6 DEF OwnDocuments
  <2>. QED
    BY <2>2, <2>4, <2>5, <2>7 DEF OwnDocuments
<1>8. CASE Window!Fail
  <2>1. queue # <<>> /\ queue' = Tail(queue) /\ UNCHANGED <<handles, mem, folders>>
    BY <1>8 DEF Window!Fail
  <2>2. \A i \in DOMAIN queue' : queue'[i] = queue[i+1] /\ i + 1 \in DOMAIN queue
    BY <1>0, <2>1, TailQueue
  <2>3. \A i \in DOMAIN queue' : OwnWrite(queue[i])' /\ queue'[i].kind # "recover"
    BY <1>b, <2>1, <2>2 DEF OwnDocuments
  <2>4. Window!folder' = Window!folder
    BY <2>1 DEF Window!folder
  <2>. QED
    BY <2>1, <2>3, <2>4 DEF OwnDocuments, Window!ProjectsApart
<1>9. CASE Window!Edit
  <2>1. /\ queue' = Window!Outdated(queue) /\ UNCHANGED <<handles, folders>>
        /\ mem' = mem \union {Window!Item("edit", used.edits + 1)}
    BY <1>9 DEF Window!Edit
  <2>2. /\ DOMAIN queue' = DOMAIN queue
        /\ \A i \in DOMAIN queue :
             /\ queue'[i].handle = queue[i].handle /\ queue'[i].kind = queue[i].kind
             /\ queue'[i].doc = queue[i].doc /\ queue'[i].running = queue[i].running
    BY <1>0, <2>1, OutdatedQueue
  <2>3. \A i \in DOMAIN queue' : OwnWrite(queue[i])' /\ queue'[i].kind # "recover"
    BY <1>b, <2>1, <2>2 DEF OwnDocuments
  <2>4. Window!folder' = Window!folder
    BY <2>1 DEF Window!folder
  <2>. QED
    BY <2>1, <2>3, <2>4, ItemsDiffer DEF OwnDocuments, Window!ProjectsApart
<1>10. CASE Window!Apply
  <2>1. queue' = Window!Outdated(queue) /\ UNCHANGED folders
    BY <1>10 DEF Window!Apply
  <2>2. /\ DOMAIN queue' = DOMAIN queue
        /\ \A i \in DOMAIN queue :
             /\ queue'[i].handle = queue[i].handle /\ queue'[i].kind = queue[i].kind
             /\ queue'[i].doc = queue[i].doc /\ queue'[i].running = queue[i].running
    BY <1>0, <2>1, OutdatedQueue
  <2>3. /\ \A h \in DOMAIN handles : handles'[h] = handles[h]
        /\ Window!folder' = replacing.to /\ mem' = folders[replacing.to]
        /\ replacing.to \in Projects
    BY <1>10, ApplyHandles
  <2>4. \A i \in DOMAIN queue' : OwnWrite(queue[i])' /\ queue'[i].kind # "recover"
    BY <1>a, <1>b, <2>2, <2>3 DEF OwnDocuments
  <2>. QED
    BY <2>1, <2>3, <2>4 DEF OwnDocuments, Window!ProjectsApart
<1>11. CASE Window!Outside
  <2>1. /\ UNCHANGED <<handles, mem, queue>>
        /\ folders' = [folders EXCEPT ![Window!folder] =
                         @ \union {Window!Item("outside", used.outside + 1)}]
    BY <1>11 DEF Window!Outside
  <2>2. Window!ProjectsApart'
    BY <1>0, <2>1, ItemsDiffer DEF OwnDocuments, Window!ProjectsApart
  <2>3. \A i \in DOMAIN queue' : OwnWrite(queue[i])' /\ queue'[i].kind # "recover"
    BY <1>b, <2>1 DEF OwnDocuments
  <2>4. Window!folder' = Window!folder
    BY <2>1 DEF Window!folder
  <2>. QED
    BY <2>1, <2>2, <2>3, <2>4 DEF OwnDocuments
<1>12. CASE UNCHANGED <<handles, mem, queue, folders>>
  <2>1. Window!folder' = Window!folder
    BY <1>12 DEF Window!folder
  <2>2. \A i \in DOMAIN queue' : OwnWrite(queue[i])' /\ queue'[i].kind # "recover"
    BY <1>b, <1>12 DEF OwnDocuments
  <2>. QED
    BY <1>12, <2>1, <2>2 DEF OwnDocuments, Window!ProjectsApart
<1>13. CASE \/ Window!CancelReplacement \/ Window!DiscardAndContinue
            \/ Window!Drained \/ Window!AskAgain \/ Window!OpenFails
            \/ \E how \in {"picker", "link"}, to \in Projects :
                 Window!RequestReplacement(how, to)
  BY <1>12, <1>13 DEF Window!CancelReplacement, Window!DiscardAndContinue,
     Window!Drained, Window!AskAgain, Window!OpenFails, Window!RequestReplacement
<1>. QED
  BY <1>1, <1>3, <1>4, <1>5, <1>6, <1>7, <1>8, <1>9, <1>10, <1>11, <1>13 DEF Window!Next

-----------------------------------------------------------------------------
(* What is shown as saved.                                                 *)

LEMMA NextSavedDocuments ==
  ASSUME WindowTypes, QueueInOrder, AsksBeforeItActs, SavedDocuments, Window!Next
  PROVE  SavedDocuments'
<1>0. /\ handles \in Seq(Handles) /\ handles # <<>> /\ Len(handles) \in DOMAIN handles
      /\ queue \in Seq(Writes) /\ Len(queue) \in Nat /\ DOMAIN queue = 1..Len(queue)
      /\ dirty \in BOOLEAN /\ Len(handles) \in Nat
      /\ Window!Last(handles) = handles[Len(handles)]
      /\ Window!Last(handles)' = handles'[Len(handles')]
  BY LastHandle DEF WindowTypes, Window!Last
<1>1. CASE Window!Run
  <2>1. /\ DOMAIN queue' = DOMAIN queue /\ 1 \in DOMAIN queue
        /\ \A i \in DOMAIN queue : i # 1 => queue'[i] = queue[i]
        /\ queue'[1].handle = queue[1].handle /\ queue'[1].fresh = queue[1].fresh
        /\ queue'[1].kind = queue[1].kind
        /\ queue'[1].doc = IF queue[1].kind \in Window!Shared
                           THEN queue[1].doc \union mem ELSE queue[1].doc
    BY <1>1, RunQueue
  <2>2. UNCHANGED <<handles, mem, dirty>>
    BY <1>1 DEF Window!Run
  <2>3. \A i \in DOMAIN queue : SavedWrite(queue[i])
    BY DEF SavedDocuments
  <2>4. \A i \in {1} : SavedWrite(queue[i])'
    BY <2>1, <2>2, <2>3 DEF SavedWrite, Window!Here
  <2>5. \A i \in DOMAIN queue : i # 1 => SavedWrite(queue[i])'
    BY <2>1, <2>2, <2>3 DEF SavedWrite, Window!Here
  <2>6. Window!SavedMeansSaved'
    BY <1>0, <2>2 DEF SavedDocuments, Window!SavedMeansSaved
  <2>. QED
    BY <2>1, <2>4, <2>5, <2>6 DEF SavedDocuments
<1>2. CASE Appends /\ UNCHANGED <<handles, mem, dirty>>
  <2>1. PICK kind \in {"auto", "save", "continue"} \union Window!Shared,
             doc \in SUBSET Window!Items : queue' = Window!Queued(kind, doc)
    BY <1>2 DEF Appends
  <2> DEFINE n == Len(queue) + 1
  <2>2. /\ DOMAIN queue' = 1..n /\ \A i \in DOMAIN queue : queue'[i] = queue[i]
        /\ queue'[n].fresh /\ ~queue'[n].running
    BY <1>0, <2>1, QueuedQueue
  <2>3. \A i \in DOMAIN queue' : i \in DOMAIN queue \/ i = n
    BY <1>0, <2>2
  <2>4. \A i \in DOMAIN queue : SavedWrite(queue[i])'
    BY <1>2, <2>2 DEF SavedDocuments, SavedWrite, Window!Here
  <2>5. \A i \in {n} : SavedWrite(queue[i])'
    BY <2>2 DEF SavedWrite
  <2>6. Window!SavedMeansSaved'
    BY <1>0, <1>2 DEF SavedDocuments, Window!SavedMeansSaved
  <2>. QED
    BY <2>3, <2>4, <2>5, <2>6 DEF SavedDocuments
<1>3. CASE Window!AutoSave \/ Window!SaveProject \/ Window!SaveAndContinue
            \/ \E kind \in Window!Shared : Window!WriteShared(kind)
  <2>1. Appends
    BY <1>3, WhatAppends
  <2>2. UNCHANGED <<handles, mem, dirty>>
    BY <1>3 DEF Window!AutoSave, Window!SaveProject, Window!SaveAndContinue, Window!WriteShared
  <2>. QED
    BY <1>2, <2>1, <2>2
<1>4. CASE Window!Land
  <2> DEFINE w == queue[1]
             covers == w.kind \notin Window!Shared /\ Window!Covers(w)
  <2>1. /\ queue # <<>> /\ queue' = Tail(queue) /\ mem' = Window!Afterwards(w)
        /\ w \in Writes /\ w.running /\ dirty' = IF covers THEN FALSE ELSE dirty
    BY <1>4, LandFacts
  <2>2. /\ Len(handles') = Len(handles) /\ 1 \in DOMAIN queue
        /\ \A h \in DOMAIN handles : h # w.handle => handles'[h] = handles[h]
        /\ handles'[w.handle].known = w.doc
    BY <1>4, LandHandles
  <2>3. /\ \A i \in DOMAIN queue' :
             queue'[i] = queue[i+1] /\ i + 1 \in DOMAIN queue /\ 1 < i + 1 /\ i + 1 # 1
    BY <1>0, <2>1, TailQueue
  <2>4. \A i \in DOMAIN queue' : ~queue'[i].running
    BY <2>3 DEF QueueInOrder
  <2>5. SavedWrite(w)
    BY <2>2 DEF SavedDocuments
  <2>6. CASE covers
    <3>1. w.fresh /\ w.handle = Len(handles) /\ mem' = w.doc
      BY <2>1, <2>6 DEF Window!Covers, Window!Here, Window!Afterwards
    <3>2. Window!SavedMeansSaved'
      BY <1>0, <2>2, <3>1 DEF Window!SavedMeansSaved
    <3>3. \A i \in DOMAIN queue' : queue'[i].fresh
      BY <2>2, <2>3, <3>1 DEF QueueInOrder
    <3>4. \A i \in DOMAIN queue' : SavedWrite(queue[i])'
      BY <2>4, <3>3 DEF SavedWrite
    <3>. QED
      BY <3>2, <3>4 DEF SavedDocuments
  <2>7. CASE ~covers
    <3>0. dirty' = dirty
      BY <2>1, <2>7
    <3>1. \A i \in DOMAIN queue' : SavedWrite(queue[i])'
      <4>1. ASSUME NEW i \in DOMAIN queue'
            PROVE  SavedWrite(queue[i])'
        <5>1. SavedWrite(queue[i+1])
          BY <2>3 DEF SavedDocuments
        <5>. QED
          BY <2>2, <2>3, <2>4, <3>0, <5>1 DEF SavedWrite, Window!Here
      <4>. QED
        BY <4>1
    <3>2. ASSUME ~dirty
          PROVE  mem' \subseteq handles'[Len(handles)].known
      <4>1. mem \subseteq handles[Len(handles)].known
        BY <1>0, <3>2 DEF SavedDocuments, Window!SavedMeansSaved
      <4>2. CASE w.handle = Len(handles)
        <5>1. w.kind \in Window!Shared /\ mem \subseteq w.doc
          BY <2>1, <2>5, <2>7, <3>2, <4>2 DEF SavedWrite, Window!Here, Window!Covers
        <5>2. mem' = mem \union (w.doc \intersect Window!Revisions)
          BY <2>1, <4>2, <5>1 DEF Window!Afterwards, Window!Here
        <5>. QED
          BY <2>2, <4>2, <5>1, <5>2
      <4>3. CASE w.handle # Len(handles)
        <5>1. mem' = mem
          BY <2>1, <4>3 DEF Window!Afterwards, Window!Here, Window!Covers
        <5>. QED
          BY <1>0, <2>2, <4>1, <4>3, <5>1
      <4>. QED
        BY <4>2, <4>3
    <3>3. Window!SavedMeansSaved'
      BY <1>0, <2>2, <3>0, <3>2 DEF Window!SavedMeansSaved
    <3>. QED
      BY <3>1, <3>3 DEF SavedDocuments
  <2>. QED
    BY <2>6, <2>7
<1>5. CASE Window!Fail
  <2>1. queue # <<>> /\ queue' = Tail(queue) /\ UNCHANGED <<handles, mem, dirty>>
    BY <1>5 DEF Window!Fail
  <2>2. \A i \in DOMAIN queue' : queue'[i] = queue[i+1] /\ i + 1 \in DOMAIN queue
    BY <1>0, <2>1, TailQueue
  <2>3. \A i \in DOMAIN queue' : SavedWrite(queue[i])'
    BY <2>1, <2>2 DEF SavedDocuments, SavedWrite, Window!Here
  <2>4. Window!SavedMeansSaved'
    BY <1>0, <2>1 DEF SavedDocuments, Window!SavedMeansSaved
  <2>. QED
    BY <2>3, <2>4 DEF SavedDocuments
<1>6. CASE Window!Edit
  BY <1>6 DEF Window!Edit, SavedDocuments, SavedWrite, Window!SavedMeansSaved
<1>7. CASE Window!Apply
  <2>1. queue' = Window!Outdated(queue)
    BY <1>7 DEF Window!Apply
  <2>2. /\ DOMAIN queue' = DOMAIN queue
        /\ \A i \in DOMAIN queue : queue'[i].handle = queue[i].handle
                                   /\ queue[i].handle \in Nat
    BY <1>0, <2>1, OutdatedQueue DEF Writes
  <2>3. /\ Len(handles') = Len(handles) + 1
        /\ handles'[Len(handles) + 1].known = folders[replacing.to]
        /\ mem' = folders[replacing.to]
    BY <1>7, ApplyHandles
  <2>4. \A i \in DOMAIN queue' : queue'[i].handle # Len(handles')
    BY <1>0, <2>2, <2>3 DEF QueueInOrder
  <2>5. \A i \in DOMAIN queue' : SavedWrite(queue[i])'
    BY <2>4 DEF SavedWrite, Window!Here
  <2>6. Window!SavedMeansSaved'
    BY <1>0, <2>3 DEF Window!SavedMeansSaved
  <2>. QED
    BY <2>5, <2>6 DEF SavedDocuments
<1>8. CASE UNCHANGED <<handles, mem, queue, dirty>>
  <2>1. \A i \in DOMAIN queue' : SavedWrite(queue[i])'
    BY <1>8 DEF SavedDocuments, SavedWrite, Window!Here
  <2>2. Window!SavedMeansSaved'
    BY <1>0, <1>8 DEF SavedDocuments, Window!SavedMeansSaved
  <2>. QED
    BY <2>1, <2>2 DEF SavedDocuments
<1>9. CASE \/ Window!CancelReplacement \/ Window!DiscardAndContinue \/ Window!Outside
           \/ Window!Drained \/ Window!AskAgain \/ Window!OpenFails
           \/ \E how \in {"picker", "link"}, to \in Projects :
                Window!RequestReplacement(how, to)
  BY <1>8, <1>9 DEF Window!CancelReplacement, Window!DiscardAndContinue, Window!Outside,
     Window!Drained, Window!AskAgain, Window!OpenFails, Window!RequestReplacement
<1>. QED
  BY <1>1, <1>3, <1>4, <1>5, <1>6, <1>7, <1>9 DEF Window!Next

-----------------------------------------------------------------------------
(* The window tells the truth.                                             *)

LEMMA InitTruth == ASSUME Window!Init PROVE TruthInv
<1> DEFINE p == CHOOSE p \in Projects : TRUE
<1>1. p \in Projects
  BY BoundsAreNats
<1>2. /\ handles = <<[folder |-> p, known |-> {Window!Named(p)}]>>
      /\ mem = {Window!Named(p)}
      /\ dirty = FALSE /\ armed = FALSE /\ queue = <<>> /\ error = FALSE
      /\ folders = [q \in Projects |-> {Window!Named(q)}]
      /\ asked = "no" /\ replacing = Window!NoReplacement /\ agreed = {}
      /\ used = [edits |-> 0, publishes |-> 0, outside |-> 0, failures |-> 0, opens |-> 0]
  BY DEF Window!Init
<1> HIDE DEF p
<1>3. [folder |-> p, known |-> {Window!Named(p)}] \in Handles
  BY <1>1, ItemsExist DEF Handles
<1>4. WindowTypes
  <2>1. handles \in Seq(Handles) /\ handles # <<>>
    BY <1>2, <1>3
  <2>2. replacing \in Replacements /\ used \in Counts
    BY <1>2 DEF Replacements, Window!NoReplacement, Counts
  <2>3. folders \in [Projects -> SUBSET Window!Items]
    BY <1>2, ItemsExist
  <2>4. mem \in SUBSET Window!Items /\ agreed \in SUBSET Window!Items
    BY <1>1, <1>2, ItemsExist
  <2>5. queue \in Seq(Writes)
    BY <1>2
  <2>6. /\ dirty \in BOOLEAN /\ armed \in BOOLEAN /\ error \in BOOLEAN
        /\ asked \in {"no", "asked", "saving"}
    BY <1>2
  <2>. QED
    BY <2>1, <2>2, <2>3, <2>4, <2>5, <2>6 DEF WindowTypes
<1>5. QueueInOrder /\ AsksBeforeItActs
  BY <1>2 DEF QueueInOrder, AsksBeforeItActs, Window!NoReplacement
<1>6. Len(handles) = 1 /\ handles[1].folder = p /\ handles[1].known = {Window!Named(p)}
  BY <1>2
<1>7. Window!folder = p /\ Window!Last(handles) = handles[1]
  BY <1>4, <1>6, LastHandle
<1>8. OwnDocuments
  BY <1>1, <1>2, <1>7, ItemsDiffer DEF OwnDocuments, Window!ProjectsApart
<1>9. SavedDocuments
  BY <1>2, <1>6, <1>7 DEF SavedDocuments, Window!SavedMeansSaved
<1>. QED
  BY <1>4, <1>5, <1>8, <1>9 DEF TruthInv

LEMMA NextTruth ==
  ASSUME TruthInv, Window!Next, "recover" \notin WindowHabits
  PROVE  TruthInv'
  BY NextWindowTypes, NextQueueInOrder, NextAsksBeforeItActs, NextOwnDocuments,
     NextSavedDocuments DEF TruthInv

LEMMA TruthImplies ==
  ASSUME TruthInv
  PROVE  WindowTellsTheTruth
<1>1. WindowTypes
  BY DEF TruthInv
<1>2. /\ \A h \in Window!Range(handles) :
           h.folder \in Projects /\ h.known \subseteq Window!Items
      /\ \A i \in DOMAIN queue : queue[i].kind \in {"auto", "save", "continue"} \union Window!Shared
  <2>1. \A h \in Window!Range(handles) : \E i \in DOMAIN handles : h = handles[i]
    BY DEF Window!Range
  <2>2. \A i \in DOMAIN queue : queue[i] \in Writes
    BY <1>1 DEF WindowTypes
  <2>. QED
    BY <1>1, <2>1, <2>2, LastHandle DEF Writes
<1>3. replacing.step \in {"none", "wait", "drain", "open"}
  BY <1>1 DEF WindowTypes, Replacements
<1>4. Window!WorkspaceTypeOK
  BY <1>1, <1>2, <1>3 DEF WindowTypes, Window!WorkspaceTypeOK
<1>. QED
  BY <1>4 DEF TruthInv, SavedDocuments, OwnDocuments, WindowTellsTheTruth

\* What is true of a window before and after nothing happens to it.
LEMMA StutterTruth ==
  ASSUME TruthInv, UNCHANGED windowVars
  PROVE  TruthInv'
<1>1. WindowTypes' /\ QueueInOrder' /\ AsksBeforeItActs'
  BY DEF TruthInv, WindowTypes, QueueInOrder, AsksBeforeItActs, windowVars
<1>2. Window!folder' = Window!folder /\ Window!Last(handles)' = Window!Last(handles)
  BY DEF Window!folder, Window!Last, windowVars
<1>3. OwnDocuments'
  BY <1>2 DEF TruthInv, OwnDocuments, OwnWrite, OfOneProject, Window!ProjectsApart,
     Window!Into, windowVars
<1>4. SavedDocuments'
  BY <1>2 DEF TruthInv, SavedDocuments, SavedWrite, Window!SavedMeansSaved, Window!Here,
     windowVars
<1>. QED
  BY <1>1, <1>3, <1>4 DEF TruthInv

\* A project shown as saved is saved, and no folder ever receives another
\* project's document, whatever the number of folders, edits, publications and
\* replacements, as long as no lost draft is saved as a new prompt: such a save
\* takes the document of whichever project is open when it runs.
THEOREM WindowTruth ==
  ASSUME "recover" \notin WindowHabits
  PROVE  ProjectSpec => []WindowTellsTheTruth
<1>1. ProjectInit => TruthInv
  BY InitTruth DEF ProjectInit
<1>2. TruthInv /\ [ProjectNext]_<<place, vars, windowVars, recordVars>> => TruthInv'
  <2> SUFFICES ASSUME TruthInv, [ProjectNext]_<<place, vars, windowVars, recordVars>>
               PROVE  TruthInv'
    OBVIOUS
  <2>1. CASE Window!Next
    BY <2>1, NextTruth
  <2>2. CASE UNCHANGED windowVars
    BY <2>2, StutterTruth
  <2>. QED
    BY <2>1, <2>2 DEF ProjectNext
<1>. QED
  BY <1>1, <1>2, TruthImplies, PTL DEF ProjectSpec

-----------------------------------------------------------------------------
(* No edit is lost.                                                        *)

\* Where everything is while a write lands.
LEMMA LandKept ==
  ASSUME WindowTypes, QueueInOrder, AsksBeforeItActs, OwnDocuments, SavedDocuments,
         KeptDocuments, Window!Land
  PROVE  LET w == queue[1]
             p == Window!Into(w) IN
         /\ w.kind # "recover" /\ Writing(w)
         /\ handles[w.handle].known = folders[p]
         /\ agreed' = agreed
         /\ Kept(w.doc, IF p = Window!folder THEN mem ELSE folders[p])
         /\ Kept(folders[p], w.doc \union Unsaved(p))
         /\ Kept(mem', mem) /\ Kept(mem, mem')
<1> DEFINE w == queue[1]
           p == Window!Into(w)
<1>1. /\ w \in Writes /\ w.running /\ Window!Planned(w) /\ Window!Unchanged(w)
      /\ mem' = Window!Afterwards(w) /\ agreed' = agreed
  BY LandFacts
<1>2. 1 \in DOMAIN queue
  BY LandHandles
<1>3. w.kind # "recover" /\ Writing(w)
  BY <1>1, <1>2 DEF OwnDocuments, Writing
<1>4. KeptSafe(w) /\ KeptKnown(w) /\ KeptFresh(w)
  BY <1>2, <1>3 DEF KeptDocuments
<1>5. handles[w.handle].known = folders[p]
  BY <1>1 DEF Window!Unchanged
<1>6. Kept(w.doc, IF p = Window!folder THEN mem ELSE folders[p])
  BY <1>4 DEF KeptSafe
<1>7. Kept(folders[p], w.doc \union Unsaved(p))
  BY <1>1, <1>4, <1>5 DEF KeptKnown
<1>8. Kept(mem', mem) /\ Kept(mem, mem')
  <2>1. CASE w.kind \notin Window!Shared /\ Window!Covers(w)
    <3>1. mem' = w.doc /\ p = Window!folder
      BY <1>1, <2>1, LastHandle DEF Window!Afterwards, Window!Covers, Window!Here, Window!Into
    <3>. QED
      BY <1>4, <1>6, <2>1, <3>1 DEF KeptFresh
  <2>2. CASE ~(w.kind \notin Window!Shared /\ Window!Covers(w))
    <3>1. mem \subseteq mem' /\ mem' \subseteq mem \union Window!Revisions
      BY <1>1, <2>2 DEF Window!Afterwards
    <3>. QED
      BY <3>1 DEF Kept
  <2>. QED
    BY <2>1, <2>2
<1>. QED
  BY <1>1, <1>3, <1>5, <1>6, <1>7, <1>8

LEMMA LandKeepsDocuments ==
  ASSUME WindowTypes, QueueInOrder, AsksBeforeItActs, OwnDocuments, SavedDocuments,
         KeptDocuments, Window!Land
  PROVE  KeptDocuments'
<1> DEFINE w == queue[1]
           p == Window!Into(w)
           covers == w.kind \notin Window!Shared /\ Window!Covers(w)
<1>0. /\ queue \in Seq(Writes) /\ queue # <<>> /\ queue' = Tail(queue)
      /\ w \in Writes /\ w.running /\ mem' = Window!Afterwards(w)
      /\ dirty' = IF covers THEN FALSE ELSE dirty
      /\ dirty \in BOOLEAN
  BY LandFacts DEF WindowTypes
<1>1. /\ Len(handles') = Len(handles) /\ DOMAIN handles' = DOMAIN handles
      /\ w.handle \in DOMAIN handles /\ 1 \in DOMAIN queue
      /\ \A h \in DOMAIN handles : handles'[h].folder = handles[h].folder
      /\ \A h \in DOMAIN handles : h # w.handle => handles'[h] = handles[h]
      /\ handles'[w.handle].known = w.doc
      /\ Window!folder' = Window!folder
      /\ p \in Projects
      /\ \A q \in Projects : folders'[q] = IF q = p THEN w.doc ELSE folders[q]
  BY LandHandles
<1>2. /\ handles[w.handle].known = folders[p]
      /\ agreed' = agreed
      /\ Kept(w.doc, IF p = Window!folder THEN mem ELSE folders[p])
      /\ Kept(folders[p], w.doc \union Unsaved(p))
      /\ Kept(mem', mem) /\ Kept(mem, mem')
  BY LandKept
<1>3. /\ Len(handles) \in DOMAIN handles /\ Window!folder = handles[Len(handles)].folder
      /\ Window!folder \in Projects /\ p = handles[w.handle].folder
  BY LastHandle DEF Window!Into
<1>4. KeptSaved /\ KeptLast /\ KeptAnew /\ Consented
  BY DEF KeptDocuments
<1>5. covers => w.handle = Len(handles) /\ w.fresh /\ mem' = w.doc /\ p = Window!folder
  BY <1>0, <1>3 DEF Window!Covers, Window!Here, Window!Afterwards
<1>6. p = Window!folder => Kept(w.doc, mem')
  BY <1>2 DEF Kept
<1>7. p # Window!folder => Kept(w.doc, folders[p]) /\ Kept(folders[p], w.doc)
  BY <1>2 DEF Kept, Unsaved
<1> HIDE DEF covers, p
<1>8. ASSUME NEW i \in DOMAIN queue', Writing(queue[i])'
      PROVE  KeptSafe(queue[i])' /\ KeptKnown(queue[i])' /\ KeptFresh(queue[i])'
  <2> DEFINE u == queue[i + 1]
             q == Window!Into(u)
  <2>1. queue'[i] = u /\ i + 1 \in DOMAIN queue /\ 1 < i + 1 /\ i + 1 # 1
    BY <1>0, TailQueue
  <2>2. /\ ~u.running /\ w.handle <= u.handle /\ (w.fresh => u.fresh)
        /\ u.handle <= Len(handles) /\ u \in Writes
    BY <1>0, <1>1, <2>1 DEF QueueInOrder
  <2>3. u.handle \in DOMAIN handles /\ q \in Projects /\ q = handles[u.handle].folder
    BY <2>2, LastHandle DEF Writes, Window!Into
  <2>4. u.kind \notin Window!Shared
    BY <1>8, <2>1, <2>2 DEF Writing
  <2>5. KeptSafe(u) /\ KeptKnown(u) /\ KeptFresh(u)
    BY <2>1, <2>4 DEF KeptDocuments, Writing
  <2>6. Window!Into(queue[i])' = q
    BY <1>1, <2>1, <2>3 DEF Window!Into
  <2> HIDE DEF u, q
  <2>7. Kept(u.doc, IF q = Window!folder THEN mem ELSE folders[q])
    BY <2>5 DEF KeptSafe, q
  <2>8. Kept(handles[u.handle].known, u.doc \union Unsaved(q))
    BY <2>4, <2>5 DEF KeptKnown, q
  <2>9. KeptSafe(queue[i])'
    <3>1. CASE q = Window!folder
      <4>1. \A e \in u.doc : e \in Window!Revisions \/ e \in agreed \/ e \in mem'
        BY <1>2, <2>7, <3>1 DEF Kept
      <4>. QED
        BY <1>1, <1>2, <2>1, <2>6, <3>1, <4>1 DEF KeptSafe, Kept
    <3>2. CASE q # Window!folder
      <4>1. \A e \in u.doc : e \in Window!Revisions \/ e \in agreed \/ e \in folders'[q]
        <5>1. CASE q = p
          BY <1>1, <1>7, <2>3, <2>7, <3>2, <5>1 DEF Kept
        <5>2. CASE q # p
          BY <1>1, <2>3, <2>7, <3>2, <5>2 DEF Kept
        <5>. QED
          BY <5>1, <5>2
      <4>. QED
        BY <1>1, <1>2, <2>1, <2>6, <3>2, <4>1 DEF KeptSafe, Kept
    <3>. QED
      BY <3>1, <3>2
  <2>10. \A e \in handles'[u.handle].known :
            \/ e \in Window!Revisions \/ e \in agreed \/ e \in u.doc
            \/ dirty' /\ q = Window!folder /\ e \in mem'
    <3>1. CASE u.handle # w.handle
      <4>1. ~covers
        <5>1. Len(handles) \in Nat /\ u.handle \in Nat
          BY <2>2, LastHandle DEF Writes
        <5>. QED
          BY <1>5, <2>2, <3>1, <5>1
      <4>2. dirty' = dirty /\ handles'[u.handle] = handles[u.handle]
        BY <1>0, <1>1, <2>3, <3>1, <4>1
      <4>. QED
        BY <1>2, <2>8, <4>2 DEF Kept, Unsaved
    <3>2. CASE u.handle = w.handle
      <4>1. handles'[u.handle].known = w.doc /\ q = p /\ handles[u.handle].known = folders[p]
        BY <1>1, <1>2, <1>3, <2>3, <3>2
      <4>2. CASE covers
        <5>1. Kept(mem, u.doc)
          <6>1. Window!Covers(u)
            BY <1>5, <2>2, <3>2, <4>2 DEF Window!Covers, Window!Here
          <6>. QED
            BY <2>4, <2>5, <6>1 DEF KeptFresh
        <5>2. Kept(w.doc, mem)
          BY <1>2, <1>5, <4>2
        <5>. QED
          BY <4>1, <5>1, <5>2 DEF Kept
      <4>3. CASE ~covers /\ p = Window!folder /\ dirty
        <5>1. dirty'
          BY <1>0, <4>3
        <5>. QED
          BY <1>6, <4>1, <4>3, <5>1 DEF Kept
      <4>4. CASE p = Window!folder /\ ~dirty
        <5>1. Kept(mem, folders[p]) /\ Kept(w.doc, mem)
          BY <1>2, <1>4, <4>4 DEF KeptSaved
        <5>2. Kept(folders[p], u.doc)
          BY <2>8, <4>1, <4>4 DEF Kept, Unsaved
        <5>. QED
          BY <4>1, <5>1, <5>2 DEF Kept
      <4>5. CASE p # Window!folder
        <5>1. Kept(folders[p], u.doc)
          BY <2>8, <4>1, <4>5 DEF Kept, Unsaved
        <5>. QED
          BY <1>7, <4>1, <4>5, <5>1 DEF Kept
      <4>. QED
        BY <4>2, <4>3, <4>4, <4>5
    <3>. QED
      BY <3>1, <3>2
  <2>11. KeptKnown(queue[i])'
    <3>1. \A e \in handles'[u.handle].known :
             e \in Window!Revisions \/ e \in agreed' \/ e \in u.doc
             \/ e \in (IF dirty' /\ q = Window!folder' THEN mem' ELSE {})
      BY <1>1, <1>2, <2>10
    <3>. QED
      BY <2>1, <2>6, <3>1 DEF KeptKnown, Kept, Unsaved
  <2>12. KeptFresh(queue[i])'
    <3>1. ASSUME u.handle = Len(handles), u.fresh
          PROVE  \A e \in mem' : e \in Window!Revisions \/ e \in agreed' \/ e \in u.doc
      <4>1. Kept(mem, u.doc)
        BY <2>4, <2>5, <3>1 DEF KeptFresh, Window!Covers, Window!Here
      <4>. QED
        BY <1>2, <4>1 DEF Kept
    <3>. QED
      BY <1>1, <2>1, <3>1 DEF KeptFresh, Kept, Window!Covers, Window!Here
  <2>. QED
    BY <2>9, <2>11, <2>12
<1>9. KeptSaved'
  <2>1. ASSUME ~dirty'
        PROVE  \A e \in mem' : e \in Window!Revisions \/ e \in agreed
                               \/ e \in folders'[Window!folder]
    <3>1. CASE covers
      BY <1>1, <1>5, <3>1
    <3>2. CASE ~covers
      <4>1. ~dirty /\ Kept(mem, folders[Window!folder])
        BY <1>0, <1>4, <2>1, <3>2 DEF KeptSaved
      <4>2. Kept(mem', folders[Window!folder])
        BY <1>2, <4>1 DEF Kept
      <4>3. CASE p = Window!folder
        <5>1. Kept(folders[p], w.doc)
          BY <1>2, <4>1 DEF Kept, Unsaved
        <5>. QED
          BY <1>1, <4>2, <4>3, <5>1 DEF Kept
      <4>4. CASE p # Window!folder
        BY <1>1, <1>3, <4>2, <4>4 DEF Kept
      <4>. QED
        BY <4>3, <4>4
    <3>. QED
      BY <3>1, <3>2
  <2>. QED
    BY <1>1, <1>2, <2>1 DEF KeptSaved, Kept
<1>10. KeptLast'
  <2>1. CASE w.handle = Len(handles)
    <3>1. p = Window!folder
      BY <1>3, <2>1
    <3>2. \A e \in w.doc : e \in Window!Revisions \/ e \in agreed' \/ e \in mem'
      BY <1>2, <1>6, <3>1 DEF Kept
    <3>. QED
      BY <1>1, <2>1, <3>2 DEF KeptLast, Kept
  <2>2. CASE w.handle # Len(handles)
    <3>1. handles'[Len(handles)] = handles[Len(handles)]
      BY <1>1, <1>3, <2>2
    <3>2. \A e \in handles[Len(handles)].known :
             e \in Window!Revisions \/ e \in agreed' \/ e \in mem'
      BY <1>2, <1>4 DEF KeptLast, Kept
    <3>. QED
      BY <1>1, <3>1, <3>2 DEF KeptLast, Kept
  <2>. QED
    BY <2>1, <2>2
<1>11. KeptAnew'
  <2>1. ASSUME NEW h \in DOMAIN handles, handles'[h].folder = Window!folder,
               folders'[Window!folder] = handles'[h].known
        PROVE  \A e \in handles'[h].known :
                  e \in Window!Revisions \/ e \in agreed' \/ e \in mem'
    <3>1. CASE p = Window!folder
      <4>1. handles'[h].known = w.doc
        BY <1>1, <2>1, <3>1
      <4>. QED
        BY <1>2, <1>6, <3>1, <4>1 DEF Kept
    <3>2. CASE p # Window!folder /\ h # w.handle
      <4>1. /\ folders[Window!folder] = handles[h].known /\ handles'[h] = handles[h]
            /\ handles[h].folder = Window!folder
        BY <1>1, <1>3, <2>1, <3>2
      <4>2. Kept(handles[h].known, mem)
        BY <1>4, <4>1 DEF KeptAnew
      <4>. QED
        BY <1>2, <4>1, <4>2 DEF Kept
    <3>3. p # Window!folder => h # w.handle
      BY <1>1, <1>3, <2>1
    <3>. QED
      BY <3>1, <3>2, <3>3
  <2>. QED
    BY <1>1, <2>1 DEF KeptAnew, Kept
<1>12. Consented'
  <2>1. CASE w.kind = "continue" /\ w.fresh
    <3>1. w.handle = Len(handles)
      BY <1>1, <2>1 DEF AsksBeforeItActs
    <3>2. covers
      BY <2>1, <3>1 DEF Window!Covers, Window!Here, Window!Shared, covers
    <3>. QED
      BY <1>0, <3>2 DEF Consented
  <2>2. CASE ~(w.kind = "continue" /\ w.fresh)
    <3>1. replacing' = Window!Advanced(replacing) /\ replacing \in Replacements
      BY <2>2, LandFacts DEF WindowTypes
    <3>2. replacing'.step = replacing.step /\ replacing'.how = replacing.how
          /\ replacing'.fresh = replacing.fresh
      BY <3>1 DEF Window!Advanced, Replacements
    <3>3. ASSUME Kept(mem, {})
          PROVE  \A e \in mem' : e \in Window!Revisions \/ e \in agreed' \/ e \in {}
      BY <1>2, <3>3 DEF Kept
    <3>. QED
      BY <1>0, <1>4, <3>2, <3>3 DEF Consented, Kept
  <2>. QED
    BY <2>1, <2>2
<1>. QED
  BY <1>8, <1>9, <1>10, <1>11, <1>12 DEF KeptDocuments

\* What another program writes is in no handle yet.
LEMMA OutsideIsNew ==
  ASSUME WindowTypes, OuterDocuments, Window!Outside
  PROVE  /\ used.outside + 1 \in 1..MaxOutside
         /\ used' \in Counts /\ used'.outside = used.outside + 1
         /\ \A p \in Projects :
              folders'[p] = IF p = Window!folder
                            THEN folders[p] \union {Window!Item("outside", used.outside + 1)}
                            ELSE folders[p]
         /\ \A h \in DOMAIN handles : handles[h].folder = Window!folder =>
              folders'[Window!folder] # handles[h].known
<1>1. /\ used \in Counts /\ folders \in [Projects -> SUBSET Window!Items]
      /\ Window!folder \in Projects
  BY LastHandle DEF WindowTypes
<1>2. /\ Window!Use("outside", MaxOutside)
      /\ folders' = [folders EXCEPT ![Window!folder] =
                       @ \union {Window!Item("outside", used.outside + 1)}]
  BY DEF Window!Outside
<1>3. /\ used.outside + 1 \in 1..MaxOutside /\ used.outside \in Nat
      /\ used' \in Counts /\ used'.outside = used.outside + 1
  BY <1>1, <1>2, UseTypes, BoundsAreNats
<1>4. \A p \in Projects :
        folders'[p] = IF p = Window!folder
                      THEN folders[p] \union {Window!Item("outside", used.outside + 1)}
                      ELSE folders[p]
  BY <1>1, <1>2
<1>5. ASSUME NEW h \in DOMAIN handles, handles[h].folder = Window!folder,
             folders'[Window!folder] = handles[h].known
      PROVE  FALSE
  <2>1. used.outside + 1 \in Outer(handles[h].known)
    BY <1>1, <1>3, <1>4, <1>5 DEF Outer
  <2>2. used.outside + 1 \in Outer(folders[Window!folder])
    BY <1>5, <2>1 DEF OuterDocuments
  <2>3. used.outside + 1 <= used.outside
    BY <1>1, <2>2 DEF OuterDocuments
  <2>. QED
    BY <1>3, <2>3
<1>. QED
  BY <1>3, <1>4, <1>5

\* When the other folder is read, all of the project left behind is in its file
\* or was given up, and so is what its writes hold.
LEMMA ApplyKept ==
  ASSUME WindowTypes, AsksBeforeItActs, KeptDocuments, Window!Apply
  PROVE  /\ Kept(mem, folders[Window!folder])
         /\ dirty => Kept(mem, {})
         /\ \A i \in DOMAIN queue : Writing(queue[i]) =>
              Kept(queue[i].doc, folders[Window!Into(queue[i])])
<1>1. replacing.step = "open" /\ (replacing.how = "picker" \/ replacing.fresh)
  BY DEF Window!Apply, Window!StillCurrent
<1>2. ~dirty \/ Kept(mem, {})
  BY <1>1 DEF KeptDocuments, Consented
<1>3. Kept(mem, folders[Window!folder])
  BY <1>2 DEF KeptDocuments, KeptSaved, Kept
<1>4. ASSUME NEW i \in DOMAIN queue, Writing(queue[i])
      PROVE  Kept(queue[i].doc, folders[Window!Into(queue[i])])
  <2>1. KeptSafe(queue[i])
    BY <1>4 DEF KeptDocuments
  <2>. QED
    BY <1>3, <2>1 DEF KeptSafe, Kept
<1>. QED
  BY <1>2, <1>3, <1>4 DEF WindowTypes

LEMMA NextKeptDocuments ==
  ASSUME TruthInv, KeptDocuments, OuterDocuments, Window!Next
  PROVE  KeptDocuments'
<1>0. /\ WindowTypes /\ QueueInOrder /\ AsksBeforeItActs /\ OwnDocuments /\ SavedDocuments
      /\ queue \in Seq(Writes) /\ Len(queue) \in Nat /\ DOMAIN queue = 1..Len(queue)
      /\ handles \in Seq(Handles) /\ handles # <<>>
      /\ Len(handles) \in DOMAIN handles /\ Window!folder = handles[Len(handles)].folder
      /\ Window!folder \in Projects /\ dirty \in BOOLEAN /\ replacing \in Replacements
      /\ mem \in SUBSET Window!Items
      /\ Window!folder' = handles'[Len(handles')].folder
  BY LastHandle DEF TruthInv, WindowTypes, Window!folder, Window!Last
<1>a. KeptSaved /\ KeptLast /\ KeptAnew /\ Consented
  BY DEF KeptDocuments
<1>b. \A i \in DOMAIN queue : Writing(queue[i]) =>
        KeptSafe(queue[i]) /\ KeptKnown(queue[i]) /\ KeptFresh(queue[i])
  BY DEF KeptDocuments
<1>c. \A i \in DOMAIN queue : queue[i] \in Writes /\ queue[i].handle \in DOMAIN handles
                              /\ Window!Into(queue[i]) \in Projects
  <2>1. \A i \in DOMAIN queue : queue[i] \in Writes
    BY <1>0
  <2>. QED
    BY <1>0, <2>1, LastHandle DEF QueueInOrder, Writes, Window!Into
\* A write that stays as it is while nothing else changes.
<1>d. ASSUME NEW i, NEW j \in DOMAIN queue, queue'[i] = queue[j],
             UNCHANGED <<handles, mem, folders, agreed, dirty>>
      PROVE  Writing(queue[i])' =>
               KeptSafe(queue[i])' /\ KeptKnown(queue[i])' /\ KeptFresh(queue[i])'
  <2>1. Window!folder' = Window!folder
    BY <1>d DEF Window!folder
  <2>2. Writing(queue[i])' => Writing(queue[j])
    BY <1>d DEF Writing, Window!Planned, Window!Into
  <2>3. KeptSafe(queue[j]) => KeptSafe(queue[i])'
    BY <1>d, <2>1 DEF KeptSafe, Kept, Window!Into
  <2>4. KeptKnown(queue[j]) => KeptKnown(queue[i])'
    BY <1>d, <2>1 DEF KeptKnown, Kept, Unsaved, Window!Into, Window!Unchanged
  <2>5. KeptFresh(queue[j]) => KeptFresh(queue[i])'
    BY <1>d DEF KeptFresh, Kept, Window!Covers, Window!Here
  <2>. QED
    BY <1>b, <2>2, <2>3, <2>4, <2>5
<1>e. ASSUME UNCHANGED <<handles, mem, folders, agreed, dirty>>
      PROVE  KeptSaved' /\ KeptLast' /\ KeptAnew'
  <2>1. Window!folder' = Window!folder
    BY <1>e DEF Window!folder
  <2>. QED
    BY <1>a, <1>e, <2>1 DEF KeptSaved, KeptLast, KeptAnew, Kept
<1>f. ASSUME UNCHANGED <<mem, agreed, dirty>>,
             \/ UNCHANGED replacing
             \/ replacing' = Window!Advanced(replacing)
             \/ replacing' = Window!NoReplacement
             \/ replacing'.step = "wait"
             \/ ~dirty
      PROVE  Consented'
  <2>1. /\ Window!Advanced(replacing).step = replacing.step
        /\ Window!Advanced(replacing).how = replacing.how
        /\ Window!Advanced(replacing).fresh = replacing.fresh
    BY <1>0 DEF Window!Advanced, Replacements
  <2>2. Window!NoReplacement.step = "none"
    BY DEF Window!NoReplacement
  <2>. QED
    BY <1>a, <1>f, <2>1, <2>2 DEF Consented, Kept
<1>1. CASE Window!Land
  BY <1>0, <1>1, LandKeepsDocuments
<1>2. CASE Window!Fail
  <2>1. queue # <<>> /\ queue' = Tail(queue) /\ replacing' = Window!Advanced(replacing)
        /\ UNCHANGED <<handles, mem, folders, agreed, dirty>>
    BY <1>2 DEF Window!Fail
  <2>2. \A i \in DOMAIN queue' : queue'[i] = queue[i+1] /\ i + 1 \in DOMAIN queue
    BY <1>0, <2>1, TailQueue
  <2>3. \A i \in DOMAIN queue' : Writing(queue[i])' =>
          KeptSafe(queue[i])' /\ KeptKnown(queue[i])' /\ KeptFresh(queue[i])'
    BY <1>d, <2>1, <2>2
  <2>. QED
    BY <1>e, <1>f, <2>1, <2>3 DEF KeptDocuments
<1>3. CASE Window!Run
  <2>1. /\ DOMAIN queue' = DOMAIN queue /\ 1 \in DOMAIN queue /\ ~queue[1].running
        /\ \A i \in DOMAIN queue : i # 1 => queue'[i] = queue[i]
        /\ queue'[1].handle = queue[1].handle /\ queue'[1].fresh = queue[1].fresh
        /\ queue'[1].kind = queue[1].kind
        /\ queue'[1].doc = IF queue[1].kind \in Window!Shared
                           THEN queue[1].doc \union mem ELSE queue[1].doc
    BY <1>0, <1>3, RunQueue
  <2>2. UNCHANGED <<handles, mem, folders, agreed, dirty, replacing>>
    BY <1>3 DEF Window!Run
  <2>3. \A i \in DOMAIN queue : i # 1 => (Writing(queue[i])' =>
          KeptSafe(queue[i])' /\ KeptKnown(queue[i])' /\ KeptFresh(queue[i])')
    BY <1>d, <2>1, <2>2
  <2>4. Window!folder' = Window!folder
    BY <2>2 DEF Window!folder
  <2>5. \A i \in {1} : Writing(queue[i])' =>
          KeptSafe(queue[i])' /\ KeptKnown(queue[i])' /\ KeptFresh(queue[i])'
    <3> DEFINE w == queue[1]
               q == Window!Into(w)
    <3>1. CASE w.kind \notin Window!Shared
      <4>1. KeptSafe(w) /\ KeptKnown(w) /\ KeptFresh(w)
        BY <1>b, <2>1, <3>1 DEF Writing
      <4>2. KeptSafe(w) => (\A i \in {1} : KeptSafe(queue[i])')
        BY <2>1, <2>2, <2>4, <3>1 DEF KeptSafe, Kept, Window!Into
      <4>3. KeptKnown(w) => (\A i \in {1} : KeptKnown(queue[i])')
        BY <2>1, <2>2, <2>4, <3>1 DEF KeptKnown, Kept, Unsaved, Window!Into, Window!Unchanged
      <4>4. KeptFresh(w) => (\A i \in {1} : KeptFresh(queue[i])')
        BY <2>1, <2>2, <2>4, <3>1 DEF KeptFresh, Kept, Window!Covers, Window!Here
      <4>. QED
        BY <4>1, <4>2, <4>3, <4>4
    <3>2. CASE w.kind \in Window!Shared
      <4>1. OwnWrite(w) /\ w.kind = "publish"
        BY <2>1, <3>2, <1>0 DEF OwnDocuments, Window!Shared
      <4>2. w.doc \subseteq Window!Revisions
        BY <2>1, <3>2, <4>1 DEF OwnWrite
      <4>3. q \in Projects /\ w.handle \in DOMAIN handles /\ q = handles[w.handle].folder
        BY <1>c, <2>1 DEF Window!Into
      <4>4. (\E i \in {1} : Writing(queue[i])') => q = Window!folder
        <5>1. (\E i \in {1} : Writing(queue[i])') => Window!Named(q) \in queue'[1].doc
          BY <2>1, <2>2, <3>2, <4>1 DEF Writing, Window!Planned, Window!Into
        <5>2. queue'[1].doc = w.doc \union mem
          BY <2>1, <3>2
        <5>. QED
          BY <1>0, <4>2, <4>3, <5>1, <5>2, ItemsDiffer DEF OwnDocuments
      <4>5. q = Window!folder => (\A i \in {1} : KeptSafe(queue[i])')
        BY <2>1, <2>2, <2>4, <3>2, <4>2 DEF KeptSafe, Kept, Window!Into
      <4>6. q = Window!folder => (\A i \in {1} : KeptKnown(queue[i])')
        <5>1. ASSUME q = Window!folder, handles[w.handle].known = folders[q]
              PROVE  Kept(handles[w.handle].known, mem)
          BY <1>a, <4>3, <5>1 DEF KeptAnew
        <5>. QED
          BY <2>1, <2>2, <2>4, <3>2, <5>1 DEF KeptKnown, Kept, Unsaved, Window!Into,
             Window!Unchanged
      <4>7. \A i \in {1} : KeptFresh(queue[i])'
        BY <2>1, <3>2 DEF KeptFresh
      <4>. QED
        BY <4>4, <4>5, <4>6, <4>7
    <3>. QED
      BY <3>1, <3>2
  <2>6. \A i \in DOMAIN queue : Writing(queue[i])' =>
          KeptSafe(queue[i])' /\ KeptKnown(queue[i])' /\ KeptFresh(queue[i])'
    BY <2>3, <2>5
  <2>. QED
    BY <1>e, <1>f, <2>1, <2>2, <2>6 DEF KeptDocuments
<1>4. ASSUME NEW kind \in {"auto", "save", "continue"} \union Window!Shared,
             NEW doc \in SUBSET Window!Items, queue' = Window!Queued(kind, doc),
             UNCHANGED <<handles, mem, folders, agreed, dirty, replacing>>,
             kind \in Window!Shared \/ doc = mem
      PROVE  KeptDocuments'
  <2> DEFINE n == Len(queue) + 1
  <2>1. /\ \A i \in DOMAIN queue : queue'[i] = queue[i]
        /\ DOMAIN queue' = 1..n
        /\ queue'[n].kind = kind /\ queue'[n].doc = doc /\ queue'[n].handle = Len(handles)
        /\ ~queue'[n].running
    BY <1>0, <1>4, QueuedQueue
  <2>2. \A i \in DOMAIN queue : Writing(queue[i])' =>
          KeptSafe(queue[i])' /\ KeptKnown(queue[i])' /\ KeptFresh(queue[i])'
    BY <1>d, <1>4, <2>1
  <2>3. Window!folder' = Window!folder
    BY <1>4 DEF Window!folder
  <2>4. \A i \in {n} : Writing(queue[i])' =>
          KeptSafe(queue[i])' /\ KeptKnown(queue[i])' /\ KeptFresh(queue[i])'
    <3>1. CASE kind \in Window!Shared
      BY <2>1, <3>1 DEF Writing
    <3>2. CASE doc = mem
      <4>1. \A i \in {n} : KeptSafe(queue[i])'
        BY <1>0, <1>4, <2>1, <2>3, <3>2 DEF KeptSafe, Kept, Window!Into
      <4>2. \A i \in {n} : KeptKnown(queue[i])'
        BY <1>0, <1>a, <1>4, <2>1, <2>3, <3>2 DEF KeptKnown, KeptLast, Kept, Window!Into
      <4>3. \A i \in {n} : KeptFresh(queue[i])'
        BY <1>4, <2>1, <3>2 DEF KeptFresh, Kept
      <4>. QED
        BY <4>1, <4>2, <4>3
    <3>. QED
      BY <1>4, <3>1, <3>2
  <2>5. \A i \in DOMAIN queue' : i \in DOMAIN queue \/ i = n
    BY <1>0, <2>1
  <2>6. \A i \in DOMAIN queue' : Writing(queue[i])' =>
          KeptSafe(queue[i])' /\ KeptKnown(queue[i])' /\ KeptFresh(queue[i])'
    BY <2>2, <2>4, <2>5
  <2>. QED
    BY <1>e, <1>f, <1>4, <2>6 DEF KeptDocuments
<1>5. CASE Window!AutoSave
  BY <1>0, <1>4, <1>5, WhatAppends DEF Window!AutoSave
<1>6. CASE Window!SaveProject
  BY <1>0, <1>4, <1>6, WhatAppends DEF Window!SaveProject
<1>7. CASE Window!SaveAndContinue
  BY <1>0, <1>4, <1>7, WhatAppends DEF Window!SaveAndContinue
<1>8. ASSUME NEW kind \in Window!Shared, Window!WriteShared(kind)
      PROVE  KeptDocuments'
  <2> DEFINE doc == {Window!Item("revision", used.publishes + 1)}
  <2>1. queue' = Window!Queued(kind, doc) /\ doc \in SUBSET Window!Items
    BY <1>0, <1>8, WhatAppends, ItemsExist
  <2>2. UNCHANGED <<handles, mem, folders, agreed, dirty, replacing>>
    BY <1>8 DEF Window!WriteShared
  <2> HIDE DEF doc
  <2>. QED
    BY <1>4, <2>1, <2>2
<1>9. CASE Window!Edit
  <2>1. /\ queue' = Window!Outdated(queue) /\ UNCHANGED <<handles, folders, agreed, asked>>
        /\ mem' = mem \union {Window!Item("edit", used.edits + 1)}
        /\ dirty' = TRUE /\ replacing' = [replacing EXCEPT !.fresh = FALSE] /\ ~Window!Modal
    BY <1>9 DEF Window!Edit
  <2>2. /\ DOMAIN queue' = DOMAIN queue
        /\ \A i \in DOMAIN queue :
             /\ queue'[i].handle = queue[i].handle /\ queue'[i].kind = queue[i].kind
             /\ queue'[i].doc = queue[i].doc /\ queue'[i].running = queue[i].running
             /\ ~queue'[i].fresh
    BY <1>0, <2>1, OutdatedQueue
  <2>3. Window!folder' = Window!folder
    BY <2>1 DEF Window!folder
  <2>4. ASSUME NEW i \in DOMAIN queue', Writing(queue[i])'
        PROVE  KeptSafe(queue[i])' /\ KeptKnown(queue[i])' /\ KeptFresh(queue[i])'
    <3>1. Writing(queue[i])
      BY <2>1, <2>2, <2>4 DEF Writing, Window!Planned, Window!Into
    <3>2. KeptSafe(queue[i]) /\ KeptKnown(queue[i])
      BY <1>b, <2>2, <3>1
    <3>3. KeptSafe(queue[i])'
      BY <2>1, <2>2, <2>3, <3>2 DEF KeptSafe, Kept, Window!Into
    <3>4. KeptKnown(queue[i])'
      BY <2>1, <2>2, <2>3, <3>2 DEF KeptKnown, Kept, Unsaved, Window!Into, Window!Unchanged
    <3>5. KeptFresh(queue[i])'
      BY <2>2 DEF KeptFresh, Window!Covers
    <3>. QED
      BY <3>3, <3>4, <3>5
  <2>5. KeptSaved' /\ KeptLast' /\ KeptAnew'
    BY <1>a, <2>1, <2>3 DEF KeptSaved, KeptLast, KeptAnew, Kept
  <2>6. Consented'
    <3>1. ~replacing'.fresh /\ replacing'.step = replacing.step /\ replacing'.how = replacing.how
      BY <1>0, <2>1 DEF Replacements
    <3>2. ~(replacing.step \in {"drain", "open"} /\ replacing.how = "picker")
      BY <1>0, <2>1 DEF Window!Modal, AsksBeforeItActs
    <3>. QED
      BY <3>1, <3>2 DEF Consented
  <2>. QED
    BY <2>4, <2>5, <2>6 DEF KeptDocuments
<1>10. CASE Window!Apply
  <2>1. /\ queue' = Window!Outdated(queue) /\ UNCHANGED <<folders, agreed>>
        /\ dirty' = FALSE /\ replacing' = Window!NoReplacement
    BY <1>10 DEF Window!Apply
  <2>2. /\ DOMAIN queue' = DOMAIN queue
        /\ \A i \in DOMAIN queue :
             /\ queue'[i].handle = queue[i].handle /\ queue'[i].kind = queue[i].kind
             /\ queue'[i].doc = queue[i].doc /\ queue'[i].running = queue[i].running
             /\ ~queue'[i].fresh
    BY <1>0, <2>1, OutdatedQueue
  <2>3. /\ Len(handles') = Len(handles) + 1 /\ DOMAIN handles' = 1..(Len(handles) + 1)
        /\ \A h \in DOMAIN handles : handles'[h] = handles[h]
        /\ handles'[Len(handles) + 1].known = folders[replacing.to]
        /\ Window!folder' = replacing.to /\ mem' = folders[replacing.to]
    BY <1>0, <1>10, ApplyHandles
  <2>4. /\ Kept(mem, folders[Window!folder])
        /\ dirty => Kept(mem, {})
        /\ \A i \in DOMAIN queue : Writing(queue[i]) =>
             Kept(queue[i].doc, folders[Window!Into(queue[i])])
    BY <1>0, <1>10, ApplyKept
  <2>5. ASSUME NEW i \in DOMAIN queue', Writing(queue[i])'
        PROVE  KeptSafe(queue[i])' /\ KeptKnown(queue[i])' /\ KeptFresh(queue[i])'
    <3>0. queue[i].handle \in DOMAIN handles
      BY <1>c, <2>2
    <3>1. Window!Into(queue[i])' = Window!Into(queue[i])
      BY <2>2, <2>3, <3>0 DEF Window!Into
    <3>2. Writing(queue[i])
      BY <2>2, <2>5, <3>1 DEF Writing, Window!Planned
    <3>3. KeptKnown(queue[i]) /\ Kept(queue[i].doc, folders[Window!Into(queue[i])])
      BY <1>b, <2>2, <2>4, <3>2
    <3>4. KeptSafe(queue[i])'
      <4>1. \A e \in queue[i].doc : e \in Window!Revisions \/ e \in agreed
                                    \/ e \in folders[Window!Into(queue[i])]
        BY <3>3 DEF Kept
      <4>. QED
        BY <2>1, <2>2, <2>3, <3>1, <4>1 DEF KeptSafe, Kept
    <3>5. KeptKnown(queue[i])'
      <4>1. ASSUME queue[i].kind \notin Window!Shared \/ Window!Unchanged(queue[i])
            PROVE  \A e \in handles[queue[i].handle].known :
                     e \in Window!Revisions \/ e \in agreed \/ e \in queue[i].doc
        BY <2>4, <3>3, <4>1 DEF KeptKnown, Kept, Unsaved
      <4>2. handles'[queue'[i].handle].known = handles[queue[i].handle].known
        BY <2>2, <2>3, <3>0
      <4>3. Window!Unchanged(queue[i])' <=> Window!Unchanged(queue[i])
        BY <2>1, <3>1, <4>2 DEF Window!Unchanged
      <4>. QED
        BY <2>1, <2>2, <4>1, <4>2, <4>3 DEF KeptKnown, Kept
    <3>6. KeptFresh(queue[i])'
      BY <2>2 DEF KeptFresh, Window!Covers
    <3>. QED
      BY <3>4, <3>5, <3>6
  <2>6. KeptSaved' /\ KeptLast' /\ KeptAnew'
    BY <2>1, <2>3 DEF KeptSaved, KeptLast, KeptAnew, Kept
  <2>7. Consented'
    BY <2>1 DEF Consented
  <2>. QED
    BY <2>5, <2>6, <2>7 DEF KeptDocuments
<1>11. CASE Window!Outside
  <2>1. UNCHANGED <<handles, mem, dirty, queue, replacing, agreed>>
    BY <1>11 DEF Window!Outside
  <2>2. /\ \A p \in Projects : folders[p] \subseteq folders'[p]
        /\ \A p \in Projects : p # Window!folder => folders'[p] = folders[p]
        /\ \A h \in DOMAIN handles : handles[h].folder = Window!folder =>
             folders'[Window!folder] # handles[h].known
    BY <1>0, <1>11, OutsideIsNew
  <2>3. Window!folder' = Window!folder
    BY <2>1 DEF Window!folder
  <2>4. ASSUME NEW i \in DOMAIN queue', Writing(queue[i])'
        PROVE  KeptSafe(queue[i])' /\ KeptKnown(queue[i])' /\ KeptFresh(queue[i])'
    <3> DEFINE q == Window!Into(queue[i])
    <3>1. Writing(queue[i]) /\ i \in DOMAIN queue
      BY <2>1, <2>4 DEF Writing, Window!Planned, Window!Into
    <3>2. KeptSafe(queue[i]) /\ KeptKnown(queue[i]) /\ KeptFresh(queue[i])
      BY <1>b, <3>1
    <3>3. q \in Projects /\ queue[i].handle \in DOMAIN handles
          /\ q = handles[queue[i].handle].folder
      BY <1>c, <3>1 DEF Window!Into
    <3>4. Window!Into(queue[i])' = q
      BY <2>1 DEF Window!Into
    <3> HIDE DEF q
    <3>5. KeptSafe(queue[i])'
      BY <2>1, <2>2, <2>3, <3>2, <3>3, <3>4 DEF KeptSafe, Kept, q
    <3>6. KeptKnown(queue[i])'
      <4>1. CASE queue[i].kind \notin Window!Shared
        BY <2>1, <2>3, <3>2, <3>4, <4>1 DEF KeptKnown, Kept, Unsaved, q
      <4>2. CASE queue[i].kind \in Window!Shared /\ q = Window!folder
        <5>1. ~Window!Unchanged(queue[i])'
          BY <2>1, <2>2, <3>3, <3>4, <4>2 DEF Window!Unchanged
        <5>. QED
          BY <2>1, <4>2, <5>1 DEF KeptKnown
      <4>3. CASE queue[i].kind \in Window!Shared /\ q # Window!folder
        <5>1. Window!Unchanged(queue[i])' <=> Window!Unchanged(queue[i])
          BY <2>1, <2>2, <3>3, <3>4, <4>3 DEF Window!Unchanged, q
        <5>. QED
          BY <2>1, <2>3, <3>2, <3>4, <4>3, <5>1 DEF KeptKnown, Kept, Unsaved, q
      <4>. QED
        BY <4>1, <4>2, <4>3
    <3>7. KeptFresh(queue[i])'
      BY <2>1, <3>2 DEF KeptFresh, Kept, Window!Covers, Window!Here
    <3>. QED
      BY <3>5, <3>6, <3>7
  <2>5. KeptSaved' /\ KeptLast'
    BY <1>0, <1>a, <2>1, <2>2, <2>3 DEF KeptSaved, KeptLast, Kept
  <2>6. KeptAnew'
    BY <2>1, <2>2, <2>3 DEF KeptAnew
  <2>. QED
    BY <1>f, <2>1, <2>4, <2>5, <2>6 DEF KeptDocuments
<1>12. CASE Window!DiscardAndContinue
  <2>1. /\ UNCHANGED <<handles, mem, dirty, queue, folders>>
        /\ agreed' = agreed \union mem
    BY <1>12 DEF Window!DiscardAndContinue
  <2>2. Window!folder' = Window!folder
    BY <2>1 DEF Window!folder
  <2>3. ASSUME NEW i \in DOMAIN queue', Writing(queue[i])'
        PROVE  KeptSafe(queue[i])' /\ KeptKnown(queue[i])' /\ KeptFresh(queue[i])'
    <3>1. Writing(queue[i]) /\ i \in DOMAIN queue
      BY <2>1, <2>3 DEF Writing, Window!Planned, Window!Into
    <3>2. KeptSafe(queue[i]) /\ KeptKnown(queue[i]) /\ KeptFresh(queue[i])
      BY <1>b, <3>1
    <3>3. KeptSafe(queue[i])'
      BY <2>1, <2>2, <3>2 DEF KeptSafe, Kept, Window!Into
    <3>4. KeptKnown(queue[i])'
      BY <2>1, <2>2, <3>2 DEF KeptKnown, Kept, Unsaved, Window!Into, Window!Unchanged
    <3>5. KeptFresh(queue[i])'
      BY <2>1, <3>2 DEF KeptFresh, Kept, Window!Covers, Window!Here
    <3>. QED
      BY <3>3, <3>4, <3>5
  <2>4. KeptSaved' /\ KeptLast' /\ KeptAnew'
    BY <1>a, <2>1, <2>2 DEF KeptSaved, KeptLast, KeptAnew, Kept
  <2>5. Consented'
    BY <2>1 DEF Consented, Kept
  <2>. QED
    BY <2>3, <2>4, <2>5 DEF KeptDocuments
<1>13. ASSUME UNCHANGED <<handles, mem, dirty, queue, folders, agreed>>, Consented'
       PROVE  KeptDocuments'
  <2>1. \A i \in DOMAIN queue' : Writing(queue[i])' =>
          KeptSafe(queue[i])' /\ KeptKnown(queue[i])' /\ KeptFresh(queue[i])'
    BY <1>d, <1>13
  <2>. QED
    BY <1>e, <1>13, <2>1 DEF KeptDocuments
<1>14. ASSUME NEW how \in {"picker", "link"}, NEW to \in Projects,
              Window!Requested(how, to), UNCHANGED <<mem, agreed, dirty>>
       PROVE  Consented'
  BY <1>0, <1>f, <1>14, RequestedTypes
<1>15. CASE \E how \in {"picker", "link"}, to \in Projects : Window!RequestReplacement(how, to)
  BY <1>13, <1>14, <1>15 DEF Window!RequestReplacement
<1>16. CASE Window!AskAgain
  <2>1. replacing.to \in Projects /\ replacing.how \in {"picker", "link"}
    BY <1>0, <1>16 DEF Window!AskAgain, AsksBeforeItActs
  <2>. QED
    BY <1>13, <1>14, <1>16, <2>1 DEF Window!AskAgain
<1>17. CASE Window!CancelReplacement \/ Window!OpenFails
  BY <1>f, <1>13, <1>17 DEF Window!CancelReplacement, Window!OpenFails
<1>18. CASE Window!Drained
  <2>1. /\ replacing.step = "drain" /\ replacing' = [replacing EXCEPT !.step = "open"]
        /\ UNCHANGED <<handles, mem, dirty, queue, folders, agreed>>
    BY <1>18 DEF Window!Drained
  <2>2. replacing'.fresh = replacing.fresh /\ replacing'.how = replacing.how
    BY <1>0, <2>1 DEF Replacements
  <2>3. Consented'
    BY <1>a, <2>1, <2>2 DEF Consented, Kept
  <2>. QED
    BY <1>13, <2>1, <2>3
<1>. QED
  BY <1>1, <1>2, <1>3, <1>5, <1>6, <1>7, <1>8, <1>9, <1>10, <1>11, <1>12, <1>15,
     <1>16, <1>17, <1>18 DEF Window!Next

-----------------------------------------------------------------------------
(* What other programs wrote stays.                                        *)

LEMMA OuterFacts ==
  /\ \A S, T : S \subseteq T => Outer(S) \subseteq Outer(T)
  /\ \A S, T : S \subseteq T /\ T \subseteq S \union Window!Revisions => Outer(T) = Outer(S)
  /\ \A S : S \subseteq Window!Revisions => Outer(S) = {}
  /\ \A S, n : Outer(S \union {Window!Item("edit", n)}) = Outer(S)
  /\ \A S, n : Outer(S \union {Window!Item("outside", n)}) \subseteq Outer(S) \union {n}
<1>1. \A S, T : S \subseteq T => Outer(S) \subseteq Outer(T)
  BY DEF Outer
<1>2. ASSUME NEW S, NEW T, S \subseteq T, T \subseteq S \union Window!Revisions
      PROVE  Outer(T) = Outer(S)
  BY <1>2, ItemsDiffer DEF Outer
<1>3. \A S : S \subseteq Window!Revisions => Outer(S) = {}
  BY ItemsDiffer DEF Outer
<1>4. \A S, n : Outer(S \union {Window!Item("edit", n)}) = Outer(S)
  BY ItemsDiffer DEF Outer
<1>5. \A S, n : Outer(S \union {Window!Item("outside", n)}) \subseteq Outer(S) \union {n}
  BY ItemsDiffer DEF Outer
<1>. QED
  BY <1>1, <1>2, <1>3, <1>4, <1>5

\* A landing write holds exactly what other programs wrote before it.
LEMMA LandOuter ==
  ASSUME TruthInv, KeptDocuments, OuterDocuments, Window!Land
  PROVE  LET w == queue[1] IN
         /\ Outer(w.doc) = Outer(handles[w.handle].known)
         /\ Outer(w.doc) = Outer(folders[Window!Into(w)])
         /\ Outer(mem') = Outer(mem)
<1> DEFINE w == queue[1]
<1>1. Window!Unchanged(w) /\ mem' = Window!Afterwards(w) /\ 1 \in DOMAIN queue
  BY LandFacts, LandHandles DEF TruthInv
<1>2. Writing(w) /\ handles[w.handle].known = folders[Window!Into(w)]
  BY LandKept DEF TruthInv
<1>3. OuterWrite(w)
  BY <1>1 DEF OuterDocuments
<1>4. Outer(w.doc) = Outer(handles[w.handle].known)
  BY <1>1, <1>2, <1>3 DEF OuterWrite
<1>5. Outer(mem') = Outer(mem)
  <2>1. CASE w.kind \notin Window!Shared /\ Window!Covers(w)
    <3>1. mem' = w.doc /\ w.handle = Len(handles)
      BY <1>1, <2>1 DEF Window!Afterwards, Window!Covers, Window!Here
    <3>. QED
      BY <1>4, <3>1 DEF OuterDocuments
  <2>2. CASE ~(w.kind \notin Window!Shared /\ Window!Covers(w))
    <3>1. mem \subseteq mem' /\ mem' \subseteq mem \union Window!Revisions
      BY <1>1, <2>2 DEF Window!Afterwards
    <3>. QED
      BY <3>1, OuterFacts
  <2>. QED
    BY <2>1, <2>2
<1>. QED
  BY <1>2, <1>4, <1>5

LEMMA NextOuterDocuments ==
  ASSUME TruthInv, KeptDocuments, OuterDocuments, Window!Next
  PROVE  OuterDocuments'
<1>0. /\ WindowTypes /\ QueueInOrder /\ AsksBeforeItActs /\ OwnDocuments
      /\ queue \in Seq(Writes) /\ Len(queue) \in Nat /\ DOMAIN queue = 1..Len(queue)
      /\ DOMAIN handles = 1..Len(handles) /\ Len(handles) \in Nat \ {0}
      /\ handles \in Seq(Handles) /\ handles # <<>>
      /\ Len(handles) \in DOMAIN handles /\ Window!folder = handles[Len(handles)].folder
      /\ Window!folder \in Projects /\ mem \in SUBSET Window!Items /\ used \in Counts
      /\ \A h \in DOMAIN handles : handles[h].folder \in Projects
  BY LastHandle DEF TruthInv, WindowTypes
<1>a. /\ \A i \in DOMAIN queue : OuterWrite(queue[i])
      /\ Outer(mem) = Outer(handles[Len(handles)].known)
      /\ \A h \in DOMAIN handles : Outer(handles[h].known) \subseteq Outer(folders[handles[h].folder])
      /\ \A g, h \in DOMAIN handles : g < h /\ handles[g].folder = handles[h].folder =>
           Outer(handles[g].known) \subseteq Outer(handles[h].known)
      /\ \A p \in Projects : \A n \in Outer(folders[p]) : n <= used.outside
  BY DEF OuterDocuments
<1>b. \A i \in DOMAIN queue : queue[i] \in Writes /\ queue[i].handle \in DOMAIN handles
                              /\ Window!Into(queue[i]) \in Projects
  <2>1. \A i \in DOMAIN queue : queue[i] \in Writes
    BY <1>0
  <2>. QED
    BY <1>0, <2>1 DEF QueueInOrder, Writes, Window!Into
\* What is true while the files and the document stay as they are.
<1>c. ASSUME UNCHANGED <<handles, folders>>, Outer(mem') = Outer(mem),
             used'.outside = used.outside,
             \A i \in DOMAIN queue' : OuterWrite(queue[i])'
      PROVE  OuterDocuments'
  BY <1>a, <1>c DEF OuterDocuments
<1>d. ASSUME NEW i, NEW j \in DOMAIN queue, UNCHANGED <<handles, folders>>,
             queue'[i].kind = queue[j].kind, queue'[i].doc = queue[j].doc,
             queue'[i].running = queue[j].running, queue'[i].handle = queue[j].handle
      PROVE  OuterWrite(queue[i])'
  <2>1. OuterWrite(queue[j])
    BY <1>a
  <2>2. Window!Unchanged(queue[i])' <=> Window!Unchanged(queue[j])
    BY <1>d DEF Window!Unchanged, Window!Into
  <2>3. Writing(queue[i])' <=> Writing(queue[j])
    BY <1>d DEF Writing, Window!Planned, Window!Into
  <2>. QED
    BY <1>d, <2>1, <2>2, <2>3 DEF OuterWrite
<1>1. CASE Window!Land
  <2> DEFINE w == queue[1]
             p == Window!Into(w)
  <2>1. queue # <<>> /\ queue' = Tail(queue) /\ used' = used
    BY <1>0, <1>1, LandFacts
  <2>2. /\ Len(handles') = Len(handles) /\ DOMAIN handles' = DOMAIN handles
        /\ w.handle \in DOMAIN handles
        /\ \A h \in DOMAIN handles : handles'[h].folder = handles[h].folder
        /\ \A h \in DOMAIN handles : h # w.handle => handles'[h] = handles[h]
        /\ handles'[w.handle].known = w.doc
        /\ \A q \in Projects : folders'[q] = IF q = p THEN w.doc ELSE folders[q]
    BY <1>0, <1>1, LandHandles
  <2>3. /\ Outer(w.doc) = Outer(handles[w.handle].known)
        /\ Outer(w.doc) = Outer(folders[p]) /\ Outer(mem') = Outer(mem)
    BY <1>1, LandOuter
  <2> HIDE DEF w, p
  <2>4. \A h \in DOMAIN handles : Outer(handles'[h].known) = Outer(handles[h].known)
    BY <2>2, <2>3
  <2>5. \A q \in Projects : Outer(folders'[q]) = Outer(folders[q])
    BY <2>2, <2>3
  <2>6. \A i \in DOMAIN queue' : queue'[i] = queue[i+1] /\ i + 1 \in DOMAIN queue /\ i + 1 # 1
    BY <1>0, <2>1, TailQueue
  <2>7. ASSUME NEW i \in DOMAIN queue'
        PROVE  OuterWrite(queue[i])'
    <3>1. OuterWrite(queue[i + 1]) /\ ~queue[i + 1].running
          /\ queue[i + 1].handle \in DOMAIN handles
      BY <1>a, <1>b, <1>0, <2>6 DEF QueueInOrder
    <3>2. Outer(handles'[queue'[i].handle].known) = Outer(handles[queue[i + 1].handle].known)
      BY <2>4, <2>6, <3>1
    <3>3. queue'[i] = queue[i + 1]
      BY <2>6
    <3>. QED
      BY <3>1, <3>2, <3>3 DEF OuterWrite, Writing
  <2>8. Outer(mem') = Outer(handles'[Len(handles')].known)
    BY <1>0, <1>a, <2>2, <2>3, <2>4
  <2>9. \A h \in DOMAIN handles :
          Outer(handles'[h].known) \subseteq Outer(folders'[handles'[h].folder])
    <3>1. ASSUME NEW h \in DOMAIN handles
          PROVE  Outer(handles'[h].known) \subseteq Outer(folders'[handles'[h].folder])
      <4> DEFINE f == handles[h].folder
      <4>1. f \in Projects /\ handles'[h].folder = f
        BY <1>0, <2>2
      <4>2. Outer(handles[h].known) \subseteq Outer(folders[f])
        BY <1>a
      <4>3. Outer(folders'[f]) = Outer(folders[f])
        BY <2>5, <4>1
      <4>4. Outer(handles'[h].known) = Outer(handles[h].known)
        BY <2>4
      <4> HIDE DEF f
      <4>. QED
        BY <4>1, <4>2, <4>3, <4>4
    <3>. QED
      BY <3>1
  <2>10. \A g, h \in DOMAIN handles : g < h /\ handles'[g].folder = handles'[h].folder =>
           Outer(handles'[g].known) \subseteq Outer(handles'[h].known)
    BY <1>a, <2>2, <2>4
  <2>11. \A q \in Projects : \A n \in Outer(folders'[q]) : n <= used'.outside
    BY <1>a, <2>1, <2>5
  <2>. QED
    BY <2>2, <2>7, <2>8, <2>9, <2>10, <2>11 DEF OuterDocuments
<1>2. CASE Window!Fail
  <2>1. queue # <<>> /\ queue' = Tail(queue) /\ UNCHANGED <<handles, mem, folders>>
        /\ (UNCHANGED used \/ Window!Use("failures", WindowFailures))
    BY <1>2 DEF Window!Fail
  <2>2. \A i \in DOMAIN queue' : queue'[i] = queue[i+1] /\ i + 1 \in DOMAIN queue
    BY <1>0, <2>1, TailQueue
  <2>3. \A i \in DOMAIN queue' : OuterWrite(queue[i])'
    BY <1>d, <2>1, <2>2
  <2>4. used'.outside = used.outside
    BY <1>0, <2>1, UseTypes, BoundsAreNats
  <2>. QED
    BY <1>c, <2>1, <2>3, <2>4
<1>3. CASE Window!Run
  <2>1. /\ DOMAIN queue' = DOMAIN queue /\ 1 \in DOMAIN queue /\ ~queue[1].running
        /\ \A i \in DOMAIN queue : i # 1 => queue'[i] = queue[i]
        /\ queue'[1].handle = queue[1].handle
        /\ queue'[1].kind = queue[1].kind
        /\ queue'[1].doc = IF queue[1].kind \in Window!Shared
                           THEN queue[1].doc \union mem ELSE queue[1].doc
    BY <1>0, <1>3, RunQueue
  <2>2. UNCHANGED <<handles, mem, folders, used>>
    BY <1>3 DEF Window!Run
  <2>3. \A i \in DOMAIN queue : i # 1 => OuterWrite(queue[i])'
    BY <1>d, <2>1, <2>2
  <2>4. \A i \in {1} : OuterWrite(queue[i])'
    <3> DEFINE w == queue[1]
               q == Window!Into(w)
    <3>0. OuterWrite(w) /\ OwnWrite(w) /\ w.kind # "recover"
      BY <1>0, <1>a, <2>1 DEF OwnDocuments
    <3>1. CASE w.kind \notin Window!Shared
      <4>1. Outer(w.doc) = Outer(handles[w.handle].known)
        BY <3>0, <3>1 DEF OuterWrite, Writing
      <4>2. queue'[1].doc = w.doc
        BY <2>1, <3>1
      <4>. QED
        BY <2>1, <2>2, <4>1, <4>2 DEF OuterWrite
    <3>2. CASE w.kind \in Window!Shared
      <4>1. w.doc \subseteq Window!Revisions /\ w.kind = "publish"
        BY <2>1, <3>0, <3>2 DEF OwnWrite, Window!Shared
      <4>2. queue'[1].doc = w.doc \union mem
        BY <2>1, <3>2
      <4>3. q \in Projects /\ w.handle \in DOMAIN handles /\ q = handles[w.handle].folder
        BY <1>b, <2>1 DEF Window!Into
      <4>4. (\E i \in {1} : Writing(queue[i])') => q = Window!folder
        <5>1. (\E i \in {1} : Writing(queue[i])') => Window!Named(q) \in queue'[1].doc
          BY <2>1, <2>2, <3>2, <4>1 DEF Writing, Window!Planned, Window!Into
        <5>. QED
          BY <1>0, <4>1, <4>2, <4>3, <5>1, ItemsDiffer DEF OwnDocuments
      <4>5. Outer(queue'[1].doc) = Outer(mem)
        BY <4>1, <4>2, OuterFacts
      <4>6. ASSUME q = Window!folder, folders[q] = handles[w.handle].known
            PROVE  Outer(mem) = Outer(handles[w.handle].known)
        <5>1. Outer(mem) \subseteq Outer(handles[w.handle].known)
          BY <1>0, <1>a, <4>6
        <5>2. w.handle = Len(handles) \/ w.handle < Len(handles)
          BY <1>0, <4>3
        <5>3. Outer(handles[w.handle].known) \subseteq Outer(mem)
          BY <1>0, <1>a, <4>3, <4>6, <5>2
        <5>. QED
          BY <5>1, <5>3
      <4>7. (\E i \in {1} : Window!Unchanged(queue[i])') => folders[q] = handles[w.handle].known
        BY <2>1, <2>2 DEF Window!Unchanged, Window!Into
      <4>. QED
        BY <2>1, <2>2, <3>2, <4>4, <4>5, <4>6, <4>7 DEF OuterWrite
    <3>. QED
      BY <3>1, <3>2
  <2>5. \A i \in DOMAIN queue' : OuterWrite(queue[i])'
    BY <2>1, <2>3, <2>4
  <2>. QED
    BY <1>c, <2>2, <2>5
<1>4. ASSUME NEW kind \in {"auto", "save", "continue"} \union Window!Shared,
             NEW doc \in SUBSET Window!Items, queue' = Window!Queued(kind, doc),
             UNCHANGED <<handles, mem, folders>>, used'.outside = used.outside,
             kind \in Window!Shared \/ doc = mem
      PROVE  OuterDocuments'
  <2> DEFINE n == Len(queue) + 1
  <2>1. /\ \A i \in DOMAIN queue : queue'[i] = queue[i]
        /\ DOMAIN queue' = 1..n
        /\ queue'[n].kind = kind /\ queue'[n].doc = doc /\ queue'[n].handle = Len(handles)
        /\ ~queue'[n].running
    BY <1>0, <1>4, QueuedQueue
  <2>2. \A i \in DOMAIN queue : OuterWrite(queue[i])'
    BY <1>d, <1>4, <2>1
  <2>3. \A i \in {n} : OuterWrite(queue[i])'
    BY <1>a, <1>4, <2>1 DEF OuterWrite, Writing
  <2>4. \A i \in DOMAIN queue' : i \in DOMAIN queue \/ i = n
    BY <1>0, <2>1
  <2>5. \A i \in DOMAIN queue' : OuterWrite(queue[i])'
    BY <2>2, <2>3, <2>4
  <2>. QED
    BY <1>c, <1>4, <2>5
<1>5. CASE Window!AutoSave
  BY <1>0, <1>4, <1>5, WhatAppends DEF Window!AutoSave
<1>6. CASE Window!SaveProject
  BY <1>0, <1>4, <1>6, WhatAppends DEF Window!SaveProject
<1>7. CASE Window!SaveAndContinue
  BY <1>0, <1>4, <1>7, WhatAppends DEF Window!SaveAndContinue
<1>8. ASSUME NEW kind \in Window!Shared, Window!WriteShared(kind)
      PROVE  OuterDocuments'
  <2> DEFINE doc == {Window!Item("revision", used.publishes + 1)}
  <2>1. queue' = Window!Queued(kind, doc) /\ doc \in SUBSET Window!Items
    BY <1>0, <1>8, WhatAppends, ItemsExist
  <2>2. UNCHANGED <<handles, mem, folders>> /\ Window!Use("publishes", MaxPublishes)
    BY <1>8 DEF Window!WriteShared
  <2>3. used'.outside = used.outside
    BY <1>0, <2>2, UseTypes, BoundsAreNats
  <2> HIDE DEF doc
  <2>. QED
    BY <1>4, <2>1, <2>2, <2>3
<1>9. CASE Window!Edit
  <2>1. /\ queue' = Window!Outdated(queue) /\ UNCHANGED <<handles, folders>>
        /\ mem' = mem \union {Window!Item("edit", used.edits + 1)}
        /\ Window!Use("edits", WindowEdits)
    BY <1>9 DEF Window!Edit
  <2>2. /\ DOMAIN queue' = DOMAIN queue
        /\ \A i \in DOMAIN queue :
             /\ queue'[i].handle = queue[i].handle /\ queue'[i].kind = queue[i].kind
             /\ queue'[i].doc = queue[i].doc /\ queue'[i].running = queue[i].running
    BY <1>0, <2>1, OutdatedQueue
  <2>3. \A i \in DOMAIN queue' : OuterWrite(queue[i])'
    BY <1>d, <2>1, <2>2
  <2>4. used'.outside = used.outside
    BY <1>0, <2>1, UseTypes, BoundsAreNats
  <2>5. Outer(mem') = Outer(mem)
    BY <2>1, OuterFacts
  <2>. QED
    BY <1>c, <2>1, <2>3, <2>4, <2>5
<1>10. CASE Window!Apply
  <2>1. /\ queue' = Window!Outdated(queue) /\ UNCHANGED <<folders, used>>
    BY <1>10 DEF Window!Apply
  <2>2. /\ DOMAIN queue' = DOMAIN queue
        /\ \A i \in DOMAIN queue :
             /\ queue'[i].handle = queue[i].handle /\ queue'[i].kind = queue[i].kind
             /\ queue'[i].doc = queue[i].doc /\ queue'[i].running = queue[i].running
    BY <1>0, <2>1, OutdatedQueue
  <2> DEFINE n == Len(handles) + 1
  <2>3. /\ Len(handles') = n /\ DOMAIN handles' = 1..n /\ replacing.to \in Projects
        /\ \A h \in DOMAIN handles : handles'[h] = handles[h]
        /\ handles'[n].folder = replacing.to
        /\ handles'[n].known = folders[replacing.to] /\ mem' = folders[replacing.to]
    BY <1>0, <1>10, ApplyHandles
  <2>4. \A h \in DOMAIN handles' : h \in DOMAIN handles \/ h = n
    BY <1>0, <2>3
  <2>5. ASSUME NEW i \in DOMAIN queue'
        PROVE  OuterWrite(queue[i])'
    <3>1. OuterWrite(queue[i]) /\ queue[i].handle \in DOMAIN handles
      BY <1>a, <1>b, <2>2
    <3>2. handles'[queue[i].handle] = handles[queue[i].handle]
      BY <2>3, <3>1
    <3>3. Window!Unchanged(queue[i])' <=> Window!Unchanged(queue[i])
      BY <2>1, <2>2, <3>2 DEF Window!Unchanged, Window!Into
    <3>4. Writing(queue[i])' <=> Writing(queue[i])
      BY <2>2, <3>2 DEF Writing, Window!Planned, Window!Into
    <3>. QED
      BY <2>2, <3>1, <3>2, <3>3, <3>4 DEF OuterWrite
  <2>6. ASSUME NEW h \in DOMAIN handles'
        PROVE  Outer(handles'[h].known) \subseteq Outer(folders'[handles'[h].folder])
    BY <1>a, <2>1, <2>3, <2>4
  <2>7. ASSUME NEW g \in DOMAIN handles', NEW h \in DOMAIN handles', g < h,
               handles'[g].folder = handles'[h].folder
        PROVE  Outer(handles'[g].known) \subseteq Outer(handles'[h].known)
    <3>1. g \in DOMAIN handles
      BY <1>0, <2>3, <2>7
    <3>2. CASE h \in DOMAIN handles
      BY <1>a, <2>3, <2>7, <3>1, <3>2
    <3>3. CASE h = n
      <4>1. /\ handles'[g] = handles[g]
            /\ handles'[h].known = folders[handles[g].folder]
        BY <2>3, <2>7, <3>1, <3>3
      <4>2. Outer(handles[g].known) \subseteq Outer(folders[handles[g].folder])
        BY <1>a, <3>1
      <4>. QED
        BY <4>1, <4>2
    <3>. QED
      BY <2>4, <3>2, <3>3
  <2>. QED
    BY <1>a, <2>1, <2>3, <2>5, <2>6, <2>7 DEF OuterDocuments
<1>11. CASE Window!Outside
  <2>1. UNCHANGED <<handles, mem, queue>>
    BY <1>11 DEF Window!Outside
  <2> DEFINE m == used.outside + 1
  <2>2. /\ m \in 1..MaxOutside /\ used'.outside = m
        /\ \A p \in Projects :
             folders'[p] = IF p = Window!folder
                           THEN folders[p] \union {Window!Item("outside", m)} ELSE folders[p]
        /\ \A h \in DOMAIN handles : handles[h].folder = Window!folder =>
             folders'[Window!folder] # handles[h].known
    BY <1>0, <1>11, OutsideIsNew
  <2> HIDE DEF m
  <2>3. \A p \in Projects : Outer(folders[p]) \subseteq Outer(folders'[p])
                            /\ Outer(folders'[p]) \subseteq Outer(folders[p]) \union {m}
    <3>1. \A S, n : S \subseteq S \union {Window!Item("outside", n)}
      OBVIOUS
    <3>. QED
      BY <2>2, <3>1, OuterFacts
  <2>4. ASSUME NEW i \in DOMAIN queue'
        PROVE  OuterWrite(queue[i])'
    <3> DEFINE q == Window!Into(queue[i])
    <3>1. OuterWrite(queue[i]) /\ q \in Projects /\ queue[i].handle \in DOMAIN handles
          /\ q = handles[queue[i].handle].folder
      BY <1>a, <1>b, <2>1 DEF Window!Into
    <3>2. Writing(queue[i])' <=> Writing(queue[i])
      BY <2>1 DEF Writing, Window!Planned, Window!Into
    <3>3. CASE queue[i].kind \notin Window!Shared
      BY <2>1, <3>1, <3>2, <3>3 DEF OuterWrite
    <3>4. CASE queue[i].kind \in Window!Shared /\ q = Window!folder
      <4>1. ~Window!Unchanged(queue[i])'
        BY <2>1, <2>2, <3>1, <3>4 DEF Window!Unchanged, Window!Into
      <4>. QED
        BY <2>1, <3>4, <4>1 DEF OuterWrite
    <3>5. CASE queue[i].kind \in Window!Shared /\ q # Window!folder
      <4>1. Window!Unchanged(queue[i])' <=> Window!Unchanged(queue[i])
        BY <2>1, <2>2, <3>1, <3>5 DEF Window!Unchanged, Window!Into
      <4>. QED
        BY <2>1, <3>1, <3>2, <4>1 DEF OuterWrite
    <3>. QED
      BY <3>3, <3>4, <3>5
  <2>5. \A h \in DOMAIN handles :
          Outer(handles[h].known) \subseteq Outer(folders'[handles[h].folder])
    BY <1>0, <1>a, <2>3
  <2>6. ASSUME NEW p \in Projects, NEW k \in Outer(folders'[p])
        PROVE  k <= used'.outside
    <3>1. k = m \/ k <= used.outside
      BY <1>a, <2>3, <2>6
    <3>2. k \in 1..MaxOutside /\ used.outside \in Nat
      BY <1>0, <2>6 DEF Outer, Counts
    <3>. QED
      BY <2>2, <3>1, <3>2, BoundsAreNats DEF m
  <2>. QED
    BY <1>a, <2>1, <2>4, <2>5, <2>6 DEF OuterDocuments
<1>12. ASSUME UNCHANGED <<handles, mem, folders, queue>>, used'.outside = used.outside
       PROVE  OuterDocuments'
  <2>1. \A i \in DOMAIN queue' : OuterWrite(queue[i])'
    BY <1>d, <1>12
  <2>. QED
    BY <1>c, <1>12, <2>1
<1>13. CASE \E how \in {"picker", "link"}, to \in Projects : Window!RequestReplacement(how, to)
  <2>1. Window!Use("opens", MaxReplacements) /\ UNCHANGED <<handles, mem, folders, queue>>
    BY <1>13 DEF Window!RequestReplacement
  <2>2. used'.outside = used.outside
    BY <1>0, <2>1, UseTypes, BoundsAreNats
  <2>. QED
    BY <1>12, <2>1, <2>2
<1>14. CASE Window!OpenFails
  <2>1. Window!Use("failures", WindowFailures) /\ UNCHANGED <<handles, mem, folders, queue>>
    BY <1>14 DEF Window!OpenFails
  <2>2. used'.outside = used.outside
    BY <1>0, <2>1, UseTypes, BoundsAreNats
  <2>. QED
    BY <1>12, <2>1, <2>2
<1>15. CASE \/ Window!CancelReplacement \/ Window!DiscardAndContinue
            \/ Window!Drained \/ Window!AskAgain
  BY <1>12, <1>15 DEF Window!CancelReplacement, Window!DiscardAndContinue,
     Window!Drained, Window!AskAgain
<1>. QED
  BY <1>1, <1>2, <1>3, <1>5, <1>6, <1>7, <1>8, <1>9, <1>10, <1>11, <1>13, <1>14,
     <1>15 DEF Window!Next

-----------------------------------------------------------------------------
(* The window keeps its edits.                                             *)

LEMMA InitKept == ASSUME Window!Init PROVE KeptDocuments /\ OuterDocuments
<1>1. TruthInv
  BY InitTruth
<1> DEFINE p == CHOOSE p \in Projects : TRUE
<1>2. p \in Projects
  BY BoundsAreNats
<1>3. /\ handles = <<[folder |-> p, known |-> {Window!Named(p)}]>>
      /\ mem = {Window!Named(p)} /\ dirty = FALSE /\ queue = <<>>
      /\ folders = [q \in Projects |-> {Window!Named(q)}]
      /\ replacing = Window!NoReplacement
  BY DEF Window!Init
<1> HIDE DEF p
<1>4. /\ Len(handles) = 1 /\ DOMAIN handles = {1}
      /\ handles[1].folder = p /\ handles[1].known = {Window!Named(p)}
  BY <1>3
<1>5. Window!folder = p /\ folders[p] = {Window!Named(p)}
  BY <1>1, <1>2, <1>3, <1>4, LastHandle DEF TruthInv
<1>6. KeptDocuments
  BY <1>3, <1>4, <1>5 DEF KeptDocuments, KeptSaved, KeptLast, KeptAnew, Consented, Kept,
     Window!NoReplacement
<1>7. \A q \in Projects : Outer({Window!Named(q)}) = {}
  BY ItemsDiffer DEF Outer
<1>8. \A q \in Projects : Outer(folders[q]) = {}
  BY <1>3, <1>7
<1>9. OuterDocuments
  <2>1. \A i \in DOMAIN queue : OuterWrite(queue[i])
    BY <1>3
  <2>2. Outer(mem) = {} /\ Outer(handles[1].known) = {}
    BY <1>2, <1>3, <1>4, <1>7
  <2>3. \A g, h \in DOMAIN handles : ~(g < h)
    BY <1>4
  <2>. QED
    BY <1>4, <1>8, <2>1, <2>2, <2>3 DEF OuterDocuments
<1>. QED
  BY <1>6, <1>9

LEMMA NextWindowInv ==
  ASSUME WindowInv, Window!Next, "recover" \notin WindowHabits
  PROVE  WindowInv'
  BY NextTruth, NextKeptDocuments, NextOuterDocuments DEF WindowInv

LEMMA StutterWindow ==
  ASSUME WindowInv, UNCHANGED windowVars
  PROVE  WindowInv'
<1>1. TruthInv'
  BY StutterTruth DEF WindowInv
<1>2. Window!folder' = Window!folder
  BY DEF Window!folder, windowVars
<1>3. ASSUME NEW i \in DOMAIN queue
      PROVE  /\ Writing(queue[i])' <=> Writing(queue[i])
             /\ KeptSafe(queue[i])' <=> KeptSafe(queue[i])
             /\ KeptKnown(queue[i])' <=> KeptKnown(queue[i])
             /\ KeptFresh(queue[i])' <=> KeptFresh(queue[i])
             /\ OuterWrite(queue[i])' <=> OuterWrite(queue[i])
  <2>1. Writing(queue[i])' <=> Writing(queue[i])
    BY DEF Writing, Window!Planned, Window!Into, windowVars
  <2>2. KeptSafe(queue[i])' <=> KeptSafe(queue[i])
    BY <1>2 DEF KeptSafe, Kept, Window!Into, windowVars
  <2>3. KeptKnown(queue[i])' <=> KeptKnown(queue[i])
    BY <1>2 DEF KeptKnown, Kept, Unsaved, Window!Into, Window!Unchanged, windowVars
  <2>4. KeptFresh(queue[i])' <=> KeptFresh(queue[i])
    BY DEF KeptFresh, Kept, Window!Covers, Window!Here, windowVars
  <2>5. OuterWrite(queue[i])' <=> OuterWrite(queue[i])
    BY <2>1 DEF OuterWrite, Window!Unchanged, Window!Into, windowVars
  <2>. QED
    BY <2>1, <2>2, <2>3, <2>4, <2>5
<1>4. UNCHANGED <<handles, mem, dirty, queue, folders, replacing, agreed, used>>
  BY DEF windowVars
<1>5. KeptSaved' /\ KeptLast' /\ KeptAnew' /\ Consented'
  BY <1>2, <1>4 DEF WindowInv, KeptDocuments, KeptSaved, KeptLast, KeptAnew, Consented, Kept
<1>6. KeptDocuments'
  BY <1>3, <1>4, <1>5 DEF WindowInv, KeptDocuments
<1>7. OuterDocuments'
  BY <1>3, <1>4 DEF WindowInv, OuterDocuments
<1>. QED
  BY <1>1, <1>6, <1>7 DEF WindowInv

\* What a step may never do to the edits of a window.
LEMMA StepKeepsEdits ==
  ASSUME WindowInv, Window!Next
  PROVE  \A e \in (mem \ mem') \ Window!Revisions : e \in folders'[Window!folder] \/ e \in agreed
<1>0. TruthInv /\ WindowTypes /\ KeptDocuments
  BY DEF WindowInv, TruthInv
<1>1. CASE Window!Land
  <2>1. Kept(mem, mem')
    BY <1>0, <1>1, LandKept DEF TruthInv
  <2>. QED
    BY <2>1 DEF Kept
<1>2. CASE Window!Apply
  <2>1. Kept(mem, folders[Window!folder])
    BY <1>0, <1>2, ApplyKept DEF TruthInv
  <2>2. folders' = folders
    BY <1>2 DEF Window!Apply
  <2>. QED
    BY <2>1, <2>2 DEF Kept
<1>3. CASE mem \subseteq mem'
  BY <1>3
<1>4. \/ Window!Land \/ Window!Apply \/ mem \subseteq mem'
  BY DEF Window!Next, Window!Run, Window!AutoSave, Window!Fail, Window!Edit,
     Window!SaveProject, Window!Outside, Window!WriteShared, Window!RequestReplacement,
     Window!CancelReplacement, Window!DiscardAndContinue, Window!SaveAndContinue,
     Window!Drained, Window!AskAgain, Window!OpenFails
<1>. QED
  BY <1>1, <1>2, <1>3, <1>4

LEMMA StepKeepsOutside ==
  ASSUME WindowInv, Window!Next
  PROVE  \A p \in Projects, n \in 1..MaxOutside :
           Window!Item("outside", n) \in folders[p] => Window!Item("outside", n) \in folders'[p]
<1>0. TruthInv /\ WindowTypes /\ QueueInOrder /\ KeptDocuments /\ OuterDocuments
  BY DEF WindowInv, TruthInv
<1>1. CASE Window!Land
  <2>1. Outer(queue[1].doc) = Outer(folders[Window!Into(queue[1])])
    BY <1>0, <1>1, LandOuter
  <2>2. \A p \in Projects :
          folders'[p] = IF p = Window!Into(queue[1]) THEN queue[1].doc ELSE folders[p]
    BY <1>0, <1>1, LandHandles
  <2>3. \A p \in Projects : Outer(folders'[p]) = Outer(folders[p])
    BY <2>1, <2>2
  <2>4. \A p \in Projects, n \in 1..MaxOutside :
          /\ n \in Outer(folders[p]) <=> Window!Item("outside", n) \in folders[p]
          /\ n \in Outer(folders'[p]) <=> Window!Item("outside", n) \in folders'[p]
    BY DEF Outer
  <2>. QED
    BY <2>3, <2>4
<1>2. CASE Window!Outside
  <2>1. \A p \in Projects :
          folders'[p] = IF p = Window!folder
                        THEN folders[p] \union {Window!Item("outside", used.outside + 1)}
                        ELSE folders[p]
    BY <1>0, <1>2, OutsideIsNew
  <2>. QED
    BY <2>1
<1>3. CASE folders' = folders
  BY <1>3
<1>4. Window!Land \/ Window!Outside \/ folders' = folders
  BY DEF Window!Next, Window!Run, Window!AutoSave, Window!Fail, Window!Edit,
     Window!SaveProject, Window!Apply, Window!WriteShared, Window!RequestReplacement,
     Window!CancelReplacement, Window!DiscardAndContinue, Window!SaveAndContinue,
     Window!Drained, Window!AskAgain, Window!OpenFails
<1>. QED
  BY <1>1, <1>2, <1>3, <1>4

LEMMA WindowInvariant ==
  ASSUME "recover" \notin WindowHabits
  PROVE  ProjectSpec => []WindowInv
<1>1. ProjectInit => WindowInv
  BY InitTruth, InitKept DEF ProjectInit, WindowInv
<1>2. WindowInv /\ [ProjectNext]_<<place, vars, windowVars, recordVars>> => WindowInv'
  <2> SUFFICES ASSUME WindowInv, [ProjectNext]_<<place, vars, windowVars, recordVars>>
               PROVE  WindowInv'
    OBVIOUS
  <2>1. CASE Window!Next
    BY <2>1, NextWindowInv
  <2>2. CASE UNCHANGED windowVars
    BY <2>2, StutterWindow
  <2>. QED
    BY <2>1, <2>2 DEF ProjectNext
<1>. QED
  BY <1>1, <1>2, PTL DEF ProjectSpec

\* An edit leaves the window only when it is in the file of the project it
\* leaves or its user gave it up, and no save replaces what another program
\* wrote: through any number of edits, saves, publications that run late,
\* failures and replacements, folders opened again included.
THEOREM WindowKeeps ==
  ASSUME "recover" \notin WindowHabits
  PROVE  ProjectSpec => WindowKeepsEdits
<1> DEFINE A == \A e \in (mem \ mem') \ Window!Revisions :
                   e \in folders'[Window!folder] \/ e \in agreed
           B == \A p \in Projects, n \in 1..MaxOutside :
                   Window!Item("outside", n) \in folders[p]
                     => Window!Item("outside", n) \in folders'[p]
<1>1. WindowInv /\ [ProjectNext]_<<place, vars, windowVars, recordVars>>
        => [A]_Window!vars /\ [B]_Window!vars
  <2> SUFFICES ASSUME WindowInv, [ProjectNext]_<<place, vars, windowVars, recordVars>>
               PROVE  [A]_Window!vars /\ [B]_Window!vars
    OBVIOUS
  <2>1. CASE Window!Next
    BY <2>1, StepKeepsEdits, StepKeepsOutside
  <2>2. CASE UNCHANGED windowVars
    BY <2>2 DEF windowVars, Window!vars
  <2>. QED
    BY <2>1, <2>2 DEF ProjectNext
<1>2. ProjectSpec => []WindowInv
  BY WindowInvariant
<1>3. ProjectSpec => [][A]_Window!vars /\ [][B]_Window!vars
  BY <1>1, <1>2, PTL DEF ProjectSpec
<1>. QED
  BY <1>3 DEF WindowKeepsEdits, Window!EditsNotLost, Window!OutsideStays

-----------------------------------------------------------------------------
(* The tabs of the project.                                                *)

\* Every step keeps the invariant but one in which a lost lock comes back
\* during the save of its handover.
LEMMA TabsSteps ==
  ASSUME TabsInv, [ProjectNext]_<<place, vars, windowVars, recordVars>>,
         "late" \notin Habits \/ ~returned'
  PROVE  TabsInv'
<1>1. CASE Next
  BY <1>1, TabsNext
<1>2. CASE UNCHANGED vars
  BY <1>2, TabsStay
<1>. QED
  BY <1>1, <1>2 DEF ProjectNext

LEMMA TabsInvariant ==
  ASSUME "late" \notin Habits
  PROVE  ProjectSpec => []TabsInv
<1>1. ProjectInit => TabsInv
  BY TabsBegin DEF ProjectInit
<1>2. TabsInv /\ [ProjectNext]_<<place, vars, windowVars, recordVars>> => TabsInv'
  BY TabsSteps
<1>. QED
  BY <1>1, <1>2, PTL DEF ProjectSpec

\* What happened stays known.
LEMMA ReturnedStays ==
  ASSUME returned, [ProjectNext]_<<place, vars, windowVars, recordVars>>
  PROVE  returned'
<1>1. CASE UNCHANGED vars
  BY <1>1 DEF vars
<1>2. CASE Grant
  BY <1>2 DEF Grant, bounds
<1>3. ASSUME NEW t \in Tabs, Runs(t)
      PROVE  returned'
  BY <1>3 DEF Runs, Notice, Receive, Yield, YieldTimeout, ReplyTimeout, AdoptRead,
              AdoptFails, AdoptAsks, AutoSave, RoleCheck, Enter, Land, WriteFails,
              Coordinate, bounds
<1>4. ASSUME NEW t \in Tabs, Uses(t)
      PROVE  returned'
  BY <1>4 DEF Uses, Open, Close, Edit, EditHere, Confirm, Cancel, bounds
<1>. QED
  BY <1>1, <1>2, <1>3, <1>4 DEF ProjectNext, Next

\* What the invariant says of tabs that know all that the lock manager decided.
LEMMA TabsTell ==
  ASSUME TabsInv
  PROVE  TabsTellTheTruth
  <1>1. ASSUME NEW t \in Tabs
        PROVE  /\ tab[t] \in TabStates /\ UpToDate(tab[t], inbox[t], disk, Alone(t))
               /\ Reported(tab[t], disk) /\ Growing(tab[t], disk)
    BY TabFacts DEF TabSound
  <1>2. TabsTypeOK
    <2>1. /\ holder \in Tabs \union {None} /\ waiting \in Seq(Tabs) /\ disk \subseteq Edits
      BY DEF TabsInv, TabTypes, Documents
    <2>2. \A i \in DOMAIN waiting : waiting[i] \in Tabs
      BY <2>1
    <2>3. ASSUME NEW t \in Tabs
          PROVE  /\ tab[t].life \in {"away", "read", "open"}
                 /\ tab[t].role \in {"acquiring", "editor", "secondary"}
                 /\ {tab[t].held, tab[t].yielding, tab[t].handedOver, tab[t].timer,
                     tab[t].flushFailed, tab[t].fresh, tab[t].consent, tab[t].switching,
                     tab[t].lost, tab[t].dirty, tab[t].armed} \subseteq BOOLEAN
                 /\ {tab[t].asking, tab[t].answering} \subseteq 0..MaxAsks
                 /\ tab[t].flush \in {"none", "writing", "done"}
                 /\ tab[t].adopting \in {"none", "reading", "read", "asking"}
                 /\ tab[t].confirm \in {"none", "requested", "editor-closed"}
                 /\ tab[t].doc \union tab[t].base \subseteq Edits
      <3>1. /\ tab[t].life \in Lives /\ tab[t].role \in TabRoles
            /\ tab[t].held \in Flags /\ tab[t].yielding \in Flags /\ tab[t].handedOver \in Flags
            /\ tab[t].timer \in Flags /\ tab[t].flushFailed \in Flags /\ tab[t].fresh \in Flags
            /\ tab[t].consent \in Flags /\ tab[t].switching \in Flags /\ tab[t].lost \in Flags
            /\ tab[t].dirty \in Flags /\ tab[t].armed \in Flags
        BY <1>1 DEF TabStates
      <3>2. /\ tab[t].asking \in Asks /\ tab[t].answering \in Asks /\ tab[t].flush \in Flushes
            /\ tab[t].adopting \in Adoptions /\ tab[t].confirm \in Questions
            /\ tab[t].doc \in Documents /\ tab[t].base \in Documents
        BY <1>1 DEF TabStates
      <3>3. Questions = {"none", "requested", "editor-closed"}
        BY DEF Questions, Reasons
      <3> QED  BY <3>1, <3>2, <3>3 DEF Lives, TabRoles, Flags, Asks, Flushes, Adoptions, Documents
    <2> QED  BY <2>1, <2>2, <2>3 DEF TabsTypeOK
  <1>3. ReloadedBaseIsCurrent
    <2>1. ASSUME NEW t \in Tabs, IsEditor(t), tab[t].reloaded
          PROVE  tab[t].base = disk
      <3>1. ~Has(inbox[t], {"ended"})
        BY <2>1 DEF IsEditor, Has
      <3> QED  BY <1>1, <2>1, <3>1 DEF IsEditor, HoldsEditorLock, UpToDate
    <2> QED  BY <2>1 DEF ReloadedBaseIsCurrent
  <1>4. LostEditsReported
    BY <1>1 DEF Reported, LostEditsReported
  <1>5. ShownAsSavedIsSaved
    BY <1>1 DEF Growing, ShownAsSavedIsSaved
  <1> QED  BY <1>2, <1>3, <1>4, <1>5 DEF TabsTellTheTruth

\* While a tab that became editor by reloading holds the lock, nobody else
\* changes the file; a tab that lost the role with unsaved edits says so; and what
\* a tab shows as saved is in the file: for any number of tabs, whichever close,
\* crash, hand over, steal, decline, time out or go on typing, and in whatever
\* order the lock manager's answers, the channel's messages and the saves arrive,
\* up to the step, if any, in which a lost lock first comes back during the save
\* of its handover.
THEOREM TabsTruth == ProjectSpec => [](returned \/ TabsTellTheTruth)
<1> DEFINE I == returned \/ TabsInv
<1>1. ProjectInit => I
  BY TabsBegin DEF ProjectInit
<1>2. I /\ [ProjectNext]_<<place, vars, windowVars, recordVars>> => I'
  <2> SUFFICES ASSUME I, [ProjectNext]_<<place, vars, windowVars, recordVars>>
               PROVE  I'
    OBVIOUS
  <2>1. returned => returned'
    BY ReturnedStays
  <2>. QED
    BY <2>1, TabsSteps
<1>3. I => returned \/ TabsTellTheTruth
  BY TabsTell
<1>. QED
  BY <1>1, <1>2, <1>3, PTL DEF ProjectSpec

\* No edit is lost between tabs or within a window without the user's consent:
\* a tab takes the role only over edits its user agreed to lose or that are in
\* what it read, no tab's save takes back what another saved, and a window keeps
\* its edits as WindowKeeps says.
THEOREM EditsStay ==
  ASSUME "late" \notin Habits, "recover" \notin WindowHabits
  PROVE  ProjectSpec => EditsKept
<1> DEFINE A == \A t \in Tabs :
                   (tab[t].adopting = "asking" /\ tab[t].role # "editor"
                      /\ tab'[t].role = "editor")
                     => (tab[t].doc \ tab'[t].doc) \subseteq tab[t].agreed
           B == disk \subseteq disk'
<1>1. TabsInv /\ [ProjectNext]_<<place, vars, windowVars, recordVars>>
        => [A]_vars /\ [B]_vars
  <2> SUFFICES ASSUME TabsInv, [ProjectNext]_<<place, vars, windowVars, recordVars>>
               PROVE  [A]_vars /\ [B]_vars
    OBVIOUS
  <2>1. CASE Next
    <3>1. A
      BY <2>1, NextTakes DEF Takes
    <3>2. B
      BY <2>1, FileGrows
    <3>. QED
      BY <3>1, <3>2
  <2>2. CASE UNCHANGED vars
    BY <2>2
  <2>. QED
    BY <2>1, <2>2 DEF ProjectNext
<1>2. ProjectSpec => []TabsInv
  BY TabsInvariant
<1>3. ProjectSpec => [][A]_vars /\ [][B]_vars
  BY <1>1, <1>2, PTL DEF ProjectSpec
<1>4. ProjectSpec => HandoverKeepsEdits
  BY <1>3 DEF HandoverKeepsEdits, ConsentCoversEdits, SavedEditsStay
<1>5. ProjectSpec => WindowKeepsEdits
  BY WindowKeeps
<1>. QED
  BY <1>4, <1>5 DEF EditsKept
=============================================================================
