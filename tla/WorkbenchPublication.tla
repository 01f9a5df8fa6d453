------------------------ MODULE WorkbenchPublication ------------------------
(***************************************************************************)
(* Saving a local request to the shared project                            *)
(* (app/workbench/personal-workbench-controller.ts, publishRecord and what *)
(* it shares with ordinary edits; packages/core/src/workbench-publication) *)
(*                                                                         *)
(* A scratch S, a local child C that branched from it and the personal     *)
(* selections SEL are records of one window, each with a copy on disk.  A  *)
(* Save records its intent in S, writes the shared project, moves C under  *)
(* the published revision, moves the selection, and only then clears S.    *)
(* The user goes on editing meanwhile; disk writes take a debounce, a      *)
(* queue and may fail; the window may die between any two steps, and the   *)
(* next one settles what it finds.                                         *)
(***************************************************************************)
EXTENDS Naturals, Sequences, FiniteSets

CONSTANTS
    Contents,        \* what a request may hold
    None,            \* no record
    MaxSaves,        \* bound: Saves started
    MaxEdits,        \* bound: edits, branches, discards and selections
    MaxFailures,     \* bound: store operations that fail
    MaxTrouble       \* bound: those and windows that die, together

ASSUME PublicationAssumption ==
    /\ Contents # {} /\ 0 \notin Contents /\ Contents \subseteq Nat
    /\ {MaxSaves, MaxEdits, MaxFailures, MaxTrouble} \subseteq Nat

VARIABLES
    status,      \* "closed", "loading", "settled" once settlement began, "ready"
    records,     \* the controller's records, by path
    dirty,       \* paths whose record differs from what was last written
    deletions,   \* paths whose file is to be deleted
    timers,      \* paths with a debounced write pending
    queue,       \* the store's queue; its head is with the host
    landed,      \* the head's bytes have changed
    blocked,     \* paths the store refuses to write
    disk,        \* the files
    shared,      \* content of each published revision, 0 before
    outdated,    \* the window's copy of the document is not what it holds
    step,        \* of the Save or settlement under way
    settling,    \* it is a settlement, at open or by Retry
    keep,        \* completePublication's record, or None
    review,      \* recovery items: a failed write, children not moved
    latest,      \* ghost: what the user last typed into S and C, 0 for none
    beside,      \* ghost: that was typed into S beside the cleanup of its Save
    standing,    \* ghost: the content S was published with and still has, 0
                 \* for none, and whether its user was told that it failed
    calm,        \* ghost: nothing discarded, no failed step tried again, and S
                 \* not selected while its selection is moved
    saves, edits, failures, crashes

vars == <<status, records, dirty, deletions, timers, queue, landed, blocked,
          disk, shared, outdated, step, settling, keep, review, latest,
          beside, standing, calm, saves, edits, failures, crashes>>

memory == <<records, dirty, deletions, timers>>
store  == <<queue, landed, blocked>>
bounds == <<saves, edits, failures, crashes>>

Paths      == {"S", "C", "SEL"}
NoIntent   == [rev |-> 0, content |-> 0]
Scratch(c, intent) == [content |-> c, intent |-> intent]
Child(c, parent)   == [content |-> c, parent |-> parent]

Intents    == [rev : 0..MaxSaves, content : Contents \union {0}]
Scratches  == [content : Contents, intent : Intents]
Children   == [content : Contents, parent : {"S", "base", "published"}]
Selections == {"S", "C", "base", "published"}
Steps      == {"idle", "intent", "shared", "undo", "children", "selection",
               "final"}
Operations == [path : {"S"}, value : Scratches \union {None}, awaited : BOOLEAN]
    \union [path : {"C"}, value : Children \union {None}, awaited : BOOLEAN]
    \union [path : {"SEL"}, value : Selections, awaited : BOOLEAN]

ASSUME NoneAssumption == None \notin Scratches \union Children \union Selections

\* S is in the controller's `publishing` set.
Publishing == step # "idle" /\ ~settling

\* What is typed into S now is not in the cleanup's plan, which is made.
Planned == step \in {"children", "selection"}

Standings   == [content : Contents \union {0}, denied : BOOLEAN]
Unpublished == [content |-> 0, denied |-> FALSE]

-----------------------------------------------------------------------------
\* A request was branched and written, and is selected or not.
Init ==
    /\ status = "ready"
    /\ \E c \in Contents, s \in {"S", "base"} :
         /\ records = [S |-> Scratch(c, NoIntent), C |-> None, SEL |-> s]
         /\ disk = records
         /\ latest = [S |-> c, C |-> 0]
    /\ dirty = {} /\ deletions = {} /\ timers = {} /\ blocked = {}
    /\ queue = <<>>
    /\ landed = FALSE
    /\ shared = [r \in 1..MaxSaves |-> 0]
    /\ step = "idle"
    /\ settling = FALSE
    /\ keep = None
    /\ review = {}
    /\ outdated = FALSE
    /\ beside = FALSE /\ standing = Unpublished /\ calm = TRUE
    /\ saves = 0 /\ edits = 0 /\ failures = 0 /\ crashes = 0

-----------------------------------------------------------------------------
(* What every operation does to the window's memory.                       *)

\* schedule: the paths in ps take new records, written after the debounce.
Schedule(new, ps) ==
    /\ records' = new
    /\ dirty' = dirty \union ps
    /\ timers' = timers \union ps
    /\ UNCHANGED deletions

\* persist: freeze what memory holds and queue it; TRUE when it is queued.
Queued(p, mem, dirt, dels) ==
    \/ mem[p] # None /\ p \in dirt
    \/ mem[p] = None /\ p \in dels

Op(p, mem, awaited) == [path |-> p, value |-> mem[p], awaited |-> awaited]

\* Memory becomes mem with dirt and dels, and path p is persisted for a step
\* that awaits it.
Persist(p, mem, dirt, dels) ==
    /\ records' = mem
    /\ dirty' = dirt \ {p}
    /\ deletions' = dels \ {p}
    /\ queue' = Append(queue, Op(p, mem, TRUE))

Fails == failures < MaxFailures /\ crashes + failures < MaxTrouble

Edit == edits < MaxEdits /\ edits' = edits + 1

-----------------------------------------------------------------------------
(* The user.                                                               *)

\* updateChatScratch: the intent of a Save under way stays in the record.
EditS(c) ==
    /\ status = "ready" /\ Edit
    /\ records["S"] # None
    /\ c # records["S"].content
    /\ Schedule([records EXCEPT !["S"].content = c], {"S"})
    /\ latest' = [latest EXCEPT !["S"] = c]
    /\ beside' = Planned
    /\ standing' = Unpublished
    /\ UNCHANGED <<status, store, disk, shared, outdated, step, settling, keep,
                   review, saves, failures, crashes, calm>>

EditC(c) ==
    /\ status = "ready" /\ Edit
    /\ records["C"] # None
    /\ c # records["C"].content
    /\ Schedule([records EXCEPT !["C"].content = c], {"C"})
    /\ latest' = [latest EXCEPT !["C"] = c]
    /\ UNCHANGED <<status, store, disk, shared, step, settling, keep, review,
                   beside, standing, outdated, saves, failures, crashes, calm>>

\* createChatScratch: a branch of S, selected; refused while S is saved.
\* Scratch IDs are never reused: C is made once.
Branch(c) ==
    /\ status = "ready" /\ ~Publishing /\ Edit
    /\ records["S"] # None
    /\ records["C"] = None /\ latest["C"] = 0 /\ disk["C"] = None
    /\ Schedule([records EXCEPT !["C"] = Child(c, "S"), !["SEL"] = "C"],
                {"C", "SEL"})
    /\ latest' = [latest EXCEPT !["C"] = c]
    /\ UNCHANGED <<status, store, disk, shared, step, settling, keep, review,
                   beside, standing, outdated, saves, failures, crashes, calm>>

\* selectChat, from the request menu.
Select(s) ==
    /\ status = "ready" /\ Edit
    /\ s \in {"S", "C", "base"} \ {records["SEL"]}
    /\ s # "base" => records[s] # None
    /\ Schedule([records EXCEPT !["SEL"] = s], {"SEL"})
    /\ calm' = (calm /\ ~ (step = "selection" /\ s = "S"))
    /\ UNCHANGED <<status, store, disk, shared, outdated, step, settling, keep,
                   review, latest, beside, standing, saves, failures, crashes>>

Reparented(mem, parent) ==
    IF mem["C"] # None /\ mem["C"].parent = "S"
    THEN [mem EXCEPT !["C"].parent = parent] ELSE mem

\* discardScratch: a child moves to the parent's parent after the debounce,
\* the request's file is deleted at once.
DiscardS ==
    /\ status = "ready" /\ ~Publishing /\ Edit
    /\ records["S"] # None
    /\ LET moved  == Reparented(records, "base")
           chosen == [moved EXCEPT !["S"] = None,
                        !["SEL"] = IF @ = "S" THEN "base" ELSE @]
           changed == {p \in {"C", "SEL"} : chosen[p] # records[p]}
       IN /\ records' = chosen
          /\ dirty' = (dirty \union changed) \ {"S"}
          /\ timers' = (timers \ {"S"}) \union changed
          /\ UNCHANGED deletions
          /\ queue' = Append(queue, Op("S", chosen, FALSE))
    /\ latest' = [latest EXCEPT !["S"] = 0]
    /\ calm' = FALSE
    /\ UNCHANGED <<status, landed, blocked, disk, shared, step, settling, keep,
                   review, beside, standing, outdated, saves, failures,
                   crashes>>

DiscardC ==
    /\ status = "ready" /\ Edit
    /\ records["C"] # None
    /\ LET chosen == [records EXCEPT !["C"] = None,
                        !["SEL"] = IF @ = "C" THEN records["C"].parent ELSE @]
           changed == {p \in {"SEL"} : chosen[p] # records[p]}
       IN /\ records' = chosen
          /\ dirty' = (dirty \union changed) \ {"C"}
          /\ timers' = (timers \ {"C"}) \union changed
          /\ UNCHANGED deletions
          /\ queue' = Append(queue, Op("C", chosen, FALSE))
    /\ latest' = [latest EXCEPT !["C"] = 0]
    /\ calm' = FALSE
    /\ UNCHANGED <<status, landed, blocked, disk, shared, step, settling, keep,
                   review, beside, standing, outdated, saves, failures,
                   crashes>>

-----------------------------------------------------------------------------
(* The store.                                                              *)

\* A debounced write fires; persist finds something to write or nothing.
Fire(p) ==
    /\ status = "ready"
    /\ p \in timers
    /\ timers' = timers \ {p}
    /\ IF Queued(p, records, dirty, deletions)
       THEN queue' = Append(queue, Op(p, records, FALSE))
       ELSE UNCHANGED queue
    /\ dirty' = IF records[p] # None THEN dirty \ {p} ELSE dirty
    /\ deletions' = IF records[p] = None THEN deletions \ {p} ELSE deletions
    /\ UNCHANGED <<status, records, landed, blocked, disk, shared, step,
                   settling, keep, review, latest, beside, standing, outdated,
                   bounds, calm>>

\* The host changes the file of the operation at the front.
Land ==
    /\ queue # <<>> /\ ~landed
    /\ Head(queue).path \notin blocked
    /\ landed' = TRUE
    /\ disk' = [disk EXCEPT ![Head(queue).path] = Head(queue).value]
    /\ UNCHANGED <<status, memory, queue, blocked, shared, step, settling,
                   keep, review, latest, beside, standing, outdated, bounds,
                   calm>>

-----------------------------------------------------------------------------
(* The steps of a Save, each at the answer to the one before.              *)

ClearIntent(mem) == [mem EXCEPT !["S"].intent = NoIntent]

\* Step 1: the intent is in the record and on its way to disk.
Save ==
    /\ status = "ready" /\ step = "idle"
    /\ saves < MaxSaves
    /\ saves' = saves + 1
    /\ records["S"] # None
    /\ records["S"].intent = NoIntent
    /\ LET intent == [rev |-> saves + 1, content |-> records["S"].content]
           mem    == [records EXCEPT !["S"].intent = intent]
       IN Persist("S", mem, dirty \union {"S"}, deletions)
    /\ step' = "intent"
    /\ UNCHANGED <<status, timers, landed, blocked, disk, shared, settling,
                   keep, review, latest, beside, standing, outdated, edits,
                   failures, crashes, calm>>

\* The intent is on disk, or the Save is given up without one.
IntentWritten(ok) ==
    /\ step = "intent"
    /\ step' = IF ok THEN "shared" ELSE "idle"
    /\ records' = IF ok THEN records ELSE ClearIntent(records)
    /\ dirty' = IF ok THEN dirty ELSE dirty \union {"S"}
    /\ queue' = Tail(queue)
    /\ UNCHANGED <<deletions, timers, settling, keep>>

\* Step 2: the shared write lands, with the content frozen in the plan.
SharedLands ==
    /\ status = "ready" /\ step = "shared"
    /\ LET intent == records["S"].intent IN
         /\ shared[intent.rev] = 0
         /\ shared' = [shared EXCEPT ![intent.rev] = intent.content]
         /\ standing' = IF records["S"].content = intent.content
                        THEN [content |-> intent.content, denied |-> FALSE]
                        ELSE Unpublished
    /\ ~ outdated
    /\ UNCHANGED <<status, memory, store, disk, beside, outdated, step,
                   settling, keep, review, latest, bounds, calm>>

\* It is refused or fails, and the intent is dropped from the record, which is
\* written again.  It may fail after the document changed: the host throws when
\* it has written, or the project was replaced meanwhile (writeShared in
\* use-project-workspace.client.ts).  Until it is reopened, the window then
\* compares the document with an older copy, and writes it no more.
SharedRefused ==
    /\ status = "ready" /\ step = "shared"
    /\ Persist("S", ClearIntent(records), dirty \union {"S"}, deletions)
    /\ step' = "undo"
    /\ outdated' = (outdated \/ shared[records["S"].intent.rev] # 0)
    /\ standing' = [standing EXCEPT !.denied = standing.content # 0]
    /\ UNCHANGED <<status, timers, landed, blocked, disk, shared, settling,
                   keep, review, latest, bounds, beside, calm>>

UndoWritten(ok) ==
    /\ step = "undo"
    /\ step' = "idle"
    /\ dirty' = IF ok THEN dirty ELSE dirty \union {"S"}
    /\ queue' = Tail(queue)
    /\ UNCHANGED <<records, deletions, timers, settling, keep>>

\* Mutant: the record is dropped whatever was typed meanwhile.
Kept_never(s) == None

\* completePublication's record: edits made since the intent, now based on
\* the published revision; None when there are none.
Kept(s) == IF s.content = s.intent.content THEN None
           ELSE Scratch(s.content, NoIntent)

\* flush: everything dirty or deleted is written, one after the other.
Flush == timers' = timers \union dirty' \union deletions'

\* Step 3 ends: the record is replaced, or dropped and its file deleted.  A
\* settlement leaves the write to the flush that follows it.
Finish(settles, mem, dirt, q, k) ==
    LET done == [mem EXCEPT !["S"] = k] IN
    /\ records' = done
    /\ settling' = FALSE
    /\ IF settles
       THEN /\ dirty' = IF k = None THEN dirt \ {"S"} ELSE dirt \union {"S"}
            /\ deletions' = deletions \union (IF k = None THEN {"S"} ELSE {})
            /\ queue' = q
            /\ step' = "idle"
            /\ keep' = None
            /\ Flush
       ELSE /\ dirty' = dirt \ {"S"}
            /\ timers' = timers \ {"S"}
            /\ queue' = Append(q, Op("S", done, TRUE))
            /\ step' = "final"
            /\ keep' = k
            /\ UNCHANGED deletions

\* persistPublishedSelection, for a record that will go: a selection of it
\* becomes one of its revision.  persist answers at once when the selection
\* is not dirty.
MoveSelection(settles, mem, dirt, q) ==
    LET moves  == mem["SEL"] = "S"
        chosen == IF moves THEN [mem EXCEPT !["SEL"] = "published"] ELSE mem
    IN IF moves \/ "SEL" \in dirt
       THEN /\ records' = chosen
            /\ dirty' = dirt \ {"SEL"}
            /\ timers' = timers \ {"SEL"}
            /\ queue' = Append(q, Op("SEL", chosen, TRUE))
            /\ step' = "selection"
            /\ settling' = settles
            /\ keep' = None
            /\ UNCHANGED deletions
       ELSE Finish(settles, chosen, dirt, q, None)

AfterChildren(settles, mem, dirt, q, k) ==
    IF k = None THEN MoveSelection(settles, mem, dirt, q)
                ELSE Finish(settles, mem, dirt, q, k)

\* Step 3 begins: plan the cleanup, move C under the revision and await it.
Complete(settles) ==
    LET k == Kept(records["S"]) IN
    IF records["C"] # None /\ records["C"].parent = "S"
    THEN LET moved == Reparented(records, "published") IN
         /\ records' = moved
         /\ dirty' = dirty \ {"C"}
         /\ timers' = timers \ {"C"}
         /\ queue' = Append(queue, Op("C", moved, TRUE))
         /\ step' = "children"
         /\ settling' = settles
         /\ keep' = k
         /\ UNCHANGED deletions
    ELSE AfterChildren(settles, records, dirty, queue, k)

SharedConfirmed ==
    /\ status = "ready" /\ step = "shared"
    /\ shared[records["S"].intent.rev] # 0
    /\ Complete(FALSE)
    /\ UNCHANGED <<status, landed, blocked, disk, shared, review, latest,
                   beside, standing, outdated, bounds, calm>>

\* The step under way gives up; the intent stays in S.
GiveUp(p) ==
    /\ step' = "idle"
    /\ settling' = FALSE
    /\ keep' = None
    /\ dirty' = dirty \union {p}
    /\ queue' = Tail(queue)
    /\ UNCHANGED <<records, deletions>>
    /\ IF settling THEN Flush ELSE UNCHANGED timers

\* Mutant: a child that could not be moved is not noticed.
ChildWritten_unchecked(ok) ==
    /\ step = "children"
    /\ AfterChildren(settling, records, dirty, Tail(queue), keep)

\* Mutant: a failed child leaves the Save under way.
ChildWritten_hangs(ok) ==
    /\ step = "children"
    /\ IF ok THEN AfterChildren(settling, records, dirty, Tail(queue), keep)
             ELSE /\ queue' = Tail(queue)
                  /\ UNCHANGED <<records, dirty, deletions, timers, step,
                                 settling, keep>>

ChildWritten(ok) ==
    /\ step = "children"
    /\ IF ok THEN AfterChildren(settling, records, dirty, Tail(queue), keep)
             ELSE GiveUp("C")

SelectionWritten(ok) ==
    /\ step = "selection"
    /\ IF ok THEN Finish(settling, records, dirty, Tail(queue), None)
             ELSE GiveUp("SEL")

\* The last write is answered; selectAfterPublication follows.
FinalWritten(ok) ==
    /\ step = "final"
    /\ step' = "idle"
    /\ keep' = None
    /\ LET moves == keep = None /\ records["SEL"] = "S" IN
         /\ records' = IF moves THEN [records EXCEPT !["SEL"] = "published"]
                       ELSE records
         /\ dirty' = dirty \union (IF moves THEN {"SEL"} ELSE {})
                           \union (IF ok \/ keep = None THEN {} ELSE {"S"})
         /\ timers' = timers \union (IF moves THEN {"SEL"} ELSE {})
    /\ queue' = Tail(queue)
    /\ UNCHANGED <<deletions, settling>>

\* An operation nobody awaits is answered: a failed record stays dirty.
Unawaited(ok) ==
    /\ dirty' = IF ok \/ Head(queue).value = None THEN dirty
                ELSE dirty \union {Head(queue).path}
    /\ queue' = Tail(queue)
    /\ UNCHANGED <<records, deletions, timers, step, settling, keep>>

\* The store answers its front operation.  One that fails blocks its path,
\* whether or not the bytes changed, and the user is told.
Answer(ok) ==
    /\ queue # <<>>
    /\ landed' = FALSE
    /\ IF ok
       THEN /\ landed
            /\ UNCHANGED <<blocked, review, failures>>
       ELSE /\ Head(queue).path \in blocked \/ Fails
            /\ failures' = IF Head(queue).path \in blocked THEN failures
                           ELSE failures + 1
            /\ blocked' = blocked \union {Head(queue).path}
            /\ review' = review \union {"write"}
                           \union (IF step = "children" /\ Head(queue).awaited
                                   THEN {"children"} ELSE {})
    /\ IF Head(queue).awaited
       THEN \/ IntentWritten(ok) \/ UndoWritten(ok) \/ ChildWritten(ok)
            \/ SelectionWritten(ok) \/ FinalWritten(ok)
       ELSE Unawaited(ok)
    /\ UNCHANGED <<status, disk, shared, latest, beside, standing, outdated,
                   saves, edits, crashes, calm>>

-----------------------------------------------------------------------------
(* Failure and recovery.                                                   *)

\* The window dies: what memory held is gone, what is on disk stays.
Crash ==
    /\ status # "closed"
    /\ crashes + failures < MaxTrouble
    /\ crashes' = crashes + 1
    /\ status' = "closed"
    /\ records' = [p \in Paths |-> None]
    /\ dirty' = {} /\ deletions' = {} /\ timers' = {} /\ blocked' = {}
    /\ queue' = <<>> /\ landed' = FALSE
    /\ step' = "idle" /\ settling' = FALSE /\ keep' = None
    /\ review' = {}
    /\ latest' = [p \in {"S", "C"} |->
                    IF disk[p] = None THEN 0 ELSE disk[p].content]
    /\ beside' = FALSE
    /\ outdated' = FALSE
    /\ standing' = IF disk["S"] # None /\ disk["S"].content = standing.content
                   THEN standing ELSE Unpublished
    /\ UNCHANGED <<disk, shared, saves, edits, failures, calm>>

\* open, up to the settlement of an interrupted Save.
Open ==
    /\ status = "closed"
    /\ status' = "loading"
    /\ records' = disk
    /\ UNCHANGED <<dirty, deletions, timers, store, disk, shared, step,
                   settling, keep, review, latest, beside, standing, outdated,
                   bounds, calm>>

\* Mutant: an interrupted Save is forgotten, whether or not it landed.
Settle_forgets ==
    /\ records' = ClearIntent(records)
    /\ dirty' = dirty \union {"S"}
    /\ UNCHANGED <<deletions, queue, step, settling, keep>>
    /\ Flush

\* settlePublications, for S: an intent whose revision is in the document is
\* completed, one whose revision never landed is dropped.
Settle ==
    IF shared[records["S"].intent.rev] = 0
    THEN /\ records' = ClearIntent(records)
         /\ dirty' = dirty \union {"S"}
         /\ UNCHANGED <<deletions, queue, step, settling, keep>>
         /\ Flush
    ELSE Complete(TRUE)

HasIntent == records["S"] # None /\ records["S"].intent # NoIntent

SettleAtOpen ==
    /\ status = "loading"
    /\ status' = "settled"
    /\ IF HasIntent THEN Settle
       ELSE UNCHANGED <<memory, queue, step, settling, keep>>
    /\ UNCHANGED <<landed, blocked, disk, shared, review, latest, beside,
                   standing, outdated, bounds, calm>>

Ready ==
    /\ status = "settled" /\ step = "idle"
    /\ status' = "ready"
    /\ UNCHANGED <<memory, store, disk, shared, step, settling, keep, review,
                   latest, beside, standing, outdated, bounds, calm>>

\* retryRecovery of children that could not be moved.
RetrySettle ==
    /\ status = "ready" /\ step = "idle"
    /\ "children" \in review
    /\ review' = review \ {"children"}
    /\ IF HasIntent THEN Settle
       ELSE UNCHANGED <<memory, queue, step, settling, keep>>
    /\ calm' = FALSE
    /\ UNCHANGED <<status, landed, blocked, disk, shared, latest, beside,
                   standing, outdated, bounds>>

\* retryRecovery of a failed write: the file is read again, and written when
\* it is not what memory holds.
RetryWrite(p) ==
    /\ status = "ready" /\ queue = <<>>
    /\ p \in blocked
    /\ blocked' = blocked \ {p}
    /\ review' = IF blocked = {p} THEN review \ {"write"} ELSE review
    /\ dirty' = dirty \ {p}
    /\ timers' = timers \ {p}
    /\ queue' = IF disk[p] = records[p] THEN queue
                ELSE <<Op(p, records, FALSE)>>
    /\ calm' = FALSE
    /\ UNCHANGED <<status, records, deletions, landed, disk, shared, step,
                   settling, keep, latest, beside, standing, outdated, bounds>>

User ==
    \/ \E c \in Contents : EditS(c) \/ EditC(c) \/ Branch(c)
    \/ \E s \in Selections : Select(s)
    \/ DiscardS \/ DiscardC
    \/ Save
    \/ RetrySettle
    \/ \E p \in Paths : RetryWrite(p)

Next ==
    \/ User
    \/ \E p \in Paths : Fire(p)
    \/ Land
    \/ \E ok \in BOOLEAN : Answer(ok)
    \/ SharedLands \/ SharedRefused \/ SharedConfirmed
    \/ Crash \/ Open \/ SettleAtOpen \/ Ready

\* A window that lives runs on: its timers fire, the hosts answer.
Fairness ==
    WF_vars(\/ \E p \in Paths : Fire(p)
            \/ Land \/ \E ok \in BOOLEAN : Answer(ok)
            \/ SharedLands \/ SharedRefused \/ SharedConfirmed
            \/ SettleAtOpen \/ Ready)

Spec == Init /\ [][Next]_vars /\ Fairness

-----------------------------------------------------------------------------
RecordsTypeOK ==
    /\ DOMAIN records = Paths /\ DOMAIN disk = Paths
    /\ records["S"] \in Scratches \union {None}
    /\ records["C"] \in Children \union {None}
    /\ records["SEL"] \in Selections \union {None}
    /\ disk["S"] \in Scratches \union {None}
    /\ disk["C"] \in Children \union {None}
    /\ disk["SEL"] \in Selections

StoreTypeOK ==
    /\ dirty \subseteq Paths /\ deletions \subseteq Paths
    /\ timers \subseteq Paths /\ blocked \subseteq Paths
    /\ queue \in Seq(Operations)
    /\ landed \in BOOLEAN

SaveTypeOK ==
    /\ shared \in [1..MaxSaves -> Contents \union {0}]
    /\ step \in Steps
    /\ settling \in BOOLEAN
    /\ keep \in Scratches \union {None}
    /\ {saves, edits, failures, crashes} \subseteq Nat

WindowTypeOK ==
    /\ status \in {"closed", "loading", "settled", "ready"}
    /\ review \subseteq {"write", "children"}
    /\ latest \in [{"S", "C"} -> Contents \union {0}] /\ beside \in BOOLEAN
    /\ outdated \in BOOLEAN
    /\ standing \in Standings /\ calm \in BOOLEAN

\* Every variable has its type.
PublicationTypeOK == RecordsTypeOK /\ StoreTypeOK /\ SaveTypeOK /\ WindowTypeOK

\* A local request on disk never names a parent that is not there: whenever
\* the window dies, the child can still be saved under an ancestor
\* (workbench-publication.ts, completePublication: "Persist and read back ALL
\* rewrites before settling the publishing record").
ChildKeepsParent ==
    (disk["C"] # None /\ disk["C"].parent = "S") => disk["S"] # None

\* The selection on disk never names a published request that is gone
\* (persistPublishedSelection: "so reopening cannot fall back to the launch
\* default between cleanup and selection save"), as long as no write has failed.
SelectionKeepsRecord ==
    failures = 0 /\ disk["SEL"] = "S" => disk["S"] # None

Safe(p) ==
    \/ latest[p] = 0
    \/ records[p] # None /\ records[p].content = latest[p]
    \/ p = "S" /\ \E r \in 1..MaxSaves : shared[r] = latest[p]

Rests == status = "ready" /\ step = "idle"

\* What the user typed last is still in the request, or is published: edits
\* made while a Save runs belong to the next one
\* (docs/SHARED_ASSETS_LEVEL_TWO_DESIGN.md, step 3), except those typed into
\* the request while its child and the selection are moved.
NoLostEdit == Rests => \A p \in {"S", "C"} : Safe(p) \/ (p = "S" /\ beside)


\* A Save that was interrupted is settled by the time the window is ready, or
\* the user is told: no request silently refuses to be saved again.
SettledOrReported ==
    Rests /\ HasIntent => review # {}

\* The records on disk always lead the next window to a parent, a selection and
\* an end of the Save that was interrupted.
RecordsLeadOn ==
    /\ PublicationTypeOK
    /\ calm => ChildKeepsParent /\ SelectionKeepsRecord /\ SettledOrReported

\* A revision reaches the shared document only while the request's file names
\* it, so that whoever opens the folder next knows whose work it is.
IntentBeforeRevision ==
    [][\A r \in 1..MaxSaves :
         shared[r] = 0 /\ shared'[r] # 0 =>
             disk["S"] # None /\ disk["S"].intent.rev = r]_vars

\* A request that was published and not edited since is never published
\* again, however its Save was interrupted, unless its user was told that the
\* Save had failed.
NeverSavedTwice ==
    [][(step = "idle" /\ step' = "intent") =>
         standing.content = 0 \/ standing.denied]_vars

\* One Save publishes one revision, under an intent that is on disk.
PublishedOnce == IntentBeforeRevision /\ NeverSavedTwice

\* A Save under way, or a window that settles what it found when it opened.
Waits == step # "idle" \/ status \in {"loading", "settled"}

\* Nothing a Save or an opening window waits for is left waiting: the Save ends
\* and the window becomes ready.
PublicationEnds == Waits ~> ~ Waits
=============================================================================
