----------------------------- MODULE ProjectTabs -----------------------------
(***************************************************************************)
(* One editor per project across browser tabs                              *)
(* (app/project-tab-coordination.client.ts and the tab part of             *)
(* app/use-project-workspace.client.ts and project-workspace.client.ts).   *)
(*                                                                         *)
(* The browser's lock manager names the tab that may write project.json, a *)
(* broadcast channel carries the handover, and every tab learns of both    *)
(* late: what the lock manager decided (`holder`) and what a tab believes  *)
(* (`tab[t].held`) are separate state.  A document is the set of edits it  *)
(* holds; a save replaces the file's set by the tab's, inside the project's *)
(* write scope, after it asked the lock manager and compared the file with *)
(* what the tab last read.                                                 *)
(***************************************************************************)
EXTENDS Naturals, Sequences, FiniteSets

CONSTANTS
    Tabs,
    None,
    MaxEdits,        \* bound: edits, all tabs together
    MaxAsks,         \* bound: requests for the editor role
    MaxOpens,        \* bound: times a tab opens the project
    MaxFailures,     \* bound: reads and writes that fail
    Habits           \* what may happen: "type" while a handover is saved,
                     \* "stale": saves land between a tab's read and its
                     \* request for the lock, "cancel" a takeover, "late":
                     \* a lost lock returns during the save of its handover

ASSUME TabsAssumption ==
    /\ Tabs # {} /\ None \notin Tabs
    /\ {MaxEdits, MaxAsks, MaxOpens, MaxFailures} \subseteq Nat
    /\ Habits \subseteq {"type", "stale", "cancel", "late"}

Edits == 1..MaxEdits

\* The saves the write scope can hold; None is not one.
WriteScopes == [tab : Tabs, fenced : BOOLEAN, live : BOOLEAN, doc : SUBSET Edits,
                expected : SUBSET Edits]

ASSUME ScopeAssumption == None \notin WriteScopes

VARIABLES
    tab,         \* what each tab knows, see Away
    holder,      \* the lock manager: who holds the editor lock
    waiting,     \* the lock manager: who waits for it, in order
    inbox,       \* per tab: the lock manager's answers it has not seen
    mail,        \* per tab: channel messages it has not seen
    scope,       \* the write scope: None, or the save inside it
    disk,        \* the file's edits
    edits, asks, opens, failures,
    returned     \* ghost: a lost lock came back during the save of its handover

vars == <<tab, holder, waiting, inbox, mail, scope, disk, edits, asks, opens,
          failures, returned>>

locks  == <<holder, waiting>>
bounds == <<edits, asks, opens, failures, returned>>

\* A tab that has not opened the project.
Away == [life |-> "away",         \* "read" the file, then "open"
         role |-> "acquiring",
         held |-> FALSE,          \* releaseHeld is set
         yielding |-> FALSE, handedOver |-> FALSE,
         timer |-> FALSE,         \* yieldTimer
         asking |-> 0,            \* the request it waits to see answered
         answering |-> 0,         \* the request it flushes for
         flush |-> "none",        \* "writing", "done"
         flushFailed |-> FALSE,
         adopting |-> "none",     \* "reading", "read"
         why |-> "requested",     \* what a stale adoption asks to confirm
         read |-> {},             \* what the adoption read
         fresh |-> FALSE,         \* no edit since the adoption began
         consent |-> FALSE,       \* no edit since the takeover was confirmed
         confirm |-> "none",      \* the question on the screen
         switching |-> FALSE,
         lost |-> FALSE,          \* the "not saved" banner
         behind |-> FALSE,
         doc |-> {},              \* the document on the screen
         base |-> {},             \* what its handle last read or wrote
         dirty |-> FALSE,
         armed |-> FALSE,         \* the auto-save timer is set
         writes |-> <<>>,         \* its save queue
         reloaded |-> FALSE,      \* ghost: became editor by reloading
         agreed |-> {},           \* ghost: edits the user agreed to discard
         typed |-> {}]            \* ghost: edits made here as editor, those made
                                  \* while its handover was saved excepted

Write(kind, doc) == [kind |-> kind, doc |-> doc, fresh |-> TRUE, checked |-> FALSE]

Init ==
    /\ tab = [t \in Tabs |-> Away]
    /\ holder = None
    /\ waiting = <<>>
    /\ inbox = [t \in Tabs |-> <<>>]
    /\ mail = [t \in Tabs |-> <<>>]
    /\ scope = None
    /\ disk = {}
    /\ edits = 0 /\ asks = 0 /\ opens = 0 /\ failures = 0
    /\ returned = FALSE

Becomes(t, r) == tab' = [tab EXCEPT ![t] = r]

\* The queue s, in which every tab stands at most once, without t.
Without(s, t) ==
    IF t \in {s[i] : i \in DOMAIN s}
    THEN LET at == CHOOSE i \in DOMAIN s : s[i] = t
         IN  [i \in 1..(Len(s) - 1) |-> IF i < at THEN s[i] ELSE s[i + 1]]
    ELSE s

Tell(box, t, event) == [box EXCEPT ![t] = Append(@, event)]

\* The channel delivers to every other tab of the project.
Post(t, type, id) ==
    mail' = [u \in Tabs |->
               IF u # t /\ tab[u].life = "open"
               THEN Append(mail[u], [type |-> type, id |-> id]) ELSE mail[u]]

-----------------------------------------------------------------------------
(* What the events of the coordinator do to the project's state            *)
(* (coordinateTabs, onTabAcquired).                                        *)

\* A pending read of the folder belongs to one hold of the lock.
Superseded(r) == [r EXCEPT !.adopting = "none"]

Secondary(r, cause) ==
    [Superseded(r) EXCEPT
        !.role = "secondary",
        !.consent = FALSE,
        !.switching = FALSE,
        !.armed = FALSE,
        !.confirm = IF @ = "editor-closed" THEN "none" ELSE @,
        !.lost = \/ @
                 \/ (cause = "stolen" /\ r.dirty)
                 \/ (cause = "handed-over" /\ r.flushFailed)]

\* Mutant: edits made since the user agreed are covered too.
Covered_always(r, cause) == cause = "requested" \/ ~r.dirty

\* Whether the user agreed to what taking the role will discard.
Covered(r, cause) ==
    CASE cause = "vacated"   -> ~r.dirty
      [] cause = "requested" -> r.consent

Acquired(r, cause) ==
    LET s   == [Superseded(r) EXCEPT !.consent = FALSE]
        why == IF cause = "vacated" THEN "editor-closed" ELSE "requested"
    IN IF cause = "initial"
       THEN [s EXCEPT !.role = "editor", !.armed = r.dirty]
       ELSE IF Covered(r, cause)
       THEN [s EXCEPT !.adopting = "reading", !.why = why, !.fresh = TRUE,
                      !.confirm = "none", !.switching = TRUE]
       ELSE [s EXCEPT !.switching = FALSE, !.confirm = why]

\* Mutant: the handle that read the folder first is kept.
Adopted_old_handle(r, mine) ==
    IF r.adopting = "asking" /\ mine /\ r.fresh
    THEN [r EXCEPT !.adopting = "none", !.switching = FALSE, !.role = "editor",
                   !.doc = r.read, !.dirty = FALSE, !.reloaded = TRUE, !.typed = {}]
    ELSE [r EXCEPT !.adopting = "none", !.switching = FALSE]

\* The folder was read and the lock manager has said whose the lock is.
Adopted(r, mine) ==
    LET s == [r EXCEPT !.adopting = "none", !.switching = FALSE] IN
    CASE r.adopting # "asking" -> r
      [] r.adopting = "asking" /\ ~mine -> s
      [] r.adopting = "asking" /\ mine /\ ~r.fresh -> [s EXCEPT !.confirm = r.why]
      [] r.adopting = "asking" /\ mine /\ r.fresh ->
           [s EXCEPT !.role = "editor", !.doc = r.read, !.base = r.read,
                     !.dirty = FALSE, !.armed = FALSE, !.behind = FALSE,
                     !.lost = FALSE, !.reloaded = TRUE, !.typed = {}]

-----------------------------------------------------------------------------
(* The lock manager.                                                       *)

\* What holdsEditorLock asks; the answer comes behind earlier ones.
HoldsEditorLock(t) == tab[t].held /\ holder = t

\* acquire's callback.
Granted(r, cause) ==
    Acquired([r EXCEPT !.held = TRUE, !.yielding = FALSE, !.handedOver = FALSE],
             cause)

\* ended: the hold is over, released or stolen.
Ended(r) ==
    LET s == IF r.handedOver THEN r ELSE Secondary(r, "stolen")
    IN [s EXCEPT !.held = FALSE, !.timer = FALSE, !.yielding = FALSE,
                 !.handedOver = FALSE]

\* A save at the front of the queue is over.
Settled(r, ok) ==
    LET w == Head(r.writes) IN
    [r EXCEPT !.writes = Tail(@),
              !.dirty = IF ok /\ w.fresh THEN FALSE ELSE @,
              !.flush = IF w.kind = "flush" THEN "done" ELSE @,
              !.flushFailed = @ \/ (w.kind = "flush" /\ ~ok)]

\* The lock goes to whoever waits longest.
Grant ==
    /\ holder = None
    /\ waiting # <<>>
    /\ holder' = Head(waiting)
    /\ waiting' = Tail(waiting)
    /\ inbox' = Tell(inbox, Head(waiting), "granted")
    /\ UNCHANGED <<tab, mail, scope, disk, bounds>>

\* What an answer of the lock manager does to a tab.  A wait that is granted
\* while the tab asks for the role satisfies the request.
Told(r, answer) ==
    CASE answer = "initial"  -> Granted(r, "initial")
      [] answer = "taken"    -> Granted(r, "requested")
      [] answer = "granted"  -> Granted(r, IF r.asking # 0 THEN "requested"
                                          ELSE "vacated")
      [] answer = "occupied" -> Secondary(r, "occupied")
      [] answer = "ended"    -> Ended(r)
      [] answer = "adopt"    -> Adopted(r, TRUE)
      [] answer = "leave"    -> Adopted(r, FALSE)
      [] answer = "refuse"   -> Settled(r, FALSE)
      [] answer = "write"    -> r

\* The answers that begin a hold.
Gains == {"initial", "taken", "granted"}

\* A tab that has no lock waits for one.  A handover whose save is over goes on
\* before the next answer is seen.
Notice(t) ==
    /\ inbox[t] # <<>>
    /\ tab[t].flush # "done"
    /\ \/ "late" \in Habits
       \/ tab[t].flush = "none"
       \/ Head(inbox[t]) \notin Gains
    /\ inbox' = [inbox EXCEPT ![t] = Tail(@)]
    /\ Becomes(t, Told(tab[t], Head(inbox[t])))
    /\ waiting' = IF Head(inbox[t]) \in {"occupied", "ended"}
                  THEN Append(Without(waiting, t), t) ELSE waiting
    /\ scope' = CASE Head(inbox[t]) = "write"  -> [scope EXCEPT !.fenced = TRUE]
                  [] Head(inbox[t]) = "refuse" -> None
                  [] OTHER -> scope
    /\ returned' = (returned \/ (Head(inbox[t]) \in Gains /\ tab[t].flush # "none"))
    /\ UNCHANGED <<holder, mail, disk, edits, asks, opens, failures>>

\* releaseHeld: nothing happens when the lock has already gone.
Release(t) ==
    IF holder = t
    THEN /\ holder' = None
         /\ inbox' = Tell(inbox, t, "ended")
    ELSE UNCHANGED <<holder, inbox>>

-----------------------------------------------------------------------------
(* Tabs come and go.                                                       *)

\* The folder is read before the project ID, and so the lock, is known.
Open(t) ==
    /\ tab[t].life = "away"
    /\ opens < MaxOpens
    /\ "stale" \in Habits \/ scope = None
    /\ opens' = opens + 1
    /\ Becomes(t, [Away EXCEPT !.life = "read", !.doc = disk, !.base = disk])
    /\ UNCHANGED <<locks, inbox, mail, scope, disk, edits, asks, failures, returned>>

\* coordinateProjectTab: take the lock if nobody has it or waits for it.
Coordinate(t) ==
    /\ tab[t].life = "read"
    /\ Becomes(t, [tab[t] EXCEPT !.life = "open"])
    /\ IF holder = None /\ waiting = <<>>
       THEN /\ holder' = t
            /\ inbox' = Tell(inbox, t, "initial")
       ELSE /\ inbox' = Tell(inbox, t, "occupied")
            /\ UNCHANGED holder
    /\ UNCHANGED <<waiting, mail, scope, disk, bounds>>

\* A tab closes, crashes or opens another project.  Only a save past its
\* fence may still land.
Close(t) ==
    /\ tab[t].life = "open"
    /\ Becomes(t, Away)
    /\ holder' = IF holder = t THEN None ELSE holder
    /\ waiting' = Without(waiting, t)
    /\ inbox' = [inbox EXCEPT ![t] = <<>>]
    /\ mail' = [mail EXCEPT ![t] = <<>>]
    /\ IF scope # None /\ scope.tab = t
       THEN \/ scope' = None
            \/ (scope.fenced /\ scope' = [scope EXCEPT !.live = FALSE])
       ELSE UNCHANGED scope
    /\ UNCHANGED <<disk, bounds>>

\* The user edits, in any tab.
Edit(t) ==
    /\ tab[t].life = "open"
    /\ tab[t].flush = "none" \/ (tab[t].flush = "writing" /\ "type" \in Habits)
    /\ edits < MaxEdits
    /\ edits' = edits + 1
    /\ LET e == edits + 1 IN
       Becomes(t, [tab[t] EXCEPT
           !.doc = @ \union {e}, !.dirty = TRUE,
           !.consent = FALSE, !.fresh = FALSE,
           !.armed = tab[t].role = "editor",
           !.typed = IF tab[t].role = "editor" /\ tab[t].flush = "none"
                     THEN @ \union {e} ELSE @,
           !.writes = [i \in DOMAIN @ |-> [@[i] EXCEPT !.fresh = FALSE]]])
    /\ UNCHANGED <<locks, inbox, mail, scope, disk, asks, opens, failures, returned>>

-----------------------------------------------------------------------------
(* The handover.                                                           *)

\* becomeProjectEditor: a tab with edits is asked first.
EditHere(t) ==
    /\ tab[t].role = "secondary" /\ ~tab[t].switching
    /\ tab[t].dirty /\ tab[t].confirm = "none"
    /\ Becomes(t, [tab[t] EXCEPT !.confirm = "requested"])
    /\ UNCHANGED <<locks, inbox, mail, scope, disk, bounds>>

\* confirmProjectEditorTakeover and requestEditor: a tab that already holds
\* the lock takes the role at once.
Confirm(t) ==
    /\ tab[t].role = "secondary"
    /\ \/ tab[t].confirm # "none"
       \/ (~tab[t].dirty /\ ~tab[t].switching)
    /\ asks < MaxAsks
    /\ LET r == [tab[t] EXCEPT !.consent = TRUE, !.confirm = "none",
                               !.switching = TRUE, !.agreed = tab[t].doc]
       IN IF r.held /\ ~r.yielding
          THEN /\ Becomes(t, Acquired(r, "requested"))
               /\ UNCHANGED <<mail, asks>>
          ELSE IF r.asking # 0
          THEN /\ Becomes(t, r)
               /\ UNCHANGED <<mail, asks>>
          ELSE /\ Becomes(t, [r EXCEPT !.asking = asks + 1])
               /\ asks' = asks + 1
               /\ Post(t, "release-request", asks + 1)
    /\ UNCHANGED <<locks, inbox, scope, disk, edits, opens, failures, returned>>

\* The reply came or the wait timed out: steal, unless a vacancy came first.
\* The tab's own wait is withdrawn.
Steal(t, r) ==
    IF r.held /\ ~r.yielding
    THEN /\ Becomes(t, [r EXCEPT !.asking = 0])
         /\ UNCHANGED <<locks, inbox>>
    ELSE /\ Becomes(t, [r EXCEPT !.asking = 0])
         /\ holder' = t
         /\ waiting' = Without(waiting, t)
         /\ inbox' = IF holder = None THEN Tell(inbox, t, "taken")
                     ELSE Tell(Tell(inbox, holder, "ended"), t, "taken")

ReplyTimeout(t) ==
    /\ tab[t].asking # 0
    /\ Steal(t, tab[t])
    /\ UNCHANGED <<mail, scope, disk, bounds>>

\* The editor answers a request: flushBeforeRelease queues what is unsaved.
Answers(r, id) ==
    IF ~r.held \/ r.yielding THEN r
    ELSE LET s == [r EXCEPT !.yielding = TRUE, !.answering = id,
                            !.flushFailed = FALSE]
         IN IF r.role = "editor" /\ r.dirty
            THEN [s EXCEPT !.flush = "writing",
                           !.writes = Append(@, Write("flush", r.doc))]
            ELSE [s EXCEPT !.flush = "done"]

\* channel.onmessage.
Receive(t) ==
    /\ mail[t] # <<>>
    /\ mail' = [mail EXCEPT ![t] = Tail(@)]
    /\ LET m == Head(mail[t]) IN
       \/ /\ m.type = "saved"
          /\ Becomes(t, [tab[t] EXCEPT !.behind = TRUE])
          /\ UNCHANGED <<locks, inbox>>
       \/ /\ m.type = "release-request"
          /\ Becomes(t, Answers(tab[t], m.id))
          /\ UNCHANGED <<locks, inbox>>
       \/ /\ m.type = "released"
          /\ IF m.id = tab[t].asking THEN Steal(t, tab[t])
             ELSE UNCHANGED <<tab, locks, inbox>>
    /\ UNCHANGED <<scope, disk, bounds>>

\* The flush is over, saved or not: yield, unless the lock has gone.
Yield(t) ==
    /\ tab[t].flush = "done"
    /\ LET r == [tab[t] EXCEPT !.flush = "none", !.answering = 0] IN
       IF r.held
       THEN /\ Becomes(t, Secondary([r EXCEPT !.handedOver = TRUE, !.timer = TRUE],
                                    "handed-over"))
            /\ Post(t, "released", tab[t].answering)
       ELSE Becomes(t, r) /\ UNCHANGED mail
    /\ UNCHANGED <<locks, inbox, scope, disk, bounds>>

\* The requester vanished: the lock is released for whoever waits.
YieldTimeout(t) ==
    /\ tab[t].timer
    /\ Becomes(t, [tab[t] EXCEPT !.timer = FALSE])
    /\ Release(t)
    /\ UNCHANGED <<waiting, mail, scope, disk, bounds>>

\* cancelProjectEditorTakeover and declineEditor: a lock that will not be used
\* is given up when somebody waits for it.
Cancel(t) ==
    /\ "cancel" \in Habits
    /\ tab[t].confirm # "none"
    /\ LET r == [tab[t] EXCEPT !.confirm = "none"] IN
       IF r.role # "editor" /\ r.held /\ ~r.yielding /\ waiting # <<>>
       THEN /\ Becomes(t, [r EXCEPT !.handedOver = TRUE])
            /\ Release(t)
       ELSE Becomes(t, r) /\ UNCHANGED <<holder, inbox>>
    /\ UNCHANGED <<waiting, mail, scope, disk, bounds>>

-----------------------------------------------------------------------------
(* Becoming editor reads the folder again (adoptEditorRoleFromDisk).       *)

\* The read is a turn of the write scope, itself a lock: what the lock manager
\* decided before is known by then, and the tab's own saves, asked for earlier,
\* have come first or are refused.
AdoptRead(t) ==
    /\ tab[t].adopting = "reading"
    /\ tab[t].writes = <<>> /\ scope = None /\ inbox[t] = <<>>
    /\ Becomes(t, [tab[t] EXCEPT !.adopting = "read", !.read = disk])
    /\ UNCHANGED <<locks, inbox, mail, scope, disk, bounds>>

AdoptFails(t) ==
    /\ tab[t].adopting = "reading"
    /\ failures < MaxFailures
    /\ failures' = failures + 1
    /\ Becomes(t, [tab[t] EXCEPT !.adopting = "none", !.switching = FALSE])
    /\ UNCHANGED <<locks, inbox, mail, scope, disk, edits, asks, opens, returned>>

AdoptAsks(t) ==
    /\ tab[t].adopting = "read"
    /\ Becomes(t, [tab[t] EXCEPT !.adopting = "asking"])
    /\ inbox' = Tell(inbox, t, IF HoldsEditorLock(t) THEN "adopt" ELSE "leave")
    /\ UNCHANGED <<locks, mail, scope, disk, bounds>>

-----------------------------------------------------------------------------
(* Saves (the auto-save effect, writeProjectWorkspace, storage.save).      *)

AutoSave(t) ==
    /\ tab[t].armed
    /\ Becomes(t, [tab[t] EXCEPT !.armed = FALSE,
                     !.writes = Append(@, Write("auto", tab[t].doc))])
    /\ UNCHANGED <<locks, inbox, mail, scope, disk, bounds>>

\* The role is checked when the save runs, before it waits for the scope.
RoleCheck(t) ==
    /\ tab[t].writes # <<>>
    /\ ~Head(tab[t].writes).checked
    /\ IF tab[t].role = "editor"
       THEN Becomes(t, [tab[t] EXCEPT !.writes[1].checked = TRUE])
       ELSE Becomes(t, Settled(tab[t], FALSE))
    /\ UNCHANGED <<locks, inbox, mail, scope, disk, bounds>>

\* The fence asks the lock manager, not the tab.
Enter(t) ==
    /\ tab[t].writes # <<>>
    /\ Head(tab[t].writes).checked
    /\ scope = None
    /\ scope' = [tab |-> t, fenced |-> FALSE, live |-> TRUE,
                 doc |-> Head(tab[t].writes).doc, expected |-> tab[t].base]
    /\ inbox' = Tell(inbox, t, IF HoldsEditorLock(t) THEN "write" ELSE "refuse")
    /\ UNCHANGED <<tab, locks, mail, disk, bounds>>

\* The file is compared with the handle's and replaced.
Land(t) ==
    /\ scope # None /\ scope.tab = t /\ scope.fenced
    /\ "stale" \in Habits \/ \A u \in Tabs : tab[u].life # "read"
    /\ scope' = None
    /\ IF disk = scope.expected
       THEN /\ disk' = scope.doc
            /\ IF scope.live
               THEN /\ Becomes(t, [Settled(tab[t], TRUE) EXCEPT !.base = scope.doc])
                    /\ IF tab[t].held THEN Post(t, "saved", 0) ELSE UNCHANGED mail
               ELSE UNCHANGED <<tab, mail>>
       ELSE /\ IF scope.live THEN Becomes(t, Settled(tab[t], FALSE))
               ELSE UNCHANGED tab
            /\ UNCHANGED <<disk, mail>>
    /\ UNCHANGED <<locks, inbox, bounds>>

WriteFails(t) ==
    /\ scope # None /\ scope.tab = t /\ scope.fenced
    /\ failures < MaxFailures
    /\ failures' = failures + 1
    /\ scope' = None
    /\ IF scope.live THEN Becomes(t, Settled(tab[t], FALSE)) ELSE UNCHANGED tab
    /\ UNCHANGED <<locks, inbox, mail, disk, edits, asks, opens, returned>>

\* What a tab that is not frozen does by itself.
Runs(t) ==
    \/ Notice(t) \/ Receive(t)
    \/ Yield(t) \/ YieldTimeout(t) \/ ReplyTimeout(t)
    \/ AdoptRead(t) \/ AdoptFails(t) \/ AdoptAsks(t)
    \/ AutoSave(t) \/ RoleCheck(t) \/ Enter(t) \/ Land(t) \/ WriteFails(t)
    \/ Coordinate(t)

\* What its user does.
Uses(t) == Open(t) \/ Close(t) \/ Edit(t) \/ EditHere(t) \/ Confirm(t) \/ Cancel(t)

Next == Grant \/ \E t \in Tabs : Runs(t) \/ Uses(t)

\* No tab stays frozen, the lock manager and the disk answer.
Fairness ==
    /\ WF_vars(Grant)
    /\ \A t \in Tabs :
         /\ WF_vars(Notice(t)) /\ WF_vars(Receive(t)) /\ WF_vars(Yield(t))
         /\ WF_vars(YieldTimeout(t)) /\ WF_vars(ReplyTimeout(t))
         /\ SF_vars(AdoptRead(t)) /\ WF_vars(AdoptAsks(t))
         /\ WF_vars(AutoSave(t)) /\ WF_vars(RoleCheck(t)) /\ SF_vars(Enter(t))
         /\ WF_vars(Land(t)) /\ WF_vars(Coordinate(t))

Spec == Init /\ [][Next]_vars /\ Fairness

-----------------------------------------------------------------------------
\* Every variable has its type.
TabsTypeOK ==
    /\ holder \in Tabs \union {None}
    /\ \A i \in DOMAIN waiting : waiting[i] \in Tabs
    /\ disk \subseteq Edits
    /\ \A t \in Tabs :
         /\ tab[t].life \in {"away", "read", "open"}
         /\ tab[t].role \in {"acquiring", "editor", "secondary"}
         /\ {tab[t].held, tab[t].yielding, tab[t].handedOver, tab[t].timer,
             tab[t].flushFailed, tab[t].fresh, tab[t].consent, tab[t].switching,
             tab[t].lost, tab[t].dirty, tab[t].armed} \subseteq BOOLEAN
         /\ {tab[t].asking, tab[t].answering} \subseteq 0..MaxAsks
         /\ tab[t].flush \in {"none", "writing", "done"}
         /\ tab[t].adopting \in {"none", "reading", "read", "asking"}
         /\ tab[t].confirm \in {"none", "requested", "editor-closed"}
         /\ tab[t].doc \union tab[t].base \subseteq Edits

\* What was once saved stays in the file: no tab ever writes a document that
\* misses another tab's saved edits (W3, and "never adopt a stale in-memory
\* manifest as the base for writing").
SavedEditsStay == [][disk \subseteq disk']_vars

\* A tab that saves and knows all that the lock manager decided.
IsEditor(t) == tab[t].role = "editor" /\ HoldsEditorLock(t) /\ inbox[t] = <<>>

\* While a tab that became editor by reloading holds the lock, nobody but
\* itself changes the file, so its next save is not refused for a conflict.
ReloadedBaseIsCurrent ==
    \A t \in Tabs : (IsEditor(t) /\ tab[t].reloaded) => tab[t].base = disk

\* The same of a tab that found the lock free when it opened the project.
InitialBaseIsCurrent ==
    \A t \in Tabs : (IsEditor(t) /\ ~tab[t].reloaded) => tab[t].base = disk

\* Taking the editor role throws away only edits the user agreed to lose:
\* edits made during the handover or the reload ask again.
ConsentCoversEdits ==
    [][\A t \in Tabs :
         (tab[t].adopting = "asking" /\ tab[t].role # "editor" /\ tab'[t].role = "editor")
             => (tab[t].doc \ tab'[t].doc) \subseteq tab[t].agreed]_vars

\* A tab that lost the role with edits of its own unsaved says so.
LostEditsReported ==
    \A t \in Tabs :
        (tab[t].role = "secondary" /\ ~(tab[t].typed \subseteq disk))
            => tab[t].lost

\* Whatever a tab shows as saved is in the file, though its lock went meanwhile
\* and whoever wrote since: words typed while a handover is saved stay unsaved.
ShownAsSavedIsSaved ==
    \A t \in Tabs : tab[t].life = "open" /\ ~tab[t].dirty => tab[t].doc \subseteq disk

\* A tab that declines the role gives the lock up only for another tab: its
\* user is not asked again at once.
DeclinesForAnother ==
    [][\A t \in Tabs :
         (tab[t].confirm # "none" /\ tab'[t].confirm = "none"
          /\ holder = t /\ holder' = None /\ tab'[t].life = "open")
             => \E i \in DOMAIN waiting : waiting[i] # t]_vars

\* The switch of a tab to editor comes to an end.
SwitchingEnds ==
    \A t \in Tabs : tab[t].switching ~> ~tab[t].switching

\* While the project is open somewhere, some tab saves it or asks its user.
AlwaysAnEditor ==
    []<>((\E t \in Tabs : tab[t].life = "open") =>
            \E t \in Tabs : \/ IsEditor(t)
                            \/ tab[t].confirm # "none")
=============================================================================
