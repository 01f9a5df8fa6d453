--------------------------- MODULE ProjectMigration ---------------------------
(***************************************************************************)
(* The upgrade of a project folder to the shared format, and what becomes  *)
(* of the personal drafts its old file held.                               *)
(*                                                                         *)
(* The owner of the upgrade (app/workbench/project-migration.ts) stages    *)
(* copies of everything, replaces the manifest, and activates each draft   *)
(* (core/src/migration-journal.ts, migration-completion.ts and the hosts   *)
(* that execute its plan).  The workbench controller then records which    *)
(* candidates were used, offers the others to the user, and removes the    *)
(* backup (personal-workbench-controller.ts, migration-recovery.ts).       *)
(*                                                                         *)
(* One window works on the folder; it may crash between any two steps.     *)
(* Programs that do not ask for the project's write scope (git, another    *)
(* host) may change the manifest and add records between two steps.        *)
(*                                                                         *)
(* Left out: bytes, which are told apart only as far as the code compares  *)
(* them; foreign identities and the protection file (WorkbenchStore has    *)
(* them); a third record for one asset.                                    *)
(***************************************************************************)
EXTENDS Naturals, Sequences, FiniteSets

CONSTANTS
  Drafts,       \* the drafts of the old file, in its order
  None,         \* nothing
  MaxEdits,     \* bound: what the user does to records, and other programs do
  MaxFailures,  \* bound: writes that fail, with or without landing
  MaxCrashes    \* bound

VARIABLES
  manifest,     \* project.json: "source", "shared" or "other"
  staged,       \* each file of the backup: "absent", "whole" or "partial"
  home,         \* the active record where a candidate belongs, or None
  rival,        \* another active draft of its asset, or None
  replaced,     \* drafts "Use this one" replaced, by where they were
  resolutions,  \* resolutions.json, or None
  session,      \* "closed", "legacy" or "shared": what the window shows
  pc,           \* the step of the upgrade under way
  finishing,    \* it is Finish: it may only activate
  expected,     \* the folder its plan was made for
  todo,         \* candidates it still activates
  wrote,        \* it has changed the manifest
  told,         \* what the last one reported
  step,         \* the step of the controller
  subject,      \* the candidate it uses, and where the draft it replaces is
  offered,      \* pending items the window shows, with their state
  unfinished,   \* the window offers Finish
  unrecorded,   \* restored drafts it could not record as used
  unseen,       \* candidates activated since the window read the folder
  lived,        \* history: candidates that became active records
  spent,        \* history: those the user then edited, dropped or refused
  lapsed,       \* history: those it once failed to record as used
  kept,         \* history: what the user wrote and has not given up
  edits, failures, crashes

folder   == <<manifest, staged, home, rival, replaced, resolutions>>
upgrade  == <<pc, finishing, expected, todo, wrote, told>>
control  == <<step, subject, offered, unfinished, unrecorded, unseen>>
history  == <<lived, spent, lapsed, kept>>
bounds   == <<edits, failures, crashes>>
vars     == <<folder, session, upgrade, control, history, bounds>>

Selections == "selections"
CandidateOrder == <<Selections>> \o Drafts
Candidates == { CandidateOrder[i] : i \in DOMAIN CandidateOrder }
DraftIds   == Candidates \ {Selections}

\* The order in which a migration is staged.
FileOrder == <<"source", "journal", "shared">> \o CandidateOrder
Files     == { FileOrder[i] : i \in DOMAIN FileOrder }

\* The first member of an order that is one of some.
First(order, some) ==
  order[CHOOSE i \in DOMAIN order : order[i] \in some /\ \A j \in 1..(i - 1) : order[j] \notin some]

\* "own" and "edited" are the user's words, "partial" is a write cut short.
Wordings == {"candidate", "own", "edited", "partial"}

Unresolved == [settled |-> [c \in Candidates |-> None], removing |-> FALSE]
Resolved   == IF resolutions = None THEN Unresolved ELSE resolutions

Slots == {"home", "rival"}

\* The record of candidate c in a slot.
At(c, slot) == IF slot = "home" THEN home[c] ELSE rival[c]
SlotsOf(c)  == IF c = Selections THEN {"home"} ELSE Slots

\* Everything the folder holds of the records of c.
Held(c) == { At(c, slot) : slot \in SlotsOf(c) }
             \cup (IF c = Selections THEN {} ELSE { replaced[c][slot] : slot \in Slots })

NoCopies == [d \in DraftIds |-> [slot \in Slots |-> None]]

\* A folder in the old format, with no personal record of a prompt or with one.
Init ==
  /\ manifest = "source" /\ staged = [f \in Files |-> "absent"]
  /\ home \in [Candidates -> {None, "own"}] /\ rival \in [DraftIds -> {None, "own"}]
  /\ \A d \in DraftIds : home[d] = None \/ rival[d] = None
  /\ replaced = NoCopies /\ resolutions = None /\ session = "closed"
  /\ pc = "idle" /\ finishing = FALSE /\ expected = None /\ todo = {}
  /\ wrote = FALSE /\ told = None
  /\ step = "idle" /\ subject = None /\ offered = {} /\ unfinished = FALSE
  /\ unrecorded = {} /\ unseen = {} /\ lived = {} /\ spent = {} /\ lapsed = {}
  /\ kept = [c \in Candidates |-> Held(c) \ {None}]
  /\ edits = 0 /\ failures = 0 /\ crashes = 0

-----------------------------------------------------------------------------
(* Reading a backup *)

Staged(f) == staged[f] = "whole"

\* inspectSharedProjectMigration: which story the files of an operation tell.
Inspection ==
  LET present == { f \in Files : staged[f] # "absent" } IN
  IF present = {} THEN "none"
  ELSE IF ~ Staged("source") \/ \E f \in present : ~ Staged(f) THEN "needs-review"
  ELSE IF ~ Staged("journal")
       THEN IF present = {"source"} THEN "incomplete-intent" ELSE "needs-review"
  ELSE IF manifest = "other" THEN "manifest-diverged"
  ELSE IF present # Files THEN "incomplete"
  ELSE IF manifest = "source" THEN "ready" ELSE "shared-written"

\* verify
Verified == Inspection \in {"ready", "shared-written"} /\ ~ Resolved.removing

Unsettled == { c \in Candidates : Resolved.settled[c] = None }

Unreadable == \E d \in DraftIds : home[d] = "partial" \/ rival[d] = "partial"

\* assess: what completion may do with a candidate.
Disposition(c) ==
  IF home[c] = "candidate" THEN "present"
  ELSE IF home[c] = "partial" THEN "unavailable"
  ELSE IF c = Selections THEN IF home[c] = None THEN "activate" ELSE "existing-selections"
  ELSE IF home[c] # None \/ rival[c] # None THEN "pending-draft"
  ELSE IF Unreadable THEN "unavailable" ELSE "activate"

Eligible == { c \in Unsettled : Disposition(c) = "activate" }

\* assessMigrationRecovery: what the controller offers the user.
StateOf(c) ==
  CASE Disposition(c) = "pending-draft" -> "competing"
    [] Disposition(c) = "activate"      -> "absent"
    [] OTHER                            -> Disposition(c)

\* The journal and the preserved source still verify; an operation that is
\* being removed is not verified, and only its removal is offered.
Recoverable == Staged("source") /\ Staged("journal") /\ ~ Resolved.removing
                 /\ \A f \in Files : staged[f] # "partial"

Waiting == IF Recoverable
           THEN { c \in Unsettled : Staged(c) /\ Disposition(c) # "present" }
           ELSE {}
Restored == IF Recoverable
            THEN { c \in Unsettled : Staged(c) /\ Disposition(c) = "present" }
            ELSE {}
Absent == { c \in Waiting : StateOf(c) = "absent" }

-----------------------------------------------------------------------------
(* Opening, crashing, and what others do *)

\* The scope in which every window and program of this host writes.
ScopeFree == pc \notin {"staging", "writing", "activating"} /\ step # "deleting"

\* A write fails before it lands or after.
Fails == failures < MaxFailures /\ failures' = failures + 1

Forget == /\ offered' = {} /\ unfinished' = FALSE /\ subject' = None
          /\ unrecorded' = {} /\ unseen' = {}

Crash ==
  /\ session # "closed" /\ crashes < MaxCrashes /\ crashes' = crashes + 1
  /\ session' = "closed" /\ step' = "idle" /\ Forget
  /\ pc' = "idle" /\ expected' = None /\ todo' = {}
  /\ lapsed' = lapsed \cup (IF step \in {"dropping", "settling"} /\ subject.new = "rival"
                          THEN {subject.id} ELSE {})
  /\ UNCHANGED <<folder, finishing, wrote, told, lived, spent, kept, edits, failures>>

\* The folder is read; only one in the new format has its records reconciled.
Opens ==
  /\ session' = IF manifest = "source" THEN "legacy" ELSE "shared"
  /\ step' = IF manifest = "source" THEN "idle" ELSE "loading"
  /\ Forget

Open ==
  /\ session = "closed" /\ Opens
  /\ UNCHANGED <<folder, upgrade, history, bounds>>

\* Another program, or a save of the shared project, changes the manifest; or
\* a program brings a record of its own.
Others ==
  /\ edits < MaxEdits /\ edits' = edits + 1
  /\ \/ /\ manifest' \in {"source", "other"} \ {manifest}
        /\ UNCHANGED <<home, kept, unseen>>
     \/ \E c \in Candidates :
          /\ \A slot \in SlotsOf(c) : At(c, slot) = None
          /\ home' = [home EXCEPT ![c] = "own"]
          /\ kept' = [kept EXCEPT ![c] = @ \cup {"own"}]
          /\ unseen' = IF session = "closed" THEN unseen ELSE unseen \cup {c}
          /\ UNCHANGED manifest
  /\ UNCHANGED <<staged, rival, replaced, resolutions, session, upgrade, step, subject,
                 offered, unfinished, unrecorded, lived, spent, lapsed, failures, crashes>>

-----------------------------------------------------------------------------
(* The upgrade and its Finish *)

Reports(word) == pc' = "idle" /\ expected' = None /\ todo' = {} /\ told' = word

\* upgradeProject, up to its staging.
StartUpgrade ==
  /\ session = "legacy" /\ pc = "idle"
  /\ finishing' = FALSE /\ wrote' = FALSE
  /\ CASE manifest # "source" -> Reports("stale")
       [] manifest = "source" /\ Inspection = "ready" ->
            pc' = "planning" /\ told' = None /\ UNCHANGED <<expected, todo>>
       [] manifest = "source"
            /\ Inspection \in {"none", "incomplete-intent", "incomplete"} ->
            pc' = "staging" /\ told' = None /\ UNCHANGED <<expected, todo>>
       [] OTHER -> Reports("failed")
  /\ UNCHANGED <<folder, session, control, history, bounds>>

Unstaged == { f \in Files : ~ Staged(f) }

\* One file of the batch.  A host may leave a write that it cut short.
StageFile ==
  /\ pc = "staging" /\ Unstaged # {}
  /\ IF manifest # "source"
     THEN Reports("stale") /\ UNCHANGED <<staged, failures>>
     ELSE \/ /\ staged' = [staged EXCEPT ![First(FileOrder, Unstaged)] = "whole"]
             /\ UNCHANGED <<pc, expected, todo, told, failures>>
          \/ /\ Fails /\ Reports("failed")
             /\ \E left \in {"absent", "partial"} :
                  staged' = [staged EXCEPT ![First(FileOrder, Unstaged)] = left]
  /\ UNCHANGED <<manifest, home, rival, replaced, resolutions, session, finishing,
                 wrote, control, history, edits, crashes>>

StagingConfirmed ==
  /\ pc = "staging" /\ Unstaged = {}
  /\ IF Inspection = "ready"
     THEN pc' = "planning" /\ UNCHANGED <<expected, todo, told>>
     ELSE Reports(IF Inspection = "manifest-diverged" THEN "stale" ELSE "failed")
  /\ UNCHANGED <<folder, session, finishing, wrote, control, history, bounds>>

StartFinish ==
  /\ session = "shared" /\ pc = "idle" /\ step = "idle" /\ unfinished
  /\ pc' = "planning" /\ finishing' = TRUE /\ wrote' = FALSE /\ told' = None
  /\ UNCHANGED <<folder, session, expected, todo, control, history, bounds>>

MayComplete == Verified /\ (finishing => Inspection = "shared-written")

\* completeSharedProjectMigration, up to its host.
MakePlan ==
  /\ pc = "planning"
  /\ IF MayComplete
     THEN /\ expected' = folder /\ pc' = "planned" /\ UNCHANGED told
          /\ todo' = Eligible
     ELSE Reports("failed")
  /\ UNCHANGED <<folder, session, finishing, wrote, control, history, bounds>>

Execute ==
  /\ pc = "planned" /\ ScopeFree
  /\ IF folder # expected THEN Reports("stale")
     ELSE /\ pc' = IF manifest = "source" THEN "writing" ELSE "activating"
          /\ UNCHANGED <<expected, todo, told>>
  /\ UNCHANGED <<folder, session, finishing, wrote, control, history, bounds>>

\* Mutant: a write that failed is reported to have changed nothing.
WriteManifest_fails_plainly ==
  /\ pc = "writing"
  /\ \/ /\ manifest = "source" /\ manifest' = "shared" /\ wrote' = TRUE
        /\ pc' = "activating" /\ expected' = [expected EXCEPT ![1] = "shared"]
        /\ UNCHANGED <<todo, told, failures>>
     \/ /\ manifest = "source" /\ Fails /\ manifest' \in {"source", "shared"}
        /\ wrote' = (manifest' = "shared") /\ Reports("failed")
  /\ UNCHANGED <<staged, home, rival, replaced, resolutions, session, finishing,
                 control, history, edits, crashes>>

\* replaceManifest: a failure says nothing of what is on disk now.
WriteManifest ==
  /\ pc = "writing"
  /\ IF manifest # "source"
     THEN Reports("stale") /\ UNCHANGED <<manifest, wrote, failures>>
     ELSE \/ /\ manifest' = "shared" /\ wrote' = TRUE /\ pc' = "activating"
             /\ expected' = [expected EXCEPT ![1] = "shared"]
             /\ UNCHANGED <<todo, told, failures>>
          \/ /\ Fails /\ manifest' \in {"source", "shared"}
             /\ wrote' = (manifest' = "shared")
             /\ pc' = "unconfirmed" /\ expected' = None /\ todo' = {}
             /\ told' = "inspection"
  /\ UNCHANGED <<staged, home, rival, replaced, resolutions, session, finishing,
                 control, history, edits, crashes>>

Stops == pc' = "inspecting" /\ UNCHANGED <<expected, todo>>

\* Mutant: the folder is not looked at again before a record is written.
Activate_blind ==
  /\ pc = "activating" /\ todo # {}
  /\ LET c == First(CandidateOrder, todo) IN
     /\ home' = [home EXCEPT ![c] = "candidate"] /\ todo' = todo \ {c}
     /\ unseen' = unseen \cup {c} /\ lived' = lived \cup {c}
  /\ UNCHANGED <<manifest, staged, rival, replaced, resolutions, session, pc, finishing,
                 expected, wrote, told, step, subject, offered, unfinished, unrecorded, spent,
                 lapsed, kept, bounds>>

\* activate: the next record, if nothing but this plan has changed the folder.
Activate ==
  /\ pc = "activating" /\ todo # {}
  /\ LET c == First(CandidateOrder, todo) IN
     IF folder # expected \/ home[c] # None
     THEN Stops /\ UNCHANGED <<home, unseen, lived, failures>>
     ELSE \/ /\ home' = [home EXCEPT ![c] = "candidate"]
             /\ expected' = [expected EXCEPT ![3] = home'] /\ todo' = todo \ {c}
             /\ unseen' = unseen \cup {c} /\ lived' = lived \cup {c}
             /\ UNCHANGED <<pc, failures>>
          \/ /\ Fails /\ Stops
             /\ \E left \in {None, "partial", "candidate"} : home' = [home EXCEPT ![c] = left]
             /\ unseen' = unseen \cup {c}
             /\ lived' = lived \cup (IF home'[c] = "candidate" THEN {c} ELSE {})
  /\ UNCHANGED <<manifest, staged, rival, replaced, resolutions, session, finishing,
                 wrote, told, step, subject, offered, unfinished, unrecorded, spent,
                 lapsed, kept, edits, crashes>>

Activated ==
  /\ pc = "activating" /\ todo = {} /\ Stops
  /\ UNCHANGED <<folder, session, finishing, wrote, told, control, history, bounds>>

\* The claims come from reading the folder again; a confirmed upgrade reopens it.
Inspect ==
  /\ pc = "inspecting"
  /\ \/ /\ manifest = "shared" /\ Reports("upgraded") /\ Opens /\ UNCHANGED failures
     \/ /\ manifest = "source" /\ Reports("failed")
        /\ UNCHANGED <<session, control, failures>>
     \/ /\ \/ manifest = "other" /\ UNCHANGED failures
           \/ Fails
        /\ told' = "inspection" /\ expected' = None /\ todo' = {}
        /\ pc' = IF finishing THEN "idle" ELSE "unconfirmed"
        /\ UNCHANGED <<session, control>>
  /\ UNCHANGED <<folder, finishing, wrote, history, edits, crashes>>

\* inspectProjectUpgrade: Check again.
CheckAgain ==
  /\ pc = "unconfirmed" /\ Verified
  /\ pc' = "idle" /\ Opens
  /\ UNCHANGED <<folder, finishing, expected, todo, wrote, told, history, bounds>>

-----------------------------------------------------------------------------
(* The window's account of the backup: loadMigrations and recordPresent *)

\* A record of resolutions is written; a failure may still leave it.
Settles(record, ok, not) ==
  \/ resolutions' = record /\ ok /\ UNCHANGED failures
  \/ Fails /\ resolutions' \in {resolutions, record} /\ not

With(cs, outcome) == [Resolved EXCEPT !.settled = [c \in Candidates |->
                        IF c \in cs /\ @[c] = None THEN outcome ELSE @[c]]]

Load ==
  /\ step = "loading" /\ step' = "idle" /\ unseen' = {}
  /\ unfinished' = (Absent # {} /\ manifest = "shared")
  /\ offered' = { <<c, StateOf(c)>> : c \in IF unfinished' THEN Waiting \ Absent ELSE Waiting }
  /\ IF Restored = {}
     THEN UNCHANGED <<resolutions, unrecorded, lapsed, failures>>
     ELSE Settles(With(Restored, "used"),
                  UNCHANGED <<unrecorded, lapsed>>,
                  unrecorded' = Restored /\ lapsed' = lapsed \cup Restored)
  /\ UNCHANGED <<manifest, staged, home, rival, replaced, session, upgrade, subject,
                 lived, spent, kept, edits, crashes>>

\* What a user does in the open folder; who settles what it offers waits for
\* the end of a Finish.
AtWork   == session = "shared" /\ step = "idle" /\ ScopeFree
Settling == AtWork /\ pc = "idle"

RetryRecord ==
  /\ Settling /\ unrecorded # {}
  /\ Settles(With(unrecorded, "used"), unrecorded' = {}, UNCHANGED unrecorded)
  /\ UNCHANGED <<manifest, staged, home, rival, replaced, session, upgrade, step, subject,
                 offered, unfinished, unseen, history, edits, crashes>>

-----------------------------------------------------------------------------
(* The user's own work *)

Put(c, slot, value) ==
  IF slot = "home" THEN home' = [home EXCEPT ![c] = value] /\ UNCHANGED rival
  ELSE rival' = [rival EXCEPT ![c] = value] /\ UNCHANGED home

\* A record is edited and saved, published, or discarded.
EditRecord(c, slot) ==
  /\ AtWork /\ c \notin unseen /\ At(c, slot) \notin {None, "partial"}
  /\ edits < MaxEdits /\ edits' = edits + 1
  /\ \E value \in {"edited", None} :
       /\ At(c, slot) # value /\ Put(c, slot, value)
       /\ kept' = [kept EXCEPT ![c] = (@ \ {At(c, slot)}) \cup ({value} \ {None})]
  /\ spent' = IF At(c, slot) = "candidate" /\ slot = "home" /\ Staged(c)
              THEN spent \cup {c} ELSE spent
  /\ UNCHANGED <<manifest, staged, replaced, resolutions, session, upgrade, control,
                 lived, lapsed, failures, crashes>>

\* A draft of a prompt that has none gets an identity of its own.
CreateOwn(d) ==
  /\ AtWork /\ d \notin unseen /\ home[d] = None /\ rival[d] = None
  /\ edits < MaxEdits /\ edits' = edits + 1
  /\ rival' = [rival EXCEPT ![d] = "own"] /\ kept' = [kept EXCEPT ![d] = @ \cup {"own"}]
  /\ UNCHANGED <<manifest, staged, home, replaced, resolutions, session, upgrade, control,
                 lived, spent, lapsed, failures, crashes>>

-----------------------------------------------------------------------------
(* "Use this one" and "Discard" *)

Offered(c)     == \E state \in {"absent", "competing"} : <<c, state>> \in offered
ActiveSlots(c) == { slot \in SlotsOf(c) : At(c, slot) # None }

Use(c, old) == [id |-> c, old |-> old, new |-> IF old = "home" THEN "rival" ELSE "home"]

\* useRecovery, up to its first write.  Two records of one draft are another
\* matter; a copy already kept for the draft it would replace refuses it.
BeginUse(c) ==
  /\ Settling /\ c \notin unseen /\ Offered(c)
  /\ \/ ActiveSlots(c) = {} /\ step' = "incoming" /\ subject' = Use(c, None)
     \/ \E slot \in Slots :
          /\ c # Selections /\ ActiveSlots(c) = {slot} /\ replaced[c][slot] = None
          /\ step' = "copying" /\ subject' = Use(c, slot)
  /\ UNCHANGED <<folder, session, upgrade, offered, unfinished, unrecorded, unseen, history,
                 bounds>>

\* A step of the use ends well, or the use ends here.
Goes(next) == step' = next /\ UNCHANGED <<subject, unseen, lapsed, failures>>
Ends       == /\ step' = "idle" /\ subject' = None
              /\ unseen' = unseen \cup {subject.id} /\ lapsed' = lapsed \cup {subject.id}
Stuck      == Fails /\ Ends

\* activateReplacing: the draft in place is copied into the backup.
CopyReplaced ==
  /\ step = "copying"
  /\ LET copied == [replaced EXCEPT ![subject.id][subject.old] = At(subject.id, subject.old)] IN
     \/ replaced' = copied /\ Goes("incoming")
     \/ replaced' \in {replaced, copied} /\ Stuck
  /\ UNCHANGED <<manifest, staged, home, rival, resolutions, session, upgrade, offered,
                 unfinished, unrecorded, lived, spent, kept, edits, crashes>>

\* The candidate is written where it belongs, or under another name, unless
\* another program has put a record there.
WriteIncoming ==
  /\ step = "incoming"
  /\ \/ /\ At(subject.id, subject.new) = None
        /\ Put(subject.id, subject.new, "candidate") /\ lived' = lived \cup {subject.id}
        /\ \/ Goes(IF subject.old = None THEN "settling" ELSE "dropping")
           \/ Stuck
     \/ /\ UNCHANGED <<home, rival, lived>>
        /\ \/ Stuck
           \/ At(subject.id, subject.new) # None /\ Ends /\ UNCHANGED failures
  /\ UNCHANGED <<manifest, staged, replaced, resolutions, session, upgrade, offered,
                 unfinished, unrecorded, spent, kept, edits, crashes>>

\* The draft it replaces is deleted.
DropReplaced ==
  /\ step = "dropping"
  /\ \/ Put(subject.id, subject.old, None) /\ (Goes("settling") \/ Stuck)
     \/ UNCHANGED <<home, rival>> /\ Stuck
  /\ UNCHANGED <<manifest, staged, replaced, resolutions, session, upgrade, offered,
                 unfinished, unrecorded, lived, spent, kept, edits, crashes>>

Without(c) == { item \in offered : item[1] # c }

\* settleCandidate; a candidate is settled once.
SettleUsed ==
  /\ step = "settling" /\ step' = "idle" /\ subject' = None
  /\ LET c == subject.id IN
     IF Resolved.settled[c] # None
     THEN UNCHANGED <<resolutions, offered, lapsed, failures>>
     ELSE Settles(With({c}, "used"),
                  offered' = Without(c) /\ UNCHANGED lapsed,
                  UNCHANGED offered /\ lapsed' = lapsed \cup {c})
  /\ UNCHANGED <<manifest, staged, home, rival, replaced, session, upgrade, unfinished,
                 unrecorded, unseen, lived, spent, kept, edits, crashes>>

\* discardRecovery, of any candidate the window offers.
Refuse(c) ==
  /\ Settling /\ (\E item \in offered : item[1] = c) /\ Resolved.settled[c] = None
  /\ spent' = spent \cup {c}
  /\ Settles(With({c}, "discarded"),
             offered' = Without(c) /\ UNCHANGED lapsed,
             UNCHANGED offered /\ lapsed' = lapsed \cup {c})
  /\ UNCHANGED <<manifest, staged, home, rival, replaced, session, upgrade, step, subject,
                 unfinished, unrecorded, unseen, lived, kept, edits, crashes>>

-----------------------------------------------------------------------------
(* Removing the backup *)

Present == { f \in Files : staged[f] # "absent" }

\* removableMigrationOperation
Removable ==
  \/ Resolved.removing
  \/ /\ Staged("source") /\ \A f \in Files : staged[f] # "partial"
     /\ offered = {} /\ ~ unfinished /\ unrecorded = {}

\* What the user wrote and the backup alone holds is given up with it.
Outside(c) == kept[c] \cap { At(c, slot) : slot \in SlotsOf(c) }

RemoveBackup ==
  /\ Settling /\ Removable
  /\ kept' = [c \in Candidates |-> Outside(c)]
  /\ Settles([Resolved EXCEPT !.removing = TRUE], step' = "deleting", step' = "idle")
  /\ UNCHANGED <<manifest, staged, home, rival, replaced, session, upgrade, subject, offered,
                 unfinished, unrecorded, unseen, lived, spent, lapsed, edits, crashes>>

\* The host deletes the files, the resolutions last.
DeleteFile ==
  /\ step = "deleting" /\ Present # {}
  /\ staged' = [staged EXCEPT ![First(FileOrder, Present)] = "absent"]
  /\ \/ UNCHANGED <<step, failures>>
     \/ Fails /\ step' = "idle"
  /\ UNCHANGED <<manifest, home, rival, replaced, resolutions, session, upgrade, subject,
                 offered, unfinished, unrecorded, unseen, history, edits, crashes>>

DeleteResolutions ==
  /\ step = "deleting" /\ Present = {} /\ step' = "idle"
  /\ replaced' = NoCopies /\ resolutions' = None
  /\ spent' = {} /\ lapsed' = {}
  /\ lived' = { c \in lived : \E slot \in SlotsOf(c) : At(c, slot) = "candidate" }
  /\ UNCHANGED <<manifest, staged, home, rival, session, upgrade, subject, offered,
                 unfinished, unrecorded, unseen, kept, bounds>>

-----------------------------------------------------------------------------
Owner == StartUpgrade \/ StageFile \/ StagingConfirmed \/ StartFinish \/ MakePlan \/ Execute
           \/ WriteManifest \/ Activate \/ Activated \/ Inspect \/ CheckAgain

Controller == Load \/ RetryRecord \/ CopyReplaced \/ WriteIncoming \/ DropReplaced
                \/ SettleUsed \/ RemoveBackup \/ DeleteFile \/ DeleteResolutions

User == \/ \E c \in Candidates : BeginUse(c) \/ Refuse(c)
        \/ \E c \in Candidates : \E slot \in SlotsOf(c) : EditRecord(c, slot)
        \/ \E d \in DraftIds : CreateOwn(d)

Next == Open \/ Crash \/ Others \/ Owner \/ Controller \/ User

Spec == Init /\ [][Next]_vars

-----------------------------------------------------------------------------
TypeOK ==
  /\ manifest \in {"source", "shared", "other"}
  /\ staged \in [Files -> {"absent", "whole", "partial"}]
  /\ home \in [Candidates -> Wordings \cup {None}] /\ rival \in [DraftIds -> Wordings \cup {None}]
  /\ session \in {"closed", "legacy", "shared"}
  /\ pc \in {"idle", "staging", "planning", "planned", "writing", "activating", "inspecting",
             "unconfirmed"}
  /\ told \in {None, "stale", "failed", "inspection", "upgraded"}

\* What the user wrote is never lost to an upgrade, a restored draft or a
\* removal: it is where it was or in a copy the folder keeps, until the user
\* edits it again, drops it, or removes the backup that holds the copy.
WordsSurvive == \A c \in Candidates : kept[c] \subseteq Held(c)

\* A manifest in the new format has, for as long as any of its backup is there,
\* all of it, or a record that its removal was asked for.
BackupStands ==
  manifest = "shared" /\ (\E f \in Files : staged[f] # "absent") =>
    (\A f \in Files : Staged(f)) \/ Resolved.removing

\* A candidate recorded as used was an active record once.
UsedWasActive == \A c \in Candidates : Resolved.settled[c] = "used" => c \in lived

BackupKeepsWork == TypeOK /\ WordsSurvive /\ BackupStands /\ UsedWasActive

\* A draft the user has edited, dropped or refused never comes back from the
\* backup (loadMigrations: "so a later edit or save of that draft never brings
\* the candidate back"), if its settling was recorded.
NothingComesBack ==
  [][pc = "activating" =>
       \A c \in Candidates : home[c] # "candidate" /\ home'[c] = "candidate" =>
                               c \notin spent \ lapsed]_vars

\* The removal of a backup starts when each candidate in it is settled.
RemovedWhenSettled ==
  [][resolutions' # resolutions /\ Resolved'.removing /\ ~ Resolved.removing =>
       \A c \in Candidates : Staged(c) => Resolved.settled[c] # None]_vars

\* An upgrade that says it failed, or that the project changed first, has left
\* the manifest alone or put it back.
FailureIsTold ==
  [][told' # told /\ told' \in {"failed", "stale"} => ~ wrote' \/ manifest' = "source"]_vars

UpgradeKeepsFaith == NothingComesBack /\ RemovedWhenSettled /\ FailureIsTold
=============================================================================
