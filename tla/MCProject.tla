------------------------------ MODULE MCProject ------------------------------
(***************************************************************************)
(* Model checking of a project folder: in the browser, where tabs hand the *)
(* editor role to each other (ProjectTabs); in one window, where edits,    *)
(* saves, publications and a replacement of the project share one queue    *)
(* (ProjectWorkspace); and beside it, where windows write one personal     *)
(* record (WorkbenchStore).  A behaviour is one of these.                  *)
(***************************************************************************)
EXTENDS ProjectTabs, TLC

CONSTANTS a, b, c,
          Projects, WindowEdits, MaxPublishes, MaxOutside, WindowFailures,
          MaxReplacements, WindowHabits,   \* ProjectWorkspace's
          Windows, Contents, Unknown, MaxOps, RecordOutside, OutsideRaces   \* WorkbenchStore's

ASSUME WindowAssumption ==
    /\ Projects # {}
    /\ {WindowEdits, MaxPublishes, MaxOutside, WindowFailures, MaxReplacements}
         \subseteq Nat
    /\ WindowHabits \subseteq {"type", "recover"}

VARIABLES
    place,   \* what this behaviour is one of: "tabs", a "window" or a "record"
    handles, mem, dirty, armed, queue, folders, error, asked, replacing,
    agreed, used,   \* ProjectWorkspace's
    bytes, foreign, protection, recordScope, open, expected, blocked,
    writeBlocked, operations, running, seen, writer, ops, outside   \* WorkbenchStore's

Window == INSTANCE ProjectWorkspace WITH
    MaxEdits <- WindowEdits, MaxFailures <- WindowFailures,
    MaxOpens <- MaxReplacements, Habits <- WindowHabits, disk <- folders

Record == INSTANCE WorkbenchStore WITH
    MaxOutside <- RecordOutside, disk <- bytes, scope <- recordScope,
    queue <- operations

recordVars == <<bytes, foreign, protection, recordScope, open, expected, blocked,
                writeBlocked, operations, running, seen, writer, ops, outside>>
windowVars == <<handles, mem, dirty, armed, queue, folders, error, asked,
                replacing, agreed, used>>

TwoTabs == {a, b}
TabsAlike == Permutations(Tabs)
OneContents == {c}
TwoProjects == {"home", "other"}

NoHabits == {}
Mixed == {"cancel", "late", "type"}
LateLocks == {"late"}
Types == {"type"}

ProjectInit ==
    /\ place \in {"tabs", "window", "record"}
    /\ Init /\ Window!Init /\ Record!Init
    /\ place # "record" => bytes = None /\ ~foreign /\ protection = "ours"

ProjectNext ==
    /\ UNCHANGED place
    /\ \/ place = "tabs"   /\ Next        /\ UNCHANGED <<windowVars, recordVars>>
       \/ place = "window" /\ Window!Next /\ UNCHANGED <<vars, recordVars>>
       \/ place = "record" /\ Record!Next /\ UNCHANGED <<vars, windowVars>>

ProjectSpec == ProjectInit /\ [][ProjectNext]_<<place, vars, windowVars, recordVars>>

\* The fairness of each.  Of what is not under way nothing is ever enabled.
FairProjectSpec ==
    /\ ProjectSpec /\ Fairness /\ Record!Fairness
    /\ WF_windowVars(Window!AutoSave) /\ WF_windowVars(Window!Run)
    /\ WF_windowVars(Window!Land \/ Window!Fail)

-----------------------------------------------------------------------------
\* While a tab that became editor by reloading holds the lock, nobody else
\* changes the file; a tab that lost the role with unsaved edits says so; and
\* what a tab shows as saved is in the file (use-project-workspace.client.ts:
\* 458-660).  All of it until a lock that was lost comes back to its tab during
\* the save of its handover: the old handover then ends the new hold.
TabsTellTheTruth ==
    /\ TabsTypeOK
    /\ \/ returned
       \/ ReloadedBaseIsCurrent /\ LostEditsReported /\ ShownAsSavedIsSaved

\* Taking the editor role throws away only edits the user agreed to lose, and
\* no tab writes a document that misses another tab's saved edits.
HandoverKeepsEdits == ConsentCoversEdits /\ SavedEditsStay

\* A project shown as saved is, and no folder ever receives another project's
\* document (use-project-workspace.client.ts:480-720).
WindowTellsTheTruth ==
    Window!WorkspaceTypeOK /\ Window!SavedMeansSaved /\ Window!ProjectsApart

\* An edit leaves the window only when it is in its file or was given up, and
\* no save replaces what another program wrote there.
WindowKeepsEdits == Window!EditsNotLost /\ Window!OutsideStays

\* No edit is lost between tabs or within a window without the user's consent.
EditsKept == HandoverKeepsEdits /\ WindowKeepsEdits

\* The switch of a tab to editor ends, and while the project is open somewhere,
\* some tab saves it or asks its user (project-tab-coordination.client.ts); an
\* edit is saved or its error shown, and no older document is written over a
\* published revision (use-project-workspace.client.ts:1000-1060); and every
\* operation on a personal record is answered, in whichever order windows meet
\* in the write scope and whichever throws or closes (workbench-store.ts:130-240).
ProjectProgresses ==
    /\ SwitchingEnds /\ AlwaysAnEditor
    /\ Window!SavedOrError /\ Window!PublishedStays
    /\ Record!Served

=============================================================================
