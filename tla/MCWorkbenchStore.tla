-------------------------- MODULE MCWorkbenchStore --------------------------
(***************************************************************************)
(* Model checking of the files of a project folder: one personal record    *)
(* that windows write (WorkbenchStore), an upgrade with the backup it      *)
(* leaves (ProjectMigration), and the baselines pinned beside the project  *)
(* (EvaluationBaselines).  A behaviour is one of these.                    *)
(***************************************************************************)
EXTENDS WorkbenchStore, TLC

CONSTANTS
    w1, w2, c1, c2,
    Drafts, MaxEdits, MaxFailures, MaxCrashes,  \* ProjectMigration's
    Folders, Slices, Damaged, Unread, MaxOpens, MaxChanges, MaxReads,
    PinFailures, Races                          \* EvaluationBaselines's

VARIABLES
    part,   \* what this behaviour is one of
    manifest, staged, home, rival, replaced, resolutions, session, pc,
    finishing, planned, todo, wrote, told, step, subject, offered, unfinished,
    unrecorded, unseen, lived, spent, lapsed, kept, edits, failures,
    crashes,  \* ProjectMigration's
    pins, opened, loaded, generation, loads, writes, raced, counts  \* EvaluationBaselines's

Migration == INSTANCE ProjectMigration WITH expected <- planned

Baselines == INSTANCE EvaluationBaselines WITH MaxFailures <- PinFailures

baselineVars == <<pins, opened, loaded, generation, loads, writes, raced, counts>>
migrationVars == <<manifest, staged, home, rival, replaced, resolutions, session, pc,
                   finishing, planned, todo, wrote, told, step, subject, offered,
                   unfinished, unrecorded, unseen, lived, spent, lapsed, kept, edits,
                   failures, crashes>>

\* Drafts are files of their own, and None is none of the words and records of
\* an upgrade; what a file of baselines may hold is told apart.
ASSUME MigrationAssumption ==
    /\ Drafts \in Seq({ Drafts[i] : i \in DOMAIN Drafts })
    /\ \A i \in DOMAIN Drafts : Drafts[i] \notin {"source", "journal", "shared", "selections"}
    /\ None \notin Migration!Wordings \cup Migration!Slots \cup {"used", "discarded"}
    /\ None \notin [settled : [Migration!Candidates -> {None, "used", "discarded"}],
                    removing : BOOLEAN]

ASSUME BaselinesAssumption ==
    /\ \A file \in SUBSET Slices : file \notin {Damaged, Unread}
    /\ Unread # Damaged

TwoWindows == {w1, w2}
TwoContents == {c1, c2}
TwoFolders == {"home", "other"}
OneDraft == <<"draft">>

Symmetric == Permutations(TwoContents) \union Permutations(TwoWindows)

NoMigration ==
    /\ manifest = None /\ staged = None /\ home = None /\ rival = None
    /\ replaced = None /\ resolutions = None /\ session = None /\ pc = None
    /\ finishing = None /\ planned = None /\ todo = None /\ wrote = None
    /\ told = None /\ step = None /\ subject = None /\ offered = None
    /\ unfinished = None /\ unrecorded = None /\ unseen = None /\ lived = None
    /\ spent = None /\ lapsed = None /\ kept = None /\ edits = None
    /\ failures = None /\ crashes = None

FilesInit ==
    /\ part \in {"record", "migration", "baselines"} /\ Init /\ Baselines!Init
    /\ IF part = "migration" THEN Migration!Init ELSE NoMigration
    /\ part # "record" => disk = None /\ ~foreign /\ protection = "ours"
    /\ part # "baselines" => pins = [f \in Folders |-> {}]

FilesNext ==
    /\ UNCHANGED part
    /\ \/ part = "record"    /\ Next           /\ UNCHANGED <<migrationVars, baselineVars>>
       \/ part = "migration" /\ Migration!Next /\ UNCHANGED <<vars, baselineVars>>
       \/ part = "baselines" /\ Baselines!Next /\ UNCHANGED <<vars, migrationVars>>

FilesSpec == FilesInit /\ [][FilesNext]_<<part, vars, migrationVars, baselineVars>>

-----------------------------------------------------------------------------
\* Through an upgrade, the drafts it restores and the removal of its backup,
\* nothing the user wrote is lost, and the backup stands until it is removed;
\* and no page shows as read other pins than its own folder's file holds
\* (migration-completion.ts, personal-workbench-controller.ts:1048-1430,
\* use-evaluation-baselines.client.ts).
FilesKeepWork ==
    /\ part = "migration" => Migration!BackupKeepsWork
    /\ Baselines!BaselinesTypeOK /\ Baselines!ShownPinsAreSaved

\* No draft the user is done with comes back, no backup goes before its
\* candidates are settled, and no upgrade that changed the manifest is said to
\* have failed; and a pin or an unpin changes that pin of that folder alone.
FilesKeepFaith == Migration!UpgradeKeepsFaith /\ Baselines!WritesDoOneThing

=============================================================================
