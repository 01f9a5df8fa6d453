------------------------- MODULE EvaluationBaselines -------------------------
(***************************************************************************)
(* The pinned baselines of a project's evaluations                         *)
(* (app/evaluations/use-evaluation-baselines.client.ts): a file beside the *)
(* project that is read when a user first asks for it, kept in memory, and *)
(* written whole on every change, with no check of what it held.           *)
(*                                                                         *)
(* Folders are opened one after another, and reads and writes of an        *)
(* earlier one go on.  A write replaces the file at one moment and is      *)
(* heard of later.                                                         *)
(*                                                                         *)
(* Left out: names of baselines, and comparisons, which write nothing.     *)
(***************************************************************************)
EXTENDS Naturals, Sequences

CONSTANTS
  Folders,
  Slices,        \* configurations of executions, each of which can be pinned
  Damaged,       \* the contents of a file that does not parse
  Unread,        \* what a read that is under way has found
  MaxOpens,      \* bound: folders opened
  MaxChanges,    \* bound: pins and unpins
  MaxReads,      \* bound: reads of the file
  MaxFailures,   \* bound: reads and writes that fail
  Races          \* bound: how users race pins: they change them unread ("idle",
                 \* "loading") or unreadable ("failed"), or go on with a folder
                 \* whose change is on its way ("hasty")

VARIABLES
  pins,       \* each folder's file: the slices pinned, or Damaged
  opened,     \* the folders opened so far; the last is the workspace
  loaded,     \* loaded: whose pins it holds (its place in opened), and them
  generation, \* generationRef
  loads,      \* reads under way
  writes,     \* writes under way
  raced,      \* folders opened, read or changed while a change of their pins was
              \* on its way, or changed with no pins read
  counts      \* counters of the bounds

baselineVars == <<pins, opened, loaded, generation, loads, writes, raced, counts>>

Nowhere == [workspace |-> 0, status |-> "idle", file |-> {}]

Workspace == Len(opened)

Count(what, max) == counts[what] < max /\ counts' = [counts EXCEPT ![what] = @ + 1]
MayFail(failed) == IF failed THEN Count("failures", MaxFailures) ELSE UNCHANGED counts

\* Nothing of folder f is being written.
Still(f) == \A w \in writes : opened[w.workspace] # f

\* A step that begins something of folder f while the page is in this status.
Begins(f, status) ==
  LET races == ({status} \ {"loaded"}) \cup (IF Still(f) THEN {} ELSE {"hasty"})
  IN  races \subseteq Races /\ raced' = IF races = {} THEN raced ELSE raced \cup {f}

Init ==
  /\ pins \in [Folders -> (SUBSET Slices) \cup {Damaged}]
  /\ opened = <<>> /\ loaded = Nowhere /\ generation = 0 /\ loads = {} /\ writes = {}
  /\ raced = {}
  /\ counts = [opens |-> 0, changes |-> 0, reads |-> 0, failures |-> 0]

\* The page is handed another workspace: what it holds is kept with its own.
Open(f) ==
  /\ Count("opens", MaxOpens)
  /\ Begins(f, "loaded")
  /\ opened' = Append(opened, f)
  /\ UNCHANGED <<pins, loaded, generation, loads, writes>>

Active_of_any_folder == loaded

\* Annotations of an earlier folder are out of reach.
Active == IF loaded.workspace = Workspace THEN loaded ELSE Nowhere
File == Active.file

-----------------------------------------------------------------------------
(* Reading *)

Load ==
  /\ Workspace # 0 /\ Active.status \in {"idle", "failed"}
  /\ Count("reads", MaxReads)
  /\ Begins(opened[Workspace], "loaded")
  /\ generation' = generation + 1
  /\ loaded' = [workspace |-> Workspace, status |-> "loading", file |-> File]
  /\ loads' = loads \cup {[workspace |-> Workspace, generation |-> generation + 1,
                           found |-> Unread]}
  /\ UNCHANGED <<pins, opened, writes>>

\* What cannot be read fails as what does not parse.
Reads(l, failed) ==
  /\ l.found = Unread /\ MayFail(failed)
  /\ loads' = (loads \ {l}) \cup
       {[l EXCEPT !.found = IF failed THEN Damaged ELSE pins[opened[l.workspace]]]}
  /\ UNCHANGED <<pins, opened, loaded, generation, writes, raced>>

Loaded(l) ==
  /\ l.found # Unread
  /\ loads' = loads \ {l}
  /\ loaded' = IF l.generation # generation THEN loaded
               ELSE IF l.found = Damaged
               THEN [workspace |-> l.workspace, status |-> "failed", file |-> {}]
               ELSE [workspace |-> l.workspace, status |-> "loaded", file |-> l.found]
  /\ UNCHANGED <<pins, opened, generation, writes, raced, counts>>

-----------------------------------------------------------------------------
(* Writing *)

\* Nothing in the page asks whether the pins were read, or are being written.
MayChange ==
  /\ Workspace # 0 /\ Count("changes", MaxChanges)
  /\ Begins(opened[Workspace], Active.status)

Write_kept_at_once(slice, next) ==
  /\ writes' = writes \cup {[workspace |-> Workspace, slice |-> slice, next |-> next,
                             landed |-> FALSE]}
  /\ loaded' = [workspace |-> Workspace, status |-> "loaded", file |-> next]
  /\ UNCHANGED <<pins, opened, generation, loads>>

Write(slice, next) ==
  /\ writes' = writes \cup {[workspace |-> Workspace, slice |-> slice, next |-> next,
                             landed |-> FALSE]}
  /\ UNCHANGED <<pins, opened, loaded, generation, loads>>

Pin(s)   == MayChange /\ s \notin File /\ Write(s, File \cup {s})
Unpin(s) == MayChange /\ s \in File    /\ Write(s, File \ {s})

Lands(w) ==
  /\ ~ w.landed
  /\ pins' = [pins EXCEPT ![opened[w.workspace]] = w.next]
  /\ writes' = (writes \ {w}) \cup {[w EXCEPT !.landed = TRUE]}
  /\ UNCHANGED <<opened, loaded, generation, loads, raced, counts>>

Fails(w) ==
  /\ ~ w.landed /\ MayFail(TRUE)
  /\ writes' = writes \ {w}
  /\ UNCHANGED <<pins, opened, loaded, generation, loads, raced>>

\* What was written is kept, whichever workspace is open by now.
Saved(w) ==
  /\ w.landed
  /\ writes' = writes \ {w}
  /\ loaded' = [workspace |-> w.workspace, status |-> "loaded", file |-> w.next]
  /\ UNCHANGED <<pins, opened, generation, loads, raced, counts>>

-----------------------------------------------------------------------------

Next ==
  \/ \E f \in Folders : Open(f)
  \/ Load
  \/ \E l \in loads : Loaded(l) \/ \E failed \in BOOLEAN : Reads(l, failed)
  \/ \E s \in Slices : Pin(s) \/ Unpin(s)
  \/ \E w \in writes : Lands(w) \/ Fails(w) \/ Saved(w)

BaselinesSpec == Init /\ [][Next]_baselineVars

-----------------------------------------------------------------------------
(* Properties *)

BaselinesTypeOK ==
  /\ pins \in [Folders -> (SUBSET Slices) \cup {Damaged}]
  /\ opened \in Seq(Folders) /\ raced \subseteq Folders
  /\ loaded \in [workspace : 0..Workspace, file : SUBSET Slices,
                 status : {"idle", "loading", "loaded", "failed"}]
  /\ {l.workspace : l \in loads} \cup {w.workspace : w \in writes} \subseteq 1..Workspace

\* The pins a page shows as read are those of its own folder's file, unless a
\* change is on its way, whichever reads and writes of other folders return
\* and fail meanwhile (the comments at use-evaluation-baselines.client.ts:159-170);
\* a folder whose pins were raced is excepted, and harms no other.
ShownPinsAreSaved ==
  Active.status = "loaded" /\ Still(opened[Workspace]) /\ opened[Workspace] \notin raced =>
    File = pins[opened[Workspace]]

\* A write changes the one pin its user asked for, of the folder he saw it in:
\* it neither drops another, nor brings one back, nor replaces a file that
\* could not be read, in a folder whose pins were not raced.
WritesDoOneThing ==
  [][\A f \in Folders \ raced : pins'[f] # pins[f] =>
       pins[f] # Damaged /\ \E w \in writes :
         /\ opened[w.workspace] = f
         /\ pins'[f] \in {pins[f] \cup {w.slice}, pins[f] \ {w.slice}}]_pins

\* A file that does not parse is left alone (evaluation-baselines.ts:107-109:
\* "the caller reports the damaged file and leaves it alone instead of
\* overwriting it on the next pin").
DamagedFileStands == [][\A f \in Folders : pins[f] = Damaged => pins'[f] = Damaged]_pins

=============================================================================
