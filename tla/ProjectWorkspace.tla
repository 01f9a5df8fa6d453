--------------------------- MODULE ProjectWorkspace ---------------------------
(***************************************************************************)
(* The project of one window (app/use-project-workspace.client.ts): edits,  *)
(* the debounced auto-save, explicit saves and publications share one queue *)
(* of writes, and the project is replaced by another one while they wait.   *)
(*                                                                         *)
(* A document is the set of items it holds: edits, published revisions and  *)
(* what other programs put into the file.  An auto-save and a Save take the *)
(* document when they are queued, a publication when it is written.         *)
(***************************************************************************)
EXTENDS Naturals, SequencesExt, FiniteSets

CONSTANTS
    Projects,        \* folders
    MaxEdits, MaxPublishes, MaxOutside, MaxFailures, MaxOpens,   \* bounds
    Habits           \* "type": the user edits beside a publication,
                     \* "recover": a lost draft is saved as a new prompt

VARIABLES
    handles,     \* the folders opened, each with the contents the handle knows
    mem,         \* the document of the last one, in this window
    dirty,       \* projectDirty
    armed,       \* the auto-save timer is set
    queue,       \* workspaceSaveTail: writes in order
    disk,        \* each folder's manifest
    error,       \* an error is on the screen
    asked,       \* the replacement dialog: "no", "asked", "saving"
    replacing,   \* the replacement: see NoReplacement
    agreed,      \* ghost: items the user chose to discard
    used         \* bounds: how often each thing happened

vars == <<handles, mem, dirty, armed, queue, disk, error, asked, replacing,
          agreed, used>>

Item(kind, n) == <<kind, n>>
\* What tells the documents of two projects apart.
Named(p) == Item("project", p)
Revisions == {Item("revision", n) : n \in 1..MaxPublishes}
Items == {Item("edit", n) : n \in 1..MaxEdits} \union Revisions
           \union {Item("outside", n) : n \in 1..MaxOutside}
           \union {Named(p) : p \in Projects}

NoReplacement == [how |-> "none", to |-> "none", step |-> "none", fresh |-> FALSE,
                  behind |-> 0]      \* writes it waits for

Init ==
    /\ LET p == CHOOSE p \in Projects : TRUE IN
         /\ handles = <<[folder |-> p, known |-> {Named(p)}]>>
         /\ mem = {Named(p)}
    /\ dirty = FALSE /\ armed = FALSE
    /\ queue = <<>>
    /\ disk = [p \in Projects |-> {Named(p)}]
    /\ error = FALSE
    /\ asked = "no"
    /\ replacing = NoReplacement
    /\ agreed = {}
    /\ used = [edits |-> 0, publishes |-> 0, outside |-> 0, failures |-> 0, opens |-> 0]

\* The project that is open.
folder == Last(handles).folder

Use(what, bound) ==
    /\ used[what] < bound
    /\ used' = [used EXCEPT ![what] = @ + 1]

Queued(kind, doc) ==
    Append(queue, [kind |-> kind, doc |-> doc, handle |-> Len(handles),
                   fresh |-> TRUE, running |-> FALSE])

\* advanceProjectChangeVersion: no write before this one covers the document.
Outdated(q) == [i \in DOMAIN q |-> [q[i] EXCEPT !.fresh = FALSE]]

\* perform begins: a link waits for the writes queued by now, a picker opens.
Performing(r, behind) ==
    [r EXCEPT !.fresh = TRUE, !.behind = behind,
              !.step = IF r.how = "link" THEN "drain" ELSE "open"]

\* One write fewer to wait for.
Advanced(r) == [r EXCEPT !.behind = IF @ > 0 THEN @ - 1 ELSE 0]

Shared == {"publish", "recover"}
Publishing == \E i \in DOMAIN queue : queue[i].kind \in Shared

\* A dialog or a picker is in front of the editor.
Modal == asked = "asked" \/ (replacing.how = "picker" /\ replacing.step = "open")

-----------------------------------------------------------------------------
(* Edits and what they start.                                              *)

\* Mutant: an edit made while nothing is unsaved is not marked.
Edit_unmarked ==
    /\ ~Modal
    /\ "type" \in Habits \/ ~Publishing
    /\ Use("edits", MaxEdits)
    /\ mem' = mem \union {Item("edit", used.edits + 1)}
    /\ armed' = TRUE
    /\ queue' = Outdated(queue)
    /\ replacing' = [replacing EXCEPT !.fresh = FALSE]
    /\ UNCHANGED <<handles, dirty, disk, error, asked, agreed>>

\* adoptProjectMutation, markDirty: a draft edit or a changed definition.
Edit ==
    /\ ~Modal
    /\ "type" \in Habits \/ ~Publishing
    /\ Use("edits", MaxEdits)
    /\ mem' = mem \union {Item("edit", used.edits + 1)}
    /\ dirty' = TRUE /\ armed' = TRUE
    /\ queue' = Outdated(queue)
    /\ replacing' = [replacing EXCEPT !.fresh = FALSE]
    /\ UNCHANGED <<handles, disk, error, asked, agreed>>

\* The debounce ends: the document as it is now is queued.
AutoSave ==
    /\ armed
    /\ armed' = FALSE
    /\ queue' = Queued("auto", mem)
    /\ UNCHANGED <<handles, mem, dirty, disk, error, asked, replacing, agreed, used>>

\* saveProject.
SaveProject ==
    /\ ~Modal /\ dirty
    /\ \A i \in DOMAIN queue : queue[i].kind # "save"
    /\ queue' = Queued("save", mem)
    /\ UNCHANGED <<handles, mem, dirty, armed, disk, error, asked, replacing, agreed, used>>

\* writeShared: the update runs when the write does.
WriteShared(kind) ==
    /\ ~Modal
    /\ kind = "publish" \/ "recover" \in Habits
    /\ "type" \in Habits \/ (~dirty /\ queue = <<>>)
    /\ Use("publishes", MaxPublishes)
    /\ queue' = Queued(kind, {Item("revision", used.publishes + 1)})
    /\ UNCHANGED <<handles, mem, dirty, armed, disk, error, asked, replacing, agreed>>

\* Another program changes the manifest.
Outside ==
    /\ Use("outside", MaxOutside)
    /\ disk' = [disk EXCEPT ![folder] = @ \union {Item("outside", used.outside + 1)}]
    /\ UNCHANGED <<handles, mem, dirty, armed, queue, error, asked, replacing, agreed>>

-----------------------------------------------------------------------------
(* The queue of writes (writeProjectWorkspace).                            *)

Here(w) == w.handle = Len(handles)
Into(w) == handles[w.handle].folder

\* currentProjectDocument, of the project that is open by now.
Current == mem

\* A write reaches the front.
Run ==
    /\ queue # <<>> /\ ~Head(queue).running
    /\ queue' = [queue EXCEPT ![1].running = TRUE,
                   ![1].doc = IF Head(queue).kind \in Shared THEN @ \union Current ELSE @]
    /\ UNCHANGED <<handles, mem, dirty, armed, disk, error, asked, replacing, agreed, used>>

\* A save that covers the document leaves nothing unsaved.
Covers(w) == Here(w) /\ w.fresh

\* The expected-contents check of the storage.
Unchanged(w) == disk[Into(w)] = handles[w.handle].known

\* checkPublishable: a record is published into its own project.
Planned(w) == w.kind = "publish" => Named(Into(w)) \in w.doc

\* The document in memory once a write is confirmed.
Afterwards(w) ==
    IF w.kind \notin Shared /\ Covers(w) THEN w.doc
    ELSE IF w.kind \in Shared /\ Here(w)
    THEN mem \union (w.doc \intersect Revisions) ELSE mem

\* The write is confirmed.
Land ==
    /\ queue # <<>> /\ Head(queue).running
    /\ LET w == Head(queue)
           covers == w.kind \notin Shared /\ Covers(w) IN
       /\ Unchanged(w) /\ Planned(w)
       /\ disk' = [disk EXCEPT ![Into(w)] = w.doc]
       /\ handles' = [handles EXCEPT ![w.handle].known = w.doc]
       /\ queue' = Tail(queue)
       /\ mem' = Afterwards(w)
       /\ dirty' = IF covers THEN FALSE ELSE dirty
       /\ armed' = IF mem' # mem \/ dirty' # dirty THEN dirty' ELSE armed
       /\ error' = IF covers THEN FALSE ELSE error
       /\ IF w.kind = "continue" /\ w.fresh
          THEN asked' = "no" /\ replacing' = Performing(replacing, Len(queue) - 1)
          ELSE /\ asked' = IF w.kind = "continue" THEN "asked" ELSE asked
               /\ replacing' = Advanced(replacing)
    /\ UNCHANGED <<agreed, used>>

\* The write is refused or fails: the error is shown, nothing is set to retry.
Fail ==
    /\ queue # <<>> /\ Head(queue).running
    /\ LET w == Head(queue) IN
       /\ \/ ~(Unchanged(w) /\ Planned(w)) /\ UNCHANGED used
          \/ Unchanged(w) /\ Planned(w) /\ Use("failures", MaxFailures)
       /\ queue' = Tail(queue)
       /\ error' = (error \/ Here(w))
       /\ asked' = IF w.kind = "continue" THEN "asked" ELSE asked
       /\ replacing' = Advanced(replacing)
    /\ UNCHANGED <<handles, mem, dirty, armed, disk, agreed>>

-----------------------------------------------------------------------------
(* Another project replaces this one.                                      *)

\* requestProjectReplacement: nothing at risk is not asked about.
Requested(how, to) ==
    LET r == [NoReplacement EXCEPT !.how = how, !.to = to, !.step = "wait"] IN
    IF dirty THEN asked' = "asked" /\ replacing' = r
             ELSE asked' = "no" /\ replacing' = Performing(r, Len(queue))

\* newProjectFolder, openProjectWorkspace, adoptLinkedWorkspace.
RequestReplacement(how, to) ==
    /\ asked = "no" /\ replacing = NoReplacement
    /\ to # folder
    /\ Use("opens", MaxOpens)
    /\ Requested(how, to)
    /\ UNCHANGED <<handles, mem, dirty, armed, queue, disk, error, agreed>>

CancelReplacement ==
    /\ asked = "asked"
    /\ asked' = "no" /\ replacing' = NoReplacement
    /\ UNCHANGED <<handles, mem, dirty, armed, queue, disk, error, agreed, used>>

DiscardAndContinue ==
    /\ asked = "asked"
    /\ asked' = "no"
    /\ replacing' = Performing(replacing, Len(queue))
    /\ agreed' = agreed \union mem
    /\ UNCHANGED <<handles, mem, dirty, armed, queue, disk, error, used>>

SaveAndContinue ==
    /\ asked = "asked"
    /\ asked' = "saving"
    /\ queue' = Queued("continue", mem)
    /\ UNCHANGED <<handles, mem, dirty, armed, disk, error, replacing, agreed, used>>

\* The writes a link waited for are over.
Drained ==
    /\ replacing.step = "drain"
    /\ replacing.behind = 0
    /\ replacing' = [replacing EXCEPT !.step = "open"]
    /\ UNCHANGED <<handles, mem, dirty, armed, queue, disk, error, asked, agreed, used>>

\* Edits made while an older save drains need their own decision.
StillCurrent == replacing.how = "picker" \/ replacing.fresh

\* The other folder was read: applyProjectDocument.
Apply ==
    /\ replacing.step = "open" /\ StillCurrent
    /\ LET p == replacing.to IN
       /\ handles' = Append(handles, [folder |-> p, known |-> disk[p]])
       /\ mem' = disk[p]
    /\ dirty' = FALSE /\ armed' = FALSE /\ error' = FALSE
    /\ queue' = Outdated(queue)
    /\ replacing' = NoReplacement
    /\ UNCHANGED <<disk, asked, agreed, used>>

AskAgain ==
    /\ replacing.step = "open" /\ ~StillCurrent
    /\ Requested(replacing.how, replacing.to)
    /\ UNCHANGED <<handles, mem, dirty, armed, queue, disk, error, agreed, used>>

\* The folder could not be opened.
OpenFails ==
    /\ replacing.step = "open"
    /\ Use("failures", MaxFailures)
    /\ replacing' = NoReplacement
    /\ error' = TRUE
    /\ UNCHANGED <<handles, mem, dirty, armed, queue, disk, asked, agreed>>

\* A write at the front starts before anything else happens.
Starting == queue # <<>> /\ ~Head(queue).running

Next ==
    \/ Run
    \/ /\ ~Starting
       /\ \/ AutoSave \/ Land \/ Fail
          \/ Edit \/ SaveProject \/ Outside
          \/ \E kind \in Shared : WriteShared(kind)
          \/ \E how \in {"picker", "link"}, to \in Projects : RequestReplacement(how, to)
          \/ CancelReplacement \/ DiscardAndContinue \/ SaveAndContinue
          \/ Drained \/ Apply \/ AskAgain \/ OpenFails

\* Timers fire and the disk answers; the user need not do anything.
Spec == Init /\ [][Next]_vars /\ WF_vars(AutoSave) /\ WF_vars(Run) /\ WF_vars(Land \/ Fail)

-----------------------------------------------------------------------------
\* Every variable has its type.
WorkspaceTypeOK ==
    /\ \A h \in Range(handles) : h.folder \in Projects /\ h.known \subseteq Items
    /\ mem \subseteq Items /\ agreed \subseteq Items
    /\ {dirty, armed, error} \subseteq BOOLEAN
    /\ disk \in [Projects -> SUBSET Items]
    /\ asked \in {"no", "asked", "saving"}
    /\ replacing.step \in {"none", "wait", "drain", "open"}
    /\ \A i \in DOMAIN queue :
         queue[i].kind \in {"auto", "save", "continue"} \union Shared

\* A project shown as saved is: all the window holds is in the contents its
\* handle last wrote or read.
SavedMeansSaved == ~dirty => mem \subseteq Last(handles).known

\* An edit leaves the window's document only when it is in its file or the
\* user chose to discard it.
EditsNotLost ==
    [][\A e \in (mem \ mem') \ Revisions : e \in disk'[folder] \/ e \in agreed]_vars

\* What another program put into a project stays there: no save replaces
\* contents its handle does not know.
OutsideStays ==
    [][\A p \in Projects, n \in 1..MaxOutside :
         Item("outside", n) \in disk[p] => Item("outside", n) \in disk'[p]]_vars

\* A published revision is never written over by an older document.
PublishedStays ==
    [][\A p \in Projects, r \in Revisions : r \in disk[p] => r \in disk'[p]]_vars

\* A folder never receives another project's document.
ProjectsApart == \A p, q \in Projects : Named(q) \in disk[p] => p = q

\* An edit is saved, discarded with its project, or an error says why not.
SavedOrError == dirty ~> (~dirty \/ error)

\* "retries failures with backoff": with an end to failures, edits get saved.
EditsGetSaved == (dirty /\ ~Modal) ~> (~dirty \/ Modal)
=============================================================================
