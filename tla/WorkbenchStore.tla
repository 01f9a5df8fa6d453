--------------------------- MODULE WorkbenchStore ---------------------------
(***************************************************************************)
(* One personal record on disk (.workbench/drafts, scratch, selections),   *)
(* the store each window keeps of it (packages/core/src/workbench-store.ts)*)
(* and the host that changes its bytes                                     *)
(* (app/workbench-directory.client.ts, src-tauri/src/workbench.rs).        *)
(*                                                                         *)
(* A window's store serialises its own operations, remembers the bytes it  *)
(* expects, and hands the host a compare-and-set.  The host checks, writes *)
(* and reads back inside the write scope of the project, which windows of  *)
(* one host share and other programs ignore.  A host call may throw before *)
(* or after the bytes changed; a window may close at any moment.           *)
(***************************************************************************)
EXTENDS Naturals, Sequences

CONSTANTS
    Windows,      \* windows that have the folder open
    Contents,     \* what the record may hold
    None,         \* no file
    Unknown,      \* the store holds no expectation for the path
    MaxOps,       \* bound: operations asked of the stores
    MaxOutside,   \* bound: changes made by programs that ignore the scope
    OutsideRaces  \* such a change may fall between a check and its write

ASSUME StoreAssumption ==
    /\ None \notin Contents
    /\ Unknown \notin Contents \union {None}
    /\ MaxOps \in Nat
    /\ MaxOutside \in Nat
    /\ OutsideRaces \in BOOLEAN

VARIABLES
    disk,         \* the record's bytes
    foreign,      \* the folder also holds a record of another project
    protection,   \* .gitignore: absent, ours or other
    scope,        \* the window inside the write scope, or None
    open,         \* the window has a store
    expected,     \* the store's `expected` entry for the path
    blocked,      \* the path is in the store's `blocked` set
    writeBlocked, \* the store met a foreign identity
    queue,        \* operations behind the running one
    running,      \* the operation at the front, or None
    seen,         \* ghost: bytes the window read, meant to write or adopted
    writer,       \* ghost: who changed the bytes last
    ops, outside  \* counters of the bounds

vars == <<disk, foreign, protection, scope, open, expected, blocked,
          writeBlocked, queue, running, seen, writer, ops, outside>>

hostVars  == <<disk, foreign, protection, scope, writer>>
storeVars == <<open, expected, blocked, writeBlocked, queue, running, seen>>

Bytes == Contents \union {None}

\* A save or a delete (contents None), or a refresh; a refresh made for a
\* retry names the bytes it meant to write, an explicit one names Unknown.
Operations ==
    [kind : {"mutate"}, contents : Bytes]
        \union [kind : {"refresh"}, contents : Bytes \union {Unknown}]

Step(op, pc) == [op |-> op, pc |-> pc]

Steps == [op : Operations, pc : {"scope", "write", "confirm", "read"}]

\* Nothing is no window and no step of an operation.
ASSUME NothingAssumption == None \notin Windows /\ None \notin Steps

-----------------------------------------------------------------------------
Init ==
    /\ disk \in Bytes
    /\ foreign \in BOOLEAN
    /\ protection \in {"absent", "ours", "other"}
    /\ scope = None
    /\ open = [w \in Windows |-> FALSE]
    /\ expected = [w \in Windows |-> Unknown]
    /\ blocked = [w \in Windows |-> FALSE]
    /\ writeBlocked = [w \in Windows |-> FALSE]
    /\ queue = [w \in Windows |-> <<>>]
    /\ running = [w \in Windows |-> None]
    /\ seen = [w \in Windows |-> {}]
    /\ writer = None
    /\ ops = 0
    /\ outside = 0

\* openWorkbenchStore: one listing; an unreadable record is blocked, a record
\* that is not there has no expectation.
Open(w, readable) ==
    /\ ~open[w]
    /\ readable \/ disk # None
    /\ open' = [open EXCEPT ![w] = TRUE]
    /\ writeBlocked' = [writeBlocked EXCEPT ![w] = foreign]
    /\ blocked' = [blocked EXCEPT ![w] = ~readable]
    /\ expected' = [expected EXCEPT ![w] =
                      IF readable /\ disk # None THEN disk ELSE Unknown]
    /\ seen' = [seen EXCEPT ![w] = IF readable THEN {disk} ELSE {}]
    /\ UNCHANGED <<hostVars, queue, running, ops, outside>>

\* The window closes or crashes; the Web Lock and the native mutex are freed.
Close(w) ==
    /\ open[w]
    /\ open' = [open EXCEPT ![w] = FALSE]
    /\ queue' = [queue EXCEPT ![w] = <<>>]
    /\ running' = [running EXCEPT ![w] = None]
    /\ scope' = IF scope = w THEN None ELSE scope
    /\ expected' = [expected EXCEPT ![w] = Unknown]
    /\ blocked' = [blocked EXCEPT ![w] = FALSE]
    /\ writeBlocked' = [writeBlocked EXCEPT ![w] = FALSE]
    /\ seen' = [seen EXCEPT ![w] = {}]
    /\ UNCHANGED <<disk, foreign, protection, writer, ops, outside>>

\* save, delete, writeRecovery and refresh chain on the store's queue.
Ask(w, op) ==
    /\ open[w]
    /\ ops < MaxOps
    /\ ops' = ops + 1
    /\ queue' = [queue EXCEPT ![w] = Append(@, op)]
    /\ UNCHANGED <<hostVars, open, expected, blocked, writeBlocked, running,
                   seen, outside>>

\* A mutation the store refuses without asking the host.
Refused(w, op) ==
    \/ writeBlocked[w]
    \/ blocked[w]
    \/ op.contents = None /\ expected[w] = Unknown

\* The operation at the front starts; only now does it read the expectation.
Start(w) ==
    /\ running[w] = None
    /\ queue[w] # <<>>
    /\ LET op == Head(queue[w]) IN
         running' = [running EXCEPT ![w] =
             IF op.kind = "refresh" THEN Step(op, "read")
             ELSE IF Refused(w, op) THEN None
             ELSE Step(op, "scope")]
    /\ queue' = [queue EXCEPT ![w] = Tail(@)]
    /\ UNCHANGED <<hostVars, open, expected, blocked, writeBlocked, seen, ops,
                   outside>>

At(w, pc) == running[w] # None /\ running[w].pc = pc

\* Mutant: a host that never lets go of the write scope.
Settle_keeps_scope(w) ==
    /\ running' = [running EXCEPT ![w] = None]
    /\ UNCHANGED scope

\* The host's answer settles the operation and frees the scope.
Settle(w) ==
    /\ running' = [running EXCEPT ![w] = None]
    /\ scope' = IF scope = w THEN None ELSE scope

\* What the store hands the host as expectedContents.
ExpectedBytes(w) == IF expected[w] = Unknown THEN None ELSE expected[w]

\* mutate, inside the scope: identity, protection, expected bytes; then the
\* write is on its way.
Check(w) ==
    /\ At(w, "scope")
    /\ scope = None
    /\ \/ /\ foreign
          /\ writeBlocked' = [writeBlocked EXCEPT ![w] = TRUE]
          /\ Settle(w)
          /\ UNCHANGED <<protection, blocked>>
       \/ /\ ~foreign
          /\ protection = "other"
          /\ Settle(w)
          /\ UNCHANGED <<protection, blocked, writeBlocked>>
       \/ /\ ~foreign
          /\ protection # "other"
          /\ protection' = "ours"
          /\ disk # ExpectedBytes(w)
          /\ blocked' = [blocked EXCEPT ![w] = TRUE]
          /\ Settle(w)
          /\ UNCHANGED writeBlocked
       \/ /\ ~foreign
          /\ protection # "other"
          /\ protection' = "ours"
          /\ disk = ExpectedBytes(w)
          /\ scope' = w
          /\ running' = [running EXCEPT ![w].pc = "write"]
          /\ UNCHANGED <<blocked, writeBlocked>>
    /\ UNCHANGED <<disk, foreign, writer, open, expected, queue, seen, ops,
                   outside>>

\* The bytes change: a swap file committed, a temporary file renamed, or the
\* entry removed.
Write(w) ==
    /\ At(w, "write")
    /\ disk' = running[w].op.contents
    /\ writer' = w
    /\ seen' = [seen EXCEPT ![w] = @ \union {running[w].op.contents}]
    /\ running' = [running EXCEPT ![w].pc = "confirm"]
    /\ UNCHANGED <<foreign, protection, scope, open, expected, blocked,
                   writeBlocked, queue, ops, outside>>

\* The read-back: the write is confirmed, or someone changed it meanwhile.
Confirm(w) ==
    /\ At(w, "confirm")
    /\ IF disk = running[w].op.contents
       THEN /\ expected' = [expected EXCEPT ![w] = running[w].op.contents]
            /\ UNCHANGED blocked
       ELSE /\ blocked' = [blocked EXCEPT ![w] = TRUE]
            /\ UNCHANGED expected
    /\ Settle(w)
    /\ UNCHANGED <<disk, foreign, protection, writer, open, writeBlocked,
                   queue, seen, ops, outside>>

\* Mutant: a host that threw is taken to have written nothing.
Throw_forgotten(w) ==
    /\ At(w, "scope") \/ At(w, "write") \/ At(w, "confirm")
    /\ Settle(w)
    /\ UNCHANGED <<disk, foreign, protection, writer, open, expected, blocked,
                   writeBlocked, queue, seen, ops, outside>>

\* The host throws at any point of a mutation; bytes may have changed.
Throw(w) ==
    /\ At(w, "scope") \/ At(w, "write") \/ At(w, "confirm")
    /\ blocked' = [blocked EXCEPT ![w] = TRUE]
    /\ Settle(w)
    /\ UNCHANGED <<disk, foreign, protection, writer, open, expected,
                   writeBlocked, queue, seen, ops, outside>>

\* Mutant: a retry takes whatever is on disk as its starting point.
Acceptable_anything(w, op) == TRUE

\* refresh re-reads outside the scope.  For a retry it accepts the bytes the
\* write meant to leave, or those it started from, and nothing else.
Acceptable(w, op) ==
    \/ op.contents = Unknown
    \/ disk = op.contents
    \/ disk = ExpectedBytes(w)

Refresh(w, readable) ==
    /\ At(w, "read")
    /\ LET op == running[w].op IN
         \/ /\ ~readable
            /\ UNCHANGED <<expected, blocked, seen>>
         \/ /\ readable
            /\ ~Acceptable(w, op)
            /\ blocked' = [blocked EXCEPT ![w] = TRUE]
            /\ UNCHANGED <<expected, seen>>
         \/ /\ readable
            /\ Acceptable(w, op)
            /\ expected' = [expected EXCEPT ![w] =
                              IF disk = None THEN Unknown ELSE disk]
            /\ blocked' = [blocked EXCEPT ![w] = FALSE]
            /\ seen' = [seen EXCEPT ![w] =
                          IF op.contents \in {Unknown, disk} \/ disk = None
                          THEN @ \union {disk} ELSE @]
    /\ running' = [running EXCEPT ![w] = None]
    /\ UNCHANGED <<hostVars, open, writeBlocked, queue, ops, outside>>

\* An editor, a sync client, another host: it takes no part in the scope.
Outside(c, f, p) ==
    /\ outside < MaxOutside
    /\ OutsideRaces \/ \A w \in Windows : ~At(w, "write")
    /\ <<c, f, p>> # <<disk, foreign, protection>>
    /\ outside' = outside + 1
    /\ disk' = c
    /\ foreign' = f
    /\ protection' = p
    /\ writer' = IF c = disk THEN writer ELSE None
    /\ UNCHANGED <<scope, storeVars, ops>>

Host(w) == Check(w) \/ Write(w) \/ Confirm(w)

Next ==
    \/ \E w \in Windows :
         \/ \E readable \in BOOLEAN : Open(w, readable) \/ Refresh(w, readable)
         \/ Close(w) \/ Start(w) \/ Host(w) \/ Throw(w)
         \/ \E op \in Operations : Ask(w, op)
    \/ \E c \in Bytes, f \in BOOLEAN, p \in {"absent", "ours", "other"} :
         Outside(c, f, p)

\* A started operation runs on and the host answers; a window stays or goes,
\* and the user asks, as they like.
Fairness ==
    \A w \in Windows :
        /\ WF_vars(Start(w))
        /\ SF_vars(Check(w))
        /\ WF_vars(Write(w))
        /\ WF_vars(Confirm(w))
        /\ WF_vars(\E readable \in BOOLEAN : Refresh(w, readable))

Spec == Init /\ [][Next]_vars /\ Fairness

-----------------------------------------------------------------------------
\* Every variable has its type.
StoreTypeOK ==
    /\ disk \in Bytes
    /\ foreign \in BOOLEAN
    /\ protection \in {"absent", "ours", "other"}
    /\ scope \in Windows \union {None}
    /\ open \in [Windows -> BOOLEAN]
    /\ expected \in [Windows -> Bytes \union {Unknown}]
    /\ blocked \in [Windows -> BOOLEAN]
    /\ writeBlocked \in [Windows -> BOOLEAN]
    /\ queue \in [Windows -> Seq(Operations)]
    /\ running \in [Windows -> Steps \union {None}]
    /\ seen \in [Windows -> SUBSET Bytes]
    /\ writer \in Windows \union {None}
    /\ ops \in 0..MaxOps
    /\ outside \in 0..MaxOutside

\* "Conflicts never silently adopt disk contents" (workbench-store.ts): a
\* window replaces or removes only bytes that it loaded, wrote itself, or that
\* its user chose to adopt.  Neither a queued save, nor a save after a failed
\* one, nor a retry may destroy what another window or program left there.
NoBlindOverwrite ==
    [][\A w \in Windows :
         (At(w, "write") /\ disk' # disk /\ writer' = w) => disk \in seen[w]]_vars

\* A store that is idle and not blocked knows what the last write of its own
\* left: what it would overwrite next is what is there.  A host that throws
\* after the bytes changed must not leave it believing otherwise.
WriterKnowsDisk ==
    \A w \in Windows :
        (writer = w /\ running[w] = None /\ open[w] /\ ~blocked[w])
            => disk = ExpectedBytes(w)

\* The store's own state agrees with the disk it serves.
StoreSafe == StoreTypeOK /\ WriterKnowsDisk

\* Personal bytes are written only while .gitignore keeps the folder out of
\* Git and every record in it belongs to this project
\* (workbench-directory.client.ts, protect in workbench.rs).
WritesAreProtected ==
    [][\A w \in Windows :
         (At(w, "write") /\ disk' # disk /\ writer' = w)
             => (protection = "ours" /\ ~foreign)]_vars

\* What a window writes is founded on bytes it knows and on a protected folder.
WritesAreFounded == NoBlindOverwrite /\ WritesAreProtected

\* Every operation of a window that stays is answered, whatever the other
\* windows and programs do.
Served ==
    \A w \in Windows :
        (open[w] /\ queue[w] # <<>>) ~> (~open[w] \/ (running[w] = None /\ queue[w] = <<>>))
=============================================================================
