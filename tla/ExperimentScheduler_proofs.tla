---------------------- MODULE ExperimentScheduler_proofs ----------------------
(***************************************************************************)
(* Proofs about ExperimentScheduler, for any plan, limits, retry policy and*)
(* waits.                                                                  *)
(*                                                                         *)
(* The argument has three parts.  The scan's counters always equal the     *)
(* number of busy cells they stand for, which bounds those cells and makes *)
(* a drained schedule one in which nothing is busy.  Everything recorded of*)
(* a cell follows from its stage and from whether the run was interrupted, *)
(* so a drained schedule that was not interrupted has a true result.  And a*)
(* connection's pause lasts to the end of its longest one until the run is *)
(* aborted, when nothing starts any more.                                  *)
(***************************************************************************)
EXTENDS ExperimentScheduler, FiniteSetTheorems, TLAPS

BusyCells == { c \in Cells : Busy(c) }
BusyOn(k) == { c \in Cells : ConnectionOf[c] = k /\ Busy(c) }

Queued(c) == \E i \in 1..Len(unstarted) : unstarted[i] = c

\* The queue holds, in plan order, exactly the cells that have not started.
QueueInv ==
  /\ \A i, j \in 1..Len(unstarted) : i < j => unstarted[i] < unstarted[j]
  /\ \A c \in Cells : /\ stage[c] = "unstarted" <=> Queued(c)
                      /\ stage[c] = "unstarted" <=> startOrder[c] = 0

\* The scan's counters count the busy cells, and stay within their limits.
CountersInv ==
  /\ inFlight = Cardinality(BusyCells) /\ inFlight <= MaxInFlight
  /\ \A k \in Connections :
       activeOn[k] = Cardinality(BusyOn(k)) /\ activeOn[k] <= Limit[k]

\* Start orders are given out from one, without a gap.
NumbersInv ==
  /\ \A c \in Started : startOrder[c] <= Cardinality(Started)
  /\ \A n \in 1..Cardinality(Started) : \E c \in Started : startOrder[c] = n

\* A cell's entry, its trace and its retries follow from its stage.
EntriesInv ==
  \A c \in Cells :
    /\ stage[c] \in {"unstarted", "running", "backoff"} => status[c] = "not-run"
    /\ stage[c] \in {"saving", "settled"} => status[c] # "not-run"
    /\ stage[c] = "thrown" => interrupted
    /\ saved[c] = IF stage[c] = "settled" THEN 1 ELSE 0
    /\ stage[c] = "unstarted" => retries[c] = 0

\* A stop names a failed cell, and nothing has started since.
StopInv ==
  stop # None => /\ stop.cell \in Started /\ status[stop.cell] = "failed"
                 /\ stop.started = Cardinality(Started)

\* Nothing starts before the schedule, and nothing is busy after it.
PhaseInv ==
  /\ phase \in {"idle", "saving_plan"} => \A c \in Cells : stage[c] = "unstarted"
  /\ phase \in {"finishing", "saving_result", "done"} => \A c \in Cells : ~ Busy(c)
  /\ phase = "finishing" => Halted \/ unstarted = <<>>

\* An outcome that speaks for the cells is given once nothing can interrupt.
OutcomeInv ==
  /\ outcome \in {"completed", "cancelled", "stopped", "unsaved"} =>
       phase \in {"saving_result", "done"} /\ ~ interrupted
  /\ phase = "saving_result" => ~ interrupted

ResultInv == EntriesInv /\ StopInv /\ PhaseInv /\ OutcomeInv

\* Until the run is aborted, a connection is paused to the end of its longest
\* pause; once it is, nothing starts.
PausesInv ==
  /\ \A k \in Connections :
       /\ pausedUntil[k] <= embargo[k]
       /\ ~ runAborted /\ embargo[k] > now => pausedUntil[k] = embargo[k]
  /\ runAborted => Halted \/ phase = "done"

SchedulerInv ==
  /\ SchedulerTypeOK /\ QueueInv /\ CountersInv /\ NumbersInv
  /\ ResultInv /\ PausesInv

\* What a scan has passed was on a connection that is full, or paused when the
\* scan came by; its pause may have run out since, but not been ended.
Passed(k) == activeOn[k] >= Limit[k] \/ pausedUntil[k] # 0

TurnInv ==
  IF phase = "filling"
  THEN \A i \in 1..Len(unstarted) : i < position => Passed(ConnectionOf[unstarted[i]])
  ELSE position = 1

-----------------------------------------------------------------------------
(* Operators *)

\* Removing one element closes the gap it leaves.
LEMMA RemoveAtProperties ==
  ASSUME NEW S, NEW s \in Seq(S), NEW i \in 1..Len(s)
  PROVE  /\ RemoveAt(s, i) \in Seq(S) /\ Len(RemoveAt(s, i)) = Len(s) - 1
         /\ \A j \in 1..Len(s) - 1 :
              RemoveAt(s, i)[j] = IF j < i THEN s[j] ELSE s[j + 1]
<1> DEFINE front == SubSeq(s, 1, i - 1)
           back  == SubSeq(s, i + 1, Len(s))
<1>1. /\ front \in Seq(S) /\ Len(front) = i - 1
      /\ \A j \in 1..i - 1 : front[j] = s[j]
  OBVIOUS
<1>2. /\ back \in Seq(S) /\ Len(back) = Len(s) - i
      /\ \A j \in 1..Len(s) - i : back[j] = s[i + j]
  OBVIOUS
<1>. HIDE DEF front, back
<1>3. RemoveAt(s, i) = front \o back
  BY DEF RemoveAt, front, back
<1>4. RemoveAt(s, i) \in Seq(S) /\ Len(RemoveAt(s, i)) = Len(s) - 1
  BY <1>1, <1>2, <1>3
<1>5. ASSUME NEW j \in 1..Len(s) - 1
      PROVE  RemoveAt(s, i)[j] = IF j < i THEN s[j] ELSE s[j + 1]
  <2>1. CASE j < i
    BY <1>1, <1>2, <1>3, <2>1
  <2>2. CASE j >= i
    <3>1. (front \o back)[j] = back[j - (i - 1)]
      BY <1>1, <1>2, <2>2
    <3>. QED
      BY <1>2, <1>3, <2>2, <3>1
  <2>. QED
    BY <2>1, <2>2
<1>. QED
  BY <1>4, <1>5

\* Sets of cells are finite.
LEMMA CellSets ==
  ASSUME NEW S \in SUBSET Cells
  PROVE  IsFiniteSet(S) /\ Cardinality(S) \in 0..CellCount
<1>1. IsFiniteSet(Cells) /\ Cardinality(Cells) = CellCount
  BY FS_Interval, SchedulerAssumption DEF Cells
<1>2. IsFiniteSet(S) /\ Cardinality(S) <= CellCount
  BY <1>1, FS_Subset
<1>. QED
  BY <1>2, FS_CardinalityType, SchedulerAssumption

\* A cell that stays busy changes no count.
LEMMA StaysBusy ==
  ASSUME SchedulerTypeOK, NEW c \in Cells, Busy(c),
         NEW s \in {"running", "backoff", "saving"},
         stage' = [stage EXCEPT ![c] = s]
  PROVE  BusyCells' = BusyCells /\ \A k \in Connections : BusyOn(k)' = BusyOn(k)
<1>1. \A d \in Cells : Busy(d)' = Busy(d)
  BY DEF SchedulerTypeOK, CellTypesOK, Busy
<1>. QED
  BY <1>1 DEF BusyCells, BusyOn

\* A cell that leaves its slot is one less in flight.
LEMMA LeavesBusy ==
  ASSUME SchedulerTypeOK, NEW c \in Cells, Busy(c),
         NEW s \in {"settled", "thrown"},
         stage' = [stage EXCEPT ![c] = s]
  PROVE  /\ Cardinality(BusyCells') = Cardinality(BusyCells) - 1
         /\ \A k \in Connections :
              Cardinality(BusyOn(k)') =
                IF k = ConnectionOf[c] THEN Cardinality(BusyOn(k)) - 1
                ELSE Cardinality(BusyOn(k))
<1>1. \A d \in Cells : Busy(d)' <=> Busy(d) /\ d # c
  BY DEF SchedulerTypeOK, CellTypesOK, Busy
<1>2. BusyCells' = BusyCells \ {c} /\ c \in BusyCells
  BY <1>1 DEF BusyCells
<1>3. ASSUME NEW k \in Connections
      PROVE  BusyOn(k)' = BusyOn(k) \ {c} /\ (c \in BusyOn(k) <=> k = ConnectionOf[c])
  BY <1>1 DEF BusyOn
<1>4. IsFiniteSet(BusyCells) /\ \A k \in Connections : IsFiniteSet(BusyOn(k))
  BY CellSets DEF BusyCells, BusyOn
<1>5. Cardinality(BusyCells \ {c}) = Cardinality(BusyCells) - 1
  BY <1>2, <1>4, FS_RemoveElement
<1>6. ASSUME NEW k \in Connections
      PROVE  Cardinality(BusyOn(k) \ {c}) =
               IF k = ConnectionOf[c] THEN Cardinality(BusyOn(k)) - 1
               ELSE Cardinality(BusyOn(k))
  BY <1>3, <1>4, FS_RemoveElement
<1>. QED
  BY <1>2, <1>3, <1>5, <1>6

\* A cell that starts is one more.
LEMMA BecomesBusy ==
  ASSUME SchedulerTypeOK, NEW c \in Cells, stage[c] = "unstarted",
         stage' = [stage EXCEPT ![c] = "running"]
  PROVE  /\ Cardinality(BusyCells') = Cardinality(BusyCells) + 1
         /\ \A k \in Connections :
              Cardinality(BusyOn(k)') =
                IF k = ConnectionOf[c] THEN Cardinality(BusyOn(k)) + 1
                ELSE Cardinality(BusyOn(k))
<1>1. \A d \in Cells : Busy(d)' <=> Busy(d) \/ d = c
  BY DEF SchedulerTypeOK, CellTypesOK, Busy
<1>2. BusyCells' = BusyCells \cup {c} /\ c \notin BusyCells
  BY <1>1 DEF BusyCells, Busy
<1>3. ASSUME NEW k \in Connections
      PROVE  /\ BusyOn(k)' = IF k = ConnectionOf[c] THEN BusyOn(k) \cup {c} ELSE BusyOn(k)
             /\ c \notin BusyOn(k)
  BY <1>1 DEF BusyOn, Busy
<1>4. IsFiniteSet(BusyCells) /\ \A k \in Connections : IsFiniteSet(BusyOn(k))
  BY CellSets DEF BusyCells, BusyOn
<1>5. Cardinality(BusyCells \cup {c}) = Cardinality(BusyCells) + 1
  BY <1>2, <1>4, FS_AddElement
<1>6. ASSUME NEW k \in Connections
      PROVE  Cardinality(BusyOn(k) \cup {c}) = Cardinality(BusyOn(k)) + 1
  BY <1>3, <1>4, FS_AddElement
<1>. QED
  BY <1>2, <1>3, <1>5, <1>6

-----------------------------------------------------------------------------
(* Types *)

\* A cell that has begun has been given a start order.
LEMMA BegunIsStarted ==
  ASSUME SchedulerInv, NEW c \in Cells, stage[c] # "unstarted"
  PROVE  c \in Started /\ Cardinality(Started) \in 1..CellCount
<1>1. c \in Started
  BY DEF SchedulerInv, QueueInv, Started
<1>2. IsFiniteSet(Started) /\ Cardinality(Started) \in 0..CellCount
  BY CellSets DEF Started
<1>3. Cardinality(Started) # 0
  BY <1>1, <1>2, FS_EmptySet
<1>. QED
  BY <1>1, <1>2, <1>3

\* A start takes the next number, and no cell twice.
LEMMA StartTakesNext ==
  ASSUME SchedulerInv, ScanStarts
  PROVE  LET c == unstarted[position] IN
         /\ position \in 1..Len(unstarted) /\ c \in Cells
         /\ stage[c] = "unstarted" /\ c \notin Started
         /\ Started' = Started \cup {c}
         /\ Cardinality(Started') = Cardinality(Started) + 1
         /\ Cardinality(Started') \in 1..CellCount
<1> DEFINE c == unstarted[position]
<1>1. position \in 1..Len(unstarted) /\ c \in Cells
  BY DEF SchedulerInv, SchedulerTypeOK, ScanTypesOK, ScanStarts, Scanning
<1>2. stage[c] = "unstarted" /\ c \notin Started
  BY <1>1 DEF SchedulerInv, QueueInv, Queued, Started
<1>3. /\ IsFiniteSet(Started) /\ Cardinality(Started) \in 0..CellCount
      /\ IsFiniteSet(Started \cup {c}) /\ Cardinality(Started \cup {c}) \in 0..CellCount
      /\ Cardinality(Started \cup {c}) = Cardinality(Started) + 1
  <2>1. Started \in SUBSET Cells /\ Started \cup {c} \in SUBSET Cells
    BY <1>1 DEF Started
  <2>2. IsFiniteSet(Started)
    BY <2>1, CellSets
  <2>3. Cardinality(Started \cup {c}) = Cardinality(Started) + 1
    BY <1>2, <2>2, FS_AddElement
  <2>. QED
    BY <2>1, <2>3, CellSets
<1>4. Started' = Started \cup {c}
  <2>1. startOrder' = [startOrder EXCEPT ![c] = Cardinality(Started) + 1]
    BY DEF ScanStarts, Starts
  <2>2. startOrder \in [Cells -> 0..CellCount] /\ Cardinality(Started) + 1 # 0
    BY <1>3 DEF SchedulerInv, SchedulerTypeOK, CellTypesOK
  <2>. QED
    BY <1>1, <2>1, <2>2 DEF Started
<1>. QED
  BY <1>1, <1>2, <1>3, <1>4

LEMMA RunTypesKept ==
  ASSUME SchedulerInv, [Next]_vars
  PROVE  RunTypesOK'
<1>0. RunTypesOK
  BY DEF SchedulerInv, SchedulerTypeOK
<1>. USE <1>0 DEF RunTypesOK, runVars
<1>1. CASE Prepare \/ Own
  BY <1>1 DEF Prepare, Own, PlanSaved, ScanSkips, ScanStarts, Starts, ScanEnds, Wake,
              Finish, ResultSaved, Ends, ResultStatus
<1>2. CASE Cancel \/ PauseEnds \/ Tick
  BY <1>2 DEF Cancel, PauseEnds, Tick
<1>3. ASSUME NEW c \in Cells, CellStep(c)
      PROVE  RunTypesOK'
  BY <1>3 DEF CellStep, Limited, BackoffEnds, CellEnds, CellStops, CellThrows, TraceSaved,
              TraceUnsaved
<1>4. CASE UNCHANGED vars
  BY <1>4 DEF vars
<1>. QED
  BY <1>1, <1>2, <1>3, <1>4 DEF Next

LEMMA ScanTypesKept ==
  ASSUME SchedulerInv, [Next]_vars
  PROVE  ScanTypesOK'
<1>0. ScanTypesOK
  BY DEF SchedulerInv, SchedulerTypeOK
<1>1. CASE Prepare \/ PlanSaved \/ Wake \/ Finish \/ ResultSaved \/ Cancel \/ PauseEnds \/ Tick
  BY <1>0, <1>1 DEF ScanTypesOK, scanVars, Prepare, PlanSaved, Wake, Finish, ResultSaved,
                    Cancel, PauseEnds, Tick
<1>2. CASE ScanSkips \/ ScanEnds
  BY <1>0, <1>2 DEF ScanTypesOK, ScanSkips, ScanEnds
<1>3. CASE ScanStarts
  <2> DEFINE c == unstarted[position]
  <2>1. position \in 1..Len(unstarted) /\ c \in Cells /\ ConnectionOf[c] \in Connections
    BY <1>3, StartTakesNext DEF Connections
  <2>2. unstarted' \in Seq(Cells)
    BY <1>0, <1>3, <2>1, RemoveAtProperties DEF ScanTypesOK, ScanStarts
  <2>3. inFlight' = inFlight + 1 /\ position' = position
        /\ activeOn' = [activeOn EXCEPT ![ConnectionOf[c]] = @ + 1]
    BY <1>3 DEF ScanStarts, Starts
  <2>4. activeOn' \in [Connections -> Nat]
    BY <1>0, <2>1, <2>3 DEF ScanTypesOK
  <2>. QED
    BY <1>0, <2>2, <2>3, <2>4 DEF ScanTypesOK
<1>4. ASSUME NEW c \in Cells, CellStep(c)
      PROVE  ScanTypesOK'
  <2>1. CASE Limited(c) \/ BackoffEnds(c) \/ CellEnds(c) \/ CellStops(c)
    BY <1>0, <2>1 DEF ScanTypesOK, scanVars, Limited, BackoffEnds, CellEnds, CellStops
  <2>2. CASE TraceSaved(c) \/ TraceUnsaved(c) \/ CellThrows(c)
    <3>1. Busy(c) /\ ConnectionOf[c] \in Connections
      BY <2>2 DEF TraceSaved, TraceUnsaved, CellThrows, Busy, Connections
    <3>2. /\ IsFiniteSet(BusyCells) /\ IsFiniteSet(BusyOn(ConnectionOf[c]))
          /\ c \in BusyCells /\ c \in BusyOn(ConnectionOf[c])
      BY <3>1, CellSets DEF BusyCells, BusyOn
    <3>3. Cardinality(BusyCells) # 0 /\ Cardinality(BusyOn(ConnectionOf[c])) # 0
      BY <3>2, FS_EmptySet
    <3>4. inFlight # 0 /\ activeOn[ConnectionOf[c]] # 0
      BY <3>1, <3>3 DEF SchedulerInv, CountersInv
    <3>5. /\ unstarted' = unstarted /\ position' = position /\ inFlight' = inFlight - 1
          /\ activeOn' = [activeOn EXCEPT ![ConnectionOf[c]] = @ - 1]
      BY <2>2 DEF TraceSaved, TraceUnsaved, CellThrows, LeavesSlot
    <3>6. activeOn' \in [Connections -> Nat]
      BY <1>0, <3>1, <3>4, <3>5 DEF ScanTypesOK
    <3>. QED
      BY <1>0, <3>4, <3>5, <3>6 DEF ScanTypesOK
  <2>. QED
    BY <1>4, <2>1, <2>2 DEF CellStep
<1>5. CASE UNCHANGED vars
  BY <1>0, <1>5 DEF ScanTypesOK, vars, scanVars
<1>. QED
  BY <1>1, <1>2, <1>3, <1>4, <1>5 DEF Next, Own

LEMMA HaltTypesKept ==
  ASSUME SchedulerInv, [Next]_vars
  PROVE  HaltTypesOK'
<1>0. HaltTypesOK
  BY DEF SchedulerInv, SchedulerTypeOK
<1>1. CASE Prepare \/ Own \/ Cancel \/ PauseEnds \/ Tick
  BY <1>0, <1>1, Zenon
     DEF HaltTypesOK, haltVars, Prepare, Own, PlanSaved, ScanSkips, ScanStarts, Starts,
         ScanEnds, Wake, Finish, ResultSaved, Ends, Cancel, AbortInFlight, PauseEnds, Tick
<1>2. ASSUME NEW c \in Cells, CellStep(c)
      PROVE  HaltTypesOK'
  <2>1. CASE Limited(c) \/ BackoffEnds(c) \/ CellEnds(c) \/ TraceSaved(c)
    BY <1>0, <2>1 DEF HaltTypesOK, haltVars, Limited, Settles, BackoffEnds, CellEnds,
                      TraceSaved
  <2>2. CASE CellStops(c)
    <3>1. Cardinality(Started) \in 1..CellCount
      BY <2>2, BegunIsStarted DEF CellStops
    <3>. QED
      BY <1>0, <2>2, <3>1 DEF HaltTypesOK, CellStops, Settles
  <2>3. CASE TraceUnsaved(c) \/ CellThrows(c)
    BY <1>0, <2>3 DEF HaltTypesOK, TraceUnsaved, CellThrows, Interrupt, AbortInFlight
  <2>. QED
    BY <1>2, <2>1, <2>2, <2>3 DEF CellStep
<1>3. CASE UNCHANGED vars
  BY <1>0, <1>3 DEF HaltTypesOK, vars, haltVars
<1>. QED
  BY <1>1, <1>2, <1>3 DEF Next

LEMMA PauseTypesKept ==
  ASSUME SchedulerInv, [Next]_vars
  PROVE  PauseTypesOK'
<1>0. PauseTypesOK
  BY DEF SchedulerInv, SchedulerTypeOK
<1>1. CASE Prepare \/ Own \/ Cancel
  BY <1>0, <1>1
     DEF PauseTypesOK, pauseVars, Prepare, Own, PlanSaved, ScanSkips, ScanStarts, Starts,
         ScanEnds, Wake, Finish, ResultSaved, Cancel
<1>2. CASE PauseEnds
  BY <1>0, <1>2 DEF PauseTypesOK, PauseEnds
<1>3. CASE Tick
  BY <1>0, <1>3 DEF PauseTypesOK, pauseVars, Tick
<1>4. ASSUME NEW c \in Cells, CellStep(c)
      PROVE  PauseTypesOK'
  <2>1. CASE Limited(c)
    <3>1. PICK ms \in Waits : PauseConnection(ConnectionOf[c], ms)
      BY <2>1 DEF Limited
    <3>2. now' = now /\ now + ms \in Nat /\ ConnectionOf[c] \in Connections
      BY <1>0, <2>1, SchedulerAssumption DEF PauseTypesOK, Limited, Connections
    <3>. QED
      BY <1>0, <3>1, <3>2 DEF PauseTypesOK, PauseConnection
  <2>2. CASE ~ Limited(c)
    BY <1>0, <1>4, <2>2 DEF PauseTypesOK, pauseVars, CellStep, BackoffEnds, CellEnds,
                            CellStops, CellThrows, TraceSaved, TraceUnsaved
  <2>. QED
    BY <2>1, <2>2
<1>5. CASE UNCHANGED vars
  BY <1>0, <1>5 DEF PauseTypesOK, vars, pauseVars
<1>. QED
  BY <1>1, <1>2, <1>3, <1>4, <1>5 DEF Next

LEMMA CellTypesKept ==
  ASSUME SchedulerInv, [Next]_vars
  PROVE  CellTypesOK'
<1>0. CellTypesOK
  BY DEF SchedulerInv, SchedulerTypeOK
<1>1. CASE Prepare \/ PlanSaved \/ ScanSkips \/ ScanEnds \/ Wake \/ Finish \/ ResultSaved
           \/ PauseEnds \/ Tick
  BY <1>0, <1>1 DEF CellTypesOK, cellVars, Prepare, PlanSaved, ScanSkips, ScanEnds, Wake,
                    Finish, ResultSaved, PauseEnds, Tick
<1>2. CASE Cancel
  BY <1>0, <1>2 DEF CellTypesOK, Cancel, AbortInFlight
<1>3. CASE ScanStarts
  <2>1. unstarted[position] \in Cells /\ Cardinality(Started) + 1 \in 1..CellCount
    BY <1>3, StartTakesNext
  <2>. QED
    BY <1>0, <1>3, <2>1 DEF CellTypesOK, ScanStarts, Starts
<1>4. ASSUME NEW c \in Cells, CellStep(c)
      PROVE  CellTypesOK'
  <2>1. CASE Limited(c)
    <3>1. PICK ms \in Waits :
            IF MayRetry(c)
            THEN /\ stage' = [stage EXCEPT ![c] = "backoff"]
                 /\ wakeAt' = [wakeAt EXCEPT ![c] = now + ms]
                 /\ status' = status
            ELSE Settles(c, "failed") /\ wakeAt' = wakeAt
      BY <2>1 DEF Limited
    <3>2. now + ms \in Nat
      BY SchedulerAssumption DEF SchedulerInv, SchedulerTypeOK, PauseTypesOK
    <3>3. UNCHANGED <<signalled, retries, startOrder, saved>>
      BY <2>1 DEF Limited
    <3>. QED
      BY <1>0, <3>1, <3>2, <3>3 DEF CellTypesOK, Settles
  <2>2. CASE BackoffEnds(c) \/ CellEnds(c) \/ CellStops(c)
    BY <1>0, <2>2 DEF CellTypesOK, BackoffEnds, CellEnds, CellStops, Settles
  <2>3. CASE CellThrows(c) \/ TraceSaved(c) \/ TraceUnsaved(c)
    BY <1>0, <2>3 DEF CellTypesOK, CellThrows, TraceSaved, TraceUnsaved, Interrupt,
                      AbortInFlight
  <2>. QED
    BY <1>4, <2>1, <2>2, <2>3 DEF CellStep
<1>5. CASE UNCHANGED vars
  BY <1>0, <1>5 DEF CellTypesOK, vars, cellVars
<1>. QED
  BY <1>1, <1>2, <1>3, <1>4, <1>5 DEF Next, Own

LEMMA TypesKept ==
  ASSUME SchedulerInv, [Next]_vars
  PROVE  SchedulerTypeOK'
BY RunTypesKept, ScanTypesKept, HaltTypesKept, PauseTypesKept, CellTypesKept
   DEF SchedulerTypeOK

-----------------------------------------------------------------------------
(* The queue, the counters and the numbers *)

\* What a cell does between scans leaves the queue alone, and once it has
\* begun it has for good.
LEMMA CellStepsBegun ==
  ASSUME SchedulerInv, NEW c \in Cells, CellStep(c)
  PROVE  /\ UNCHANGED <<phase, outcome, unstarted, position, startOrder>>
         /\ stage[c] \in {"running", "backoff", "saving"} /\ phase # "filling"
         /\ \E s \in {"running", "backoff", "saving", "settled", "thrown"} :
              stage' = [stage EXCEPT ![c] = s]
<1>1. UNCHANGED <<phase, outcome, unstarted, position, startOrder>>
  BY DEF CellStep, runVars, scanVars, Limited, BackoffEnds, CellEnds, CellStops, CellThrows,
         TraceSaved, TraceUnsaved, LeavesSlot
<1>2. phase # "filling" /\ stage[c] \in {"running", "backoff", "saving"}
  BY DEF CellStep, Limited, BackoffEnds, CellEnds, CellStops, CellThrows, TraceSaved,
         TraceUnsaved
<1>3. \E s \in {"running", "backoff", "saving", "settled", "thrown"} :
        stage' = [stage EXCEPT ![c] = s]
  BY DEF CellStep, Limited, BackoffEnds, CellEnds, CellStops, CellThrows, TraceSaved,
         TraceUnsaved, Settles
<1>. QED
  BY <1>1, <1>2, <1>3

\* Only the scan and the cells touch the queue, the counters and the stages.
LEMMA OthersLeaveSchedule ==
  ASSUME Prepare \/ PlanSaved \/ Wake \/ Finish \/ ResultSaved \/ Cancel \/ PauseEnds \/ Tick
         \/ ScanSkips \/ ScanEnds \/ UNCHANGED vars
  PROVE  UNCHANGED <<unstarted, inFlight, activeOn, stage, startOrder>>
BY DEF scanVars, cellVars, Prepare, PlanSaved, Wake, Finish, ResultSaved, Cancel, PauseEnds,
       Tick, ScanSkips, ScanEnds, vars

LEMMA QueueKept ==
  ASSUME SchedulerInv, [Next]_vars
  PROVE  QueueInv'
<1>0. QueueInv /\ ScanTypesOK /\ CellTypesOK
  BY DEF SchedulerInv, SchedulerTypeOK
<1>1. CASE UNCHANGED <<unstarted, stage, startOrder>>
  BY <1>0, <1>1 DEF QueueInv, Queued
<1>2. CASE ScanStarts
  <2> DEFINE c == unstarted[position]
  <2>1. /\ position \in 1..Len(unstarted) /\ c \in Cells /\ unstarted \in Seq(Cells)
        /\ stage[c] = "unstarted" /\ c \notin Started
    BY <1>0, <1>2, StartTakesNext DEF ScanTypesOK
  <2>2. /\ unstarted' \in Seq(Cells) /\ Len(unstarted') = Len(unstarted) - 1
        /\ \A j \in 1..Len(unstarted) - 1 :
             unstarted'[j] = IF j < position THEN unstarted[j] ELSE unstarted[j + 1]
    BY <1>2, <2>1, RemoveAtProperties DEF ScanStarts
  <2>3. /\ \A d \in Cells : stage'[d] = IF d = c THEN "running" ELSE stage[d]
        /\ \A d \in Cells : startOrder'[d] = 0 <=> startOrder[d] = 0 /\ d # c
    <3>1. /\ stage' = [stage EXCEPT ![c] = "running"]
          /\ startOrder' = [startOrder EXCEPT ![c] = Cardinality(Started) + 1]
      BY <1>2 DEF ScanStarts, Starts
    <3>2. Cardinality(Started) + 1 # 0
      BY CellSets, SchedulerAssumption DEF Started
    <3>. QED
      BY <1>0, <2>1, <3>1, <3>2 DEF CellTypesOK
  <2>4. ASSUME NEW i \in 1..Len(unstarted'), NEW j \in 1..Len(unstarted'), i < j
        PROVE  unstarted'[i] < unstarted'[j]
    BY <1>0, <2>1, <2>2, <2>4 DEF QueueInv
  <2>5. ASSUME NEW d \in Cells
        PROVE  Queued(d)' <=> Queued(d) /\ d # c
    <3>1. ASSUME NEW i \in 1..Len(unstarted'), unstarted'[i] = d
          PROVE  Queued(d) /\ d # c
      <4>1. CASE i < position
        <5>1. i \in 1..Len(unstarted) /\ unstarted[i] = d /\ i < position
          BY <2>1, <2>2, <3>1, <4>1
        <5>. QED
          BY <1>0, <2>1, <5>1 DEF QueueInv, Queued, Cells
      <4>2. CASE i >= position
        <5>1. /\ i + 1 \in 1..Len(unstarted) /\ unstarted[i + 1] = d
              /\ position < i + 1
          BY <2>1, <2>2, <3>1, <4>2
        <5>. QED
          BY <1>0, <2>1, <5>1 DEF QueueInv, Queued, Cells
      <4>. QED
        BY <2>1, <2>2, <4>1, <4>2
    <3>2. ASSUME NEW i \in 1..Len(unstarted), unstarted[i] = d, d # c
          PROVE  Queued(d)'
      <4>1. CASE i < position
        BY <2>1, <2>2, <3>2, <4>1 DEF Queued
      <4>2. CASE i > position
        <5>1. i - 1 \in 1..Len(unstarted') /\ unstarted'[i - 1] = d
          BY <2>1, <2>2, <3>2, <4>2
        <5>. QED
          BY <5>1 DEF Queued
      <4>. QED
        BY <2>1, <3>2, <4>1, <4>2
    <3>. QED
      BY <3>1, <3>2 DEF Queued
  <2>. QED
    BY <1>0, <2>3, <2>4, <2>5 DEF QueueInv
<1>3. ASSUME NEW c \in Cells, CellStep(c)
      PROVE  QueueInv'
  <2>1. \A d \in Cells : stage'[d] = "unstarted" <=> stage[d] = "unstarted"
    BY <1>0, <1>3, CellStepsBegun DEF CellTypesOK
  <2>2. unstarted' = unstarted /\ startOrder' = startOrder
    BY <1>3, CellStepsBegun
  <2>. QED
    BY <1>0, <2>1, <2>2 DEF QueueInv, Queued
<1>. QED
  BY <1>1, <1>2, <1>3, OthersLeaveSchedule DEF Next, Own

LEMMA CountersKept ==
  ASSUME SchedulerInv, [Next]_vars
  PROVE  CountersInv'
<1>0. CountersInv /\ SchedulerTypeOK /\ ScanTypesOK
  BY DEF SchedulerInv, SchedulerTypeOK
<1>1. CASE UNCHANGED <<inFlight, activeOn, stage>>
  <2>1. BusyCells' = BusyCells /\ \A k \in Connections : BusyOn(k)' = BusyOn(k)
    BY <1>1 DEF BusyCells, BusyOn, Busy
  <2>. QED
    BY <1>0, <1>1, <2>1 DEF CountersInv
<1>2. CASE ScanStarts
  <2> DEFINE c == unstarted[position]
  <2>1. c \in Cells /\ stage[c] = "unstarted" /\ ConnectionOf[c] \in Connections
    BY <1>2, StartTakesNext DEF Connections
  <2>2. /\ inFlight' = inFlight + 1 /\ inFlight < MaxInFlight
        /\ activeOn' = [activeOn EXCEPT ![ConnectionOf[c]] = @ + 1]
        /\ activeOn[ConnectionOf[c]] < Limit[ConnectionOf[c]]
        /\ stage' = [stage EXCEPT ![c] = "running"]
    BY <1>2 DEF ScanStarts, Scanning, Starts, Eligible
  <2>3. /\ Cardinality(BusyCells') = Cardinality(BusyCells) + 1
        /\ \A k \in Connections :
             Cardinality(BusyOn(k)') =
               IF k = ConnectionOf[c] THEN Cardinality(BusyOn(k)) + 1
               ELSE Cardinality(BusyOn(k))
    BY <1>0, <2>1, <2>2, BecomesBusy
  <2>. QED
    <3>1. inFlight' = Cardinality(BusyCells') /\ inFlight' <= MaxInFlight
      BY <1>0, <2>2, <2>3, SchedulerAssumption DEF CountersInv, ScanTypesOK
    <3>2. ASSUME NEW k \in Connections
          PROVE  activeOn'[k] = Cardinality(BusyOn(k)') /\ activeOn'[k] <= Limit[k]
      <4>1. /\ activeOn[k] \in Nat /\ Limit[k] \in Nat
            /\ activeOn[k] = Cardinality(BusyOn(k)) /\ activeOn[k] <= Limit[k]
        BY <1>0, SchedulerAssumption DEF CountersInv, ScanTypesOK
      <4>2. activeOn'[k] = IF k = ConnectionOf[c] THEN activeOn[k] + 1 ELSE activeOn[k]
        BY <1>0, <2>1, <2>2 DEF ScanTypesOK
      <4>. QED
        BY <2>2, <2>3, <4>1, <4>2
    <3>. QED
      BY <3>1, <3>2 DEF CountersInv
<1>3. ASSUME NEW c \in Cells, CellStep(c)
      PROVE  CountersInv'
  <2>0. Busy(c) /\ ConnectionOf[c] \in Connections
    BY <1>3, CellStepsBegun DEF Busy, Connections
  <2>1. CASE Limited(c) \/ BackoffEnds(c) \/ CellEnds(c) \/ CellStops(c)
    <3>1. inFlight' = inFlight /\ activeOn' = activeOn
      BY <2>1 DEF Limited, BackoffEnds, CellEnds, CellStops, scanVars
    <3>2. \E s \in {"running", "backoff", "saving"} : stage' = [stage EXCEPT ![c] = s]
      BY <2>1 DEF Limited, BackoffEnds, CellEnds, CellStops, Settles
    <3>3. BusyCells' = BusyCells /\ \A k \in Connections : BusyOn(k)' = BusyOn(k)
      BY <1>0, <2>0, <3>2, StaysBusy
    <3>. QED
      BY <1>0, <3>1, <3>3 DEF CountersInv
  <2>2. CASE CellThrows(c) \/ TraceSaved(c) \/ TraceUnsaved(c)
    <3>1. LeavesSlot(c)
      BY <2>2 DEF CellThrows, TraceSaved, TraceUnsaved
    <3>2. \E s \in {"settled", "thrown"} : stage' = [stage EXCEPT ![c] = s]
      BY <2>2 DEF CellThrows, TraceSaved, TraceUnsaved
    <3>3. /\ Cardinality(BusyCells') = Cardinality(BusyCells) - 1
          /\ \A k \in Connections :
               Cardinality(BusyOn(k)') =
                 IF k = ConnectionOf[c] THEN Cardinality(BusyOn(k)) - 1
                 ELSE Cardinality(BusyOn(k))
      BY <1>0, <2>0, <3>2, LeavesBusy
    <3>4. ASSUME NEW k \in Connections
          PROVE  activeOn'[k] = Cardinality(BusyOn(k)') /\ activeOn'[k] <= Limit[k]
      <4>1. /\ activeOn[k] \in Nat /\ Limit[k] \in Nat
            /\ activeOn[k] = Cardinality(BusyOn(k)) /\ activeOn[k] <= Limit[k]
        BY <1>0, SchedulerAssumption DEF CountersInv, ScanTypesOK
      <4>2. activeOn'[k] = IF k = ConnectionOf[c] THEN activeOn[k] - 1 ELSE activeOn[k]
        BY <1>0, <2>0, <3>1 DEF ScanTypesOK, LeavesSlot
      <4>. QED
        BY <3>3, <4>1, <4>2
    <3>5. inFlight' = Cardinality(BusyCells') /\ inFlight' <= MaxInFlight
      BY <1>0, <3>1, <3>3, SchedulerAssumption DEF CountersInv, ScanTypesOK, LeavesSlot
    <3>. QED
      BY <3>4, <3>5 DEF CountersInv
  <2>. QED
    BY <1>3, <2>1, <2>2 DEF CellStep
<1>. QED
  BY <1>1, <1>2, <1>3, OthersLeaveSchedule DEF Next, Own

LEMMA NumbersKept ==
  ASSUME SchedulerInv, [Next]_vars
  PROVE  NumbersInv'
<1>0. NumbersInv /\ CellTypesOK
  BY DEF SchedulerInv, SchedulerTypeOK
<1>1. CASE startOrder' = startOrder
  BY <1>0, <1>1 DEF NumbersInv, Started
<1>2. CASE ScanStarts
  <2> DEFINE c == unstarted[position]
             n == Cardinality(Started)
  <2>1. /\ c \in Cells /\ c \notin Started /\ Started' = Started \cup {c}
        /\ Cardinality(Started') = n + 1
    BY <1>2, StartTakesNext
  <2>2. n \in Nat
    BY CellSets, SchedulerAssumption DEF Started
  <2>3. startOrder' = [startOrder EXCEPT ![c] = n + 1]
    BY <1>2 DEF ScanStarts, Starts
  <2>4. startOrder'[c] = n + 1 /\ \A d \in Started : startOrder'[d] = startOrder[d]
    BY <1>0, <2>1, <2>3 DEF CellTypesOK, Started
  <2>5. \A d \in Started' : startOrder'[d] <= n + 1
    <3>1. \A d \in Started : startOrder[d] \in Nat /\ startOrder[d] <= n
      BY <1>0, SchedulerAssumption DEF NumbersInv, Started, CellTypesOK
    <3>. QED
      BY <2>1, <2>2, <2>4, <3>1
  <2>6. \A m \in 1..n + 1 : \E d \in Started' : startOrder'[d] = m
    <3>1. ASSUME NEW m \in 1..n
          PROVE  \E d \in Started' : startOrder'[d] = m
      BY <1>0, <2>1, <2>4 DEF NumbersInv
    <3>. QED
      BY <2>1, <2>2, <2>4, <3>1
  <2>. QED
    BY <2>1, <2>5, <2>6 DEF NumbersInv
<1>. QED
  BY <1>1, <1>2, OthersLeaveSchedule, CellStepsBegun DEF Next, Own

-----------------------------------------------------------------------------
(* The result *)

\* What a cell's entry, trace and retries come to is the cell's own doing.
LEMMA EntriesKept ==
  ASSUME SchedulerInv, [Next]_vars
  PROVE  EntriesInv'
<1>0. EntriesInv /\ CellTypesOK
  BY DEF SchedulerInv, SchedulerTypeOK, ResultInv
<1>1. CASE /\ UNCHANGED <<stage, status, saved, retries>>
           /\ interrupted' = interrupted
  BY <1>0, <1>1 DEF EntriesInv
<1>2. CASE ScanStarts
  <2>1. unstarted[position] \in Cells /\ stage[unstarted[position]] = "unstarted"
    BY <1>2, StartTakesNext
  <2>2. /\ stage' = [stage EXCEPT ![unstarted[position]] = "running"]
        /\ UNCHANGED <<status, saved, retries, interrupted>>
    BY <1>2 DEF ScanStarts, Starts, haltVars
  <2>. QED
    BY <1>0, <2>1, <2>2 DEF EntriesInv, CellTypesOK
<1>3. ASSUME NEW c \in Cells, CellStep(c)
      PROVE  EntriesInv'
  <2>1. CASE Limited(c)
    <3>1. UNCHANGED <<interrupted, retries, saved>> /\ stage[c] = "running"
      BY <2>1 DEF Limited
    <3>2. \/ stage' = [stage EXCEPT ![c] = "backoff"] /\ status' = status
          \/ /\ stage' = [stage EXCEPT ![c] = "saving"]
             /\ status' = [status EXCEPT ![c] = "failed"]
      BY <2>1 DEF Limited, Settles
    <3>. QED
      BY <1>0, <3>1, <3>2 DEF EntriesInv, CellTypesOK
  <2>2. CASE BackoffEnds(c)
    BY <1>0, <2>2 DEF BackoffEnds, Settles, EntriesInv, CellTypesOK
  <2>3. CASE CellEnds(c) \/ CellStops(c)
    BY <1>0, <2>3 DEF CellEnds, CellStops, Settles, EntriesInv, CellTypesOK
  <2>4. CASE CellThrows(c) \/ TraceUnsaved(c)
    <3>1. /\ stage' = [stage EXCEPT ![c] = "thrown"] /\ interrupted'
          /\ UNCHANGED <<status, saved, retries>>
          /\ stage[c] \in {"running", "saving"}
      BY <2>4 DEF CellThrows, TraceUnsaved, Interrupt
    <3>. QED
      BY <1>0, <3>1 DEF EntriesInv, CellTypesOK
  <2>5. CASE TraceSaved(c)
    BY <1>0, <2>5 DEF TraceSaved, haltVars, EntriesInv, CellTypesOK
  <2>. QED
    BY <1>3, <2>1, <2>2, <2>3, <2>4, <2>5 DEF CellStep
<1>4. ASSUME Prepare \/ PlanSaved \/ Wake \/ Finish \/ ResultSaved \/ Cancel \/ PauseEnds
             \/ Tick \/ ScanSkips \/ ScanEnds \/ UNCHANGED vars
      PROVE  UNCHANGED <<stage, status, saved, retries>> /\ interrupted' = interrupted
  BY <1>4 DEF cellVars, haltVars, vars, Prepare, PlanSaved, Wake, Finish, ResultSaved, Cancel,
              PauseEnds, Tick, ScanSkips, ScanEnds
<1>. QED
  BY <1>1, <1>2, <1>3, <1>4 DEF Next, Own

LEMMA StopKept ==
  ASSUME SchedulerInv, [Next]_vars
  PROVE  StopInv'
<1>0. StopInv /\ EntriesInv /\ CellTypesOK /\ HaltTypesOK
  BY DEF SchedulerInv, SchedulerTypeOK, ResultInv
<1>1. CASE UNCHANGED <<stop, startOrder, status>>
  BY <1>0, <1>1 DEF StopInv, Started
<1>2. CASE ScanStarts
  BY <1>2 DEF ScanStarts, Scanning, Halted, Starts, haltVars, StopInv
<1>3. ASSUME NEW c \in Cells, CellStep(c)
      PROVE  StopInv'
  <2>0. startOrder' = startOrder /\ c \in Started
    BY <1>3, CellStepsBegun, BegunIsStarted
  <2>1. CASE Limited(c) \/ BackoffEnds(c) \/ CellEnds(c)
    <3>1. stop' = stop /\ stage[c] \in {"running", "backoff"}
          /\ \A d \in Cells : d # c => status'[d] = status[d]
      BY <1>0, <2>1 DEF Limited, BackoffEnds, CellEnds, Settles, CellTypesOK
    <3>2. stop # None => stop.cell \in Cells /\ stop.cell # c
      BY <1>0, <3>1 DEF StopInv, EntriesInv, Started
    <3>. QED
      BY <1>0, <2>0, <3>1, <3>2 DEF StopInv, Started
  <2>2. CASE CellStops(c)
    <3>1. status'[c] = "failed" /\ stage[c] = "running"
          /\ \A d \in Cells : d # c => status'[d] = status[d]
      BY <1>0, <2>2 DEF CellStops, Settles, CellTypesOK
    <3>2. stop' = IF stop = None THEN [cell |-> c, started |-> Cardinality(Started)] ELSE stop
      BY <2>2 DEF CellStops
    <3>3. stop # None => stop.cell \in Cells /\ stop.cell # c
      BY <1>0, <3>1 DEF StopInv, EntriesInv, Started
    <3>. QED
      BY <1>0, <2>0, <3>1, <3>2, <3>3 DEF StopInv, Started
  <2>3. CASE CellThrows(c) \/ TraceSaved(c) \/ TraceUnsaved(c)
    BY <1>1, <2>3 DEF CellThrows, TraceSaved, TraceUnsaved, Interrupt, haltVars
  <2>. QED
    BY <1>3, <2>1, <2>2, <2>3 DEF CellStep
<1>4. ASSUME Prepare \/ PlanSaved \/ Wake \/ Finish \/ ResultSaved \/ Cancel \/ PauseEnds
             \/ Tick \/ ScanSkips \/ ScanEnds \/ UNCHANGED vars
      PROVE  UNCHANGED <<stop, startOrder, status>>
  BY <1>4 DEF cellVars, haltVars, vars, Prepare, PlanSaved, Wake, Finish, ResultSaved, Cancel,
              PauseEnds, Tick, ScanSkips, ScanEnds
<1>. QED
  BY <1>1, <1>2, <1>3, <1>4 DEF Next, Own

\* With nothing in flight, no cell is busy.
LEMMA DrainedIsIdle ==
  ASSUME CountersInv, inFlight = 0
  PROVE  \A c \in Cells : ~ Busy(c)
<1>1. IsFiniteSet(BusyCells) /\ Cardinality(BusyCells) = 0
  BY CellSets DEF BusyCells, CountersInv
<1>2. BusyCells = {}
  BY <1>1, FS_EmptySet
<1>. QED
  BY <1>2 DEF BusyCells

LEMMA PhaseKept ==
  ASSUME SchedulerInv, [Next]_vars
  PROVE  PhaseInv'
<1>0. PhaseInv /\ CountersInv
  BY DEF SchedulerInv, ResultInv
<1>1. CASE Prepare
  <2>1. UNCHANGED <<stage, cancelled, stop, interrupted, unstarted>>
        /\ phase = "idle" /\ phase' \in {"saving_plan", "done"}
    BY <1>1 DEF Prepare, cellVars, haltVars, scanVars
  <2>. QED
    BY <1>0, <2>1 DEF PhaseInv, Busy
<1>2. CASE PlanSaved
  <2>1. stage' = stage /\ phase = "saving_plan" /\ phase' \in {"filling", "done"}
    BY <1>2 DEF PlanSaved, Ends, cellVars
  <2>. QED
    BY <1>0, <2>1 DEF PhaseInv, Busy
<1>3. CASE ScanSkips \/ ScanStarts \/ Wake
  <2>1. phase' = "filling"
    BY <1>3 DEF ScanSkips, ScanStarts, Starts, Scanning, Wake, runVars
  <2>. QED
    BY <2>1 DEF PhaseInv
<1>4. CASE ScanEnds
  <2>1. /\ UNCHANGED <<stage, cancelled, stop, interrupted, unstarted>>
        /\ phase' \in {"filling", "waiting", "finishing"}
        /\ phase' = "finishing" => inFlight = 0 /\ (Halted \/ unstarted = <<>>)
    BY <1>4 DEF ScanEnds, cellVars, haltVars
  <2>. QED
    BY <1>0, <2>1, DrainedIsIdle DEF PhaseInv, Busy, Halted
<1>5. CASE Finish \/ ResultSaved
  <2>1. stage' = stage /\ phase \in {"finishing", "saving_result"}
        /\ phase' \in {"saving_result", "done"}
    BY <1>5 DEF Finish, ResultSaved, Ends, cellVars
  <2>. QED
    BY <1>0, <2>1 DEF PhaseInv, Busy
<1>6. CASE Cancel \/ PauseEnds \/ Tick
  <2>1. UNCHANGED <<phase, stage, stop, interrupted, unstarted>>
        /\ (cancelled => cancelled')
    BY <1>6 DEF Cancel, PauseEnds, Tick, runVars, cellVars, haltVars, scanVars
  <2>. QED
    BY <1>0, <2>1 DEF PhaseInv, Busy, Halted
<1>7. ASSUME NEW c \in Cells, CellStep(c)
      PROVE  PhaseInv'
  <2>1. phase' = phase /\ Busy(c) /\ stage[c] # "unstarted"
    BY <1>7, CellStepsBegun DEF Busy
  <2>. QED
    BY <1>0, <2>1 DEF PhaseInv
<1>8. CASE UNCHANGED vars
  BY <1>0, <1>8 DEF PhaseInv, Busy, Halted, vars, runVars, cellVars, haltVars, scanVars
<1>. QED
  BY <1>1, <1>2, <1>3, <1>4, <1>5, <1>6, <1>7, <1>8 DEF Next, Own

LEMMA OutcomeKept ==
  ASSUME SchedulerInv, [Next]_vars
  PROVE  OutcomeInv'
<1>0. OutcomeInv /\ PhaseInv
  BY DEF SchedulerInv, ResultInv
<1>1. CASE Prepare \/ PlanSaved
  BY <1>0, <1>1 DEF Prepare, PlanSaved, Ends, OutcomeInv
<1>2. CASE ScanSkips \/ ScanStarts \/ ScanEnds \/ Wake
  <2>1. /\ phase \in {"filling", "waiting"} /\ outcome' = outcome
        /\ phase' \in {"filling", "waiting", "finishing"}
    BY <1>2 DEF ScanSkips, ScanStarts, Starts, ScanEnds, Scanning, Wake, runVars
  <2>. QED
    BY <1>0, <2>1 DEF OutcomeInv
<1>3. CASE Cancel \/ PauseEnds \/ Tick \/ UNCHANGED vars
  BY <1>0, <1>3 DEF Cancel, PauseEnds, Tick, OutcomeInv, runVars, haltVars, vars
<1>4. CASE Finish
  BY <1>0, <1>4 DEF Finish, Ends, OutcomeInv
<1>5. CASE ResultSaved
  <2>1. /\ phase' = "done" /\ outcome' \in {outcome, "unsaved"}
        /\ interrupted' = interrupted /\ phase = "saving_result"
    BY <1>5 DEF ResultSaved, Ends
  <2>. QED
    BY <1>0, <2>1 DEF OutcomeInv
<1>6. ASSUME NEW c \in Cells, CellStep(c)
      PROVE  OutcomeInv'
  <2>1. Busy(c) /\ outcome' = outcome /\ phase' = phase
    BY <1>6, CellStepsBegun DEF Busy
  <2>. QED
    BY <1>0, <2>1 DEF OutcomeInv, PhaseInv
<1>. QED
  BY <1>1, <1>2, <1>3, <1>4, <1>5, <1>6 DEF Next, Own

-----------------------------------------------------------------------------
(* Pauses *)

LEMMA PausesKept ==
  ASSUME SchedulerInv, [Next]_vars
  PROVE  PausesInv'
<1>0. PausesInv /\ PauseTypesOK
  BY DEF SchedulerInv, SchedulerTypeOK
<1>. USE DEF pauseVars, haltVars
<1>1. ASSUME UNCHANGED <<now, pausedUntil, embargo>>,
             runAborted => runAborted', runAborted' => runAborted \/ Halted' \/ phase' = "done",
             Halted => Halted', phase = "done" => phase' = "done"
      PROVE  PausesInv'
  BY <1>0, <1>1 DEF PausesInv
<1>2. CASE Prepare \/ PlanSaved \/ ScanSkips \/ ScanStarts \/ ScanEnds \/ Wake \/ Finish
           \/ ResultSaved \/ Cancel \/ UNCHANGED vars
  <2>1. UNCHANGED <<now, pausedUntil, embargo>>
    BY <1>2 DEF Prepare, PlanSaved, ScanSkips, ScanStarts, Starts, ScanEnds, Wake, Finish,
                ResultSaved, Cancel, vars
  <2>2. /\ runAborted => runAborted'
        /\ runAborted' => runAborted \/ Halted' \/ phase' = "done"
        /\ Halted => Halted'
        /\ phase = "done" => phase' = "done"
    BY <1>2 DEF Prepare, PlanSaved, Ends, ScanSkips, ScanStarts, Starts, ScanEnds, Scanning,
                Wake, Finish, ResultSaved, Cancel, AbortInFlight, vars, runVars, Halted
  <2>. QED
    BY <1>1, <2>1, <2>2
<1>3. CASE PauseEnds
  <2>1. PICK t \in timers :
          /\ now >= t[2] \/ runAborted
          /\ pausedUntil' = IF pausedUntil[t[1]] # t[2] THEN pausedUntil
                            ELSE [pausedUntil EXCEPT ![t[1]] = 0]
    BY <1>3 DEF PauseEnds
  <2>2. UNCHANGED <<now, embargo, runAborted, cancelled, stop, interrupted, phase>>
    BY <1>3 DEF PauseEnds, runVars
  <2>3. t[1] \in Connections /\ t[2] \in Nat
    BY <1>0 DEF PauseTypesOK
  <2>4. ASSUME NEW k \in Connections
        PROVE  /\ pausedUntil'[k] <= embargo[k]
               /\ ~ runAborted /\ embargo[k] > now => pausedUntil'[k] = embargo[k]
    BY <1>0, <2>1, <2>3 DEF PausesInv, PauseTypesOK
  <2>. QED
    BY <1>0, <2>2, <2>4 DEF PausesInv, Halted
<1>4. CASE Tick
  <2>1. /\ now' = now + 1
        /\ UNCHANGED <<pausedUntil, embargo, runAborted, cancelled, stop, interrupted, phase>>
    BY <1>4 DEF Tick, runVars
  <2>. QED
    BY <1>0, <2>1 DEF PausesInv, PauseTypesOK, Halted
<1>5. ASSUME NEW c \in Cells, Limited(c)
      PROVE  PausesInv'
  <2>1. PICK ms \in Waits : PauseConnection(ConnectionOf[c], ms)
    BY <1>5 DEF Limited
  <2>2. now + ms \in Nat /\ ConnectionOf[c] \in Connections
    BY <1>0, SchedulerAssumption DEF PauseTypesOK, Connections
  <2>3. /\ UNCHANGED <<now, runAborted, stop, interrupted, phase>>
        /\ (cancelled => cancelled')
    BY <1>5 DEF Limited, Settles, runVars
  <2>4. ASSUME NEW k \in Connections
        PROVE  /\ pausedUntil'[k] <= embargo'[k]
               /\ ~ runAborted /\ embargo'[k] > now => pausedUntil'[k] = embargo'[k]
    <3>1. CASE k # ConnectionOf[c]
      BY <1>0, <2>1, <2>2, <3>1 DEF PauseConnection, PausesInv, PauseTypesOK
    <3>2. CASE k = ConnectionOf[c]
      <4>1. embargo'[k] = IF now + ms > embargo[k] THEN now + ms ELSE embargo[k]
        BY <1>0, <2>1, <2>2, <3>2 DEF PauseConnection, PauseTypesOK
      <4>2. pausedUntil'[k] = IF now + ms <= pausedUntil[k] THEN pausedUntil[k] ELSE now + ms
        BY <1>0, <2>1, <2>2, <3>2 DEF PauseConnection, PauseTypesOK
      <4>3. /\ now \in Nat /\ pausedUntil[k] \in Nat /\ embargo[k] \in Nat
            /\ pausedUntil[k] <= embargo[k]
            /\ ~ runAborted /\ embargo[k] > now => pausedUntil[k] = embargo[k]
        BY <1>0 DEF PausesInv, PauseTypesOK
      <4>. QED
        BY <2>2, <4>1, <4>2, <4>3
    <3>. QED
      BY <3>1, <3>2
  <2>. QED
    BY <1>0, <2>3, <2>4 DEF PausesInv, Halted
<1>6. ASSUME NEW c \in Cells,
             BackoffEnds(c) \/ CellEnds(c) \/ CellStops(c) \/ CellThrows(c) \/ TraceSaved(c)
             \/ TraceUnsaved(c)
      PROVE  PausesInv'
  <2>1. UNCHANGED <<now, pausedUntil, embargo, phase>>
    BY <1>6 DEF BackoffEnds, CellEnds, CellStops, CellThrows, TraceSaved, TraceUnsaved, runVars
  <2>2. /\ runAborted => runAborted'
        /\ runAborted' => runAborted \/ interrupted'
    BY <1>6 DEF BackoffEnds, CellEnds, CellStops, CellThrows, TraceSaved, TraceUnsaved,
                Interrupt, AbortInFlight
  <2>3. /\ cancelled => cancelled'
        /\ interrupted => interrupted'
    <3>1. CASE CellThrows(c) \/ TraceSaved(c) \/ TraceUnsaved(c)
      BY <3>1 DEF CellThrows, TraceSaved, TraceUnsaved, Interrupt
    <3>2. CASE BackoffEnds(c) \/ CellEnds(c) \/ CellStops(c)
      <4>1. interrupted' = interrupted
        BY <3>2 DEF BackoffEnds, CellEnds, CellStops
      <4>2. cancelled' = cancelled \/ \E kind : Settles(c, kind)
        BY <3>2 DEF BackoffEnds, CellEnds, CellStops
      <4>3. ASSUME NEW kind, Settles(c, kind), cancelled
            PROVE  cancelled'
        BY <4>3, Zenon DEF Settles
      <4>. QED
        BY <4>1, <4>2, <4>3
    <3>. QED
      BY <1>6, <3>1, <3>2
  <2>4. stop # None => stop' # None
    BY <1>6 DEF BackoffEnds, CellEnds, CellStops, CellThrows, TraceSaved, TraceUnsaved,
                Interrupt
  <2>. QED
    BY <1>1, <2>1, <2>2, <2>3, <2>4 DEF Halted
<1>. QED
  BY <1>2, <1>3, <1>4, <1>5, <1>6 DEF Next, Own, CellStep

-----------------------------------------------------------------------------
(* The invariant *)

LEMMA InitScheduler == Init => SchedulerInv
<1>. SUFFICES ASSUME Init
              PROVE  SchedulerInv
  OBVIOUS
<1>1. SchedulerTypeOK
  <2>1. unstarted \in Seq(Cells) /\ Len(unstarted) = CellCount
    BY SchedulerAssumption DEF Init, Cells
  <2>2. RunTypesOK /\ HaltTypesOK /\ PauseTypesOK
    BY DEF Init, RunTypesOK, HaltTypesOK, PauseTypesOK
  <2>3. ScanTypesOK
    BY <2>1 DEF Init, ScanTypesOK
  <2>4. CellTypesOK
    BY SchedulerAssumption DEF Init, CellTypesOK
  <2>. QED
    BY <2>2, <2>3, <2>4 DEF SchedulerTypeOK
<1>2. QueueInv
  <2>1. Len(unstarted) = CellCount /\ \A i \in 1..CellCount : unstarted[i] = i
    BY SchedulerAssumption DEF Init, Cells
  <2>. QED
    BY <2>1, SchedulerAssumption DEF Init, QueueInv, Queued, Cells
<1>3. CountersInv
  <2>1. BusyCells = {} /\ \A k \in Connections : BusyOn(k) = {}
    BY DEF Init, BusyCells, BusyOn, Busy
  <2>. QED
    BY <2>1, FS_EmptySet, SchedulerAssumption DEF Init, CountersInv
<1>4. NumbersInv
  <2>1. Started = {}
    BY DEF Init, Started
  <2>. QED
    BY <2>1, FS_EmptySet DEF NumbersInv
<1>5. ResultInv
  BY SchedulerAssumption DEF Init, ResultInv, EntriesInv, StopInv, PhaseInv, OutcomeInv, Busy
<1>6. PausesInv
  BY DEF Init, PausesInv
<1>. QED
  BY <1>1, <1>2, <1>3, <1>4, <1>5, <1>6 DEF SchedulerInv

LEMMA NextScheduler == SchedulerInv /\ [Next]_vars => SchedulerInv'
<1>. SUFFICES ASSUME SchedulerInv, [Next]_vars
              PROVE  SchedulerInv'
  OBVIOUS
<1>1. ResultInv'
  BY EntriesKept, StopKept, PhaseKept, OutcomeKept DEF ResultInv
<1>. QED
  BY <1>1, TypesKept, QueueKept, CountersKept, NumbersKept, PausesKept DEF SchedulerInv

THEOREM SchedulerInvariant == Spec => []SchedulerInv
<1>1. Init => SchedulerInv
  BY InitScheduler
<1>2. SchedulerInv /\ [Next]_vars => SchedulerInv'
  BY NextScheduler
<1>. QED
  BY <1>1, <1>2, PTL DEF Spec

\* However cells end, throw, back off and save: no more of them are busy than
\* the overall limit and their connection's allow, and run() leaves its
\* schedule only when none is.
THEOREM SchedulerSafety == Spec => []SchedulerSafe
<1>1. SchedulerInv => SchedulerSafe
  <2>. SUFFICES ASSUME SchedulerInv
                PROVE  SchedulerSafe
    OBVIOUS
  <2>1. WithinLimits
    BY DEF SchedulerInv, CountersInv, BusyCells, BusyOn, WithinLimits
  <2>2. Drained
    BY DEF SchedulerInv, ResultInv, PhaseInv, Drained
  <2>. QED
    BY <2>1, <2>2 DEF SchedulerInv, SchedulerSafe
<1>. QED
  BY <1>1, SchedulerInvariant, PTL

\* What a result says is backed by saved traces, and counts and explains its
\* cells as its serializer demands, whatever mix of stops, cancellations and
\* failures ended the schedule.
THEOREM ResultTruth == Spec => []ResultIsTrue
<1>1. SchedulerInv => ResultIsTrue
  <2>. SUFFICES ASSUME SchedulerInv
                PROVE  ResultIsTrue
    OBVIOUS
  <2>. USE DEF SchedulerInv, ResultInv
  <2>1. ASSUME ~ interrupted, \A c \in Cells : ~ Busy(c), NEW c \in Cells
        PROVE  /\ c \in Started => stage[c] = "settled"
               /\ c \notin Started => stage[c] = "unstarted"
    BY <2>1 DEF EntriesInv, Busy, SchedulerTypeOK, CellTypesOK, QueueInv, Started
  <2>2. EvidenceBeforeResult
    <3>1. ASSUME outcome \in {"completed", "cancelled", "stopped", "unsaved"}
          PROVE  ~ interrupted /\ \A c \in Cells : ~ Busy(c)
      BY <3>1 DEF OutcomeInv, PhaseInv
    <3>. QED
      BY <2>1, <3>1 DEF EvidenceBeforeResult, EntriesInv
  <2>3. ASSUME phase = "finishing", ~ interrupted
        PROVE  NumberedFromOne /\ CompletedIsWhole /\ StopNamesItsCause
    <3>1. \A c \in Cells : ~ Busy(c)
      BY <2>3 DEF PhaseInv
    <3>2. ResultCells = Started
      BY <2>1, <2>3, <3>1 DEF ResultCells, EntriesInv, Started
    <3>3. NumberedFromOne
      <4>1. Cardinality(Started) \in Nat
        BY CellSets, SchedulerAssumption DEF Started
      <4>2. \A c \in Started : startOrder[c] \in 1..Cardinality(Started)
        BY <4>1, SchedulerAssumption DEF NumbersInv, Started, SchedulerTypeOK, CellTypesOK
      <4>. QED
        BY <3>2, <4>1, <4>2 DEF NumberedFromOne, NumbersInv
    <3>4. CompletedIsWhole
      <4>1. ASSUME ResultStatus = "completed"
            PROVE  unstarted = <<>>
        BY <2>3, <4>1 DEF PhaseInv, Halted, ResultStatus
      <4>2. unstarted = <<>> => Started = Cells
        BY DEF QueueInv, Queued, Started
      <4>. QED
        BY <3>2, <4>1, <4>2 DEF CompletedIsWhole
    <3>5. StopNamesItsCause
      BY <3>2 DEF StopInv, StopNamesItsCause, ResultStatus
    <3>. QED
      BY <3>3, <3>4, <3>5
  <2>. QED
    BY <2>2, <2>3 DEF ResultIsTrue, ResultIsConsistent
<1>. QED
  BY <1>1, SchedulerInvariant, PTL

\* A connection starts no cell before the end of the longest pause it was ever
\* given, and nothing starts once the run has been halted.
THEOREM StartsPermitted == Spec => StartsArePermitted
<1>1. SchedulerInv /\ [Next]_vars =>
        [\A c \in Cells : stage[c] = "unstarted" /\ stage'[c] # "unstarted" =>
           now >= embargo[ConnectionOf[c]]]_vars
  <2>. SUFFICES ASSUME SchedulerInv, [Next]_vars, NEW c \in Cells,
                       stage[c] = "unstarted", stage'[c] # "unstarted"
                PROVE  now >= embargo[ConnectionOf[c]]
    OBVIOUS
  <2>1. CellTypesOK /\ PauseTypesOK /\ PausesInv
    BY DEF SchedulerInv, SchedulerTypeOK
  <2>2. ScanStarts
    <3>1. stage' # stage
      OBVIOUS
    <3>2. ASSUME NEW d \in Cells, CellStep(d)
          PROVE  FALSE
      BY <2>1, <3>2, CellStepsBegun DEF CellTypesOK
    <3>. QED
      BY <3>1, <3>2, OthersLeaveSchedule DEF Next, Own
  <2>3. c = unstarted[position] /\ ~ IsPaused(ConnectionOf[c])
    BY <2>1, <2>2, StartTakesNext DEF ScanStarts, Starts, Eligible, CellTypesOK
  <2>4. ~ runAborted
    BY <2>1, <2>2 DEF ScanStarts, Scanning, PausesInv
  <2>5. ConnectionOf[c] \in Connections
    BY DEF Connections
  <2>. QED
    BY <2>1, <2>3, <2>4, <2>5 DEF IsPaused, PausesInv, PauseTypesOK
<1>2. SchedulerInv /\ [Next]_vars => [Halted => UNCHANGED startOrder]_vars
  <2>. SUFFICES ASSUME SchedulerInv, [Next]_vars, Halted
                PROVE  startOrder' = startOrder
    OBVIOUS
  <2>1. ~ ScanStarts
    BY DEF ScanStarts, Scanning
  <2>. QED
    BY <2>1, OthersLeaveSchedule, CellStepsBegun DEF Next, Own
<1>. QED
  BY <1>1, <1>2, SchedulerInvariant, PTL
     DEF Spec, StartsArePermitted, PausesRespected, NothingStartsAfterHalt

-----------------------------------------------------------------------------
(* Plan order *)

LEMMA TurnKept ==
  ASSUME SchedulerInv, TurnInv, [Next]_vars
  PROVE  TurnInv'
<1>0. TurnInv /\ ScanTypesOK /\ PauseTypesOK /\ ConnectionOf \in [Cells -> Connections]
      /\ Limit \in [Connections -> Nat]
  BY SchedulerAssumption DEF SchedulerInv, SchedulerTypeOK
<1>1. ASSUME phase' # "filling", position' = 1  PROVE TurnInv'
  BY <1>1 DEF TurnInv
<1>2. ASSUME position' = 1, ScanTypesOK'  PROVE TurnInv'
  BY <1>2 DEF TurnInv, ScanTypesOK
<1>3. ASSUME UNCHANGED <<phase, position, unstarted, activeOn, pausedUntil>>
      PROVE  TurnInv'
  BY <1>0, <1>3 DEF TurnInv, Passed
<1>4. CASE Prepare \/ PlanSaved \/ Wake \/ Finish \/ ResultSaved
  <2>1. position' = position /\ phase # "filling"
    BY <1>4 DEF Prepare, PlanSaved, Wake, Finish, ResultSaved, scanVars
  <2>. QED
    BY <1>0, <1>2, <2>1, ScanTypesKept DEF TurnInv
<1>5. CASE ScanEnds
  BY <1>2, <1>5, ScanTypesKept DEF ScanEnds
<1>6. CASE Cancel \/ Tick \/ UNCHANGED vars
  BY <1>3, <1>6 DEF Cancel, Tick, runVars, scanVars, pauseVars, vars
<1>7. CASE PauseEnds
  <2>1. phase # "filling" /\ phase' = phase /\ position' = position
    BY <1>7 DEF PauseEnds, runVars, scanVars
  <2>. QED
    BY <1>0, <1>1, <2>1 DEF TurnInv
<1>8. ASSUME NEW c \in Cells, CellStep(c)
      PROVE  TurnInv'
  BY <1>0, <1>1, <1>8, CellStepsBegun DEF TurnInv
<1>9. CASE ScanSkips
  <2>1. /\ phase = "filling" /\ phase' = phase /\ position' = position + 1
        /\ position \in 1..Len(unstarted) /\ ~ Eligible(unstarted[position])
        /\ UNCHANGED <<unstarted, activeOn, pausedUntil>>
    BY <1>0, <1>9 DEF ScanSkips, Scanning, ScanTypesOK, runVars, pauseVars
  <2>2. Passed(ConnectionOf[unstarted[position]])
    <3>1. PICK k \in Connections : k = ConnectionOf[unstarted[position]]
      BY <1>0, <2>1 DEF Connections, ScanTypesOK
    <3>2. activeOn[k] \in Nat /\ Limit[k] \in Nat /\ pausedUntil[k] \in Nat /\ now \in Nat
      BY <1>0 DEF ScanTypesOK, PauseTypesOK
    <3>. QED
      BY <2>1, <3>1, <3>2 DEF Eligible, IsPaused, Passed
  <2>3. ASSUME NEW i \in 1..Len(unstarted), i < position + 1
        PROVE  Passed(ConnectionOf[unstarted[i]])
    BY <1>0, <2>1, <2>2, <2>3 DEF TurnInv
  <2>. QED
    BY <1>0, <2>1, <2>3 DEF TurnInv, Passed
<1>10. CASE ScanStarts
  <2> DEFINE c == unstarted[position]
  <2>1. /\ position \in 1..Len(unstarted) /\ unstarted \in Seq(Cells)
        /\ c \in Cells /\ ConnectionOf[c] \in Connections
    BY <1>0, <1>10, StartTakesNext DEF ScanTypesOK
  <2>2. /\ phase = "filling" /\ phase' = phase /\ position' = position
        /\ pausedUntil' = pausedUntil
        /\ activeOn' = [activeOn EXCEPT ![ConnectionOf[c]] = @ + 1]
    BY <1>10 DEF ScanStarts, Scanning, Starts, runVars, pauseVars
  <2>3. /\ Len(unstarted') = Len(unstarted) - 1
        /\ \A j \in 1..Len(unstarted) - 1 :
             unstarted'[j] = IF j < position THEN unstarted[j] ELSE unstarted[j + 1]
    BY <1>10, <2>1, RemoveAtProperties DEF ScanStarts
  <2>4. ASSUME NEW i \in 1..Len(unstarted'), i < position
        PROVE  Passed(ConnectionOf[unstarted[i]])'
    <3>1. i \in 1..Len(unstarted) /\ unstarted'[i] = unstarted[i] /\ unstarted[i] \in Cells
      BY <2>1, <2>3, <2>4
    <3>2. Passed(ConnectionOf[unstarted[i]])
      BY <1>0, <2>2, <2>4, <3>1 DEF TurnInv
    <3>3. PICK k \in Connections : k = ConnectionOf[unstarted[i]]
      BY <3>1 DEF Connections
    <3>4. activeOn[k] \in Nat /\ activeOn'[k] \in Nat /\ activeOn'[k] >= activeOn[k]
          /\ Limit[k] \in Nat
      BY <1>0, <2>1, <2>2 DEF ScanTypesOK
    <3>5. activeOn'[k] >= Limit[k] \/ pausedUntil'[k] # 0
      BY <2>2, <3>2, <3>3, <3>4 DEF Passed
    <3>. QED
      BY <3>1, <3>3, <3>5 DEF Passed
  <2>. QED
    BY <2>2, <2>4 DEF TurnInv
<1>. QED
  BY <1>4, <1>5, <1>6, <1>7, <1>8, <1>9, <1>10 DEF Next, Own

\* Each connection starts its cells in plan order, whatever the limits, pauses
\* and stops, and however the clock moves; a cell passes an earlier one only
\* when a pause of their connection ran out while the scan was between the two.
THEOREM StartsInTurn == Spec => StartedInTurn
<1>1. Init => TurnInv
  BY DEF Init, TurnInv
<1>2. SchedulerInv /\ TurnInv /\ [Next]_vars => TurnInv'
  BY TurnKept
<1>. DEFINE Overtakes(c, d) ==
       /\ ConnectionOf[c] = ConnectionOf[d] /\ c < d
       /\ stage[c] = "unstarted" /\ stage[d] = "unstarted"
       /\ stage'[c] = "unstarted" /\ stage'[d] # "unstarted"
<1>3. SchedulerInv /\ TurnInv /\ [Next]_vars =>
        [\A c, d \in Cells : Overtakes(c, d) => pausedUntil[ConnectionOf[d]] \in 1..now]_vars
  <2>. SUFFICES ASSUME SchedulerInv, TurnInv, [Next]_vars, NEW c \in Cells, NEW d \in Cells,
                       Overtakes(c, d)
                PROVE  pausedUntil[ConnectionOf[d]] \in 1..now
    OBVIOUS
  <2>1. CellTypesOK /\ PauseTypesOK /\ ScanTypesOK /\ QueueInv
        /\ ConnectionOf \in [Cells -> Connections] /\ Limit \in [Connections -> Nat]
    BY SchedulerAssumption DEF SchedulerInv, SchedulerTypeOK
  <2>2. ScanStarts
    <3>1. stage' # stage
      OBVIOUS
    <3>2. ASSUME NEW e \in Cells, CellStep(e)
          PROVE  FALSE
      BY <2>1, <3>2, CellStepsBegun DEF CellTypesOK
    <3>. QED
      BY <3>1, <3>2, OthersLeaveSchedule DEF Next, Own
  <2>3. d = unstarted[position] /\ Eligible(d) /\ phase = "filling"
        /\ position \in 1..Len(unstarted)
    BY <2>1, <2>2, StartTakesNext DEF ScanStarts, Scanning, Starts, CellTypesOK
  <2>4. PICK i \in 1..Len(unstarted) : unstarted[i] = c
    BY <2>1 DEF QueueInv, Queued
  <2>5. i < position
    <3>1. ~ position < i
      BY <2>1, <2>3, <2>4 DEF QueueInv, Cells
    <3>2. i # position
      BY <2>3, <2>4 DEF Cells
    <3>. QED
      BY <2>3, <2>4, <3>1, <3>2
  <2>6. PICK k \in Connections : k = ConnectionOf[d] /\ k = ConnectionOf[c]
    BY <2>1
  <2>7. activeOn[k] \in Nat /\ Limit[k] \in Nat /\ pausedUntil[k] \in Nat /\ now \in Nat
    BY <2>1 DEF ScanTypesOK, PauseTypesOK
  <2>8. Passed(k)
    BY <2>3, <2>4, <2>5, <2>6 DEF TurnInv
  <2>. QED
    BY <2>3, <2>6, <2>7, <2>8 DEF Passed, Eligible, IsPaused
<1>. QED
  BY <1>1, <1>2, <1>3, SchedulerInvariant, PTL DEF Spec, StartedInTurn

-----------------------------------------------------------------------------
(* Repetitions *)

\* Each cell is a repetition: begun at most once, retried within the policy,
\* and settled for good.
LEMMA CellKeepsPromise ==
  ASSUME SchedulerInv, [Next]_vars, NEW c \in Cells
  PROVE  Cell(c)!Next \/ UNCHANGED Cell(c)!repetitionVars
<1>0. CellTypesOK /\ EntriesInv
  BY DEF SchedulerInv, SchedulerTypeOK, ResultInv
<1>. USE DEF CellStage
<1>1. CASE UNCHANGED <<stage[c], retries[c], status[c]>>
  BY <1>1 DEF Cell!repetitionVars
<1>2. CASE ScanStarts
  <2>1. CASE c # unstarted[position]
    <3>1. UNCHANGED <<stage[c], retries[c], status[c]>>
      BY <1>0, <1>2, <2>1, StartTakesNext DEF ScanStarts, Starts, CellTypesOK
    <3>. QED
      BY <1>1, <3>1
  <2>2. CASE c = unstarted[position]
    <3>1. stage[c] = "unstarted" /\ stage'[c] = "running" /\ retries'[c] = 0
      BY <1>0, <1>2, <2>2, StartTakesNext DEF ScanStarts, Starts, CellTypesOK, EntriesInv
    <3>2. Cell(c)!Begin
      BY <3>1 DEF Cell!Begin
    <3>. QED
      BY <3>2 DEF Cell!Next
  <2>. QED
    BY <2>1, <2>2
<1>3. ASSUME NEW d \in Cells, CellStep(d), d # c
      PROVE  UNCHANGED <<stage[c], retries[c], status[c]>>
  <2>1. stage'[c] = stage[c]
    BY <1>0, <1>3, CellStepsBegun DEF CellTypesOK
  <2>2. status'[c] = status[c] /\ retries'[c] = retries[c]
    BY <1>0, <1>3 DEF CellTypesOK, CellStep, Limited, BackoffEnds, CellEnds, CellStops,
                      CellThrows, TraceSaved, TraceUnsaved, Settles
  <2>. QED
    BY <2>1, <2>2
<1>4. ASSUME CellStep(c)
      PROVE  Cell(c)!Next \/ UNCHANGED Cell(c)!repetitionVars
  <2>1. ASSUME stage[c] \in {"running", "backoff"}, stage'[c] = "saving",
               status'[c] # "not-run", retries'[c] = retries[c]
        PROVE  Cell(c)!Settle
    BY <2>1 DEF Cell!Settle
  <2>2. CASE Limited(c)
    <3>1. CASE MayRetry(c)
      <4>1. stage[c] = "running" /\ stage'[c] = "backoff" /\ retries'[c] = retries[c]
        BY <1>0, <2>2, <3>1 DEF Limited, CellTypesOK
      <4>2. Cell(c)!Wait
        BY <3>1, <4>1 DEF MayRetry, Cell!Wait
      <4>. QED
        BY <4>2 DEF Cell!Next
    <3>2. CASE ~ MayRetry(c)
      <4>1. /\ stage[c] = "running" /\ stage'[c] = "saving" /\ retries'[c] = retries[c]
            /\ status'[c] = "failed"
        BY <1>0, <2>2, <3>2 DEF Limited, Settles, CellTypesOK
      <4>. QED
        BY <2>1, <4>1 DEF Cell!Next
    <3>. QED
      BY <3>1, <3>2
  <2>3. CASE BackoffEnds(c)
    <3>1. CASE c \in signalled
      <4>1. /\ stage[c] = "backoff" /\ stage'[c] = "saving" /\ retries'[c] = retries[c]
            /\ status'[c] # "not-run"
        BY <1>0, <2>3, <3>1 DEF BackoffEnds, Settles, CellTypesOK
      <4>. QED
        BY <2>1, <4>1 DEF Cell!Next
    <3>2. CASE c \notin signalled
      <4>1. stage[c] = "backoff" /\ stage'[c] = "running" /\ retries'[c] = retries[c] + 1
        BY <1>0, <2>3, <3>2 DEF BackoffEnds, CellTypesOK
      <4>2. Cell(c)!Retry
        BY <4>1 DEF Cell!Retry
      <4>. QED
        BY <4>2 DEF Cell!Next
    <3>. QED
      BY <3>1, <3>2
  <2>4. CASE CellEnds(c) \/ CellStops(c)
    <3>1. /\ stage[c] = "running" /\ stage'[c] = "saving" /\ retries'[c] = retries[c]
          /\ status'[c] # "not-run"
      BY <1>0, <2>4 DEF CellEnds, CellStops, Settles, CellTypesOK
    <3>. QED
      BY <2>1, <3>1 DEF Cell!Next
  <2>5. CASE CellThrows(c)
    <3>1. /\ stage[c] = "running" /\ stage'[c] = "thrown" /\ retries'[c] = retries[c]
          /\ status'[c] = "not-run"
      BY <1>0, <2>5 DEF CellThrows, EntriesInv, CellTypesOK
    <3>2. Cell(c)!Settle
      BY <3>1 DEF Cell!Settle
    <3>. QED
      BY <3>2 DEF Cell!Next
  <2>6. CASE TraceSaved(c) \/ TraceUnsaved(c)
    <3>1. /\ stage[c] = "saving" /\ stage'[c] \in {"settled", "thrown"}
          /\ retries'[c] = retries[c] /\ status'[c] = status[c] /\ status[c] # "not-run"
      BY <1>0, <2>6 DEF TraceSaved, TraceUnsaved, EntriesInv, CellTypesOK
    <3>. QED
      BY <3>1 DEF Cell!repetitionVars
  <2>. QED
    BY <1>4, <2>2, <2>3, <2>4, <2>5, <2>6 DEF CellStep
<1>5. ASSUME Prepare \/ PlanSaved \/ Wake \/ Finish \/ ResultSaved \/ Cancel \/ PauseEnds
             \/ Tick \/ ScanSkips \/ ScanEnds \/ UNCHANGED vars
      PROVE  UNCHANGED <<stage[c], retries[c], status[c]>>
  BY <1>5 DEF cellVars, vars, Prepare, PlanSaved, Wake, Finish, ResultSaved, Cancel,
              PauseEnds, Tick, ScanSkips, ScanEnds
<1>. QED
  BY <1>1, <1>2, <1>3, <1>4, <1>5 DEF Next, Own

\* Every cell of an experiment is a repetition as the executors promise it: the
\* scheduler begins it at most once, retries it within the policy, and never
\* takes it up again once it has settled.
THEOREM CellsPromise == Spec => CellsKeepPromise
<1>1. Init => \A c \in Cells : Cell(c)!Init
  BY DEF Init, Cell!Init, CellStage
<1>2. SchedulerInv /\ [Next]_vars =>
        [\A c \in Cells : Cell(c)!Next \/ UNCHANGED Cell(c)!repetitionVars]_vars
  BY CellKeepsPromise
<1>. QED
  BY <1>1, <1>2, SchedulerInvariant, PTL DEF Spec, CellsKeepPromise

=============================================================================
