------------------------- MODULE EventStore_proofs --------------------------
(***************************************************************************)
(* Proofs about EventStore, for every set of events, every batch size and  *)
(* every cap.                                                              *)
(***************************************************************************)
EXTENDS EventStore, SequenceTheorems, TLAPS

\* Lengths and members of the two halves of the queue drain() splits.
LEMMA TakenAndStill ==
    ASSUME pending \in Seq(Events)
    PROVE  /\ TakenBatch \in Seq(Events)
           /\ StillPending \in Seq(Events)
           /\ TakenSize \in 0..Len(pending)
           /\ TakenSize <= BatchSize
           /\ Len(TakenBatch) = TakenSize
           /\ Len(StillPending) = Len(pending) - TakenSize
           /\ \A i \in 1..TakenSize : TakenBatch[i] = pending[i]
           /\ \A i \in 1..Len(StillPending) : StillPending[i] = pending[TakenSize + i]
<1>1. TakenSize \in 0..Len(pending) /\ TakenSize <= BatchSize
  BY BatchSizeAssumption DEF TakenSize
<1>2. QED
  BY <1>1, SMTT(30) DEF TakenBatch, StillPending

\* What the body of emit() assigns stays in its types.
LEMMA TakeRoomOrSleepType ==
    ASSUME TypeOK, NEW e \in Events, TakeRoomOrSleep(e)
    PROVE  /\ caller' \in [Events -> CallerStates]
           /\ pending' \in Seq(Events)
           /\ roomWaiters' \in Seq(Events)
           /\ flushTimer' \in {"null", "armed"}
           /\ flushTail' \in Nat
<1> USE DEF TypeOK, CallerStates
<1>1. CASE Len(pending) >= MaxPending /\ roomWaiters' = Append(roomWaiters, e)
           /\ caller' = [caller EXCEPT ![e] = "blocked"]
           /\ UNCHANGED <<pending, flushTimer, flushTail>>
  BY <1>1
<1>2. CASE /\ pending' = Append(pending, e)
           /\ caller' = [caller EXCEPT ![e] = "pending"]
           /\ ScheduleFlush
           /\ UNCHANGED roomWaiters
  <2>1. flushTimer' \in {"null", "armed"} /\ flushTail' \in Nat
    BY <1>2 DEF ScheduleFlush
  <2>2. pending' \in Seq(Events)
    BY <1>2
  <2>3. QED
    BY <1>2, <2>1, <2>2
<1>3. QED
  BY <1>1, <1>2 DEF TakeRoomOrSleep

\* The type invariant of the event store holds in every state (emit, drain,
\* the timer callback, and the crash between any two of their steps).
THEOREM TypeCorrect == Spec => []TypeOK
<1>1. Init => TypeOK
  BY MaxCrashesAssumption DEF Init, TypeOK, CallerStates
<1>2. TypeOK /\ [Next]_vars => TypeOK'
  <2> SUFFICES ASSUME TypeOK, [Next]_vars PROVE TypeOK'
    OBVIOUS
  <2> USE DEF TypeOK, CallerStates, durable
  <2>1. ASSUME NEW e \in Events, Emit(e) PROVE TypeOK'
    BY <2>1, TakeRoomOrSleepType DEF Emit
  <2>2. CASE RecheckRoom
    <3>1. Head(woken) \in Events /\ Tail(woken) \in Seq(Events)
      BY <2>2 DEF RecheckRoom
    <3>2. QED
      BY <2>2, <3>1, TakeRoomOrSleepType DEF RecheckRoom
  <2>3. CASE FlushTimerFires
    BY <2>3 DEF FlushTimerFires
  <2>4. CASE StartDrain
    <3>1. flushTail' \in Nat
      BY <2>4 DEF StartDrain, MayDrain
    <3>2. caller' \in [Events -> CallerStates]
      BY <2>4 DEF StartDrain
    <3>3. pending' \in Seq(Events) /\ batch' \in Seq(Events)
      BY <2>4, TakenAndStill DEF StartDrain
    <3>4. woken' \in Seq(Events) /\ roomWaiters' \in Seq(Events)
      BY <2>4 DEF StartDrain
    <3>5. QED
      BY <2>4, <3>1, <3>2, <3>3, <3>4 DEF StartDrain
  <2>5. CASE CommitBatch
    <3>1. Len(batch) \in Nat /\ next' \in Nat /\ firstSeq' \in Nat
      BY <2>5 DEF CommitBatch
    <3>2. rows' \in [DOMAIN rows' -> Events]
      <4>1. ASSUME NEW s \in DOMAIN rows \cup (next + 1)..(next + Len(batch))
            PROVE  (IF s \in DOMAIN rows THEN rows[s] ELSE batch[s - next]) \in Events
        <5>1. CASE s \notin DOMAIN rows
          BY <4>1, <5>1, <3>1, SMTT(40)
        <5>2. CASE s \in DOMAIN rows
          BY <5>2
        <5>3. QED
          BY <5>1, <5>2
      <4>2. QED
        BY <2>5, <4>1 DEF CommitBatch
    <3>3. QED
      BY <2>5, <3>1, <3>2 DEF CommitBatch
  <2>6. CASE FailBatch
    BY <2>6 DEF FailBatch
  <2>7. CASE ResolveBatch
    <3>1. ASSUME NEW e \in Events, e \in ToSet(batch)
          PROVE  SeqInBatch(e) \in Nat
      <4>1. (CHOOSE i \in DOMAIN batch : batch[i] = e) \in 1..Len(batch)
        BY <3>1 DEF ToSet
      <4>2. QED
        BY <4>1, <2>7 DEF SeqInBatch, ResolveBatch
    <3>2. seqOf' \in [Events -> Nat]
      BY <2>7, <3>1 DEF ResolveBatch
    <3>3. caller' \in [Events -> CallerStates]
      BY <2>7 DEF ResolveBatch
    <3>4. QED
      BY <2>7, <3>2, <3>3 DEF ResolveBatch
  <2>8. CASE Crash
    BY <2>8, MaxCrashesAssumption DEF Crash
  <2>9. CASE UNCHANGED vars
    BY <2>9 DEF vars, volatile
  <2>10. QED
    BY <2>1, <2>2, <2>3, <2>4, <2>5, <2>6, <2>7, <2>8, <2>9 DEF Next
<1>3. QED
  BY <1>1, <1>2, PTL DEF Spec

-----------------------------------------------------------------------------
(***************************************************************************)
(* Backpressure and the flush triggers.  NoStrandedEvent alone is not      *)
(* inductive: a full batch cancels the timer and relies on one drain, and  *)
(* that drain may leave events behind.  DrainsSuffice counts the drains.   *)
(***************************************************************************)
FlushInv == PendingBounded /\ DrainsSuffice /\ SleepOnlyWhenFull

LEMMA ProductInNat == \A a, b \in Nat : a * b \in Nat
OBVIOUS

\* Accepting an event, or going to sleep, keeps the queue covered.
LEMMA TakeRoomOrSleepFlush ==
    ASSUME TypeOK, FlushInv, NEW e \in Events, TakeRoomOrSleep(e)
    PROVE  FlushInv'
<1> USE DEF TypeOK, FlushInv, PendingBounded, DrainsSuffice, SleepOnlyWhenFull
<1>1. CASE Len(pending) >= MaxPending /\ roomWaiters' = Append(roomWaiters, e)
           /\ UNCHANGED <<pending, flushTimer, flushTail>>
  BY <1>1
<1>2. CASE /\ Len(pending) < MaxPending
           /\ pending' = Append(pending, e)
           /\ ScheduleFlush
           /\ UNCHANGED roomWaiters
  <2>1. Len(pending') = Len(pending) + 1 /\ roomWaiters = <<>> /\ Len(pending) \in Nat
    BY <1>2, MaxPendingAssumption
  <2>2. PendingBounded' /\ SleepOnlyWhenFull'
    BY <1>2, <2>1, MaxPendingAssumption
  <2>3. CASE Len(pending') >= BatchSize
    <3>1. flushTail' = flushTail + 1
      BY <1>2, <2>3 DEF ScheduleFlush
    <3>2. BatchSize * flushTail' = BatchSize * flushTail + BatchSize
      BY <3>1, BatchSizeAssumption
    <3>3. BatchSize * flushTail \in Nat
      BY BatchSizeAssumption
    <3>4. Len(pending') <= BatchSize * flushTail'
      <4>1. Len(pending) <= BatchSize * flushTail \/ Len(pending) < BatchSize
        OBVIOUS
      <4> DEFINE covered == BatchSize * flushTail
      <4>2. covered \in Nat /\ (Len(pending) <= covered \/ Len(pending) < BatchSize)
        BY <3>3, <4>1
      <4> HIDE DEF covered
      <4>3. Len(pending) + 1 <= covered + BatchSize
        BY <2>1, <4>2, BatchSizeAssumption
      <4>4. QED
        BY <2>1, <3>2, <4>3 DEF covered
    <3>5. QED
      BY <2>2, <3>4
  <2>4. CASE Len(pending') < BatchSize
    BY <1>2, <2>1, <2>2, <2>4, BatchSizeAssumption DEF ScheduleFlush
  <2>5. QED
    BY <2>1, <2>3, <2>4, BatchSizeAssumption
<1>3. QED
  BY <1>1, <1>2 DEF TakeRoomOrSleep

\* The strengthened flush invariant is an invariant of the event store.
THEOREM FlushInvariant == Spec => []FlushInv
<1>1. Init => FlushInv
  BY MaxPendingAssumption, BatchSizeAssumption
     DEF Init, FlushInv, PendingBounded, DrainsSuffice, SleepOnlyWhenFull
<1>2. TypeOK /\ FlushInv /\ [Next]_vars => FlushInv'
  <2> SUFFICES ASSUME TypeOK, FlushInv, [Next]_vars PROVE FlushInv'
    OBVIOUS
  <2> USE DEF FlushInv, PendingBounded, DrainsSuffice, SleepOnlyWhenFull
  <2>1. ASSUME NEW e \in Events, Emit(e) PROVE FlushInv'
    BY <2>1, TakeRoomOrSleepFlush DEF Emit
  <2>2. CASE RecheckRoom
    <3>1. Head(woken) \in Events
      BY <2>2 DEF RecheckRoom, TypeOK
    <3>2. QED
      BY <2>2, <3>1, TakeRoomOrSleepFlush DEF RecheckRoom
  <2>3. CASE FlushTimerFires
    <3>1. CASE pending = <<>>
      BY <2>3, <3>1, BatchSizeAssumption DEF FlushTimerFires, TypeOK
    <3>2. CASE pending # <<>>
      <4>1. BatchSize * flushTail' = BatchSize * flushTail + BatchSize
        BY <2>3, <3>2, BatchSizeAssumption DEF FlushTimerFires, TypeOK
      <4>2. BatchSize * flushTail \in Nat
        BY BatchSizeAssumption DEF TypeOK
      <4>3. DrainsSuffice'
        BY <2>3, <4>1, <4>2, BatchSizeAssumption DEF FlushTimerFires, TypeOK
      <4>4. QED
        BY <2>3, <4>3 DEF FlushTimerFires
    <3>3. QED
      BY <3>1, <3>2
  <2>4. CASE StartDrain
    <3> DEFINE p == Len(pending)
    <3>1. /\ p \in Nat
          /\ Len(pending') = IF p <= BatchSize THEN 0 ELSE p - BatchSize
      BY <2>4, TakenAndStill, BatchSizeAssumption DEF StartDrain, TypeOK, TakenSize
    <3>2. PendingBounded'
      BY <3>1, BatchSizeAssumption, MaxPendingAssumption
    <3>3. SleepOnlyWhenFull'
      <4>1. CASE Wakes
        BY <2>4, <4>1 DEF StartDrain
      <4>2. CASE ~Wakes
        <5>1. Len(StillPending) = Len(pending')
          BY <2>4 DEF StartDrain
        <5>2. pending = <<>>
          BY <4>2, <5>1, <3>1, BatchSizeAssumption, MaxPendingAssumption
             DEF Wakes, TypeOK
        <5>3. roomWaiters = <<>>
          BY <5>2, MaxPendingAssumption DEF TypeOK
        <5>4. QED
          BY <2>4, <5>3 DEF StartDrain
      <4>3. QED
        BY <4>1, <4>2
    <3>4. DrainsSuffice'
      <4>1. CASE p <= BatchSize
        <5>1. Len(pending') = 0 /\ flushTail' \in Nat
          BY <2>4, <4>1, <3>1 DEF StartDrain, MayDrain, TypeOK
        <5> DEFINE covered == BatchSize * flushTail'
        <5>2. covered \in Nat
          BY <5>1, ProductInNat, BatchSizeAssumption
        <5> HIDE DEF covered
        <5>3. Len(pending') <= covered
          BY <5>1, <5>2
        <5>4. QED
          BY <5>3 DEF covered
      <4>2. CASE p > BatchSize
        <5>1. p <= BatchSize * flushTail
          BY <4>2, <3>1, BatchSizeAssumption
        <5>2. flushTail' = flushTail - 1 /\ flushTail \in Nat
          BY <2>4 DEF StartDrain, TypeOK
        <5>3. BatchSize * flushTail' = BatchSize * flushTail - BatchSize
          BY <5>2, BatchSizeAssumption
        <5>4. BatchSize * flushTail \in Nat
          BY <5>2, BatchSizeAssumption
        <5>5. QED
          BY <4>2, <3>1, <5>1, <5>3, <5>4, BatchSizeAssumption
      <4>3. QED
        BY <4>1, <4>2, <3>1, BatchSizeAssumption
    <3>5. QED
      BY <3>2, <3>3, <3>4
  <2>5. CASE CommitBatch \/ FailBatch \/ ResolveBatch
    BY <2>5 DEF CommitBatch, FailBatch, ResolveBatch
  <2>6. CASE Crash
    BY <2>6, MaxPendingAssumption, BatchSizeAssumption DEF Crash
  <2>7. CASE UNCHANGED vars
    BY <2>7 DEF vars, volatile
  <2>8. QED
    BY <2>1, <2>2, <2>3, <2>4, <2>5, <2>6, <2>7 DEF Next
<1>3. QED
  BY <1>1, <1>2, TypeCorrect, PTL DEF Spec

\* The queue of unflushed events never exceeds opts.maxPending.
THEOREM BackpressureHolds == Spec => []PendingBounded
<1>1. FlushInv => PendingBounded
  BY DEF FlushInv
<1>2. QED
  BY <1>1, FlushInvariant, PTL

\* No accepted event is left with neither an armed timer nor a chained drain.
THEOREM NothingStranded == Spec => []NoStrandedEvent
<1>1. TypeOK /\ FlushInv => NoStrandedEvent
  BY BatchSizeAssumption DEF TypeOK, FlushInv, DrainsSuffice, NoStrandedEvent
<1>2. QED
  BY <1>1, TypeCorrect, FlushInvariant, PTL

\* A full batch never depends on the window timer.
THEOREM FullBatchFlushes == Spec => []FullBatchIsFlushing
<1>1. TypeOK /\ FlushInv => FullBatchIsFlushing
  BY BatchSizeAssumption DEF TypeOK, FlushInv, DrainsSuffice, FullBatchIsFlushing
<1>2. QED
  BY <1>1, TypeCorrect, FlushInvariant, PTL

\* A producer asleep on backpressure always has a flush coming that wakes it.
THEOREM SleepersAreWoken == Spec => []NoLostWakeup
<1>1. TypeOK /\ FlushInv => NoLostWakeup
  <2> SUFFICES ASSUME TypeOK, FlushInv, roomWaiters # <<>>
               PROVE  /\ Len(pending) >= MaxPending
                      /\ flushTimer = "armed" \/ flushTail > 0
    BY DEF NoLostWakeup
  <2>1. Len(pending) >= MaxPending
    BY DEF FlushInv, SleepOnlyWhenFull
  <2>2. QED
    BY <2>1, MaxPendingAssumption, BatchSizeAssumption
       DEF TypeOK, FlushInv, DrainsSuffice
<1>2. QED
  BY <1>1, TypeCorrect, FlushInvariant, PTL

\* Whatever waits for a flush, an event, a batch or a producer, has one coming.
THEOREM FlushStaysDue == Spec => []FlushIsDue
<1>1. NoStrandedEvent /\ FullBatchIsFlushing /\ NoLostWakeup => FlushIsDue
  BY DEF FlushIsDue
<1>2. QED
  BY <1>1, NothingStranded, FullBatchFlushes, SleepersAreWoken, PTL

-----------------------------------------------------------------------------
(***************************************************************************)
(* The store implements the log.  What a caller waits for tells where its  *)
(* event is, and a committed batch is the end of the table until its       *)
(* callers are told.                                                       *)
(***************************************************************************)

\* No event waits or is written twice, and where it waits agrees with where
\* its emit() call stands.
PlacesFit ==
    /\ \A i, j \in DOMAIN pending : pending[i] = pending[j] => i = j
    /\ \A i, j \in DOMAIN batch : batch[i] = batch[j] => i = j
    /\ \A i, j \in DOMAIN woken : woken[i] = woken[j] => i = j
    /\ \A i, j \in DOMAIN roomWaiters : roomWaiters[i] = roomWaiters[j] => i = j
    /\ \A i \in DOMAIN pending : caller[pending[i]] = "pending"
    /\ \A i \in DOMAIN batch : caller[batch[i]] = "writing"
    /\ \A i \in DOMAIN woken : caller[woken[i]] = "woken"
    /\ \A i \in DOMAIN roomWaiters : caller[roomWaiters[i]] = "blocked"

\* The table has no gaps, its events' callers were told or are about to be or
\* died, and the batch is its end or not in it.
TableFits ==
    /\ DOMAIN rows = 1..next
    /\ \A s \in 1..next : caller[rows[s]] \in {"writing", "resolved", "lost"}
    /\ firstSeq > 0 =>
         /\ batch # <<>> /\ next = firstSeq - 1 + Len(batch)
         /\ \A i \in 1..Len(batch) : rows[firstSeq - 1 + i] = batch[i]
    /\ firstSeq = 0 => \A s \in 1..next, i \in DOMAIN batch : rows[s] # batch[i]

LogInv == TypeOK /\ PlacesFit /\ TableFits

\* Appending to a sequence an event that is not in it.
LEMMA AppendFresh ==
    ASSUME NEW s \in Seq(Events), NEW e \in Events, \A i \in DOMAIN s : s[i] # e,
           \A i, j \in DOMAIN s : s[i] = s[j] => i = j
    PROVE  /\ Append(s, e) \in Seq(Events) /\ DOMAIN Append(s, e) = 1..(Len(s) + 1)
           /\ \A i \in 1..Len(s) : Append(s, e)[i] = s[i]
           /\ Append(s, e)[Len(s) + 1] = e
           /\ \A i, j \in DOMAIN Append(s, e) : Append(s, e)[i] = Append(s, e)[j] => i = j
OBVIOUS

\* emit() from the room check on, of an event that is nowhere yet.
LEMMA TakeRoomOrSleepPlaces ==
    ASSUME LogInv, NEW e \in Events, caller[e] \in {"idle", "woken"}, TakeRoomOrSleep(e),
           NEW rest \in Seq(Events), woken' = rest,
           \A i, j \in DOMAIN rest : rest[i] = rest[j] => i = j,
           \A i \in DOMAIN rest : rest[i] # e /\ caller[rest[i]] = "woken",
           UNCHANGED <<batch, firstSeq, durable>>
    PROVE  PlacesFit' /\ TableFits'
<1> USE DEF LogInv, durable
<1>1. /\ \A i \in DOMAIN pending : pending[i] # e
      /\ \A i \in DOMAIN batch : batch[i] # e
      /\ \A i \in DOMAIN roomWaiters : roomWaiters[i] # e
      /\ \A s \in 1..next : rows[s] # e
  BY DEF PlacesFit, TableFits
<1>2. /\ caller \in [Events -> CallerStates] /\ pending \in Seq(Events)
      /\ batch \in Seq(Events) /\ roomWaiters \in Seq(Events)
  BY DEF TypeOK
<1>3. \A f \in Events : f # e => caller'[f] = caller[f]
  BY <1>2 DEF TakeRoomOrSleep
<1>4. \A i \in DOMAIN rest : rest[i] \in Events /\ caller'[rest[i]] = "woken"
  BY <1>3
<1>5. \A i \in DOMAIN batch : batch[i] \in Events /\ caller'[batch[i]] = "writing"
  BY <1>1, <1>2, <1>3 DEF PlacesFit
<1>6. TableFits'
  <2>1. \A s \in 1..next : rows[s] \in Events
    BY DEF TypeOK, TableFits
  <2>2. \A s \in 1..next : caller'[rows[s]] = caller[rows[s]]
    BY <2>1, <1>1, <1>3
  <2> QED
    BY <2>2 DEF TableFits
<1>7. CASE /\ pending' = pending /\ roomWaiters' = Append(roomWaiters, e)
           /\ caller' = [caller EXCEPT ![e] = "blocked"]
  <2>1. \A i \in DOMAIN pending : caller'[pending[i]] = "pending"
    BY <1>1, <1>2, <1>3 DEF PlacesFit
  <2>2. \A i \in DOMAIN roomWaiters' : caller'[roomWaiters'[i]] = "blocked"
    BY <1>1, <1>2, <1>3, <1>7, AppendFresh DEF PlacesFit
  <2>3. \A i, j \in DOMAIN roomWaiters' : roomWaiters'[i] = roomWaiters'[j] => i = j
    BY <1>1, <1>2, <1>7, AppendFresh DEF PlacesFit
  <2> QED
    BY <2>1, <2>2, <2>3, <1>4, <1>5, <1>6, <1>7 DEF PlacesFit
<1>8. CASE /\ pending' = Append(pending, e) /\ roomWaiters' = roomWaiters
           /\ caller' = [caller EXCEPT ![e] = "pending"]
  <2>1. \A i \in DOMAIN roomWaiters : caller'[roomWaiters[i]] = "blocked"
    BY <1>1, <1>2, <1>3 DEF PlacesFit
  <2>2. \A i \in DOMAIN pending' : caller'[pending'[i]] = "pending"
    BY <1>1, <1>2, <1>3, <1>8, AppendFresh DEF PlacesFit
  <2>3. \A i, j \in DOMAIN pending' : pending'[i] = pending'[j] => i = j
    BY <1>1, <1>2, <1>8, AppendFresh DEF PlacesFit
  <2> QED
    BY <2>1, <2>2, <2>3, <1>4, <1>5, <1>6, <1>8 DEF PlacesFit
<1> QED
  BY <1>7, <1>8 DEF TakeRoomOrSleep

\* drain() takes a batch off the queue and may wake the sleepers.
LEMMA StartDrainPlaces ==
    ASSUME LogInv, StartDrain
    PROVE  PlacesFit' /\ TableFits'
<1> USE DEF LogInv, durable
<1>1. /\ caller \in [Events -> CallerStates] /\ pending \in Seq(Events)
      /\ roomWaiters \in Seq(Events) /\ woken \in Seq(Events)
  BY DEF TypeOK
<1>2. /\ TakenBatch \in Seq(Events) /\ StillPending \in Seq(Events)
      /\ TakenSize \in 0..Len(pending)
      /\ Len(TakenBatch) = TakenSize /\ Len(StillPending) = Len(pending) - TakenSize
      /\ \A i \in 1..TakenSize : TakenBatch[i] = pending[i]
      /\ \A i \in 1..Len(StillPending) : StillPending[i] = pending[TakenSize + i]
  BY <1>1, TakenAndStill
<1>3. /\ batch = <<>> /\ batch' = TakenBatch /\ pending' = StillPending
      /\ firstSeq' = firstSeq /\ next' = next /\ rows' = rows
  BY DEF StartDrain, MayDrain
<1>4. firstSeq = 0
  BY <1>3 DEF TableFits, TypeOK
<1>5. \A e \in Events : caller'[e] =
         CASE e \in ToSet(TakenBatch) -> "writing"
           [] Wakes /\ e \in ToSet(roomWaiters) -> "woken"
           [] OTHER -> caller[e]
  BY DEF StartDrain
<1>6. \A e \in Events : e \in ToSet(TakenBatch) => caller[e] = "pending"
  BY <1>1, <1>2 DEF ToSet, PlacesFit
<1>7. \A e \in Events : e \in ToSet(roomWaiters) => caller[e] = "blocked"
  BY <1>1 DEF ToSet, PlacesFit
<1>8. \A i \in DOMAIN batch' : batch'[i] \in Events /\ caller'[batch'[i]] = "writing"
  <2> SUFFICES ASSUME NEW i \in 1..TakenSize
               PROVE  TakenBatch[i] \in Events /\ caller'[TakenBatch[i]] = "writing"
    BY <1>2, <1>3
  <2> DEFINE b == TakenBatch
  <2>1. b \in Seq(Events) /\ i \in 1..Len(b)
    BY <1>2
  <2> HIDE DEF b
  <2>2. b[i] \in Events /\ i \in DOMAIN b
    BY <2>1
  <2>3. b[i] \in ToSet(b)
    BY <2>2 DEF ToSet
  <2>4. b = TakenBatch
    BY DEF b
  <2> QED
    BY <2>2, <2>3, <2>4, <1>5, <1>6, <1>7
<1>9. \A i \in DOMAIN pending' : caller'[pending'[i]] = "pending"
  <2> SUFFICES ASSUME NEW i \in 1..Len(StillPending)
               PROVE  caller'[StillPending[i]] = "pending"
    BY <1>2, <1>3
  <2>1. /\ StillPending[i] = pending[TakenSize + i] /\ TakenSize + i \in DOMAIN pending
        /\ StillPending[i] \in Events
    BY <1>1, <1>2
  <2>2. caller[StillPending[i]] = "pending"
    BY <2>1 DEF PlacesFit
  <2>3. StillPending[i] \notin ToSet(TakenBatch)
    <3> SUFFICES ASSUME NEW j \in 1..TakenSize, pending[j] = pending[TakenSize + i]
                 PROVE  FALSE
      BY <2>1, <1>2 DEF ToSet
    <3>1. j = TakenSize + i
      BY <2>1, <1>1, <1>2 DEF PlacesFit
    <3> QED
      BY <3>1, <1>2
  <2> QED
    BY <2>1, <2>2, <2>3, <1>5, <1>7
<1>10. \A i, j \in DOMAIN pending' : pending'[i] = pending'[j] => i = j
  <2> SUFFICES ASSUME NEW i \in 1..Len(StillPending), NEW j \in 1..Len(StillPending),
                      StillPending[i] = StillPending[j]
               PROVE  i = j
    BY <1>2, <1>3
  <2>1. /\ TakenSize + i \in DOMAIN pending /\ TakenSize + j \in DOMAIN pending
        /\ pending[TakenSize + i] = pending[TakenSize + j]
    BY <1>1, <1>2
  <2>2. TakenSize + i = TakenSize + j
    BY <2>1 DEF PlacesFit
  <2> QED
    BY <2>2, <1>2
<1>11. \A i, j \in DOMAIN batch' : batch'[i] = batch'[j] => i = j
  BY <1>1, <1>2, <1>3 DEF PlacesFit
<1>12. /\ \A i \in DOMAIN woken' : caller'[woken'[i]] = "woken"
       /\ \A i, j \in DOMAIN woken' : woken'[i] = woken'[j] => i = j
       /\ \A i \in DOMAIN roomWaiters' : caller'[roomWaiters'[i]] = "blocked"
       /\ \A i, j \in DOMAIN roomWaiters' : roomWaiters'[i] = roomWaiters'[j] => i = j
  <2>1. \A i \in DOMAIN woken : woken[i] \in Events /\ caller[woken[i]] = "woken"
    BY <1>1 DEF PlacesFit
  <2>2. \A i \in DOMAIN woken : caller'[woken[i]] = "woken"
    BY <2>1, <1>5, <1>6, <1>7
  <2>3. \A i \in DOMAIN roomWaiters : roomWaiters[i] \in Events /\ caller[roomWaiters[i]] = "blocked"
    BY <1>1 DEF PlacesFit
  <2>4. \A i \in DOMAIN roomWaiters :
           caller'[roomWaiters[i]] = IF Wakes THEN "woken" ELSE "blocked"
    BY <2>3, <1>5, <1>6 DEF ToSet
  <2>5. CASE ~Wakes
    <3>1. woken' = woken /\ roomWaiters' = roomWaiters
      BY <2>5 DEF StartDrain
    <3> QED
      BY <3>1, <2>2, <2>4, <2>5 DEF PlacesFit
  <2>6. CASE Wakes
    <3>1. woken' = woken \o roomWaiters /\ roomWaiters' = <<>>
      BY <2>6 DEF StartDrain
    <3>2. /\ DOMAIN woken' = 1..(Len(woken) + Len(roomWaiters))
          /\ \A i \in DOMAIN woken' : woken'[i] = IF i <= Len(woken) THEN woken[i]
                                                  ELSE roomWaiters[i - Len(woken)]
      BY <3>1, <1>1
    <3>3. \A i \in DOMAIN woken' : i > Len(woken) => i - Len(woken) \in DOMAIN roomWaiters
      BY <3>2, <1>1
    <3>4. \A i \in DOMAIN woken' : i <= Len(woken) => i \in DOMAIN woken
      BY <3>2, <1>1
    <3>5. \A i \in DOMAIN woken' : caller'[woken'[i]] = "woken"
      BY <3>2, <3>3, <3>4, <2>2, <2>4, <2>6
    <3>6. ASSUME NEW i \in DOMAIN woken', NEW j \in DOMAIN woken', woken'[i] = woken'[j]
          PROVE  i = j
      <4>1. i <= Len(woken) <=> j <= Len(woken)
        BY <3>2, <3>3, <3>4, <3>6, <2>1, <2>3
      <4>2. CASE i <= Len(woken)
        BY <4>1, <4>2, <3>2, <3>4, <3>6 DEF PlacesFit
      <4>3. CASE ~(i <= Len(woken))
        <5>1. i - Len(woken) = j - Len(woken)
          BY <4>1, <4>3, <3>2, <3>3, <3>6, <1>1 DEF PlacesFit
        <5> QED
          BY <5>1, <3>2, <1>1
      <4> QED
        BY <4>2, <4>3
    <3> QED
      BY <3>1, <3>5, <3>6
  <2> QED
    BY <2>5, <2>6
<1>13. TableFits'
  <2>1. \A s \in 1..next : /\ rows[s] \in Events
                           /\ caller[rows[s]] \in {"writing", "resolved", "lost"}
    BY DEF TypeOK, TableFits
  <2>2. \A s \in 1..next : rows[s] \notin ToSet(TakenBatch) /\ rows[s] \notin ToSet(roomWaiters)
    BY <2>1, <1>6, <1>7
  <2>3. \A s \in 1..next : caller'[rows[s]] = caller[rows[s]]
    BY <2>1, <2>2, <1>5
  <2>4. \A s \in 1..next, i \in DOMAIN TakenBatch : rows[s] # TakenBatch[i]
    BY <2>2 DEF ToSet
  <2> QED
    BY <2>1, <2>3, <2>4, <1>3, <1>4 DEF TableFits
<1> QED
  BY <1>8, <1>9, <1>10, <1>11, <1>12, <1>13 DEF PlacesFit

\* The rows of a committed batch follow those the table had.
LEMMA CommitDoes ==
    ASSUME LogInv, CommitBatch
    PROVE  /\ next \in Nat /\ Len(batch) \in Nat \ {0} /\ next' = next + Len(batch)
           /\ firstSeq' = next + 1 /\ DOMAIN rows' = 1..next'
           /\ \A s \in 1..next : rows'[s] = rows[s]
           /\ \A i \in 1..Len(batch) : rows'[next + i] = batch[i]
<1>1. next \in Nat /\ Len(batch) \in Nat \ {0} /\ DOMAIN rows = 1..next
  BY DEF LogInv, TypeOK, TableFits, CommitBatch
<1>2. next' = next + Len(batch) /\ firstSeq' = next + 1
  BY DEF CommitBatch
<1>3. rows' = [s \in 1..next \cup (next + 1)..(next + Len(batch)) |->
                  IF s \in 1..next THEN rows[s] ELSE batch[s - next]]
  BY <1>1 DEF CommitBatch
<1>4. 1..next \cup (next + 1)..(next + Len(batch)) = 1..(next + Len(batch))
  BY <1>1
<1>5. \A i \in 1..Len(batch) : next + i \in 1..(next + Len(batch)) /\ next + i \notin 1..next
                               /\ (next + i) - next = i
  BY <1>1
<1> QED
  BY <1>1, <1>2, <1>3, <1>4, <1>5

\* Places and table after the transaction, its settling, and a crash.
LEMMA SettlePlaces ==
    ASSUME LogInv, CommitBatch \/ FailBatch \/ ResolveBatch \/ Crash
    PROVE  PlacesFit' /\ TableFits'
<1> USE DEF LogInv, durable
<1>1. /\ caller \in [Events -> CallerStates] /\ pending \in Seq(Events) /\ batch \in Seq(Events)
      /\ roomWaiters \in Seq(Events) /\ woken \in Seq(Events) /\ next \in Nat
      /\ DOMAIN rows = 1..next /\ \A s \in 1..next : rows[s] \in Events
  BY DEF TypeOK, TableFits
<1>2. CASE CommitBatch
  <2>1. PlacesFit'
    BY <1>2 DEF PlacesFit, CommitBatch
  <2>2. /\ next' = next + Len(batch) /\ Len(batch) \in Nat \ {0}
        /\ firstSeq' = next + 1 /\ DOMAIN rows' = 1..next'
        /\ \A s \in 1..next : rows'[s] = rows[s]
        /\ \A i \in 1..Len(batch) : rows'[next + i] = batch[i]
    BY <1>2, CommitDoes
  <2>3. caller' = caller /\ batch' = batch
    BY <1>2 DEF CommitBatch
  <2>4. ASSUME NEW s \in 1..next'
        PROVE  caller'[rows'[s]] \in {"writing", "resolved", "lost"}
    <3>1. CASE s \in 1..next
      BY <3>1, <2>2, <2>3 DEF TableFits
    <3>2. CASE s \notin 1..next
      <4>1. s - next \in 1..Len(batch) /\ s = next + (s - next)
        BY <3>2, <2>2, <1>1
      <4>2. rows'[s] = batch[s - next]
        BY <4>1, <2>2
      <4>3. caller[batch[s - next]] = "writing"
        BY <4>1, <1>1 DEF PlacesFit
      <4> QED
        BY <4>2, <4>3, <2>3
    <3> QED
      BY <3>1, <3>2
  <2>5. firstSeq' > 0 /\ next' = firstSeq' - 1 + Len(batch') /\ firstSeq' - 1 = next
    BY <2>2, <2>3, <1>1
  <2>6. batch' # <<>>
    BY <2>2, <2>3
  <2>7. \A i \in 1..Len(batch') : rows'[firstSeq' - 1 + i] = batch'[i]
    BY <2>2, <2>3, <2>5
  <2>8. ~(firstSeq' = 0)
    BY <2>2, <1>1
  <2> QED
    BY <2>1, <2>2, <2>4, <2>5, <2>6, <2>7, <2>8 DEF TableFits
<1>3. CASE FailBatch \/ ResolveBatch
  <2>1. PICK fate \in {"rejected", "resolved"} :
           /\ caller' = [e \in Events |-> IF e \in ToSet(batch) THEN fate ELSE caller[e]]
           /\ fate = "rejected" => firstSeq = 0
    BY <1>3 DEF FailBatch, ResolveBatch
  <2>2. /\ batch' = <<>> /\ firstSeq' = 0 /\ next' = next /\ rows' = rows
        /\ pending' = pending /\ roomWaiters' = roomWaiters /\ woken' = woken
    BY <1>3 DEF FailBatch, ResolveBatch
  <2>3. \A e \in Events : e \in ToSet(batch) => caller[e] = "writing"
    BY <1>1 DEF ToSet, PlacesFit
  <2>4. \A e \in Events : caller[e] # "writing" => caller'[e] = caller[e]
    BY <2>1, <2>3
  <2>5. PlacesFit'
    <3>1. \A i \in DOMAIN pending : pending[i] \in Events /\ caller'[pending[i]] = "pending"
      BY <1>1, <2>4 DEF PlacesFit
    <3>2. \A i \in DOMAIN woken : woken[i] \in Events /\ caller'[woken[i]] = "woken"
      BY <1>1, <2>4 DEF PlacesFit
    <3>3. \A i \in DOMAIN roomWaiters :
             roomWaiters[i] \in Events /\ caller'[roomWaiters[i]] = "blocked"
      BY <1>1, <2>4 DEF PlacesFit
    <3> QED
      BY <3>1, <3>2, <3>3, <2>2 DEF PlacesFit
  <2>6. \A s \in 1..next : caller'[rows[s]] \in {"writing", "resolved", "lost"}
    <3> SUFFICES ASSUME NEW s \in 1..next
                 PROVE  caller'[rows[s]] \in {"writing", "resolved", "lost"}
      OBVIOUS
    <3>1. rows[s] \in Events /\ caller[rows[s]] \in {"writing", "resolved", "lost"}
      BY <1>1 DEF TableFits
    <3>2. firstSeq = 0 => rows[s] \notin ToSet(batch)
      BY DEF TableFits, ToSet
    <3> QED
      BY <3>1, <3>2, <2>1
  <2> QED
    BY <2>2, <2>5, <2>6, <1>1 DEF TableFits
<1>4. CASE Crash
  <2>1. /\ batch' = <<>> /\ firstSeq' = 0 /\ next' = next /\ rows' = rows
        /\ pending' = <<>> /\ roomWaiters' = <<>> /\ woken' = <<>>
        /\ \A e \in Events : caller'[e] \in {caller[e], "lost"}
    BY <1>4 DEF Crash
  <2>2. PlacesFit'
    BY <2>1 DEF PlacesFit
  <2>3. \A s \in 1..next : caller'[rows[s]] \in {"writing", "resolved", "lost"}
    BY <1>1, <2>1 DEF TableFits
  <2> QED
    BY <2>1, <2>2, <2>3, <1>1 DEF TableFits
<1> QED
  BY <1>2, <1>3, <1>4

\* The invariant the refinement needs: where events wait, and what the table is.
THEOREM LogInvariant == Spec => []LogInv
<1>1. Init => PlacesFit /\ TableFits
  <2> SUFFICES ASSUME Init PROVE PlacesFit /\ TableFits
    OBVIOUS
  <2> QED
    BY DEF Init, PlacesFit, TableFits
<1>2. LogInv /\ [Next]_vars => PlacesFit' /\ TableFits'
  <2> SUFFICES ASSUME LogInv, [Next]_vars PROVE PlacesFit' /\ TableFits'
    OBVIOUS
  <2>1. woken \in Seq(Events)
    BY DEF LogInv, TypeOK
  <2>2. ASSUME NEW e \in Events, Emit(e) PROVE PlacesFit' /\ TableFits'
    <3>1. \A i \in DOMAIN woken : woken[i] # e /\ caller[woken[i]] = "woken"
      BY <2>2 DEF LogInv, PlacesFit, Emit
    <3>2. \A i, j \in DOMAIN woken : woken[i] = woken[j] => i = j
      BY DEF LogInv, PlacesFit
    <3>3. /\ caller[e] \in {"idle", "woken"} /\ TakeRoomOrSleep(e) /\ woken' = woken
          /\ UNCHANGED <<batch, firstSeq, durable>>
      BY <2>2 DEF Emit
    <3> QED
      BY <3>1, <3>2, <3>3, <2>1, TakeRoomOrSleepPlaces
  <2>3. CASE RecheckRoom
    <3> DEFINE e == Head(woken)
               rest == Tail(woken)
    <3>1. woken # <<>>
      BY <2>3 DEF RecheckRoom
    <3>2. /\ e \in Events /\ e = woken[1] /\ 1 \in DOMAIN woken /\ rest \in Seq(Events)
          /\ \A i \in DOMAIN rest : rest[i] = woken[i + 1] /\ i + 1 \in DOMAIN woken /\ i + 1 # 1
      BY <3>1, <2>1
    <3>3. /\ caller[e] = "woken"
          /\ \A i \in DOMAIN rest : rest[i] # e /\ caller[rest[i]] = "woken"
      BY <3>2 DEF LogInv, PlacesFit
    <3>4. \A i, j \in DOMAIN rest : rest[i] = rest[j] => i = j
      <4>1. \A i, j \in DOMAIN rest : rest[i] = rest[j] => i + 1 = j + 1
        BY <3>2 DEF LogInv, PlacesFit
      <4>2. \A i \in DOMAIN rest : i \in Nat
        BY <3>2
      <4> QED
        BY <4>1, <4>2
    <3>5. TakeRoomOrSleep(e) /\ woken' = rest /\ UNCHANGED <<batch, firstSeq, durable>>
      BY <2>3 DEF RecheckRoom
    <3> HIDE DEF e, rest
    <3> QED
      BY <3>2, <3>3, <3>4, <3>5, TakeRoomOrSleepPlaces
  <2>4. CASE FlushTimerFires \/ UNCHANGED vars
    <3>1. UNCHANGED <<caller, pending, roomWaiters, woken, batch, firstSeq, next, rows>>
      BY <2>4 DEF FlushTimerFires, vars, volatile, durable
    <3>2. PlacesFit'
      BY <3>1 DEF LogInv, PlacesFit
    <3>3. TableFits'
      BY <3>1 DEF LogInv, TableFits
    <3> QED
      BY <3>2, <3>3
  <2>5. CASE StartDrain
    BY <2>5, StartDrainPlaces
  <2>6. CASE CommitBatch \/ FailBatch \/ ResolveBatch \/ Crash
    BY <2>6, SettlePlaces
  <2> QED
    BY <2>2, <2>3, <2>4, <2>5, <2>6 DEF Next
<1> QED
  BY <1>1, <1>2, TypeCorrect, PTL DEF Spec, LogInv

-----------------------------------------------------------------------------
(***************************************************************************)
(* The simulation: what each step of the store is in the log.              *)
(***************************************************************************)

\* Two sequences joined, member by member.
LEMMA JoinIs ==
    ASSUME NEW a \in Seq(Events), NEW b \in Seq(Events)
    PROVE  /\ a \o b \in Seq(Events) /\ Len(a \o b) = Len(a) + Len(b)
           /\ \A i \in 1..Len(a) : (a \o b)[i] = a[i]
           /\ \A i \in 1..Len(b) : (a \o b)[Len(a) + i] = b[i]
           /\ a = <<>> => a \o b = b
OBVIOUS

\* Sequences of the same length with the same members are the same.
LEMMA SameSeq ==
    ASSUME NEW a \in Seq(Events), NEW b \in Seq(Events), Len(a) = Len(b),
           \A i \in 1..Len(b) : a[i] = b[i]
    PROVE  a = b
OBVIOUS

\* The abstract queue and log are sequences, and what they hold.
LEMMA AbstractTypes ==
    ASSUME LogInv
    PROVE  /\ AbstractQueue \in Seq(Events) /\ AbstractLog \in Seq(Events)
           /\ Len(AbstractLog) = next /\ \A s \in 1..next : AbstractLog[s] = rows[s]
           /\ batch = <<>> => firstSeq = 0 /\ AbstractQueue = pending
           /\ firstSeq = 0 => AbstractQueue = batch \o pending
           /\ firstSeq > 0 => AbstractQueue = pending
<1>1. /\ pending \in Seq(Events) /\ batch \in Seq(Events) /\ next \in Nat /\ firstSeq \in Nat
      /\ DOMAIN rows = 1..next /\ \A s \in 1..next : rows[s] \in Events
  BY DEF LogInv, TypeOK, TableFits
<1>2. /\ AbstractLog \in Seq(Events) /\ Len(AbstractLog) = next
      /\ \A s \in 1..next : AbstractLog[s] = rows[s]
  BY <1>1 DEF AbstractLog
<1>3. <<>> \o pending = pending
  BY <1>1
<1>4. firstSeq > 0 => AbstractQueue = pending
  BY <1>1, <1>3 DEF AbstractQueue
<1>5. firstSeq = 0 => AbstractQueue = batch \o pending
  BY DEF AbstractQueue
<1>6. batch = <<>> => firstSeq = 0
  BY <1>1 DEF LogInv, TableFits
<1>7. batch = <<>> => AbstractQueue = pending
  BY <1>3, <1>5, <1>6
<1>8. AbstractQueue \in Seq(Events)
  <2>1. batch \o pending \in Seq(Events) /\ (firstSeq = 0 \/ firstSeq > 0)
    BY <1>1, JoinIs
  <2> QED
    BY <2>1, <1>1, <1>4, <1>5
<1> QED
  BY <1>2, <1>4, <1>5, <1>6, <1>7, <1>8

\* The log stands while the table does.
LEMMA LogStays ==
    ASSUME UNCHANGED <<next, rows>>
    PROVE  AbstractLog' = AbstractLog
BY DEF AbstractLog

\* An event that takes room is accepted, and one that sleeps is not yet.
LEMMA TakeRoomOrSleepIs ==
    ASSUME LogInv, NEW e \in Events, caller[e] \in {"idle", "woken"}, TakeRoomOrSleep(e),
           UNCHANGED <<batch, firstSeq, durable, seqOf>>
    PROVE  Log!Accept(e) \/ UNCHANGED Log!vars
<1>1. AbstractLog' = AbstractLog /\ seqOf' = seqOf
  BY LogStays DEF durable
<1>2. /\ pending \in Seq(Events) /\ batch \in Seq(Events) /\ firstSeq \in Nat
      /\ AbstractQueue \in Seq(Events)
  BY AbstractTypes DEF LogInv, TypeOK
<1>3. CASE pending' = pending
  BY <1>1, <1>3 DEF AbstractQueue, Log!vars
<1>4. CASE pending' = Append(pending, e)
  <2>1. AbstractQueue' = Append(AbstractQueue, e)
    <3>1. batch \o Append(pending, e) = Append(batch \o pending, e)
      BY <1>2
    <3>2. <<>> \o Append(pending, e) = Append(<<>> \o pending, e)
      BY <1>2
    <3> QED
      BY <1>4, <3>1, <3>2 DEF AbstractQueue
  <2>2. e \notin Log!Members(AbstractLog)
    <3>1. \A s \in 1..next : rows[s] # e
      BY DEF LogInv, TableFits
    <3> QED
      BY <3>1, AbstractTypes DEF Log!Members
  <2>3. e \notin Log!Members(AbstractQueue)
    <3>1. /\ \A i \in 1..Len(pending) : pending[i] # e
          /\ \A i \in 1..Len(batch) : batch[i] # e
      BY <1>2 DEF LogInv, PlacesFit
    <3>2. CASE firstSeq > 0
      BY <3>1, <3>2, AbstractTypes DEF Log!Members
    <3>3. CASE firstSeq = 0
      <4>1. /\ AbstractQueue = batch \o pending
            /\ Len(AbstractQueue) = Len(batch) + Len(pending)
        BY <3>3, <1>2, AbstractTypes
      <4>2. ASSUME NEW i \in 1..Len(AbstractQueue) PROVE AbstractQueue[i] # e
        <5>1. CASE i <= Len(batch)
          BY <5>1, <4>1, <4>2, <3>1, <1>2
        <5>2. CASE i > Len(batch)
          <6>1. i - Len(batch) \in 1..Len(pending)
            BY <5>2, <4>1, <4>2, <1>2
          <6>2. AbstractQueue[i] = pending[i - Len(batch)]
            BY <5>2, <4>1, <4>2, <1>2
          <6> QED
            BY <6>1, <6>2, <3>1
        <5> QED
          BY <5>1, <5>2, <4>1, <4>2, <1>2
      <4> QED
        BY <4>2 DEF Log!Members
    <3> QED
      BY <3>2, <3>3, <1>2
  <2> QED
    BY <1>1, <2>1, <2>2, <2>3 DEF Log!Accept
<1> QED
  BY <1>3, <1>4 DEF TakeRoomOrSleep

\* drain() splits the queue and loses nothing of it.
LEMMA StartDrainIs ==
    ASSUME LogInv, StartDrain
    PROVE  UNCHANGED Log!vars
<1>1. AbstractLog' = AbstractLog /\ seqOf' = seqOf
  BY LogStays DEF StartDrain, durable
<1>2. /\ pending \in Seq(Events) /\ batch = <<>> /\ firstSeq = 0 /\ AbstractQueue = pending
      /\ firstSeq' = 0 /\ batch' = TakenBatch /\ pending' = StillPending
  BY AbstractTypes DEF LogInv, TypeOK, StartDrain, MayDrain
<1>3. /\ TakenBatch \in Seq(Events) /\ StillPending \in Seq(Events)
      /\ TakenSize \in 0..Len(pending)
      /\ Len(TakenBatch) = TakenSize /\ Len(StillPending) = Len(pending) - TakenSize
      /\ \A i \in 1..TakenSize : TakenBatch[i] = pending[i]
      /\ \A i \in 1..Len(StillPending) : StillPending[i] = pending[TakenSize + i]
  BY <1>2, TakenAndStill
<1> DEFINE q == TakenBatch \o StillPending
<1>4. AbstractQueue' = q
  BY <1>2 DEF AbstractQueue
<1>5. /\ q \in Seq(Events) /\ Len(q) = Len(TakenBatch) + Len(StillPending)
      /\ \A i \in 1..Len(TakenBatch) : q[i] = TakenBatch[i]
      /\ \A i \in 1..Len(StillPending) : q[Len(TakenBatch) + i] = StillPending[i]
  BY <1>3, JoinIs
<1> HIDE DEF q
<1>6. ASSUME NEW i \in 1..Len(pending) PROVE q[i] = pending[i]
  <2>1. CASE i <= TakenSize
    <3>1. i \in 1..TakenSize
      BY <2>1, <1>6, <1>2, <1>3
    <3> QED
      BY <3>1, <1>3, <1>5
  <2>2. CASE i > TakenSize
    <3>1. i - TakenSize \in 1..Len(StillPending) /\ TakenSize + (i - TakenSize) = i
      BY <2>2, <1>6, <1>2, <1>3
    <3>2. q[i] = StillPending[i - TakenSize] /\ StillPending[i - TakenSize] = pending[i]
      BY <3>1, <1>3, <1>5
    <3> QED
      BY <3>2
  <2> QED
    BY <2>1, <2>2, <1>6, <1>2, <1>3
<1>7. q = pending
  <2>1. Len(q) = Len(pending)
    BY <1>2, <1>3, <1>5
  <2> QED
    BY <2>1, <1>2, <1>5, <1>6, SameSeq
<1> QED
  BY <1>1, <1>2, <1>4, <1>7 DEF Log!vars

\* A batch that is in the queue is its front, and leaves the rest.
LEMMA BatchIsFront ==
    ASSUME LogInv, batch # <<>>, firstSeq = 0
    PROVE  /\ Len(batch) \in 1..Len(AbstractQueue)
           /\ SubSeq(AbstractQueue, 1, Len(batch)) = batch
           /\ SubSeq(AbstractQueue, Len(batch) + 1, Len(AbstractQueue)) = pending
<1>1. pending \in Seq(Events) /\ batch \in Seq(Events) /\ AbstractQueue = batch \o pending
  BY AbstractTypes DEF LogInv, TypeOK
<1> DEFINE q == batch \o pending
           front == SubSeq(q, 1, Len(batch))
           back == SubSeq(q, Len(batch) + 1, Len(q))
<1>2. q \in Seq(Events) /\ Len(q) = Len(batch) + Len(pending) /\ Len(batch) \in 1..Len(q)
  BY <1>1, JoinIs
<1>3. /\ \A i \in 1..Len(batch) : q[i] = batch[i]
      /\ \A i \in 1..Len(pending) : q[Len(batch) + i] = pending[i]
  BY <1>1, JoinIs
<1>4. q = AbstractQueue
  BY <1>1
<1>5. /\ front \in Seq(Events) /\ Len(front) = Len(batch)
      /\ \A i \in 1..Len(batch) : front[i] = q[i]
  BY <1>1, <1>2
<1>6. /\ back \in Seq(Events) /\ Len(back) = Len(pending)
      /\ \A i \in 1..Len(pending) : back[i] = q[Len(batch) + i]
  BY <1>1, <1>2
<1> HIDE DEF front, back, q
<1>7. front = batch
  BY <1>1, <1>3, <1>5, SameSeq
<1>8. back = pending
  BY <1>1, <1>3, <1>6, SameSeq
<1> QED
  BY <1>2, <1>4, <1>7, <1>8 DEF front, back

\* The transaction writes the batch at the end of the log.
LEMMA CommitIs ==
    ASSUME LogInv, LogInv', CommitBatch
    PROVE  Log!Write(Len(batch)) /\ Len(batch) \in 1..Len(AbstractQueue)
<1>1. batch # <<>> /\ firstSeq = 0 /\ pending' = pending /\ seqOf' = seqOf
  BY DEF CommitBatch
<1>2. /\ next \in Nat /\ Len(batch) \in Nat \ {0} /\ next' = next + Len(batch)
      /\ firstSeq' = next + 1 /\ DOMAIN rows' = 1..next'
      /\ \A s \in 1..next : rows'[s] = rows[s]
      /\ \A i \in 1..Len(batch) : rows'[next + i] = batch[i]
  BY CommitDoes
<1>3. AbstractQueue' = pending
  <2>1. ~(firstSeq' = 0) /\ pending \in Seq(Events)
    BY <1>2 DEF LogInv, TypeOK
  <2>2. <<>> \o pending = pending
    BY <2>1
  <2> QED
    BY <2>1, <2>2, <1>1 DEF AbstractQueue
<1>4. batch \in Seq(Events)
  BY DEF LogInv, TypeOK
<1> DEFINE old == AbstractLog
           new == AbstractLog'
<1>5. /\ old \in Seq(Events) /\ Len(old) = next /\ \A s \in 1..next : old[s] = rows[s]
  BY AbstractTypes
<1>6. /\ new \in Seq(Events) /\ Len(new) = next' /\ \A s \in 1..next' : new[s] = rows'[s]
  <2>1. /\ next' \in Nat /\ DOMAIN rows' = 1..next' /\ \A s \in 1..next' : rows'[s] \in Events
    BY DEF LogInv, TypeOK, TableFits
  <2>2. new = [s \in 1..next' |-> rows'[s]]
    BY DEF AbstractLog
  <2> QED
    BY <2>1, <2>2
<1> HIDE DEF old, new
<1>7. new = old \o batch
  <2> DEFINE both == old \o batch
  <2>1. both \in Seq(Events) /\ Len(both) = next + Len(batch)
    BY <1>4, <1>5, JoinIs
  <2>2. ASSUME NEW s \in 1..(next + Len(batch)) PROVE new[s] = both[s]
    <3>1. CASE s <= next
      <4>1. s \in 1..next /\ s \in 1..next'
        BY <3>1, <2>2, <1>2
      <4>2. both[s] = old[s]
        BY <4>1, <1>4, <1>5, JoinIs
      <4> QED
        BY <4>1, <4>2, <1>2, <1>5, <1>6
    <3>2. CASE s > next
      <4>1. s - next \in 1..Len(batch) /\ s = next + (s - next) /\ s \in 1..next'
        BY <3>2, <2>2, <1>2
      <4>2. both[s] = batch[s - next]
        BY <4>1, <1>4, <1>5, JoinIs
      <4>3. rows'[s] = batch[s - next]
        BY <4>1, <1>2
      <4> QED
        BY <4>1, <4>2, <4>3, <1>6
    <3> QED
      <4>1. s <= next \/ s > next
        BY <2>2, <1>2
      <4> QED
        BY <4>1, <3>1, <3>2
  <2> HIDE DEF both
  <2>3. new = both
    BY <2>1, <2>2, <1>2, <1>6, SameSeq
  <2> QED
    BY <2>3 DEF both
<1>8. /\ Len(batch) \in 1..Len(AbstractQueue)
      /\ SubSeq(AbstractQueue, 1, Len(batch)) = batch
      /\ SubSeq(AbstractQueue, Len(batch) + 1, Len(AbstractQueue)) = pending
  BY <1>1, BatchIsFront
<1> QED
  BY <1>1, <1>3, <1>7, <1>8 DEF Log!Write, old, new

\* The rollback drops the batch.
LEMMA FailIs ==
    ASSUME LogInv, FailBatch
    PROVE  Log!Drop(Len(batch)) /\ Len(batch) \in 1..Len(AbstractQueue)
<1>1. /\ batch # <<>> /\ firstSeq = 0 /\ pending' = pending /\ seqOf' = seqOf
      /\ batch' = <<>> /\ firstSeq' = 0 /\ AbstractLog' = AbstractLog
  BY LogStays DEF FailBatch, durable
<1>2. AbstractQueue' = pending
  BY <1>1 DEF AbstractQueue, LogInv, TypeOK
<1>3. /\ Len(batch) \in 1..Len(AbstractQueue)
      /\ SubSeq(AbstractQueue, Len(batch) + 1, Len(AbstractQueue)) = pending
  BY <1>1, BatchIsFront
<1> QED
  BY <1>1, <1>2, <1>3 DEF Log!Drop

\* Each caller of the committed batch is told where its event is in the log.
LEMMA ResolveIs ==
    ASSUME LogInv, ResolveBatch
    PROVE  \E from, to \in 1..Len(AbstractLog) : Log!Tell(from, to)
<1>1. /\ firstSeq > 0 /\ firstSeq \in Nat /\ next \in Nat /\ batch \in Seq(Events)
      /\ batch # <<>> /\ next = firstSeq - 1 + Len(batch)
      /\ \A i \in 1..Len(batch) : rows[firstSeq - 1 + i] = batch[i]
  BY DEF LogInv, TypeOK, TableFits, ResolveBatch
<1>2. Len(AbstractLog) = next /\ \A s \in 1..next : AbstractLog[s] = rows[s]
  BY AbstractTypes
<1>3. firstSeq \in 1..Len(AbstractLog) /\ next \in 1..Len(AbstractLog)
  BY <1>1, <1>2
<1>4. AbstractQueue' = AbstractQueue /\ AbstractLog' = AbstractLog
  <2>1. pending' = pending /\ batch' = <<>> /\ firstSeq' = 0 /\ AbstractLog' = AbstractLog
    BY LogStays DEF ResolveBatch, durable
  <2>2. AbstractQueue = pending
    BY <1>1, AbstractTypes
  <2> QED
    BY <2>1, <2>2 DEF AbstractQueue, LogInv, TypeOK
<1>5. \A p \in firstSeq..next : /\ p - firstSeq + 1 \in 1..Len(batch)
                                /\ AbstractLog[p] = batch[p - firstSeq + 1]
  <2> SUFFICES ASSUME NEW p \in firstSeq..next
               PROVE  /\ p - firstSeq + 1 \in 1..Len(batch)
                      /\ AbstractLog[p] = batch[p - firstSeq + 1]
    OBVIOUS
  <2>1. /\ p - firstSeq + 1 \in 1..Len(batch) /\ p \in 1..next
        /\ firstSeq - 1 + (p - firstSeq + 1) = p
    BY <1>1
  <2> QED
    BY <2>1, <1>1, <1>2
<1>6. \A i \in 1..Len(batch) : /\ firstSeq - 1 + i \in firstSeq..next
                               /\ AbstractLog[firstSeq - 1 + i] = batch[i]
  <2> SUFFICES ASSUME NEW i \in 1..Len(batch)
               PROVE  /\ firstSeq - 1 + i \in firstSeq..next
                      /\ AbstractLog[firstSeq - 1 + i] = batch[i]
    OBVIOUS
  <2>1. firstSeq - 1 + i \in firstSeq..next /\ firstSeq - 1 + i \in 1..next
    BY <1>1
  <2> QED
    BY <2>1, <1>1, <1>2
<1>7. \A i, j \in 1..Len(batch) : batch[i] = batch[j] => i = j
  BY <1>1 DEF LogInv, PlacesFit
<1>8. ASSUME NEW e \in Events
      PROVE  (IF e \in ToSet(batch) THEN SeqInBatch(e) ELSE seqOf[e]) =
             IF \E p \in firstSeq..next : AbstractLog[p] = e
             THEN CHOOSE p \in firstSeq..next : AbstractLog[p] = e
             ELSE seqOf[e]
  <2>1. CASE e \in ToSet(batch)
    <3>1. PICK i \in 1..Len(batch) : batch[i] = e
      BY <2>1, <1>1 DEF ToSet
    <3>2. (CHOOSE j \in DOMAIN batch : batch[j] = e) = i
      BY <3>1, <1>1, <1>7
    <3>3. SeqInBatch(e) = firstSeq - 1 + i
      BY <3>2 DEF SeqInBatch
    <3>4. \A p \in firstSeq..next : AbstractLog[p] = e => p = firstSeq - 1 + i
      <4> SUFFICES ASSUME NEW p \in firstSeq..next, AbstractLog[p] = e
                   PROVE  p = firstSeq - 1 + i
        OBVIOUS
      <4>1. p - firstSeq + 1 = i
        BY <3>1, <1>5, <1>7
      <4> QED
        BY <4>1, <1>1, <3>1
    <3>5. (CHOOSE p \in firstSeq..next : AbstractLog[p] = e) = firstSeq - 1 + i
      BY <3>1, <3>4, <1>6
    <3> QED
      BY <2>1, <3>1, <3>3, <3>5, <1>6
  <2>2. CASE e \notin ToSet(batch)
    <3>1. ~ \E p \in firstSeq..next : AbstractLog[p] = e
      <4>1. \A i \in 1..Len(batch) : batch[i] # e
        BY <2>2, <1>1 DEF ToSet
      <4> QED
        BY <4>1, <1>5
    <3> QED
      BY <2>2, <3>1
  <2> QED
    BY <2>1, <2>2
<1>9. seqOf' = [e \in Events |-> IF \E p \in firstSeq..next : AbstractLog[p] = e
                                 THEN CHOOSE p \in firstSeq..next : AbstractLog[p] = e
                                 ELSE seqOf[e]]
  <2>1. seqOf' = [e \in Events |-> IF e \in ToSet(batch) THEN SeqInBatch(e) ELSE seqOf[e]]
    BY DEF ResolveBatch
  <2> QED
    BY <2>1, <1>8
<1>10. Log!Tell(firstSeq, next)
  BY <1>4, <1>9 DEF Log!Tell
<1> QED
  BY <1>3, <1>10

\* The event store implements the append-only log (emit, drain, the timer, and
\* the crash between any two of their steps): events are accepted, written
\* whole batches at a time at the end, or dropped; callers are told the
\* positions their events have; and a crash forgets the queue alone.
THEOREM StoreImplementsLog == Spec => ImplementsEventLog
<1>1. Init => Log!Init
  <2> SUFFICES ASSUME Init PROVE Log!Init
    OBVIOUS
  <2>1. /\ pending = <<>> /\ batch = <<>> /\ next = 0 /\ seqOf = [e \in Events |-> 0]
        /\ rows = [s \in {} |-> s] /\ firstSeq = 0
    BY DEF Init
  <2>2. AbstractQueue = <<>>
    BY <2>1 DEF AbstractQueue
  <2>3. AbstractLog = <<>>
    BY <2>1 DEF AbstractLog
  <2> QED
    BY <2>1, <2>2, <2>3 DEF Log!Init
<1>2. LogInv /\ LogInv' /\ [Next]_vars => [Log!Next]_(Log!vars)
  <2> SUFFICES ASSUME LogInv, LogInv', [Next]_vars
               PROVE  Log!Next \/ UNCHANGED Log!vars
    BY DEF Log!vars
  <2>1. ASSUME NEW e \in Events, Emit(e) PROVE Log!Next \/ UNCHANGED Log!vars
    BY <2>1, TakeRoomOrSleepIs DEF Emit, Log!Next
  <2>2. CASE RecheckRoom
    <3>1. woken \in Seq(Events) /\ woken # <<>>
      BY <2>2 DEF RecheckRoom, LogInv, TypeOK
    <3>2. Head(woken) \in Events /\ Head(woken) = woken[1] /\ 1 \in DOMAIN woken
      BY <3>1
    <3>3. caller[Head(woken)] = "woken"
      BY <3>2 DEF LogInv, PlacesFit
    <3> QED
      BY <2>2, <3>2, <3>3, TakeRoomOrSleepIs DEF RecheckRoom, Log!Next
  <2>3. CASE FlushTimerFires \/ UNCHANGED vars
    <3>1. UNCHANGED <<seqOf, pending, batch, firstSeq, next, rows>>
      BY <2>3 DEF FlushTimerFires, vars, volatile, durable
    <3> QED
      BY <3>1 DEF AbstractQueue, AbstractLog, Log!vars
  <2>4. CASE StartDrain
    BY <2>4, StartDrainIs
  <2>5. CASE CommitBatch
    BY <2>5, CommitIs DEF Log!Next
  <2>6. CASE FailBatch
    BY <2>6, FailIs DEF Log!Next
  <2>7. CASE ResolveBatch
    BY <2>7, ResolveIs DEF Log!Next
  <2>8. CASE Crash
    <3>1. /\ pending' = <<>> /\ batch' = <<>> /\ firstSeq' = 0
          /\ seqOf' = seqOf /\ AbstractLog' = AbstractLog
      BY <2>8, LogStays DEF Crash, durable
    <3>2. AbstractQueue' = <<>>
      BY <3>1 DEF AbstractQueue
    <3> QED
      BY <3>1, <3>2 DEF Log!Forget, Log!Next
  <2> QED
    BY <2>1, <2>2, <2>3, <2>4, <2>5, <2>6, <2>7, <2>8 DEF Next
<1> QED
  BY <1>1, <1>2, LogInvariant, PTL DEF Spec, ImplementsEventLog, Log!Spec
=============================================================================
