----------------------------- MODULE EventStore -----------------------------
(***************************************************************************)
(* The event store of src/core/events.ts: emit, the micro-batch timer, the *)
(* serialized flush chain, backpressure, and the one transaction per batch *)
(* that assigns the sequence numbers.  A step is the code between two      *)
(* awaits; the transaction is one step (commit or rollback), its settling  *)
(* of the batch's promises another, so that a crash can fall between them. *)
(*                                                                         *)
(* An operator named X_Bug is X with a plausible programming error; it is  *)
(* used only to confirm that the properties below notice the error.        *)
(***************************************************************************)
EXTENDS Naturals, Sequences, SequencesExt

CONSTANTS
    Events,        \* one emit() call each
    BatchSize,     \* opts.batchSize
    MaxPending,    \* opts.maxPending
    MaxCrashes     \* bound: how often the process dies and is started again

ASSUME BatchSizeAssumption == BatchSize \in Nat \ {0}
ASSUME MaxPendingAssumption == MaxPending \in Nat \ {0}
ASSUME MaxCrashesAssumption == MaxCrashes \in Nat

VARIABLES
    caller,        \* where each emit() call stands
    seqOf,         \* the seq its promise resolved with, 0 before
    pending,       \* this.pending
    roomWaiters,   \* this.roomWaiters: producers asleep on backpressure
    woken,         \* woken producers whose continuation has not yet run
    flushTimer,    \* this.flushTimer
    flushTail,     \* drains chained on this.flushTail and not yet started
    batch,         \* the batch the running drain() took, <<>> when none runs
    firstSeq,      \* its first seq once the transaction committed, 0 before
    next,          \* counters.next of the row "events.seq" (durable)
    rows,          \* the events table, seq -> event (durable)
    crashes

volatile == <<pending, roomWaiters, woken, flushTimer, flushTail, batch, firstSeq>>
durable == <<next, rows>>
vars == <<caller, seqOf, volatile, durable, crashes>>

CallerStates ==
    {"idle", "blocked", "woken", "pending", "writing",
     "resolved", "rejected", "lost"}

-----------------------------------------------------------------------------
Init ==
    /\ caller = [e \in Events |-> "idle"]
    /\ seqOf = [e \in Events |-> 0]
    /\ pending = <<>>
    /\ roomWaiters = <<>>
    /\ woken = <<>>
    /\ flushTimer = "null"
    /\ flushTail = 0
    /\ batch = <<>>
    /\ firstSeq = 0
    /\ next = 0
    /\ rows = [s \in {} |-> s]
    /\ crashes = 0

ScheduleFlush_SkipWhileDraining ==
    IF Len(pending') >= BatchSize
    THEN /\ flushTimer' = "null"
         /\ flushTail' = IF batch = <<>> THEN flushTail + 1 ELSE flushTail
    ELSE flushTimer' = "armed" /\ flushTail' = flushTail

ScheduleFlush_TimerFirst ==
    IF flushTimer = "armed" \/ Len(pending') < BatchSize
    THEN flushTimer' = "armed" /\ flushTail' = flushTail
    ELSE flushTimer' = "null" /\ flushTail' = flushTail + 1

\* scheduleFlush(), after the push: a full batch is flushed now and the
\* window timer cancelled; otherwise the timer is armed unless it already is.
ScheduleFlush ==
    IF Len(pending') >= BatchSize
    THEN flushTimer' = "null" /\ flushTail' = flushTail + 1
    ELSE flushTimer' = "armed" /\ flushTail' = flushTail

\* The body of emit() from the room check on: sleep while there is no room,
\* else push and schedule.
TakeRoomOrSleep(e) ==
    \/ /\ Len(pending) >= MaxPending
       /\ roomWaiters' = Append(roomWaiters, e)
       /\ caller' = [caller EXCEPT ![e] = "blocked"]
       /\ UNCHANGED <<pending, flushTimer, flushTail>>
    \/ /\ Len(pending) < MaxPending
       /\ pending' = Append(pending, e)
       /\ caller' = [caller EXCEPT ![e] = "pending"]
       /\ ScheduleFlush
       /\ UNCHANGED roomWaiters

Emit(e) ==
    /\ caller[e] = "idle"
    /\ TakeRoomOrSleep(e)
    /\ UNCHANGED <<seqOf, woken, batch, firstSeq, durable, crashes>>

RecheckRoom_IfNotWhile ==
    /\ woken # <<>>
    /\ pending' = Append(pending, Head(woken))
    /\ caller' = [caller EXCEPT ![Head(woken)] = "pending"]
    /\ ScheduleFlush
    /\ woken' = Tail(woken)
    /\ UNCHANGED <<seqOf, roomWaiters, batch, firstSeq, durable, crashes>>

\* A woken producer re-checks the cap: another emit may have taken the room.
RecheckRoom ==
    /\ woken # <<>>
    /\ TakeRoomOrSleep(Head(woken))
    /\ woken' = Tail(woken)
    /\ UNCHANGED <<seqOf, batch, firstSeq, durable, crashes>>

FlushTimerFires ==
    /\ flushTimer = "armed"
    /\ flushTimer' = "null"
    /\ flushTail' = IF pending # <<>> THEN flushTail + 1 ELSE flushTail
    /\ UNCHANGED <<caller, seqOf, pending, roomWaiters, woken, batch, firstSeq,
                   durable, crashes>>

\* drain() takes at most one batch off the front of the queue ...
TakenSize == IF Len(pending) <= BatchSize THEN Len(pending) ELSE BatchSize
TakenBatch == SubSeq(pending, 1, TakenSize)

StillPending_SliceNotSplice == pending
StillPending == SubSeq(pending, TakenSize + 1, Len(pending))

\* ... and wakes all sleepers once there is room.
Wakes_Never == FALSE
Wakes == pending # <<>> /\ Len(StillPending) < MaxPending

MayDrain == flushTail > 0 /\ batch = <<>>

\* drain() up to its transaction.  One that finds nothing pending returns.
StartDrain ==
    /\ MayDrain
    /\ flushTail' = flushTail - 1
    /\ batch' = TakenBatch
    /\ pending' = StillPending
    /\ woken' = IF Wakes THEN woken \o roomWaiters ELSE woken
    /\ roomWaiters' = IF Wakes THEN <<>> ELSE roomWaiters
    /\ caller' = [e \in Events |->
                    CASE e \in ToSet(TakenBatch) -> "writing"
                      [] Wakes /\ e \in ToSet(roomWaiters) -> "woken"
                      [] OTHER -> caller[e]]
    /\ UNCHANGED <<seqOf, flushTimer, firstSeq, durable, crashes>>

\* The transaction commits: counter moved by K, K rows at base+1 .. base+K.
CommitBatch ==
    /\ batch # <<>>
    /\ firstSeq = 0
    /\ next' = next + Len(batch)
    /\ rows' = [s \in DOMAIN rows \cup (next + 1)..(next + Len(batch)) |->
                  IF s \in DOMAIN rows THEN rows[s] ELSE batch[s - next]]
    /\ firstSeq' = next + 1
    /\ UNCHANGED <<caller, seqOf, pending, roomWaiters, woken, flushTimer,
                   flushTail, batch, crashes>>

\* The transaction throws and is rolled back: every emit of the batch rejects.
FailBatch ==
    /\ batch # <<>>
    /\ firstSeq = 0
    /\ caller' = [e \in Events |->
                    IF e \in ToSet(batch) THEN "rejected" ELSE caller[e]]
    /\ batch' = <<>>
    /\ UNCHANGED <<seqOf, pending, roomWaiters, woken, flushTimer, flushTail,
                   firstSeq, durable, crashes>>

\* batch.forEach((item, i) => item.resolve(firstSeq + i))
SeqInBatch_FromBase(e) ==
    (firstSeq - 2) + (CHOOSE i \in DOMAIN batch : batch[i] = e)
SeqInBatch(e) ==
    (firstSeq - 1) + (CHOOSE i \in DOMAIN batch : batch[i] = e)

\* drain() resumes after the commit and resolves each emit with its seq.
ResolveBatch ==
    /\ firstSeq > 0
    /\ caller' = [e \in Events |->
                    IF e \in ToSet(batch) THEN "resolved" ELSE caller[e]]
    /\ seqOf' = [e \in Events |->
                   IF e \in ToSet(batch) THEN SeqInBatch(e) ELSE seqOf[e]]
    /\ batch' = <<>>
    /\ firstSeq' = 0
    /\ UNCHANGED <<pending, roomWaiters, woken, flushTimer, flushTail, durable, crashes>>

\* The process dies; a new store opens on the same database.
Crash ==
    /\ crashes < MaxCrashes
    /\ crashes' = crashes + 1
    /\ caller' = [e \in Events |->
                    IF caller[e] \in {"blocked", "woken", "pending", "writing"}
                    THEN "lost" ELSE caller[e]]
    /\ pending' = <<>>
    /\ roomWaiters' = <<>>
    /\ woken' = <<>>
    /\ flushTimer' = "null"
    /\ flushTail' = 0
    /\ batch' = <<>>
    /\ firstSeq' = 0
    /\ UNCHANGED <<seqOf, durable>>

SettleBatch == CommitBatch \/ FailBatch \/ ResolveBatch

Next ==
    \/ \E e \in Events : Emit(e)
    \/ RecheckRoom
    \/ FlushTimerFires
    \/ StartDrain
    \/ CommitBatch
    \/ FailBatch
    \/ ResolveBatch
    \/ Crash

Spec == Init /\ [][Next]_vars

\* The event loop runs every armed timer and every ready continuation, and
\* the adapter settles every transaction one way or the other.
Fairness ==
    /\ WF_vars(RecheckRoom)
    /\ WF_vars(FlushTimerFires)
    /\ WF_vars(StartDrain)
    /\ WF_vars(SettleBatch)

FairSpec == Spec /\ Fairness

-----------------------------------------------------------------------------
\* The variables of emit(), the flush chain and the database have these types.
TypeOK ==
    /\ caller \in [Events -> CallerStates]
    /\ seqOf \in [Events -> Nat]
    /\ pending \in Seq(Events)
    /\ roomWaiters \in Seq(Events)
    /\ woken \in Seq(Events)
    /\ flushTimer \in {"null", "armed"}
    /\ flushTail \in Nat
    /\ batch \in Seq(Events)
    /\ firstSeq \in Nat
    /\ next \in Nat
    /\ rows \in [DOMAIN rows -> Events]
    /\ crashes \in 0..MaxCrashes

\* Backpressure (header: "The pending queue is bounded at maxPending"): the
\* queue never exceeds the cap, although woken producers race fresh emits.
PendingBounded == Len(pending) <= MaxPending

\* Why no event is stranded: the chained drains suffice for all that is
\* pending, or what is pending is less than a batch and the timer is armed.
DrainsSuffice ==
    \/ Len(pending) <= BatchSize * flushTail
    \/ Len(pending) < BatchSize /\ flushTimer = "armed"

SleepOnlyWhenFull == roomWaiters # <<>> => Len(pending) >= MaxPending

\* No accepted event is stranded (emit, scheduleFlush, drain): while anything
\* is pending, the window timer is armed or a drain is chained, although a
\* full batch cancels the timer and a drain takes at most one batch.
NoStrandedEvent == pending # <<>> => flushTimer = "armed" \/ flushTail > 0

\* "a full batch must never wait out the rest of the window" (scheduleFlush):
\* with a whole batch pending a drain is chained, whatever the timer does.
FullBatchIsFlushing == Len(pending) >= BatchSize => flushTail > 0

\* A sleeping producer has somebody to wake it (emit, drain): it sleeps only
\* while the queue is full, and a full queue is being flushed.
NoLostWakeup ==
    roomWaiters # <<>> =>
        Len(pending) >= MaxPending /\ (flushTimer = "armed" \/ flushTail > 0)

\* Whatever waits has its flush coming (emit, scheduleFlush, drain): accepted
\* events, a whole batch, and producers asleep on the full queue.
FlushIsDue == NoStrandedEvent /\ FullBatchIsFlushing /\ NoLostWakeup

\* Nothing is dropped, nothing waits for ever (header): every emit() call
\* settles, or dies with the process.
EveryEmitSettles ==
    \A e \in Events :
        caller[e] \in {"blocked", "woken", "pending", "writing"}
            ~> caller[e] \in {"resolved", "rejected", "lost"}

\* The store implements the append-only log: batches leave the queue in the
\* order of acceptance, whole or not at all, and the log only grows.
AbstractQueue == (IF firstSeq = 0 THEN batch ELSE <<>>) \o pending
AbstractLog == [s \in 1..next |-> rows[s]]
Log == INSTANCE EventLog WITH queue <- AbstractQueue, log <- AbstractLog, told <- seqOf
ImplementsEventLog == Log!Spec
=============================================================================
