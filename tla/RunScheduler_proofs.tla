------------------------ MODULE RunScheduler_proofs ------------------------
(***************************************************************************)
(* What TLAPS checks of RunScheduler, for every set of runs and calls,     *)
(* every number of slots and every bound.                                  *)
(*                                                                         *)
(* Of every behaviour: terminal rows stay terminal, and an execution that  *)
(* waits for a resume can always be reached.  Of careful clients, in the   *)
(* second half: slots and executions match, rows tell the truth, and no    *)
(* execution works on a cancelled run.                                     *)
(*                                                                         *)
(* All parts follow the code's composition: what each helper makes of a    *)
(* world, then what each action does, then every step.                     *)
(***************************************************************************)
EXTENDS RunScheduler, FiniteSetTheorems, SequenceTheorems, TLAPS

-----------------------------------------------------------------------------
(* The least of a set of naturals, and induction, from the well-founded    *)
(* order of the finite sets: with sets in the place of predicates, because *)
(* the library's own theorems take an operator, which no prover here can   *)
(* instantiate.                                                            *)

\* A set of naturals that is not empty has a least member.
LEMMA LeastNat ==
    ASSUME NEW S \in SUBSET Nat, S # {}
    PROVE  \E x \in S : \A y \in S : x <= y
<1> DEFINE T == {0..x : x \in S}
           R == StrictSubsetOrdering(Nat)
<1>1. IsWellFoundedOn(R, FiniteSubsetsOf(Nat))
  BY FS_StrictSubsetOrderingWellFounded
<1>2. T \subseteq FiniteSubsetsOf(Nat)
  <2> SUFFICES ASSUME NEW x \in S
               PROVE  0..x \in FiniteSubsetsOf(Nat)
    OBVIOUS
  <2>1. x \in Int /\ 0 \in Int /\ 0..x \subseteq Nat
    OBVIOUS
  <2>2. IsFiniteSet(0..x)
    BY <2>1, FS_Interval
  <2> QED
    BY <2>1, <2>2 DEF FiniteSubsetsOf
<1>3. T # {}
  OBVIOUS
<1> HIDE DEF R, T
<1>4. PICK m \in T : \A t \in T : ~ (<<t, m>> \in R)
  BY <1>1, <1>2, <1>3, WFMin
<1>5. PICK x \in S : m = 0..x
  BY DEF T
<1>6. ASSUME NEW y \in S, y < x
      PROVE  FALSE
  <2>1. 0..y \in T
    BY DEF T
  <2>2. 0..y \subseteq 0..x /\ 0..y # 0..x
    <3>1. x \in 0..x /\ x \notin 0..y
      BY <1>6
    <3> QED
      BY <3>1, <1>6
  <2>3. <<0..y, 0..x>> \in R
    BY <2>2 DEF R, StrictSubsetOrdering
  <2> QED
    BY <2>1, <2>3, <1>4, <1>5
<1> QED
  BY <1>6

\* Induction: a set with 0 and with the successor of each member is Nat.
LEMMA SetInduction ==
    ASSUME NEW S \in SUBSET Nat, 0 \in S, \A n \in S : n + 1 \in S
    PROVE  S = Nat
<1> DEFINE T == Nat \ S
<1>1. SUFFICES ASSUME T # {}
               PROVE  FALSE
  OBVIOUS
<1>2. PICK x \in T : \A y \in T : x <= y
  BY <1>1, LeastNat
<1>3. x # 0
  OBVIOUS
<1>4. x - 1 \in Nat /\ ~(x <= x - 1)
  BY <1>3
<1>5. x - 1 \in S
  BY <1>2, <1>4
<1> QED
  BY <1>5

\* A table that may follow the one of this state.
TableKept(d) ==
    /\ d \in [Runs -> Rows]
    /\ \A r \in Runs : db[r].status \in Terminal => d[r].status \in Terminal

\* A world, finished or half way through a step, whose table may follow.
Fine(w) == "db" \in DOMAIN w /\ TableKept(w.db)

RowsTyped == db \in [Runs -> Rows]

-----------------------------------------------------------------------------
(* What each helper does to the table.                                     *)

LEMMA WorldFine ==
    ASSUME RowsTyped
    PROVE  Fine(World) /\ Fine(AfterWrite) /\ World.db = db /\ AfterWrite.db = db
  BY DEF RowsTyped, Fine, TableKept, World, AfterWrite

LEMMA AwaitFine ==
    ASSUME NEW w, Fine(w), NEW a
    PROVE  Fine(Await(w, a)) /\ Await(w, a).db = w.db
  BY DEF Fine, Await

LEMMA GoToFine ==
    ASSUME NEW w, Fine(w), NEW x, NEW pc
    PROVE  Fine(GoTo(w, x, pc)) /\ GoTo(w, x, pc).db = w.db
  BY DEF Fine, GoTo

LEMMA ReleaseFine ==
    ASSUME NEW w, Fine(w)
    PROVE  Fine(Release(w)) /\ Release(w).db = w.db
  BY DEF Fine, Release, GoTo

LEMMA WakeWaiterFine ==
    ASSUME NEW w, Fine(w), NEW r
    PROVE  Fine(WakeWaiter(w, r)) /\ WakeWaiter(w, r).db = w.db
  BY DEF Fine, WakeWaiter

\* One row is overwritten by one that is terminal if the row was.
LEMMA RowFine ==
    ASSUME NEW d, TableKept(d), NEW r, NEW row,
           r \in Runs => row \in Rows /\ (d[r].status \in Terminal => row.status \in Terminal)
    PROVE  TableKept([d EXCEPT ![r] = row])
  BY DEF TableKept

LEMMA WriteFine ==
    ASSUME NEW w, Fine(w), NEW r, NEW from, NEW row,
           r \in Runs => row \in Rows,
           r \in Runs /\ w.db[r].status \in from \cap Terminal => row.status \in Terminal
    PROVE  Fine(Write(w, r, from, row))
<1>1. CASE w.db[r].status \in from
  <2>1. TableKept([w.db EXCEPT ![r] = row])
    BY <1>1, RowFine DEF Fine
  <2>2. QED
    BY <1>1, <2>1 DEF Fine, Write
<1>2. QED
  BY <1>1 DEF Fine, Write

LEMMA SetStatusFine ==
    ASSUME NEW w, Fine(w), NEW r, NEW from, NEW to \in Statuses, from \cap Terminal = {}
    PROVE  Fine(SetStatus(w, r, from, to))
<1>1. r \in Runs => [w.db[r] EXCEPT !.status = to] \in Rows
  BY DEF Fine, TableKept, Rows
<1>2. QED
  BY <1>1, WriteFine DEF SetStatus

LEMMA MarkRunningFine ==
    ASSUME NEW w, Fine(w), NEW r
    PROVE  Fine(MarkRunning(w, r))
  BY SetStatusFine DEF MarkRunning, Statuses, Terminal

LEMMA PumpFine ==
    ASSUME NEW w, Fine(w)
    PROVE  Fine(Pump(w))
<1>1. \A r \in Runs : /\ MarkRunning(w, r).db \in [Runs -> Rows]
                      /\ db[r].status \in Terminal => MarkRunning(w, r).db[r].status \in Terminal
  BY MarkRunningFine DEF Fine, TableKept
<1>2. QED
  BY <1>1 DEF Fine, TableKept, Pump

LEMMA AbortFine ==
    ASSUME NEW w, Fine(w), NEW x
    PROVE  Fine(Abort(w, x))
<1> DEFINE r == RunOf(x)
           row == [w.db[r] EXCEPT !.finishedAt = "set"]
           v == [w EXCEPT !.db = [w.db EXCEPT ![r] = row]]
<1>1. r \in Runs => row \in Rows /\ row.status = w.db[r].status
  BY DEF Fine, TableKept, Rows
<1>2. Fine(v)
  BY <1>1, RowFine DEF Fine
<1>3. Fine(Await(GoTo(v, x, "aborting"), x))
  <2> HIDE DEF v
  <2> QED BY <1>2, GoToFine, AwaitFine
<1>4. QED
  BY <1>3 DEF Abort

-----------------------------------------------------------------------------
(* What each action does to the table.                                     *)

\* A checkpoint is reached with the table as it was.
LEMMA ArrivedFine ==
    ASSUME RowsTyped, NEW x
    PROVE  Fine(Arrived(x)) /\ Arrived(x).db = db
  BY WorldFine DEF Arrived

\* The steps of an execution.
LEMMA ExecuteKept ==
    ASSUME RowsTyped, NEW x \in Execs, Execute(x)
    PROVE  TableKept(db')
<1> DEFINE r == RunOf(x)
<1>0. r \in Runs
  BY DEF Execs, RunOf
<1>1. CASE StopAtCheckpoint(x)
  BY <1>1, ArrivedFine, AbortFine DEF StopAtCheckpoint, Become, Fine
<1>2. CASE YieldAtCheckpoint(x)
  <2> DEFINE w == [WakeWaiter(Arrived(x), r) EXCEPT !.mem.resumeWaiters[r] = x,
                                               !.exec[x].released = FALSE,
                                               !.exec[x].pc = "yielding"]
  <2>1. Fine(WakeWaiter(Arrived(x), r))
    BY ArrivedFine, WakeWaiterFine
  <2>2. Fine(w)
    BY <2>1 DEF Fine
  <2>3. Fine(SetStatus(w, r, {"running"}, "paused"))
    BY <2>2, SetStatusFine DEF Statuses, Terminal
  <2>4. db' = Await(SetStatus(w, r, {"running"}, "paused"), x).db
    BY <1>2 DEF YieldAtCheckpoint, Become
  <2>5. QED
    BY <2>3, <2>4, AwaitFine DEF Fine
<1>3. CASE PassCheckpoint(x)
  <2>1. Fine(GoTo(Arrived(x), x, "working"))
    BY ArrivedFine, GoToFine
  <2>2. QED
    BY <1>3, <2>1 DEF PassCheckpoint, Become, Fine
<1>4. CASE GiveUpSlot(x)
  <2> DEFINE w == [GoTo(AfterWrite, x, "parked") EXCEPT !.mem.slotOwners = @ \ {r}]
  <2>1. Fine(w)
    BY WorldFine, GoToFine DEF Fine
  <2>2. Fine(Pump(Release(w)))
    BY <2>1, ReleaseFine, PumpFine
  <2>3. QED
    BY <1>4, <2>2 DEF GiveUpSlot, Become, Fine
<1>5. CASE ReacquireSlot(x)
  <2>1. Fine(Abort(World, x)) /\ Fine(GoTo(World, x, "granted")) /\ Fine(GoTo(World, x, "acquiring"))
    BY WorldFine, AbortFine, GoToFine
  <2>2. QED
    BY <1>5, <2>1 DEF ReacquireSlot, Become, Fine
<1>6. CASE ResumeWithSlot(x)
  <2> DEFINE w == [GoTo(World, x, "resuming") EXCEPT !.mem.slotOwners = @ \cup {r}]
  <2>1. Fine(Abort(Release(World), x))
    BY WorldFine, ReleaseFine, AbortFine
  <2>2. Fine(w)
    BY WorldFine, GoToFine DEF Fine
  <2>3. Fine(Await(MarkRunning(w, r), x))
    BY <2>2, MarkRunningFine, AwaitFine
  <2>4. QED
    BY <1>6, <2>1, <2>3 DEF ResumeWithSlot, Become, Fine
<1>7. CASE StopWithoutSlot(x)
  BY <1>7, WorldFine, AbortFine DEF StopWithoutSlot, Become, Fine
<1>8. CASE LeavePause(x)
  BY <1>8, WorldFine, AbortFine, GoToFine DEF LeavePause, Become, Fine
<1>9. ASSUME NEW outcome \in {"done", "failed"}, Settle(x, outcome)
      PROVE  TableKept(db')
  <2> DEFINE w == [GoTo(World, x, "settling") EXCEPT !.mem.pauseRequested = @ \ {r}]
             row == [db[r] EXCEPT !.status = outcome, !.pauseReq = 0, !.finishedAt = "set"]
  <2>1. Fine(Abort(World, x))
    BY WorldFine, AbortFine
  <2>2. Fine(w)
    BY WorldFine, GoToFine DEF Fine
  <2>3. row \in Rows /\ row.status \in Terminal
    BY <1>0 DEF RowsTyped, Rows, Statuses, Terminal
  <2>4. Fine(Write(w, r, Statuses \ {"cancelled"}, row))
    <3> HIDE DEF w, row
    <3> QED BY <2>2, <2>3, WriteFine
  <2>5. Fine(Await(Write(w, r, Statuses \ {"cancelled"}, row), x))
    BY <2>4, AwaitFine
  <2>6. QED
    BY <1>9, <2>1, <2>5 DEF Settle, Become, Fine
<1>10. CASE WriteCompletionAudit(x)
  <2> DEFINE v == GoTo(AfterWrite, x, "auditing")
             row == [v.db[r] EXCEPT !.audits = @ + 1]
             w == [v EXCEPT !.db = [v.db EXCEPT ![r] = row]]
  <2>1. Fine(v) /\ v.db = db
    BY WorldFine, GoToFine
  <2>2. row \in Rows /\ row.status = db[r].status
    BY <1>0, <2>1 DEF RowsTyped, Rows
  <2>3. Fine(w)
    <3> HIDE DEF v, row
    <3> QED BY <2>1, <2>2, RowFine DEF Fine
  <2>4. db' = Await(w, x).db
    BY <1>10 DEF WriteCompletionAudit, Become
  <2>5. QED
    BY <2>3, <2>4, AwaitFine DEF Fine
<1>11. CASE Finalize(x)
  <2>1. Fine(GoTo(AfterWrite, x, "none"))
    BY WorldFine, GoToFine
  <2>2. Fine(Forget(x))
    BY <2>1 DEF Fine, Forget
  <2>3. Fine(Pump(Release(Forget(x)))) /\ Fine(Pump(Forget(x)))
    BY <2>2, ReleaseFine, PumpFine
  <2>4. QED
    BY <1>11, <2>3 DEF Finalize, Become, Fine
<1>12. QED
  BY <1>1, <1>2, <1>3, <1>4, <1>5, <1>6, <1>7, <1>8, <1>9, <1>10, <1>11 DEF Execute

\* cancel() and close() write a terminal status, whatever the row says.
LEMMA CancelledFine ==
    ASSUME NEW d, TableKept(d), NEW r
    PROVE  TableKept([d EXCEPT ![r] = [d[r] EXCEPT !.status = "cancelled", !.pauseReq = 0]])
<1> DEFINE row == [d[r] EXCEPT !.status = "cancelled", !.pauseReq = 0]
<1>1. r \in Runs => row \in Rows /\ row.status \in Terminal
  BY DEF TableKept, Rows, Statuses, Terminal
<1> HIDE DEF row
<1>2. TableKept([d EXCEPT ![r] = row])
  BY <1>1, RowFine
<1>3. QED
  BY <1>2 DEF row

\* pause() and resume() first write their flag.
LEMMA FlagFine ==
    ASSUME NEW d, TableKept(d), NEW r, NEW flag \in {0, 1}
    PROVE  TableKept([d EXCEPT ![r] = [d[r] EXCEPT !.pauseReq = flag]])
<1> DEFINE row == [d[r] EXCEPT !.pauseReq = flag]
<1>1. r \in Runs => row \in Rows /\ row.status = d[r].status
  BY DEF TableKept, Rows
<1> HIDE DEF row
<1>2. TableKept([d EXCEPT ![r] = row])
  BY <1>1, RowFine
<1>3. QED
  BY <1>2 DEF row

LEMMA SweepQueuedKept ==
    ASSUME NEW w, Fine(w), NEW c, NEW todo, SweepQueued(c, w, todo)
    PROVE  TableKept(db')
<1>1. PICK r \in todo :
        db' = Await([w EXCEPT !.mem.cancelled = @ \cup {r},
                              !.mem.pauseRequested = @ \ {r},
                              !.mem.specs = @ \ {r},
                              !.db[r].status = "cancelled",
                              !.db[r].pauseReq = 0], c).db
  BY DEF SweepQueued, Become
<1>2. db' = [w.db EXCEPT ![r] = [w.db[r] EXCEPT !.status = "cancelled", !.pauseReq = 0]]
  BY <1>1 DEF Await, Fine
<1>3. QED
  BY <1>2, CancelledFine DEF Fine

LEMMA SweepExecutionsKept ==
    ASSUME NEW w, Fine(w), NEW c, NEW todo, SweepExecutions(c, w, todo)
    PROVE  TableKept(db')
<1>1. ASSUME NEW r \in todo,
             db' = Await(Write([w EXCEPT !.mem.cancelled = @ \cup {r}], r,
                               Statuses \ {"done", "failed"},
                               [w.db[r] EXCEPT !.status = "cancelled", !.pauseReq = 0]), c).db
      PROVE  TableKept(db')
  <2> DEFINE v == [w EXCEPT !.mem.cancelled = @ \cup {r}]
             row == [w.db[r] EXCEPT !.status = "cancelled", !.pauseReq = 0]
  <2>1. Fine(v) /\ v.db = w.db
    BY DEF Fine
  <2>2. r \in Runs => row \in Rows /\ row.status \in Terminal
    BY DEF Fine, TableKept, Rows, Statuses, Terminal
  <2>3. Fine(Write(v, r, Statuses \ {"done", "failed"}, row))
    <3> HIDE DEF v, row
    <3> QED BY <2>1, <2>2, WriteFine
  <2>4. QED
    BY <1>1, <2>3, AwaitFine DEF Fine
<1>2. CASE db' = WakeEverything(w).db
  BY <1>2 DEF WakeEverything, Fine
<1>3. QED
  BY <1>1, <1>2 DEF SweepExecutions, Become

\* The first step of a call.
LEMMA InvokeKept ==
    ASSUME RowsTyped, NEW c \in Calls, Invoke(c)
    PROVE  TableKept(db')
<1>1. ASSUME NEW r \in Runs, InsertRun(c, r)
      PROVE  TableKept(db')
  <2> DEFINE row == [db[r] EXCEPT !.status = "queued"]
  <2>1. db' = [db EXCEPT ![r] = row]
    BY <1>1 DEF InsertRun, Become, Await, World
  <2>2. row \in Rows /\ db[r].status \notin Terminal
    BY <1>1 DEF InsertRun, RowsTyped, Rows, Statuses, Terminal
  <2>3. TableKept(db)
    BY DEF RowsTyped, TableKept
  <2>4. TableKept([db EXCEPT ![r] = row])
    <3> HIDE DEF row
    <3> QED BY <2>2, <2>3, RowFine
  <2>5. QED
    BY <2>1, <2>4
<1>2. ASSUME NEW op \in Ops, NEW r \in Runs, ReadRun(c, op, r)
      PROVE  TableKept(db')
  BY <1>2, WorldFine, AwaitFine DEF ReadRun, Become, Fine
<1>3. CASE CloseBegins(c)
  <2> DEFINE w == [World EXCEPT !.mem.closed = TRUE, !.mem.queued = <<>>]
  <2>1. Fine(w)
    BY WorldFine DEF Fine
  <2>2. QED
    BY <1>3, <2>1, SweepQueuedKept, SweepExecutionsKept DEF CloseBegins
<1>4. CASE CloseAgain(c)
  BY <1>4 DEF CloseAgain, RowsTyped, TableKept
<1>5. QED
  BY <1>1, <1>2, <1>3, <1>4 DEF Invoke

\* The other steps of a call.
LEMMA ContinueKept ==
    ASSUME RowsTyped, NEW c \in Calls, Continue(c)
    PROVE  TableKept(db')
<1>0. TableKept(db) /\ Fine(AfterWrite) /\ AfterWrite.db = db
  BY WorldFine DEF RowsTyped, TableKept
<1>1. CASE EnqueueRun(c)
  <2>1. PICK r \in call[c].runs :
          db' = Pump([AfterWrite EXCEPT !.mem.specs = @ \cup {r}, !.mem.queued = Append(@, r)]).db
    BY <1>1 DEF EnqueueRun, Become
  <2>2. Fine([AfterWrite EXCEPT !.mem.specs = @ \cup {r}, !.mem.queued = Append(@, r)])
    BY <1>0 DEF Fine
  <2>3. QED
    BY <2>1, <2>2, PumpFine DEF Fine
<1>2. CASE RequestPause(c)
  <2>1. PICK r \in call[c].runs :
          \/ db' = AfterWrite.db
          \/ db' = Await([AfterWrite EXCEPT !.mem.pauseRequested = @ \cup {r},
                                            !.db[r].pauseReq = 1], c).db
    BY <1>2 DEF RequestPause, Become
  <2>2. Await([AfterWrite EXCEPT !.mem.pauseRequested = @ \cup {r}, !.db[r].pauseReq = 1], c).db
          = [db EXCEPT ![r] = [db[r] EXCEPT !.pauseReq = 1]]
    BY DEF Await, AfterWrite, World
  <2>3. TableKept([db EXCEPT ![r] = [db[r] EXCEPT !.pauseReq = 1]])
    BY <1>0, FlagFine
  <2>4. QED
    BY <1>0, <2>1, <2>2, <2>3
<1>3. CASE ParkQueuedRun(c)
  <2>1. PICK r \in call[c].runs :
          \/ db' = AfterWrite.db
          \/ db' = Await(SetStatus(AfterWrite, r, {"queued"}, "paused"), c).db
    BY <1>3 DEF ParkQueuedRun, Become
  <2>2. Fine(SetStatus(AfterWrite, r, {"queued"}, "paused"))
    BY <1>0, SetStatusFine DEF Statuses, Terminal
  <2>3. QED
    BY <1>0, <2>1, <2>2, AwaitFine DEF Fine
<1>4. CASE PauseReturns(c)
  BY <1>0, <1>4 DEF PauseReturns, Become
<1>5. CASE ClearPause(c)
  <2>1. PICK r \in call[c].runs :
          db' = Await([AfterWrite EXCEPT !.mem.pauseRequested = @ \ {r},
                                         !.db[r].pauseReq = 0], c).db
    BY <1>5 DEF ClearPause, Become
  <2>2. db' = [db EXCEPT ![r] = [db[r] EXCEPT !.pauseReq = 0]]
    BY <2>1 DEF Await, AfterWrite, World
  <2>3. QED
    BY <1>0, <2>2, FlagFine
<1>6. CASE WakeOrRequeue(c)
  <2> DEFINE w(r) == [AfterWrite EXCEPT !.mem.specs = @ \cup {r},
                                        !.mem.queued = IF Contains(@, r) THEN @ ELSE Append(@, r)]
  <2>1. PICK r \in call[c].runs :
          \/ db' = WakeWaiter(AfterWrite, r).db
          \/ db' = Await(SetStatus(w(r), r, {"paused"}, "queued"), c).db
          \/ db' = AfterWrite.db
    BY <1>6 DEF WakeOrRequeue, Become
  <2>2. Fine(w(r))
    BY <1>0 DEF Fine
  <2>3. Fine(Await(SetStatus(w(r), r, {"paused"}, "queued"), c))
    <3> HIDE DEF w
    <3> QED BY <2>2, SetStatusFine, AwaitFine DEF Statuses, Terminal
  <2>4. QED
    BY <1>0, <2>1, <2>3, WakeWaiterFine DEF Fine
<1>7. CASE PumpAfterResume(c)
  BY <1>0, <1>7, PumpFine DEF PumpAfterResume, Become, Fine
<1>8. CASE MarkCancelled(c)
  <2>1. PICK r \in call[c].runs :
          \/ db' = AfterWrite.db
          \/ db' = Await([AfterWrite EXCEPT !.mem.cancelled = @ \cup {r},
                                            !.db[r].status = "cancelled",
                                            !.db[r].pauseReq = 0], c).db
    BY <1>8 DEF MarkCancelled, Become
  <2>2. Await([AfterWrite EXCEPT !.mem.cancelled = @ \cup {r},
                                 !.db[r].status = "cancelled",
                                 !.db[r].pauseReq = 0], c).db
          = [db EXCEPT ![r] = [db[r] EXCEPT !.status = "cancelled", !.pauseReq = 0]]
    BY DEF Await, AfterWrite, World
  <2>3. TableKept([db EXCEPT ![r] = [db[r] EXCEPT !.status = "cancelled", !.pauseReq = 0]])
    BY <1>0, CancelledFine
  <2>4. QED
    BY <1>0, <2>1, <2>2, <2>3
<1>9. CASE DropCancelled(c)
  <2>1. PICK r \in call[c].runs :
          db' = WakeWaiter([AfterWrite EXCEPT !.mem.queued = RemoveFirst(@, r)], r).db
    BY <1>9 DEF DropCancelled, Become
  <2>2. Fine([AfterWrite EXCEPT !.mem.queued = RemoveFirst(@, r)])
    BY <1>0 DEF Fine
  <2>3. QED
    BY <2>1, <2>2, WakeWaiterFine DEF Fine
<1>10. CASE CloseContinues(c)
  BY <1>0, <1>10, SweepQueuedKept, SweepExecutionsKept DEF CloseContinues
<1>11. CASE CloseReturns(c)
  BY <1>0, <1>11 DEF CloseReturns
<1>12. QED
  BY <1>1, <1>2, <1>3, <1>4, <1>5, <1>6, <1>7, <1>8, <1>9, <1>10, <1>11 DEF Continue

\* A restart keeps the table; recovery writes 'paused' over 'running' only.
LEMMA RecoveryKeeps ==
    ASSUME RowsTyped, RecoverStaleRuns
    PROVE  TableKept(db')
<1> DEFINE rows == [r \in Runs |-> IF db[r].status = "running"
                                   THEN [db[r] EXCEPT !.status = "paused"] ELSE db[r]]
           stale == {r \in Runs : rows[r].status = "queued"}
           w(order) == [World EXCEPT !.db = rows,
                                     !.mem.recovered = TRUE,
                                     !.mem.specs = @ \cup stale,
                                     !.mem.queued = @ \o order]
<1>1. TableKept(rows)
  BY DEF RowsTyped, TableKept, Rows, Statuses, Terminal
<1>2. PICK order : db' = Pump(w(order)).db
  BY DEF RecoverStaleRuns, Become
<1>3. Fine(w(order))
  BY <1>1 DEF Fine, World
<1>4. QED
  <2> HIDE DEF w
  <2> QED BY <1>2, <1>3, PumpFine DEF Fine

-----------------------------------------------------------------------------
\* Every step keeps terminal rows terminal, and the rows typed.
LEMMA StepKept == RowsTyped /\ [Next]_vars => TableKept(db')
<1> SUFFICES ASSUME RowsTyped, [Next]_vars PROVE TableKept(db')
  OBVIOUS
<1>1. CASE UNCHANGED vars
  BY <1>1 DEF vars, RowsTyped, TableKept
<1>2. CASE Crash
  BY <1>2 DEF Crash, RowsTyped, TableKept
<1>3. QED
  BY <1>1, <1>2, ExecuteKept, InvokeKept, ContinueKept, RecoveryKeeps DEF Next

\* The rows of the runs table stay well typed (every statement of the scheduler
\* that writes one).
THEOREM RowsStayTyped == Spec => []RowsTyped
<1>1. Init => RowsTyped
  BY DEF Init, RowsTyped, Rows, Statuses
<1>2. RowsTyped /\ [Next]_vars => RowsTyped'
  BY StepKept DEF TableKept, RowsTyped
<1>3. QED
  BY <1>1, <1>2, PTL DEF Spec

\* No call, race, pump, restart or recovery takes a run out of done, failed or
\* cancelled (markRunning's and pauseAndWait's guarded updates, cancel, close).
THEOREM TerminalStaysTerminal == Spec => TerminalIsFinal
<1>1. RowsTyped /\ [Next]_vars =>
        [\A r \in Runs : db[r].status \in Terminal => db'[r].status \in Terminal]_vars
  BY StepKept DEF TableKept
<1>2. QED
  BY <1>1, RowsStayTyped, PTL DEF Spec, TerminalIsFinal

-----------------------------------------------------------------------------
(* Yielded executions and their waiters.                                   *)

ExecutionTables == [Execs -> [pc : ExecStates, released : BOOLEAN, turns : Nat]]
Waiters == [Runs -> Execs \cup {NoExec}]

\* YieldedCanBeWoken of executions e and waiters v, with the types it needs.
Reachable(e, v) ==
    /\ e \in ExecutionTables
    /\ v \in Waiters
    /\ \A x \in Execs : e[x].pc \in {"yielding", "parked"} => e[x].released \/ v[RunOf(x)] = x

\* A world, finished or half way through a step, in which that holds.
Sound(w) ==
    /\ "exec" \in DOMAIN w /\ "mem" \in DOMAIN w
    /\ "resumeWaiters" \in DOMAIN w.mem
    /\ Reachable(w.exec, w.mem.resumeWaiters)

WaitersInv == "resumeWaiters" \in DOMAIN mem /\ Reachable(exec, mem.resumeWaiters)

LEMMA WorldSound ==
    ASSUME WaitersInv
    PROVE  Sound(World) /\ Sound(AfterWrite)
  BY DEF WaitersInv, Sound, World, AfterWrite

LEMMA AwaitSound ==
    ASSUME NEW w, Sound(w), NEW a
    PROVE  Sound(Await(w, a))
  BY DEF Sound, Await

\* An execution goes on to something other than waiting.
LEMMA GoToReachable ==
    ASSUME NEW e, NEW v, Reachable(e, v), NEW x, NEW pc \in ExecStates \ {"yielding", "parked"}
    PROVE  Reachable([e EXCEPT ![x] = [e[x] EXCEPT !.pc = pc]], v)
  BY DEF Reachable, ExecutionTables

LEMMA GoToSound ==
    ASSUME NEW w, Sound(w), NEW x, NEW pc \in ExecStates \ {"yielding", "parked"}
    PROVE  Sound(GoTo(w, x, pc))
  BY GoToReachable DEF Sound, GoTo

LEMMA ReleaseSound ==
    ASSUME NEW w, Sound(w)
    PROVE  Sound(Release(w))
<1>1. Sound(GoTo(w, Head(w.mem.semWaiters), "granted"))
  BY GoToSound DEF ExecStates
<1>2. QED
  BY <1>1 DEF Sound, Release

LEMMA WakeReachable ==
    ASSUME NEW e, NEW v, Reachable(e, v), NEW r \in Runs, v[r] # NoExec
    PROVE  Reachable([e EXCEPT ![v[r]] = [e[v[r]] EXCEPT !.released = TRUE]], [v EXCEPT ![r] = NoExec])
<1> DEFINE y == v[r]
           f == [e EXCEPT ![y] = [e[y] EXCEPT !.released = TRUE]]
           u == [v EXCEPT ![r] = NoExec]
<1>1. y \in Execs /\ e \in ExecutionTables /\ v \in Waiters
  BY DEF Reachable, Waiters
<1>2. f \in ExecutionTables /\ u \in Waiters
  BY <1>1 DEF ExecutionTables, Waiters
<1>3. ASSUME NEW x \in Execs, f[x].pc \in {"yielding", "parked"}
      PROVE  f[x].released \/ u[RunOf(x)] = x
  <2>1. CASE x = y
    <3>1. f[x].released = TRUE
      BY <1>1, <2>1 DEF ExecutionTables
    <3>2. QED
      BY <3>1
  <2>2. CASE x # y
    <3>1. f[x] = e[x] /\ RunOf(x) \in Runs
      BY <1>1, <2>2 DEF ExecutionTables, Execs, RunOf
    <3>2. e[x].released \/ v[RunOf(x)] = x
      BY <1>3, <3>1 DEF Reachable
    <3>3. v[RunOf(x)] = x => u[RunOf(x)] = x
      BY <1>1, <2>2, <3>1 DEF Waiters
    <3>4. QED
      BY <3>1, <3>2, <3>3
  <2>3. QED
    BY <2>1, <2>2
<1>4. QED
  BY <1>2, <1>3 DEF Reachable

LEMMA WakeWaiterSound ==
    ASSUME NEW w, Sound(w), NEW r \in Runs
    PROVE  Sound(WakeWaiter(w, r))
  BY WakeReachable DEF Sound, WakeWaiter

LEMMA PumpSound ==
    ASSUME NEW w, Sound(w)
    PROVE  Sound(Pump(w))
  BY DEF Sound, Pump, Reachable, ExecutionTables, ExecStates

LEMMA WriteSound ==
    ASSUME NEW w, Sound(w), NEW r, NEW from, NEW row
    PROVE  Sound(Write(w, r, from, row))
  BY DEF Sound, Write

LEMMA MarkRunningSound ==
    ASSUME NEW w, Sound(w), NEW r
    PROVE  Sound(MarkRunning(w, r))
  BY WriteSound DEF MarkRunning, SetStatus

LEMMA AbortSound ==
    ASSUME NEW w, Sound(w), NEW x
    PROVE  Sound(Abort(w, x))
<1> DEFINE v == [w EXCEPT !.db[RunOf(x)].finishedAt = "set"]
<1>1. Sound(v)
  BY DEF Sound
<1>2. Sound(Await(GoTo(v, x, "aborting"), x))
  <2> HIDE DEF v
  <2> QED BY <1>1, GoToSound, AwaitSound DEF ExecStates
<1>3. QED
  BY <1>2 DEF Abort

LEMMA BecomeSound ==
    ASSUME NEW w, Sound(w), Become(w)
    PROVE  WaitersInv'
  BY DEF Sound, Become, WaitersInv

LEMMA ArrivedSound ==
    ASSUME WaitersInv, NEW x
    PROVE  Sound(Arrived(x))
  BY WorldSound DEF Arrived

\* The execution registers its waiter; the one it displaces was woken.
LEMMA YieldReachable ==
    ASSUME NEW e, NEW v, Reachable(e, v), NEW x \in Execs, v[RunOf(x)] = NoExec
    PROVE  Reachable([e EXCEPT ![x] = [e[x] EXCEPT !.released = FALSE, !.pc = "yielding"]],
                     [v EXCEPT ![RunOf(x)] = x])
<1> DEFINE f == [e EXCEPT ![x] = [e[x] EXCEPT !.released = FALSE, !.pc = "yielding"]]
           u == [v EXCEPT ![RunOf(x)] = x]
<1>1. e \in ExecutionTables /\ v \in Waiters /\ RunOf(x) \in Runs
  BY DEF Reachable, Execs, RunOf
<1>2. f \in ExecutionTables /\ u \in Waiters
  BY <1>1 DEF ExecutionTables, Waiters, ExecStates
<1>3. ASSUME NEW y \in Execs, f[y].pc \in {"yielding", "parked"}
      PROVE  f[y].released \/ u[RunOf(y)] = y
  <2>1. CASE y = x
    BY <1>1, <2>1 DEF Waiters
  <2>2. CASE y # x
    <3>1. f[y] = e[y] /\ RunOf(y) \in Runs
      BY <1>1, <2>2 DEF ExecutionTables, Execs, RunOf
    <3>2. e[y].released \/ v[RunOf(y)] = y
      BY <1>3, <3>1 DEF Reachable
    <3>3. v[RunOf(y)] = y => u[RunOf(y)] = y
      BY <1>1, <3>1, NoExecAssumption DEF Waiters, Execs
    <3>4. QED
      BY <3>1, <3>2, <3>3
  <2>3. QED
    BY <2>1, <2>2
<1>4. QED
  BY <1>2, <1>3 DEF Reachable

\* The steps of an execution.
LEMMA ExecuteSound ==
    ASSUME WaitersInv, NEW x \in Execs, Execute(x)
    PROVE  WaitersInv'
<1> DEFINE r == RunOf(x)
<1>0. r \in Runs /\ Sound(World) /\ Sound(AfterWrite) /\ Sound(Arrived(x))
  BY WorldSound, ArrivedSound DEF Execs, RunOf
<1>1. CASE StopAtCheckpoint(x)
  <2>1. Sound(Abort(Arrived(x), x))
    BY <1>0, AbortSound
  <2>2. QED
    BY <1>1, <2>1, BecomeSound DEF StopAtCheckpoint
<1>2. CASE YieldAtCheckpoint(x)
  <2> DEFINE v == WakeWaiter(Arrived(x), r)
             w == [v EXCEPT !.mem.resumeWaiters[r] = x, !.exec[x].released = FALSE,
                            !.exec[x].pc = "yielding"]
  <2>1. Sound(v)
    BY <1>0, WakeWaiterSound
  <2>2. v.mem.resumeWaiters[r] = NoExec
    BY <1>0 DEF WakeWaiter, Sound, Reachable, Waiters
  <2>3. Sound(w)
    <3> HIDE DEF v
    <3>1. w.exec = [v.exec EXCEPT ![x] = [v.exec[x] EXCEPT !.released = FALSE, !.pc = "yielding"]]
      BY <2>1 DEF Sound, Reachable, ExecutionTables
    <3>2. w.mem.resumeWaiters = [v.mem.resumeWaiters EXCEPT ![r] = x]
      BY <2>1 DEF Sound
    <3>3. Reachable(v.exec, v.mem.resumeWaiters) /\ v.mem.resumeWaiters[RunOf(x)] = NoExec
      BY <2>1, <2>2 DEF Sound
    <3>4. Reachable([v.exec EXCEPT ![x] = [v.exec[x] EXCEPT !.released = FALSE, !.pc = "yielding"]],
                    [v.mem.resumeWaiters EXCEPT ![RunOf(x)] = x])
      BY <3>3, YieldReachable
    <3>5. "exec" \in DOMAIN w /\ "mem" \in DOMAIN w /\ "resumeWaiters" \in DOMAIN w.mem
      BY <2>1 DEF Sound
    <3> HIDE DEF w
    <3>6. QED
      BY <3>1, <3>2, <3>4, <3>5 DEF Sound
  <2>4. Sound(Await(SetStatus(w, r, {"running"}, "paused"), x))
    <3> HIDE DEF w
    <3> QED BY <2>3, WriteSound, AwaitSound DEF SetStatus
  <2>5. Become(Await(SetStatus(w, r, {"running"}, "paused"), x))
    BY <1>2 DEF YieldAtCheckpoint
  <2>6. QED
    <3> HIDE DEF w
    <3> QED BY <2>4, <2>5, BecomeSound
<1>3. CASE PassCheckpoint(x)
  <2> DEFINE turn == IF exec[x].pc = "working" THEN 1 ELSE 0
             v == GoTo(Arrived(x), x, "working")
             w == [v EXCEPT !.exec[x].turns = @ + turn]
  <2>1. Sound(v)
    BY <1>0, GoToSound DEF ExecStates
  <2>2. Sound(w)
    <3> HIDE DEF v
    <3> QED BY <2>1 DEF Sound, Reachable, ExecutionTables
  <2>3. QED
    BY <1>3, <2>2, BecomeSound DEF PassCheckpoint
<1>4. CASE GiveUpSlot(x)
  <2> DEFINE w == [GoTo(AfterWrite, x, "parked") EXCEPT !.mem.slotOwners = @ \ {r}]
  <2>1. exec[x].pc = "yielding"
    BY <1>4 DEF GiveUpSlot
  <2>2. Reachable([exec EXCEPT ![x] = [exec[x] EXCEPT !.pc = "parked"]], mem.resumeWaiters)
    BY <2>1 DEF WaitersInv, Reachable, ExecutionTables, ExecStates
  <2>3. Sound(w)
    BY <1>0, <2>2 DEF Sound, GoTo, AfterWrite, World
  <2>4. Sound(Pump(Release(w)))
    <3> HIDE DEF w
    <3> QED BY <2>3, ReleaseSound, PumpSound
  <2>5. QED
    BY <1>4, <2>4, BecomeSound DEF GiveUpSlot
<1>5. CASE ReacquireSlot(x)
  <2>1. /\ Sound(Abort(World, x))
        /\ Sound(GoTo(World, x, "granted"))
        /\ Sound(GoTo(World, x, "acquiring"))
    BY <1>0, AbortSound, GoToSound DEF ExecStates
  <2>2. /\ Sound([GoTo(World, x, "granted") EXCEPT !.mem.slots = @ - 1])
        /\ Sound([GoTo(World, x, "acquiring") EXCEPT !.mem.semWaiters = Append(@, x)])
    BY <2>1 DEF Sound
  <2>3. QED
    BY <1>5, <2>1, <2>2, BecomeSound DEF ReacquireSlot
<1>6. CASE ResumeWithSlot(x)
  <2> DEFINE w == [GoTo(World, x, "resuming") EXCEPT !.mem.slotOwners = @ \cup {r}]
  <2>1. Sound(Abort(Release(World), x))
    BY <1>0, ReleaseSound, AbortSound
  <2>2. Sound(GoTo(World, x, "resuming"))
    BY <1>0, GoToSound DEF ExecStates
  <2>3. Sound(w)
    BY <2>2 DEF Sound
  <2>4. Sound(Await(MarkRunning(w, r), x))
    BY <2>3, MarkRunningSound, AwaitSound
  <2>5. QED
    BY <1>6, <2>1, <2>4, BecomeSound DEF ResumeWithSlot
<1>7. CASE StopWithoutSlot(x)
  BY <1>0, <1>7, AbortSound, BecomeSound DEF StopWithoutSlot
<1>8. CASE LeavePause(x)
  <2>1. Sound(Abort(AfterWrite, x)) /\ Sound(GoTo(AfterWrite, x, "working"))
    BY <1>0, AbortSound, GoToSound DEF ExecStates
  <2>2. QED
    BY <1>8, <2>1, BecomeSound DEF LeavePause
<1>9. ASSUME NEW outcome, Settle(x, outcome)
      PROVE  WaitersInv'
  <2> DEFINE w == [GoTo(World, x, "settling") EXCEPT !.mem.pauseRequested = @ \ {r}]
             row == [db[r] EXCEPT !.status = outcome, !.pauseReq = 0, !.finishedAt = "set"]
  <2>1. Sound(Abort(World, x)) /\ Sound(GoTo(World, x, "settling"))
    BY <1>0, AbortSound, GoToSound DEF ExecStates
  <2>2. Sound(w)
    BY <2>1 DEF Sound
  <2>3. Sound(Await(Write(w, r, Statuses \ {"cancelled"}, row), x))
    <3> HIDE DEF w, row
    <3> QED BY <2>2, WriteSound, AwaitSound
  <2>4. QED
    BY <1>9, <2>1, <2>3, BecomeSound DEF Settle
<1>10. CASE WriteCompletionAudit(x)
  <2> DEFINE w == [GoTo(AfterWrite, x, "auditing") EXCEPT !.db[r].audits = @ + 1]
  <2>1. Sound(GoTo(AfterWrite, x, "auditing"))
    BY <1>0, GoToSound DEF ExecStates
  <2>2. Sound(w)
    BY <2>1 DEF Sound
  <2>3. Sound(Await(w, x))
    <3> HIDE DEF w
    <3> QED BY <2>2, AwaitSound
  <2>4. QED
    BY <1>10, <2>3, BecomeSound DEF WriteCompletionAudit
<1>11. CASE Finalize(x)
  <2>1. Sound(GoTo(AfterWrite, x, "none"))
    BY <1>0, GoToSound DEF ExecStates
  <2>2. Sound(Forget(x))
    BY <2>1 DEF Sound, Forget
  <2>3. Sound(Pump(Release(Forget(x)))) /\ Sound(Pump(Forget(x)))
    BY <2>2, ReleaseSound, PumpSound
  <2>4. QED
    BY <1>11, <2>3, BecomeSound DEF Finalize
<1>12. QED
  BY <1>1, <1>2, <1>3, <1>4, <1>5, <1>6, <1>7, <1>8, <1>9, <1>10, <1>11 DEF Execute

LEMMA SweepQueuedSound ==
    ASSUME NEW w, Sound(w), NEW c, NEW todo, SweepQueued(c, w, todo)
    PROVE  WaitersInv'
<1>1. PICK r \in todo :
        Become(Await([w EXCEPT !.mem.cancelled = @ \cup {r},
                               !.mem.pauseRequested = @ \ {r},
                               !.mem.specs = @ \ {r},
                               !.db[r].status = "cancelled",
                               !.db[r].pauseReq = 0], c))
  BY DEF SweepQueued
<1> DEFINE v == [w EXCEPT !.mem.cancelled = @ \cup {r},
                          !.mem.pauseRequested = @ \ {r},
                          !.mem.specs = @ \ {r},
                          !.db[r].status = "cancelled",
                          !.db[r].pauseReq = 0]
<1>2. Sound(v)
  BY DEF Sound
<1>3. Become(Await(v, c))
  BY <1>1
<1>4. QED
  <2> HIDE DEF v
  <2> QED BY <1>2, <1>3, AwaitSound, BecomeSound

\* Every waiter is released, and every waiting acquire() denied.
LEMMA WakeEverythingSound ==
    ASSUME NEW w, Sound(w)
    PROVE  Sound(WakeEverything(w))
<1> DEFINE e == w.exec
           v == w.mem.resumeWaiters
           f == [x \in Execs |->
                   [e[x] EXCEPT !.released = @ \/ x \in {v[r] : r \in Runs},
                                !.pc = IF x \in ToSet(w.mem.semWaiters) THEN "denied" ELSE @]]
           u == [r \in Runs |-> NoExec]
<1>1. e \in ExecutionTables /\ v \in Waiters
  BY DEF Sound, Reachable
<1>2. f \in ExecutionTables
  BY <1>1 DEF ExecutionTables, ExecStates
<1>3. ASSUME NEW x \in Execs, f[x].pc \in {"yielding", "parked"}
      PROVE  f[x].released
  <2>1. e[x].pc \in {"yielding", "parked"} /\ RunOf(x) \in Runs
    BY <1>1, <1>3 DEF ExecutionTables, Execs, RunOf
  <2>2. e[x].released \/ v[RunOf(x)] = x
    BY <2>1 DEF Sound, Reachable
  <2>3. QED
    BY <1>1, <2>1, <2>2 DEF ExecutionTables
<1>4. Reachable(f, u)
  <2> HIDE DEF f
  <2> QED BY <1>2, <1>3 DEF Reachable, Waiters
<1>5. QED
  BY <1>4 DEF Sound, WakeEverything

LEMMA SweepExecutionsSound ==
    ASSUME NEW w, Sound(w), NEW c, NEW todo, SweepExecutions(c, w, todo)
    PROVE  WaitersInv'
<1>1. ASSUME NEW r \in todo,
             Become(Await(Write([w EXCEPT !.mem.cancelled = @ \cup {r}], r,
                                Statuses \ {"done", "failed"},
                                [w.db[r] EXCEPT !.status = "cancelled", !.pauseReq = 0]), c))
      PROVE  WaitersInv'
  <2> DEFINE v == [w EXCEPT !.mem.cancelled = @ \cup {r}]
             row == [w.db[r] EXCEPT !.status = "cancelled", !.pauseReq = 0]
  <2>1. Sound(v)
    BY DEF Sound
  <2>2. Sound(Await(Write(v, r, Statuses \ {"done", "failed"}, row), c))
    <3> HIDE DEF v, row
    <3> QED BY <2>1, WriteSound, AwaitSound
  <2>3. QED
    BY <1>1, <2>2, BecomeSound
<1>2. CASE Become(WakeEverything(w))
  BY <1>2, WakeEverythingSound, BecomeSound
<1>3. QED
  BY <1>1, <1>2 DEF SweepExecutions

\* The first step of a call.
LEMMA InvokeSound ==
    ASSUME WaitersInv, NEW c \in Calls, Invoke(c)
    PROVE  WaitersInv'
<1>0. Sound(World)
  BY WorldSound
<1>1. ASSUME NEW r \in Runs, InsertRun(c, r)
      PROVE  WaitersInv'
  <2> DEFINE w == [World EXCEPT !.db[r].status = "queued"]
  <2>1. Sound(w)
    BY <1>0 DEF Sound
  <2>2. Sound(Await(w, c))
    <3> HIDE DEF w
    <3> QED BY <2>1, AwaitSound
  <2>3. QED
    BY <1>1, <2>2, BecomeSound DEF InsertRun
<1>2. ASSUME NEW op \in Ops, NEW r \in Runs, ReadRun(c, op, r)
      PROVE  WaitersInv'
  BY <1>0, <1>2, AwaitSound, BecomeSound DEF ReadRun
<1>3. CASE CloseBegins(c)
  <2> DEFINE w == [World EXCEPT !.mem.closed = TRUE, !.mem.queued = <<>>]
  <2>1. Sound(w)
    BY <1>0 DEF Sound
  <2>2. QED
    BY <1>3, <2>1, SweepQueuedSound, SweepExecutionsSound DEF CloseBegins
<1>4. CASE CloseAgain(c)
  BY <1>4 DEF CloseAgain, WaitersInv
<1>5. QED
  BY <1>1, <1>2, <1>3, <1>4 DEF Invoke

\* A call other than close() is on runs of the table (close() keeps in runs
\* what it found in the queue).
OnRuns(k) == {"op", "runs"} \subseteq DOMAIN k /\ (k.op # "close" => k.runs \subseteq Runs)
CallsTyped == DOMAIN call = Calls /\ \A c \in Calls : OnRuns(call[c])

\* The other steps of a call.

LEMMA ContinueSound ==
    ASSUME WaitersInv, CallsTyped, NEW c \in Calls, Continue(c)
    PROVE  WaitersInv'
<1>0. Sound(AfterWrite) /\ (call[c].op # "close" => call[c].runs \subseteq Runs)
  BY WorldSound DEF CallsTyped, OnRuns
<1>1. CASE EnqueueRun(c)
  <2> DEFINE w(r) == [AfterWrite EXCEPT !.mem.specs = @ \cup {r}, !.mem.queued = Append(@, r)]
  <2>1. PICK r \in call[c].runs : Become(Pump(w(r)))
    BY <1>1 DEF EnqueueRun
  <2>2. Sound(w(r))
    BY <1>0 DEF Sound
  <2>3. QED
    <3> HIDE DEF w
    <3> QED BY <2>1, <2>2, PumpSound, BecomeSound
<1>2. CASE RequestPause(c)
  <2> DEFINE w(r) == [AfterWrite EXCEPT !.mem.pauseRequested = @ \cup {r}, !.db[r].pauseReq = 1]
  <2>1. PICK r \in call[c].runs : Become(AfterWrite) \/ Become(Await(w(r), c))
    BY <1>2 DEF RequestPause
  <2>2. Sound(w(r))
    BY <1>0 DEF Sound
  <2>3. QED
    <3> HIDE DEF w
    <3> QED BY <1>0, <2>1, <2>2, AwaitSound, BecomeSound
<1>3. CASE ParkQueuedRun(c)
  <2>1. PICK r \in call[c].runs :
          Become(AfterWrite) \/ Become(Await(SetStatus(AfterWrite, r, {"queued"}, "paused"), c))
    BY <1>3 DEF ParkQueuedRun
  <2>2. Sound(SetStatus(AfterWrite, r, {"queued"}, "paused"))
    BY <1>0, WriteSound DEF SetStatus
  <2>3. QED
    BY <1>0, <2>1, <2>2, AwaitSound, BecomeSound
<1>4. CASE PauseReturns(c)
  BY <1>0, <1>4, BecomeSound DEF PauseReturns
<1>5. CASE ClearPause(c)
  <2> DEFINE w(r) == [AfterWrite EXCEPT !.mem.pauseRequested = @ \ {r}, !.db[r].pauseReq = 0]
  <2>1. PICK r \in call[c].runs : Become(Await(w(r), c))
    BY <1>5 DEF ClearPause
  <2>2. Sound(w(r))
    BY <1>0 DEF Sound
  <2>3. QED
    <3> HIDE DEF w
    <3> QED BY <2>1, <2>2, AwaitSound, BecomeSound
<1>6. CASE WakeOrRequeue(c)
  <2> DEFINE w(r) == [AfterWrite EXCEPT !.mem.specs = @ \cup {r},
                                        !.mem.queued = IF Contains(@, r) THEN @ ELSE Append(@, r)]
  <2>1. PICK r \in call[c].runs :
          \/ Become(WakeWaiter(AfterWrite, r))
          \/ Become(Await(SetStatus(w(r), r, {"paused"}, "queued"), c))
          \/ Become(AfterWrite)
    BY <1>6 DEF WakeOrRequeue
  <2>2. Sound(w(r))
    BY <1>0 DEF Sound
  <2>3. Sound(Await(SetStatus(w(r), r, {"paused"}, "queued"), c))
    <3> HIDE DEF w
    <3> QED BY <2>2, WriteSound, AwaitSound DEF SetStatus
  <2>4. Sound(WakeWaiter(AfterWrite, r))
    BY <1>0, <1>6, WakeWaiterSound DEF WakeOrRequeue, Continues, At
  <2>5. QED
    <3> HIDE DEF w
    <3> QED BY <1>0, <2>1, <2>3, <2>4, BecomeSound
<1>7. CASE PumpAfterResume(c)
  BY <1>0, <1>7, PumpSound, BecomeSound DEF PumpAfterResume
<1>8. CASE MarkCancelled(c)
  <2> DEFINE w(r) == [AfterWrite EXCEPT !.mem.cancelled = @ \cup {r},
                                        !.db[r].status = "cancelled",
                                        !.db[r].pauseReq = 0]
  <2>1. PICK r \in call[c].runs : Become(AfterWrite) \/ Become(Await(w(r), c))
    BY <1>8 DEF MarkCancelled
  <2>2. Sound(w(r))
    BY <1>0 DEF Sound
  <2>3. QED
    <3> HIDE DEF w
    <3> QED BY <1>0, <2>1, <2>2, AwaitSound, BecomeSound
<1>9. CASE DropCancelled(c)
  <2> DEFINE w(r) == [AfterWrite EXCEPT !.mem.queued = RemoveFirst(@, r)]
  <2>1. PICK r \in call[c].runs : Become(WakeWaiter(w(r), r))
    BY <1>9 DEF DropCancelled
  <2>2. Sound(w(r)) /\ r \in Runs
    BY <1>0, <1>9 DEF Sound, DropCancelled, Continues, At
  <2>3. QED
    <3> HIDE DEF w
    <3> QED BY <2>1, <2>2, WakeWaiterSound, BecomeSound
<1>10. CASE CloseContinues(c)
  BY <1>0, <1>10, SweepQueuedSound, SweepExecutionsSound DEF CloseContinues
<1>11. CASE CloseReturns(c)
  BY <1>11 DEF CloseReturns, WaitersInv
<1>12. QED
  BY <1>1, <1>2, <1>3, <1>4, <1>5, <1>6, <1>7, <1>8, <1>9, <1>10, <1>11 DEF Continue

LEMMA RecoverySound ==
    ASSUME WaitersInv, RecoverStaleRuns
    PROVE  WaitersInv'
<1> DEFINE rows == [r \in Runs |-> IF db[r].status = "running"
                                   THEN [db[r] EXCEPT !.status = "paused"] ELSE db[r]]
           stale == {r \in Runs : rows[r].status = "queued"}
           w(order) == [World EXCEPT !.db = rows,
                                     !.mem.recovered = TRUE,
                                     !.mem.specs = @ \cup stale,
                                     !.mem.queued = @ \o order]
<1>1. PICK order : Become(Pump(w(order)))
  BY DEF RecoverStaleRuns
<1>2. Sound(w(order))
  BY WorldSound DEF Sound
<1>3. QED
  <2> HIDE DEF w
  <2> QED BY <1>1, <1>2, PumpSound, BecomeSound

\* A new scheduler has no executions and no waiters.
LEMMA FreshSound ==
    ASSUME mem' = FreshMem, exec' = NoExecutions
    PROVE  WaitersInv'
  BY DEF FreshMem, NoExecutions, WaitersInv, Reachable, ExecutionTables, Waiters, ExecStates

\* Every step keeps the executions that wait within reach of a waker.
LEMMA StepSound == WaitersInv /\ CallsTyped /\ [Next]_vars => WaitersInv'
<1> SUFFICES ASSUME WaitersInv, CallsTyped, [Next]_vars PROVE WaitersInv'
  OBVIOUS
<1>1. CASE UNCHANGED vars
  BY <1>1 DEF vars, WaitersInv
<1>2. CASE Crash
  BY <1>2, FreshSound DEF Crash
<1>3. QED
  BY <1>1, <1>2, ExecuteSound, InvokeSound, ContinueSound, RecoverySound DEF Next

\* What a step can make of a call.
LEMMA CallTyped ==
    ASSUME CallsTyped, NEW c \in Calls, NEW k, OnRuns(k), call' = [call EXCEPT ![c] = k]
    PROVE  CallsTyped'
  BY DEF CallsTyped

LEMMA ReturnsTyped ==
    ASSUME CallsTyped, NEW c \in Calls, Returns(c)
    PROVE  CallsTyped'
<1>1. OnRuns(Over("returned"))
  BY DEF OnRuns, Over
<1>2. QED
  BY <1>1, CallTyped DEF Returns

LEMMA GoesTyped ==
    ASSUME CallsTyped, NEW c \in Calls, NEW pc, Goes(c, pc)
    PROVE  CallsTyped'
<1> DEFINE k == [call[c] EXCEPT !.pc = pc]
<1>1. OnRuns(call[c])
  BY DEF CallsTyped
<1>2. OnRuns(k)
  BY <1>1 DEF OnRuns
<1>3. call' = [call EXCEPT ![c] = k]
  BY DEF Goes
<1>4. QED
  <2> HIDE DEF k
  <2> QED BY <1>2, <1>3, CallTyped

LEMMA CloseTyped ==
    ASSUME CallsTyped, NEW c \in Calls, NEW runs, NEW pc, NEW awaits,
           call' = [call EXCEPT ![c] = [op |-> "close", runs |-> runs, pc |-> pc,
                                        saw |-> "absent", awaits |-> awaits]]
    PROVE  CallsTyped'
<1>1. OnRuns([op |-> "close", runs |-> runs, pc |-> pc, saw |-> "absent", awaits |-> awaits])
  BY DEF OnRuns
<1>2. QED
  BY <1>1, CallTyped

LEMMA SweepTyped ==
    ASSUME CallsTyped, NEW c \in Calls, NEW w, NEW todo,
           SweepQueued(c, w, todo) \/ SweepExecutions(c, w, todo)
    PROVE  CallsTyped'
<1>1. CASE SweepQueued(c, w, todo)
  BY <1>1, CloseTyped DEF SweepQueued
<1>2. CASE SweepExecutions(c, w, todo)
  BY <1>2, CloseTyped DEF SweepExecutions
<1>3. QED
  BY <1>1, <1>2

LEMMA InvokeTyped ==
    ASSUME CallsTyped, NEW c \in Calls, Invoke(c)
    PROVE  CallsTyped'
<1>1. ASSUME NEW r \in Runs, NEW op, NEW saw, NEW pc,
             call' = [call EXCEPT ![c] = [op |-> op, runs |-> {r}, pc |-> pc,
                                          saw |-> saw, awaits |-> {}]]
      PROVE  CallsTyped'
  <2>1. OnRuns([op |-> op, runs |-> {r}, pc |-> pc, saw |-> saw, awaits |-> {}])
    BY DEF OnRuns
  <2>2. QED
    BY <1>1, <2>1, CallTyped
<1>2. ASSUME NEW r \in Runs, InsertRun(c, r)
      PROVE  CallsTyped'
  BY <1>1, <1>2 DEF InsertRun
<1>3. ASSUME NEW op \in Ops, NEW r \in Runs, ReadRun(c, op, r)
      PROVE  CallsTyped'
  BY <1>1, <1>3 DEF ReadRun
<1>4. CASE CloseBegins(c)
  BY <1>4, SweepTyped DEF CloseBegins
<1>5. CASE CloseAgain(c)
  BY <1>5, CloseTyped DEF CloseAgain
<1>6. QED
  BY <1>2, <1>3, <1>4, <1>5 DEF Invoke

LEMMA ContinueTyped ==
    ASSUME CallsTyped, NEW c \in Calls, Continue(c)
    PROVE  CallsTyped'
<1>1. CASE CloseContinues(c)
  BY <1>1, SweepTyped DEF CloseContinues
<1>2. CASE EnqueueRun(c) \/ PauseReturns(c) \/ PumpAfterResume(c) \/ DropCancelled(c) \/ CloseReturns(c)
  BY <1>2, ReturnsTyped DEF EnqueueRun, PauseReturns, PumpAfterResume, DropCancelled, CloseReturns
<1>3. CASE RequestPause(c) \/ ParkQueuedRun(c) \/ ClearPause(c) \/ WakeOrRequeue(c) \/ MarkCancelled(c)
  <2>1. Returns(c) \/ \E pc \in CallStates : Goes(c, pc)
    BY <1>3 DEF RequestPause, ParkQueuedRun, ClearPause, WakeOrRequeue, MarkCancelled, CallStates
  <2>2. QED
    BY <2>1, ReturnsTyped, GoesTyped
<1>4. QED
  BY <1>1, <1>2, <1>3 DEF Continue

LEMMA StepTyped == CallsTyped /\ [Next]_vars => CallsTyped'
<1> SUFFICES ASSUME CallsTyped, [Next]_vars PROVE CallsTyped'
  OBVIOUS
<1>1. CASE UNCHANGED call
  BY <1>1 DEF CallsTyped
<1>2. CASE Crash
  BY <1>2 DEF Crash, CallsTyped, OnRuns, Over
<1>3. CASE RecoverStaleRuns
  BY <1>1, <1>3 DEF RecoverStaleRuns
<1>4. ASSUME NEW x \in Execs, Execute(x)
      PROVE  CallsTyped'
  BY <1>1, <1>4 DEF Execute, StopAtCheckpoint, YieldAtCheckpoint, PassCheckpoint, GiveUpSlot,
     ReacquireSlot, ResumeWithSlot, StopWithoutSlot, LeavePause, Settle, WriteCompletionAudit, Finalize
<1>5. QED
  BY <1>1, <1>2, <1>3, <1>4, InvokeTyped, ContinueTyped DEF Next, vars

\* "a resume racing the yield can never miss it" (pauseAndWait): whatever calls
\* overlap, an execution that yields or is parked is registered as the resume
\* waiter of its run, or was released already.
THEOREM YieldedStaysWakeable == Spec => []YieldedCanBeWoken
<1>1. Init => WaitersInv /\ CallsTyped
  <2>1. ASSUME Init
        PROVE  WaitersInv
    BY <2>1 DEF Init, FreshMem, NoExecutions, WaitersInv, Reachable, ExecutionTables, Waiters, ExecStates
  <2>2. ASSUME Init
        PROVE  CallsTyped
    BY <2>2 DEF Init, CallsTyped, OnRuns
  <2>3. QED
    BY <2>1, <2>2
<1>2. WaitersInv /\ CallsTyped /\ [Next]_vars => (WaitersInv /\ CallsTyped)'
  BY StepSound, StepTyped
<1>3. WaitersInv => YieldedCanBeWoken
  BY DEF WaitersInv, Reachable, YieldedCanBeWoken
<1>4. QED
  BY <1>1, <1>2, <1>3, PTL DEF Spec

-----------------------------------------------------------------------------
(* Careful clients.                                                        *)
(*                                                                         *)
(* The invariant is stated of a world, the value the scheduler's helpers   *)
(* pass on, and of the number n of slots it accounts for: half way through *)
(* a step one may be in nobody's hands.  What it says of a run depends on  *)
(* that run's part of the world only, so that most steps are about one.    *)

-----------------------------------------------------------------------------
(* Types.                                                                  *)

Mems == [queued : Seq(Runs), specs : SUBSET Runs,
         executions : [Runs -> Execs \cup {NoExec}], slotOwners : SUBSET Runs,
         pauseRequested : SUBSET Runs, cancelled : SUBSET Runs,
         resumeWaiters : [Runs -> Execs \cup {NoExec}], slots : Nat,
         semWaiters : Seq(Execs), writes : Seq(Execs \cup Calls),
         closed : BOOLEAN, recovered : BOOLEAN]
Executions == [pc : ExecStates, released : BOOLEAN, turns : 0..MaxTurns]
Worlds == [db : [Runs -> Rows], mem : Mems, exec : [Execs -> Executions]]
ClientCalls == [Calls -> [op : Ops \cup {"none"}, runs : SUBSET Runs, pc : CallStates,
                          saw : Statuses, awaits : SUBSET Execs]]

-----------------------------------------------------------------------------
(* What is known of one run r in a world w.                                *)

St(w, r) == w.db[r].status
Audits(w, r) == w.db[r].audits
Current(w, r) == w.mem.executions[r]
Pc(w, r) == IF Current(w, r) = NoExec THEN "none" ELSE w.exec[Current(w, r)].pc
Woken(w, r) == Current(w, r) # NoExec /\ w.exec[Current(w, r)].released
Waits(w, r) == w.mem.resumeWaiters[r] # NoExec
Queued(w) == ToSet(w.mem.queued)

\* Its execution is the one the scheduler has on its list, and waits only itself.
Linked(w, r) ==
    /\ \A x \in Execs : RunOf(x) = r => (w.exec[x].pc # "none" <=> Current(w, r) = x)
    /\ Current(w, r) # NoExec => RunOf(Current(w, r)) = r
    /\ Waits(w, r) => w.mem.resumeWaiters[r] = Current(w, r)

Holds == {"marking", "working", "yielding", "resuming", "settling"}

\* Slots: whoever works has one, and nobody who waits.
SlotFits(w, r) ==
    /\ Pc(w, r) \in Holds => r \in w.mem.slotOwners
    /\ r \in w.mem.slotOwners => Pc(w, r) \in Holds \cup {"aborting", "auditing"}
    /\ Waits(w, r) => Pc(w, r) \in {"yielding", "parked"} /\ ~Woken(w, r)
    /\ Pc(w, r) # "rejected"
    /\ Pc(w, r) = "denied" => w.mem.closed

\* Starts: a run that waits to start, in the queue or on its way there (in C),
\* has no execution, and does so once.
StartFits(w, C, r) ==
    /\ ~w.mem.closed =>
         /\ r \in Queued(w) \cup C => Pc(w, r) = "none" /\ St(w, r) # "absent"
         /\ r \in Queued(w) => r \in w.mem.specs /\ r \notin C
    /\ ~w.mem.recovered => Pc(w, r) = "none" /\ r \notin Queued(w) \cup C
    /\ St(w, r) = "absent" => Pc(w, r) = "none" /\ r \notin C

\* The row: what it says of a run has its reason.
RowFits(w, C, r) ==
    /\ r \in w.mem.cancelled => St(w, r) \in Terminal
    /\ ~w.mem.closed =>
         /\ Pc(w, r) \in {"settling", "aborting", "auditing"} => St(w, r) \in Terminal
         /\ w.mem.recovered /\ St(w, r) = "running" => Pc(w, r) # "none"
         /\ St(w, r) = "cancelled" /\ (Pc(w, r) # "none" \/ r \in Queued(w) \cup C)
              => r \in w.mem.cancelled

\* The audits, as long as the process has not died.
AuditFits(w, C, r) ==
    /\ St(w, r) = "absent" => Audits(w, r) = 0
    /\ ~w.mem.recovered => St(w, r) = "absent"
    /\ St(w, r) \in {"done", "failed"} =>
         /\ Pc(w, r) \in {"none", "settling", "auditing"}
         /\ Pc(w, r) = "none" => Audits(w, r) = 1
    /\ Pc(w, r) \notin {"none", "auditing"} => Audits(w, r) = 0
    /\ Pc(w, r) = "auditing" => Audits(w, r) = 1
    /\ r \in Queued(w) \cup C /\ ~w.mem.closed => Audits(w, r) = 0 /\ St(w, r) \notin {"done", "failed"}

RunFits(w, C, fresh, r) ==
    /\ Linked(w, r)
    /\ SlotFits(w, r)
    /\ StartFits(w, C, r)
    /\ RowFits(w, C, r)
    /\ fresh => AuditFits(w, C, r)

-----------------------------------------------------------------------------
(* The semaphore, and all runs.                                            *)

Granted(w) == {x \in Execs : w.exec[x].pc = "granted"}

\* The slots there are.
Slots(w) == w.mem.slots + Cardinality(w.mem.slotOwners) + Cardinality(Granted(w))

LineFits(w) ==
    /\ \A i \in DOMAIN w.mem.semWaiters : w.exec[w.mem.semWaiters[i]].pc = "acquiring"
    /\ \A i, j \in DOMAIN w.mem.semWaiters :
          w.mem.semWaiters[i] = w.mem.semWaiters[j] => i = j

Fits(w, C, fresh, n) ==
    /\ w \in Worlds
    /\ \A r \in Runs : RunFits(w, C, fresh, r)
    /\ LineFits(w)
    /\ Slots(w) = n

-----------------------------------------------------------------------------
(* The calls of careful clients.                                           *)

Open(k) == k.pc \notin {"unused", "returned", "lost"}
On(k, r) == Open(k) /\ r \in k.runs

\* The runs that createRun() has inserted and not put into the queue yet.
Created(k) == {r \in Runs : \E c \in Calls : k[c].op = "create" /\ On(k[c], r)}

CallFits(w, k, c) ==
    /\ k[c].op = "close" => /\ w.mem.closed
                            /\ k[c].runs # {} => w.mem.recovered
    /\ k[c].op # "close" => /\ w.mem.recovered
                            /\ \E r \in Runs : k[c].runs = {r} /\ St(w, r) # "absent"
    /\ k[c].op = "create" =>
         /\ k[c].pc = "inserted"
         /\ \A d \in Calls : k[d].op = "create" /\ Open(k[d]) /\ k[d].runs = k[c].runs => d = c
    /\ k[c].op = "resume" /\ ~w.mem.closed =>
         /\ k[c].pc \in {"read", "cleared"}
         /\ \A r \in k[c].runs : Waits(w, r) /\ \A d \in Calls : On(k[d], r) => d = c

CallsFit(w, k) ==
    /\ k \in ClientCalls
    /\ \A c \in Calls : Open(k[c]) => CallFits(w, k, c)

-----------------------------------------------------------------------------
\* The invariant, of careful clients.
IInv ==
    /\ Careful
    /\ crashes \in 0..MaxCrashes
    /\ Fits(World, Created(call), crashes = 0, MaxParallelRuns)
    /\ CallsFit(World, call)

-----------------------------------------------------------------------------
(* A step of one run.                                                      *)

\* The parts of two memories that are about other runs than r.
MemAlike(m, l, r) ==
    /\ l.closed = m.closed /\ l.recovered = m.recovered
    /\ \A q \in Runs \ {r} :
          /\ l.executions[q] = m.executions[q]
          /\ l.resumeWaiters[q] = m.resumeWaiters[q]
          /\ q \in l.specs <=> q \in m.specs
          /\ q \in l.slotOwners <=> q \in m.slotOwners
          /\ q \in l.cancelled <=> q \in m.cancelled
          /\ q \in ToSet(l.queued) <=> q \in ToSet(m.queued)

\* Worlds that differ in what is about r only.
Alike(w, v, r) ==
    /\ MemAlike(w.mem, v.mem, r)
    /\ \A q \in Runs \ {r} : v.db[q] = w.db[q]
    /\ \A x \in Execs : RunOf(x) # r => v.exec[x] = w.exec[x]

LEMMA ExecsAreOfRuns ==
    ASSUME NEW x \in Execs
    PROVE  RunOf(x) \in Runs /\ x # NoExec
BY NoExecAssumption DEF Execs, RunOf

\* Worlds that say the same about q.
AlikeAt(w, v, q) ==
    /\ v.mem.closed = w.mem.closed /\ v.mem.recovered = w.mem.recovered
    /\ v.mem.executions[q] = w.mem.executions[q]
    /\ v.mem.resumeWaiters[q] = w.mem.resumeWaiters[q]
    /\ q \in v.mem.specs <=> q \in w.mem.specs
    /\ q \in v.mem.slotOwners <=> q \in w.mem.slotOwners
    /\ q \in v.mem.cancelled <=> q \in w.mem.cancelled
    /\ q \in ToSet(v.mem.queued) <=> q \in ToSet(w.mem.queued)
    /\ v.db[q] = w.db[q]
    /\ \A x \in Execs : RunOf(x) = q => v.exec[x] = w.exec[x]

\* What fits a run fits it in every world that says the same about it.
LEMMA AlikeFits ==
    ASSUME NEW w \in Worlds, NEW v, NEW q \in Runs, AlikeAt(w, v, q),
           NEW C, NEW D, NEW fresh \in BOOLEAN, q \in D <=> q \in C, RunFits(w, C, fresh, q)
    PROVE  RunFits(v, D, fresh, q)
<1>1. /\ v.mem.closed = w.mem.closed /\ v.mem.recovered = w.mem.recovered
      /\ q \in v.mem.specs <=> q \in w.mem.specs
      /\ q \in v.mem.slotOwners <=> q \in w.mem.slotOwners
      /\ q \in v.mem.cancelled <=> q \in w.mem.cancelled
      /\ q \in Queued(v) <=> q \in Queued(w)
      /\ v.mem.resumeWaiters[q] = w.mem.resumeWaiters[q]
  BY DEF AlikeAt, Queued
<1>2. St(v, q) = St(w, q) /\ Audits(v, q) = Audits(w, q) /\ Current(v, q) = Current(w, q)
  BY DEF AlikeAt, St, Audits, Current
<1>3. Waits(v, q) <=> Waits(w, q)
  BY <1>1 DEF Waits
<1>4. Linked(w, q)
  BY DEF RunFits
<1>5. \A x \in Execs : RunOf(x) = q => v.exec[x] = w.exec[x]
  BY DEF AlikeAt
<1>6. Current(w, q) # NoExec => Current(w, q) \in Execs /\ RunOf(Current(w, q)) = q
  BY <1>4 DEF Linked, Current, Worlds, Mems
<1>7. Pc(v, q) = Pc(w, q) /\ (Woken(v, q) <=> Woken(w, q))
  BY <1>2, <1>5, <1>6 DEF Pc, Woken
<1>8. Linked(v, q)
  BY <1>1, <1>2, <1>3, <1>4, <1>5 DEF Linked
<1>9. SlotFits(v, q)
  BY <1>1, <1>3, <1>7 DEF RunFits, SlotFits
<1>10. StartFits(v, D, q)
  BY <1>1, <1>2, <1>7 DEF RunFits, StartFits
<1>11. RowFits(v, D, q)
  BY <1>1, <1>2, <1>7 DEF RunFits, RowFits
<1>12. fresh => AuditFits(v, D, q)
  BY <1>1, <1>2, <1>7 DEF RunFits, AuditFits
<1> QED
  BY <1>8, <1>9, <1>10, <1>11, <1>12 DEF RunFits

\* In particular elsewhere.
LEMMA ElsewhereFits ==
    ASSUME NEW w \in Worlds, NEW v \in Worlds, NEW r \in Runs, Alike(w, v, r),
           NEW C, NEW D, NEW fresh \in BOOLEAN, NEW q \in Runs \ {r},
           q \in D <=> q \in C, RunFits(w, C, fresh, q)
    PROVE  RunFits(v, D, fresh, q)
<1>1. AlikeAt(w, v, q)
  BY DEF Alike, MemAlike, AlikeAt
<1> QED
  BY <1>1, AlikeFits

\* So a step of one run has to account for that run, the line and the slots.
LEMMA OneRunFits ==
    ASSUME NEW w, NEW C, NEW fresh \in BOOLEAN, NEW n, Fits(w, C, fresh, n),
           NEW v \in Worlds, NEW r \in Runs, Alike(w, v, r),
           NEW D, \A q \in Runs \ {r} : q \in D <=> q \in C,
           RunFits(v, D, fresh, r), LineFits(v), NEW m, Slots(v) = m
    PROVE  Fits(v, D, fresh, m)
<1>1. w \in Worlds /\ \A q \in Runs : RunFits(w, C, fresh, q)
  BY DEF Fits
<1>2. ASSUME NEW q \in Runs
      PROVE  RunFits(v, D, fresh, q)
  BY <1>1, ElsewhereFits
<1> QED
  BY <1>2 DEF Fits

-----------------------------------------------------------------------------
(* A step of one execution: its row, its own state, the memory.            *)

Weight(e) == IF e.pc = "granted" THEN 1 ELSE 0

\* World v is w after execution x made row, e and l of its row, its state and
\* the memory.
Put(f, a, b) == [f EXCEPT ![a] = b]
Moved(w, v, x, row, e, l) ==
    /\ v.db = Put(w.db, RunOf(x), row)
    /\ v.exec = Put(w.exec, x, e)
    /\ v.mem = l

LEMMA ExecsFinite == IsFiniteSet(Execs)
<1>1. IsFiniteSet(1..MaxExecs)
  BY BoundsAssumption, FS_Interval
<1> QED
  BY <1>1, RunsAssumption, FS_Product DEF Execs

\* Moving one execution into or out of "granted" counts for one.
LEMMA GrantedMoves ==
    ASSUME NEW w \in Worlds, NEW v \in Worlds, NEW x \in Execs, NEW e \in Executions,
           v.exec = Put(w.exec, x, e)
    PROVE  /\ Cardinality(Granted(w)) \in Nat
           /\ Cardinality(Granted(v)) \in Nat
           /\ Cardinality(Granted(v)) + Weight(w.exec[x]) = Cardinality(Granted(w)) + Weight(e)
<1>1. w.exec \in [Execs -> Executions]
  BY DEF Worlds
<1>2. Granted(w) \subseteq Execs /\ Granted(v) \subseteq Execs
  BY DEF Granted
<1>3. IsFiniteSet(Granted(w)) /\ IsFiniteSet(Granted(v))
  BY <1>2, ExecsFinite, FS_Subset
<1>4. Cardinality(Granted(w)) \in Nat /\ Cardinality(Granted(v)) \in Nat
  BY <1>3, FS_CardinalityType
<1>5. v.exec[x] = e /\ \A y \in Execs : y # x => v.exec[y] = w.exec[y]
  BY <1>1 DEF Put
<1>6. CASE e.pc = "granted" /\ w.exec[x].pc # "granted"
  <2>1. Granted(v) = Granted(w) \cup {x} /\ x \notin Granted(w)
    BY <1>5, <1>6 DEF Granted
  <2>2. Cardinality(Granted(v)) = Cardinality(Granted(w)) + 1
    BY <2>1, <1>3, FS_AddElement
  <2> QED
    BY <2>2, <1>4, <1>6 DEF Weight
<1>7. CASE e.pc # "granted" /\ w.exec[x].pc = "granted"
  <2>1. Granted(v) = Granted(w) \ {x} /\ x \in Granted(w)
    BY <1>5, <1>7 DEF Granted
  <2>2. Cardinality(Granted(v)) = Cardinality(Granted(w)) - 1
    BY <2>1, <1>3, FS_RemoveElement
  <2> QED
    BY <2>2, <1>4, <1>7 DEF Weight
<1>8. CASE (e.pc = "granted") <=> (w.exec[x].pc = "granted")
  <2>1. Granted(v) = Granted(w)
    BY <1>5, <1>8 DEF Granted
  <2> QED
    BY <2>1, <1>4, <1>8 DEF Weight
<1> QED
  BY <1>6, <1>7, <1>8

\* So does giving a run a slot, or taking it.
LEMMA OwnersMove ==
    ASSUME NEW S \in SUBSET Runs, NEW r \in Runs
    PROVE  /\ Cardinality(S) \in Nat
           /\ r \in S => Cardinality(S \ {r}) = Cardinality(S) - 1 /\ Cardinality(S \cup {r}) = Cardinality(S)
           /\ r \notin S => Cardinality(S \cup {r}) = Cardinality(S) + 1 /\ Cardinality(S \ {r}) = Cardinality(S)
<1>1. IsFiniteSet(S)
  BY RunsAssumption, FS_Subset
<1>2. Cardinality(S) \in Nat
  BY <1>1, FS_CardinalityType
<1>3. CASE r \in S
  <2>1. Cardinality(S \ {r}) = Cardinality(S) - 1
    BY <1>1, <1>3, FS_RemoveElement
  <2>2. S \cup {r} = S
    BY <1>3
  <2> QED
    BY <1>2, <1>3, <2>1, <2>2
<1>4. CASE r \notin S
  <2>1. Cardinality(S \cup {r}) = Cardinality(S) + 1
    BY <1>1, <1>4, FS_AddElement
  <2>2. S \ {r} = S
    BY <1>4
  <2> QED
    BY <1>2, <1>4, <2>1, <2>2
<1> QED
  BY <1>3, <1>4

\* The execution that stands somewhere is the current one of its run.
LEMMA CurrentIs ==
    ASSUME NEW w, NEW C, NEW fresh, NEW n, Fits(w, C, fresh, n),
           NEW x \in Execs, w.exec[x].pc # "none"
    PROVE  /\ Current(w, RunOf(x)) = x
           /\ Pc(w, RunOf(x)) = w.exec[x].pc
           /\ Woken(w, RunOf(x)) <=> w.exec[x].released
           /\ Waits(w, RunOf(x)) => w.mem.resumeWaiters[RunOf(x)] = x
<1>1. RunFits(w, C, fresh, RunOf(x))
  BY ExecsAreOfRuns DEF Fits
<1>2. Current(w, RunOf(x)) = x
  BY <1>1 DEF RunFits, Linked
<1> QED
  BY <1>1, <1>2, ExecsAreOfRuns DEF Pc, Woken, RunFits, Linked

\* Those in line stay there.
LEMMA LineStays ==
    ASSUME NEW w \in Worlds, LineFits(w), NEW v, NEW x \in Execs, NEW e,
           w.exec[x].pc # "acquiring",
           v.exec = Put(w.exec, x, e), v.mem.semWaiters = w.mem.semWaiters
    PROVE  LineFits(v)
<1>1. /\ w.exec \in [Execs -> Executions]
      /\ \A i \in DOMAIN w.mem.semWaiters : w.mem.semWaiters[i] \in Execs
  BY DEF Worlds, Mems
<1> QED
  BY <1>1 DEF LineFits, Put

\* A step of an execution that goes on, whose run fits as it is now.
LEMMA MoveFits ==
    ASSUME NEW w, NEW C, NEW fresh \in BOOLEAN, NEW n \in Int, Fits(w, C, fresh, n),
           NEW x \in Execs, w.exec[x].pc # "none",
           NEW v \in Worlds, NEW row, NEW e \in Executions, NEW l, Moved(w, v, x, row, e, l),
           e.pc # "none", MemAlike(w.mem, l, RunOf(x)),
           l.executions = w.mem.executions, LineFits(v),
           l.resumeWaiters[RunOf(x)] \in {NoExec, x},
           SlotFits(v, RunOf(x)), StartFits(v, C, RunOf(x)), RowFits(v, C, RunOf(x)),
           fresh => AuditFits(v, C, RunOf(x)),
           NEW m, Slots(v) = m
    PROVE  Fits(v, C, fresh, m)
<1> DEFINE r == RunOf(x)
<1>1. r \in Runs /\ x # NoExec
  BY ExecsAreOfRuns
<1>2. w \in Worlds /\ RunFits(w, C, fresh, r) /\ LineFits(w)
  BY <1>1 DEF Fits
<1>3. Current(w, r) = x /\ Current(v, r) = x
  BY CurrentIs DEF Current, Moved
<1>4. w.exec \in [Execs -> Executions] /\ w.db \in [Runs -> Rows]
  BY <1>2 DEF Worlds
<1>5. Linked(v, r)
  BY <1>1, <1>2, <1>3, <1>4 DEF RunFits, Linked, Moved, Put, Waits
<1>6. RunFits(v, C, fresh, r)
  BY <1>5 DEF RunFits
<1>7. Alike(w, v, r)
  BY <1>4 DEF Alike, Moved, Put
<1> QED
  BY <1>1, <1>6, <1>7, OneRunFits

\* ... and the slots it leaves, when it took n of them into account.
LEMMA MoveSlots ==
    ASSUME NEW w \in Worlds, NEW v \in Worlds, NEW x \in Execs, NEW row, NEW e \in Executions,
           NEW l, Moved(w, v, x, row, e, l)
    PROVE  /\ Slots(w) \in Nat /\ Slots(v) \in Nat
           /\ Slots(v) - Slots(w) = (l.slots - w.mem.slots)
                  + (Cardinality(l.slotOwners) - Cardinality(w.mem.slotOwners))
                  + (Weight(e) - Weight(w.exec[x]))
<1>1. /\ Cardinality(Granted(w)) \in Nat
      /\ Cardinality(Granted(v)) \in Nat
      /\ Cardinality(Granted(v)) + Weight(w.exec[x]) = Cardinality(Granted(w)) + Weight(e)
  BY GrantedMoves DEF Moved
<1>2. Weight(e) \in Nat /\ Weight(w.exec[x]) \in Nat
  BY DEF Weight
<1>3. w.mem.slotOwners \in SUBSET Runs /\ v.mem.slotOwners \in SUBSET Runs
  BY DEF Worlds, Mems
<1>4. Cardinality(w.mem.slotOwners) \in Nat /\ Cardinality(v.mem.slotOwners) \in Nat
  <2>1. IsFiniteSet(w.mem.slotOwners) /\ IsFiniteSet(v.mem.slotOwners)
    BY <1>3, RunsAssumption, FS_Subset
  <2> QED
    BY <2>1, FS_CardinalityType
<1>5. w.mem.slots \in Nat /\ v.mem.slots \in Nat /\ v.mem = l
  BY DEF Worlds, Mems, Moved
<1>6. Slots(w) = w.mem.slots + Cardinality(w.mem.slotOwners) + Cardinality(Granted(w))
  BY DEF Slots
<1>7. Slots(v) = l.slots + Cardinality(l.slotOwners) + Cardinality(Granted(v))
  BY <1>5 DEF Slots
<1> QED
  BY <1>1, <1>2, <1>4, <1>5, <1>6, <1>7

\* What is known of a run after its execution moved.
LEMMA MovedViews ==
    ASSUME NEW w \in Worlds, NEW v, NEW x \in Execs, NEW row, NEW e, NEW l,
           Moved(w, v, x, row, e, l), Current(w, RunOf(x)) = x, l.executions = w.mem.executions
    PROVE  /\ v.mem = l
           /\ St(v, RunOf(x)) = row.status /\ Audits(v, RunOf(x)) = row.audits
           /\ Pc(v, RunOf(x)) = e.pc
           /\ Woken(v, RunOf(x)) <=> e.released
           /\ Waits(v, RunOf(x)) <=> l.resumeWaiters[RunOf(x)] # NoExec
           /\ Queued(v) = ToSet(l.queued)
<1>1. w.exec \in [Execs -> Executions] /\ w.db \in [Runs -> Rows] /\ RunOf(x) \in Runs /\ x # NoExec
  BY ExecsAreOfRuns DEF Worlds
<1> QED
  BY <1>1 DEF Moved, Put, St, Audits, Pc, Woken, Waits, Queued, Current

\* Writes that wait, requests to pause and free slots are about no run.
LEMMA SameRuns ==
    ASSUME NEW m \in Mems, NEW l \in Mems, NEW r,
           l.closed = m.closed, l.recovered = m.recovered, l.executions = m.executions,
           l.resumeWaiters = m.resumeWaiters, l.specs = m.specs, l.slotOwners = m.slotOwners,
           l.cancelled = m.cancelled, l.queued = m.queued
    PROVE  MemAlike(m, l, r)
BY DEF MemAlike

-----------------------------------------------------------------------------
(* The steps of an execution.                                              *)

\* Awaiting a write, and its end.
Queue(m, s) == [m EXCEPT !.writes = s]

LEMMA QueueIs ==
    ASSUME NEW m \in Mems, NEW s \in Seq(Execs \cup Calls)
    PROVE  /\ Queue(m, s) \in Mems
           /\ Queue(m, s).slots = m.slots /\ Queue(m, s).slotOwners = m.slotOwners
           /\ Queue(m, s).executions = m.executions /\ Queue(m, s).resumeWaiters = m.resumeWaiters
           /\ Queue(m, s).semWaiters = m.semWaiters /\ Queue(m, s).cancelled = m.cancelled
           /\ Queue(m, s).closed = m.closed /\ Queue(m, s).recovered = m.recovered
           /\ Queue(m, s).queued = m.queued /\ Queue(m, s).specs = m.specs
           /\ \A r : MemAlike(m, Queue(m, s), r)
BY DEF Mems, Queue, MemAlike

LEMMA AwaitIs ==
    ASSUME NEW w \in Worlds, NEW a \in Execs \cup Calls
    PROVE  /\ Await(w, a) \in Worlds
           /\ Append(w.mem.writes, a) \in Seq(Execs \cup Calls)
           /\ Await(w, a).db = w.db /\ Await(w, a).exec = w.exec
           /\ Await(w, a).mem = Queue(w.mem, Append(w.mem.writes, a))
<1>1. w.mem \in Mems /\ w.mem.writes \in Seq(Execs \cup Calls)
  BY DEF Worlds, Mems
<1>2. Append(w.mem.writes, a) \in Seq(Execs \cup Calls)
  BY <1>1, AppendProperties
<1>3. Queue(w.mem, Append(w.mem.writes, a)) \in Mems
  BY <1>1, <1>2, QueueIs
<1>4. Await(w, a) = [w EXCEPT !.mem = Queue(w.mem, Append(w.mem.writes, a))]
  BY DEF Await, Queue
<1> QED
  BY <1>2, <1>3, <1>4 DEF Worlds

\* An execution that stands at pc from now on.
Stand(e, pc) == [e EXCEPT !.pc = pc]

LEMMA StandIs ==
    ASSUME NEW e \in Executions, NEW pc \in ExecStates
    PROVE  /\ Stand(e, pc) \in Executions /\ Stand(e, pc).pc = pc
           /\ Stand(e, pc).released = e.released /\ Stand(e, pc).turns = e.turns
BY DEF Stand, Executions

\* A world with one part replaced.
LEMMA Replaced ==
    ASSUME NEW w \in Worlds
    PROVE  /\ w.db \in [Runs -> Rows] /\ w.mem \in Mems /\ w.exec \in [Execs -> Executions]
           /\ \A d \in [Runs -> Rows] :
                /\ [w EXCEPT !.db = d] \in Worlds
                /\ [w EXCEPT !.db = d].db = d
                /\ [w EXCEPT !.db = d].mem = w.mem
                /\ [w EXCEPT !.db = d].exec = w.exec
           /\ \A m \in Mems :
                /\ [w EXCEPT !.mem = m] \in Worlds
                /\ [w EXCEPT !.mem = m].db = w.db
                /\ [w EXCEPT !.mem = m].mem = m
                /\ [w EXCEPT !.mem = m].exec = w.exec
           /\ \A f \in [Execs -> Executions] :
                /\ [w EXCEPT !.exec = f] \in Worlds
                /\ [w EXCEPT !.exec = f].db = w.db
                /\ [w EXCEPT !.exec = f].mem = w.mem
                /\ [w EXCEPT !.exec = f].exec = f
BY DEF Worlds

LEMMA GoToIs ==
    ASSUME NEW w \in Worlds, NEW x \in Execs, NEW pc \in ExecStates
    PROVE  /\ GoTo(w, x, pc) \in Worlds
           /\ GoTo(w, x, pc).db = w.db /\ GoTo(w, x, pc).mem = w.mem
           /\ GoTo(w, x, pc).exec = Put(w.exec, x, Stand(w.exec[x], pc))
<1>1. Stand(w.exec[x], pc) \in Executions
  BY StandIs DEF Worlds
<1>2. GoTo(w, x, pc) = [w EXCEPT !.exec = Put(w.exec, x, Stand(w.exec[x], pc))]
  BY DEF GoTo, Put, Stand
<1>3. Put(w.exec, x, Stand(w.exec[x], pc)) \in [Execs -> Executions]
  BY <1>1 DEF Worlds, Put
<1> QED
  BY <1>2, <1>3, Replaced

\* A row with finished_at.
Finished(row) == [row EXCEPT !.finishedAt = "set"]

LEMMA AbortIs ==
    ASSUME NEW w \in Worlds, NEW x \in Execs
    PROVE  /\ Abort(w, x) \in Worlds
           /\ Append(w.mem.writes, x) \in Seq(Execs \cup Calls)
           /\ Moved(w, Abort(w, x), x, Finished(w.db[RunOf(x)]),
                    Stand(w.exec[x], "aborting"), Queue(w.mem, Append(w.mem.writes, x)))
<1> DEFINE d == Put(w.db, RunOf(x), Finished(w.db[RunOf(x)]))
           u == [w EXCEPT !.db = d]
           t == GoTo(u, x, "aborting")
<1>1. RunOf(x) \in Runs /\ "aborting" \in ExecStates
  BY ExecsAreOfRuns DEF ExecStates
<1>2. Finished(w.db[RunOf(x)]) \in Rows
  BY <1>1 DEF Worlds, Rows, Finished
<1>3. d \in [Runs -> Rows]
  BY <1>1, <1>2 DEF Worlds, Put
<1>4. u \in Worlds /\ u.db = d /\ u.mem = w.mem /\ u.exec = w.exec
  <2> HIDE DEF d
  <2> QED BY <1>3, Replaced
<1>5. Abort(w, x) = Await(t, x)
  BY DEF Abort, Put, Finished
<1> HIDE DEF d, u
<1>6. /\ t \in Worlds /\ t.db = u.db /\ t.mem = u.mem
      /\ t.exec = Put(u.exec, x, Stand(u.exec[x], "aborting"))
  BY <1>1, <1>4, GoToIs
<1> HIDE DEF t
<1>7. /\ Await(t, x) \in Worlds
      /\ Append(t.mem.writes, x) \in Seq(Execs \cup Calls)
      /\ Await(t, x).db = t.db /\ Await(t, x).exec = t.exec
      /\ Await(t, x).mem = Queue(t.mem, Append(t.mem.writes, x))
  BY <1>6, AwaitIs
<1> QED
  BY <1>4, <1>5, <1>6, <1>7 DEF Moved, d

\* finishAborted(): a run that was told to stop has a terminal row, unless
\* all is closed; the slot it was given is in nobody's hands.
LEMMA AbortFits ==
    ASSUME NEW w, NEW C, NEW fresh \in BOOLEAN, NEW n \in Int, Fits(w, C, fresh, n),
           NEW x \in Execs,
           w.exec[x].pc \in {"marking", "working", "parked", "granted", "denied", "resuming"},
           w.exec[x].pc = "parked" => w.exec[x].released,
           RunOf(x) \in w.mem.cancelled \/ w.mem.closed
    PROVE  Fits(Abort(w, x), C, fresh, n - Weight(w.exec[x]))
<1> DEFINE r == RunOf(x)
           v == Abort(w, x)
           row == Finished(w.db[r])
           e == Stand(w.exec[x], "aborting")
           l == Queue(w.mem, Append(w.mem.writes, x))
<1>1. r \in Runs /\ w \in Worlds /\ RunFits(w, C, fresh, r)
  BY ExecsAreOfRuns DEF Fits
<1>2. v \in Worlds /\ Moved(w, v, x, row, e, l) /\ Append(w.mem.writes, x) \in Seq(Execs \cup Calls)
  BY <1>1, AbortIs
<1>3. w.mem \in Mems /\ w.exec[x] \in Executions /\ w.db[r] \in Rows
  BY <1>1 DEF Worlds
<1>4. e \in Executions /\ e.pc = "aborting" /\ row.status = St(w, r) /\ row.audits = Audits(w, r)
      /\ e.released = w.exec[x].released
  BY <1>3, StandIs DEF ExecStates, Rows, St, Audits, Finished
<1>5. /\ l.slots = w.mem.slots /\ l.slotOwners = w.mem.slotOwners
      /\ l.executions = w.mem.executions /\ l.resumeWaiters = w.mem.resumeWaiters
      /\ l.semWaiters = w.mem.semWaiters /\ l.cancelled = w.mem.cancelled
      /\ l.closed = w.mem.closed /\ l.recovered = w.mem.recovered
      /\ l.queued = w.mem.queued /\ l.specs = w.mem.specs
      /\ MemAlike(w.mem, l, r)
  BY <1>2, <1>3, QueueIs
<1>6. /\ Current(w, r) = x /\ Pc(w, r) = w.exec[x].pc /\ (Woken(w, r) <=> w.exec[x].released)
  BY CurrentIs
<1> HIDE DEF v, row, e, l
<1>7. /\ v.mem = l /\ St(v, r) = St(w, r) /\ Audits(v, r) = Audits(w, r)
      /\ Pc(v, r) = "aborting" /\ Queued(v) = Queued(w)
      /\ (Waits(v, r) <=> Waits(w, r))
  BY <1>1, <1>2, <1>4, <1>5, <1>6, MovedViews DEF Queued, Waits
<1>8. ~Waits(w, r) /\ Pc(w, r) \notin {"none", "acquiring"}
  BY <1>1, <1>6 DEF RunFits, SlotFits
<1>9. SlotFits(v, r)
  BY <1>1, <1>5, <1>6, <1>7, <1>8 DEF RunFits, SlotFits, Holds
<1>10. StartFits(v, C, r)
  BY <1>1, <1>5, <1>6, <1>7, <1>8 DEF RunFits, StartFits
<1>11. RowFits(v, C, r)
  BY <1>1, <1>5, <1>6, <1>7, <1>8 DEF RunFits, RowFits
<1>12. fresh => AuditFits(v, C, r)
  BY <1>1, <1>5, <1>6, <1>7, <1>8 DEF RunFits, AuditFits
<1>13. Slots(v) = n - Weight(w.exec[x])
  <2>1. Slots(w) = n
    BY DEF Fits
  <2>2. Slots(v) - Slots(w) = (l.slots - w.mem.slots)
                  + (Cardinality(l.slotOwners) - Cardinality(w.mem.slotOwners))
                  + (Weight(e) - Weight(w.exec[x]))
    BY <1>1, <1>2, <1>4, MoveSlots
  <2>3. w.mem.slots \in Nat /\ Cardinality(w.mem.slotOwners) \in Nat
    BY <1>1, <1>3, OwnersMove DEF Mems
  <2>4. Weight(e) = 0 /\ Weight(w.exec[x]) \in Nat
    BY <1>4 DEF Weight
  <2>5. Slots(v) \in Nat
    BY <1>1, <1>2, <1>4, MoveSlots DEF Moved
  <2> QED
    BY <2>1, <2>2, <2>3, <2>4, <2>5, <1>5
<1>14. l.resumeWaiters[r] \in {NoExec, x} /\ w.exec[x].pc \notin {"none", "acquiring"}
  BY <1>5, <1>8 DEF Waits
<1>15. LineFits(v)
  BY <1>1, <1>2, <1>5, <1>14, LineStays DEF Fits, Moved
<1> QED
  BY <1>1, <1>2, <1>4, <1>5, <1>9, <1>10, <1>11, <1>12, <1>13, <1>14, <1>15, MoveFits DEF v

\* Memories that say the same of every run.
SameMem(m, l) ==
    /\ l.queued = m.queued /\ l.specs = m.specs /\ l.executions = m.executions
    /\ l.slotOwners = m.slotOwners /\ l.cancelled = m.cancelled
    /\ l.resumeWaiters = m.resumeWaiters /\ l.slots = m.slots
    /\ l.semWaiters = m.semWaiters /\ l.closed = m.closed /\ l.recovered = m.recovered

LEMMA SameFits ==
    ASSUME NEW w, NEW C, NEW fresh \in BOOLEAN, NEW n, Fits(w, C, fresh, n),
           NEW v \in Worlds, v.db = w.db, v.exec = w.exec, SameMem(w.mem, v.mem)
    PROVE  Fits(v, C, fresh, n)
<1>1. \A r \in Runs : RunFits(w, C, fresh, r)
  BY DEF Fits
<1>2. ASSUME NEW r \in Runs
      PROVE  RunFits(v, C, fresh, r)
  <2>1. /\ St(v, r) = St(w, r) /\ Audits(v, r) = Audits(w, r) /\ Current(v, r) = Current(w, r)
        /\ Pc(v, r) = Pc(w, r) /\ Queued(v) = Queued(w)
        /\ Woken(v, r) <=> Woken(w, r)
        /\ Waits(v, r) <=> Waits(w, r)
    BY DEF SameMem, St, Audits, Current, Pc, Woken, Waits, Queued
  <2>2. Linked(v, r)
    BY <1>1, <2>1 DEF RunFits, Linked, SameMem
  <2>3. SlotFits(v, r) /\ StartFits(v, C, r) /\ RowFits(v, C, r)
    BY <1>1, <2>1 DEF RunFits, SlotFits, StartFits, RowFits, SameMem
  <2>4. fresh => AuditFits(v, C, r)
    BY <1>1, <2>1 DEF RunFits, AuditFits, SameMem
  <2> QED
    BY <2>2, <2>3, <2>4 DEF RunFits
<1>3. LineFits(v)
  BY DEF Fits, LineFits, SameMem
<1>4. Slots(v) = n
  BY DEF Fits, Slots, Granted, SameMem
<1> QED
  BY <1>2, <1>3, <1>4 DEF Fits

LEMMA AwaitFits ==
    ASSUME NEW w, NEW C, NEW fresh \in BOOLEAN, NEW n, Fits(w, C, fresh, n),
           NEW a \in Execs \cup Calls
    PROVE  Fits(Await(w, a), C, fresh, n)
<1>1. w \in Worlds
  BY DEF Fits
<1>2. SameMem(w.mem, Queue(w.mem, Append(w.mem.writes, a)))
  BY <1>1, Replaced DEF Mems, SameMem, Queue
<1>3. /\ Await(w, a) \in Worlds /\ Await(w, a).db = w.db /\ Await(w, a).exec = w.exec
      /\ SameMem(w.mem, Await(w, a).mem)
  BY <1>1, <1>2, AwaitIs
<1> QED
  BY <1>3, SameFits

\* One more row is written, of the same or of another status that is not
\* terminal, either.
LEMMA RowFitsToo ==
    ASSUME NEW w, NEW C, NEW fresh \in BOOLEAN, NEW n, Fits(w, C, fresh, n),
           NEW r \in Runs, NEW row \in Rows, row.audits = Audits(w, r),
           \/ row.status = St(w, r)
           \/ /\ St(w, r) \notin Terminal \cup {"absent"}
              /\ row.status \notin Terminal \cup {"absent"}
              /\ row.status = "running" => Pc(w, r) # "none",
           NEW v, v = [w EXCEPT !.db = Put(w.db, r, row)]
    PROVE  /\ Fits(v, C, fresh, n)
           /\ v.mem = w.mem /\ v.exec = w.exec /\ v.db = Put(w.db, r, row)
<1>1. w \in Worlds /\ RunFits(w, C, fresh, r) /\ LineFits(w) /\ Slots(w) = n
  BY DEF Fits
<1>2. Put(w.db, r, row) \in [Runs -> Rows]
  BY <1>1 DEF Worlds, Put
<1>3. v \in Worlds /\ v.mem = w.mem /\ v.exec = w.exec /\ v.db = Put(w.db, r, row)
  BY <1>1, <1>2, Replaced
<1>4. Alike(w, v, r)
  BY <1>1, <1>3 DEF Alike, MemAlike, Put, Worlds
<1>5. /\ St(v, r) = row.status /\ Audits(v, r) = row.audits /\ Current(v, r) = Current(w, r)
      /\ Pc(v, r) = Pc(w, r) /\ Queued(v) = Queued(w)
      /\ Woken(v, r) <=> Woken(w, r)
      /\ Waits(v, r) <=> Waits(w, r)
  BY <1>1, <1>3 DEF St, Audits, Current, Pc, Woken, Waits, Queued, Put, Worlds
<1>6. Linked(v, r)
  BY <1>1, <1>3, <1>5 DEF RunFits, Linked
<1>7. SlotFits(v, r)
  BY <1>1, <1>3, <1>5 DEF RunFits, SlotFits
<1>8. StartFits(v, C, r)
  BY <1>1, <1>3, <1>5 DEF RunFits, StartFits
<1>9. RowFits(v, C, r)
  BY <1>1, <1>3, <1>5 DEF RunFits, RowFits, Terminal
<1>10. fresh => AuditFits(v, C, r)
  BY <1>1, <1>3, <1>5 DEF RunFits, AuditFits, Terminal
<1>11. RunFits(v, C, fresh, r)
  BY <1>6, <1>7, <1>8, <1>9, <1>10 DEF RunFits
<1>12. LineFits(v) /\ Slots(v) = n
  BY <1>1, <1>3 DEF LineFits, Slots, Granted
<1> QED
  BY <1>3, <1>4, <1>11, <1>12, OneRunFits

-----------------------------------------------------------------------------
(* Moves of one execution, whose run is called r.                          *)

\* A world with another state of x, and another memory.
Turn(w, x, e, l) == [w EXCEPT !.exec = Put(w.exec, x, e), !.mem = l]

LEMMA TurnIs ==
    ASSUME NEW w \in Worlds, NEW x \in Execs, NEW e \in Executions, NEW l \in Mems
    PROVE  /\ Turn(w, x, e, l) \in Worlds
           /\ Turn(w, x, e, l).db = w.db /\ Turn(w, x, e, l).mem = l
           /\ Turn(w, x, e, l).exec = Put(w.exec, x, e)
           /\ Moved(w, Turn(w, x, e, l), x, w.db[RunOf(x)], e, l)
<1>1. Put(w.exec, x, e) \in [Execs -> Executions]
  BY DEF Worlds, Put
<1>2. Put(w.db, RunOf(x), w.db[RunOf(x)]) = w.db
  BY DEF Worlds, Put
<1> QED
  BY <1>1, <1>2 DEF Turn, Worlds, Moved

\* What is known of an execution's run before and after such a move.
LEMMA TurnViews ==
    ASSUME NEW w, NEW C, NEW fresh \in BOOLEAN, NEW n, Fits(w, C, fresh, n),
           NEW x \in Execs, w.exec[x].pc # "none", NEW e \in Executions, NEW l \in Mems,
           l.executions = w.mem.executions
    PROVE  LET v == Turn(w, x, e, l)
               r == RunOf(x)
           IN /\ r \in Runs /\ w \in Worlds /\ v \in Worlds /\ v.mem = l
              /\ w.exec[x] \in Executions /\ w.mem \in Mems
              /\ Linked(w, r) /\ SlotFits(w, r) /\ StartFits(w, C, r) /\ RowFits(w, C, r)
              /\ fresh => AuditFits(w, C, r)
              /\ Moved(w, v, x, w.db[r], e, l)
              /\ Pc(w, r) = w.exec[x].pc /\ Pc(v, r) = e.pc
              /\ Woken(w, r) <=> w.exec[x].released
              /\ Woken(v, r) <=> e.released
              /\ St(v, r) = St(w, r) /\ Audits(v, r) = Audits(w, r)
              /\ Waits(v, r) <=> l.resumeWaiters[r] # NoExec
              /\ Waits(w, r) <=> w.mem.resumeWaiters[r] # NoExec
              /\ Waits(w, r) => w.mem.resumeWaiters[r] = x
              /\ Queued(v) = ToSet(l.queued) /\ Queued(w) = ToSet(w.mem.queued)
<1> DEFINE v == Turn(w, x, e, l)
           r == RunOf(x)
<1>1. r \in Runs /\ w \in Worlds /\ RunFits(w, C, fresh, r)
  BY ExecsAreOfRuns DEF Fits
<1>2. v \in Worlds /\ v.mem = l /\ Moved(w, v, x, w.db[r], e, l)
  BY <1>1, TurnIs
<1>3. /\ Current(w, r) = x /\ Pc(w, r) = w.exec[x].pc /\ (Woken(w, r) <=> w.exec[x].released)
      /\ Waits(w, r) => w.mem.resumeWaiters[r] = x
  BY CurrentIs
<1>4. /\ St(v, r) = w.db[r].status /\ Audits(v, r) = w.db[r].audits
      /\ Pc(v, r) = e.pc
      /\ Woken(v, r) <=> e.released
      /\ Waits(v, r) <=> l.resumeWaiters[r] # NoExec
      /\ Queued(v) = ToSet(l.queued)
  BY <1>1, <1>2, <1>3, MovedViews
<1>5. w.exec[x] \in Executions /\ w.mem \in Mems
  BY <1>1 DEF Worlds
<1> QED
  BY <1>1, <1>2, <1>3, <1>4, <1>5 DEF RunFits, St, Audits, Waits, Queued

\* The slots after such a move.
LEMMA TurnSlots ==
    ASSUME NEW w, NEW C, NEW fresh \in BOOLEAN, NEW n, Fits(w, C, fresh, n),
           NEW x \in Execs, NEW e \in Executions, NEW l \in Mems
    PROVE  /\ n \in Nat
           /\ Cardinality(l.slotOwners) \in Nat /\ Cardinality(w.mem.slotOwners) \in Nat
           /\ l.slots \in Nat /\ w.mem.slots \in Nat
           /\ Slots(Turn(w, x, e, l)) = n + (l.slots - w.mem.slots)
                  + (Cardinality(l.slotOwners) - Cardinality(w.mem.slotOwners))
                  + (Weight(e) - Weight(w.exec[x]))
<1> DEFINE v == Turn(w, x, e, l)
<1>1. w \in Worlds /\ Slots(w) = n
  BY DEF Fits
<1>2. v \in Worlds /\ v.mem = l /\ Moved(w, v, x, w.db[RunOf(x)], e, l)
  BY <1>1, TurnIs
<1>3. /\ Slots(w) \in Nat /\ Slots(v) \in Nat
      /\ Slots(v) - Slots(w) = (l.slots - w.mem.slots)
                  + (Cardinality(l.slotOwners) - Cardinality(w.mem.slotOwners))
                  + (Weight(e) - Weight(w.exec[x]))
  BY <1>1, <1>2, MoveSlots
<1>4. l.slots \in Nat /\ w.mem.slots \in Nat /\ l.slotOwners \in SUBSET Runs /\ w.mem.slotOwners \in SUBSET Runs
  BY <1>1 DEF Worlds, Mems
<1>5. Cardinality(l.slotOwners) \in Nat /\ Cardinality(w.mem.slotOwners) \in Nat
  <2>1. IsFiniteSet(l.slotOwners) /\ IsFiniteSet(w.mem.slotOwners)
    BY <1>4, RunsAssumption, FS_Subset
  <2> QED
    BY <2>1, FS_CardinalityType
<1>6. Weight(e) \in Nat /\ Weight(w.exec[x]) \in Nat
  BY DEF Weight
<1> HIDE DEF v
<1>7. Slots(v) = n + (l.slots - w.mem.slots)
                  + (Cardinality(l.slotOwners) - Cardinality(w.mem.slotOwners))
                  + (Weight(e) - Weight(w.exec[x]))
  BY <1>1, <1>3, <1>4, <1>5, <1>6
<1> QED
  BY <1>1, <1>3, <1>4, <1>5, <1>7 DEF v

\* Memories that may differ in slots, their owners and those who wait for one.
Shares(m, l) ==
    /\ l \in Mems
    /\ l.queued = m.queued /\ l.specs = m.specs /\ l.executions = m.executions
    /\ l.cancelled = m.cancelled /\ l.closed = m.closed /\ l.recovered = m.recovered

\* ... in what concerns the run r at most.
OthersShare(m, l, r) ==
    \A q \in Runs \ {r} : /\ l.resumeWaiters[q] = m.resumeWaiters[q]
                           /\ (q \in l.slotOwners <=> q \in m.slotOwners)

LEMMA ShareAlike ==
    ASSUME NEW m, NEW l, NEW r, Shares(m, l), OthersShare(m, l, r)
    PROVE  l \in Mems /\ l.executions = m.executions /\ MemAlike(m, l, r)
BY DEF Shares, OthersShare, MemAlike

\* A move of an execution that is not the last one.
LEMMA TurnFits ==
    ASSUME NEW w, NEW C, NEW fresh \in BOOLEAN, NEW n, Fits(w, C, fresh, n),
           NEW x \in Execs, w.exec[x].pc # "none",
           NEW e \in Executions, e.pc # "none",
           NEW l, Shares(w.mem, l), LineFits(Turn(w, x, e, l)),
           l.resumeWaiters[RunOf(x)] \in {NoExec, x},
           OthersShare(w.mem, l, RunOf(x)),
           LET v == Turn(w, x, e, l)
               r == RunOf(x)
           IN SlotFits(v, r) /\ StartFits(v, C, r) /\ RowFits(v, C, r) /\ (fresh => AuditFits(v, C, r)),
           NEW k \in Int,
           k = (l.slots - w.mem.slots)
                  + (Cardinality(l.slotOwners) - Cardinality(w.mem.slotOwners))
                  + (Weight(e) - Weight(w.exec[x]))
    PROVE  Fits(Turn(w, x, e, l), C, fresh, n + k)
<1> DEFINE r == RunOf(x)
           v == Turn(w, x, e, l)
<1>0. l \in Mems /\ l.executions = w.mem.executions /\ MemAlike(w.mem, l, r)
  BY ShareAlike
<1>1. /\ r \in Runs /\ w \in Worlds /\ v \in Worlds /\ Moved(w, v, x, w.db[r], e, l)
  BY <1>0, TurnViews
<1>2. /\ n \in Nat
      /\ Cardinality(l.slotOwners) \in Nat /\ Cardinality(w.mem.slotOwners) \in Nat
      /\ l.slots \in Nat /\ w.mem.slots \in Nat
      /\ Slots(v) = n + (l.slots - w.mem.slots)
                  + (Cardinality(l.slotOwners) - Cardinality(w.mem.slotOwners))
                  + (Weight(e) - Weight(w.exec[x]))
  BY <1>0, TurnSlots
<1>3. Weight(e) \in Nat /\ Weight(w.exec[x]) \in Nat
  BY DEF Weight
<1>4. SlotFits(v, r) /\ StartFits(v, C, r) /\ RowFits(v, C, r) /\ (fresh => AuditFits(v, C, r))
  OBVIOUS
<1> HIDE DEF v
<1>5. Slots(v) = n + k /\ n \in Int
  BY <1>2, <1>3
<1> QED
  BY <1>0, <1>1, <1>4, <1>5, MoveFits DEF v


\* An execution goes on with its work.
LEMMA WorkFits ==
    ASSUME NEW w, NEW C, NEW fresh \in BOOLEAN, NEW n, Fits(w, C, fresh, n),
           NEW x \in Execs, w.exec[x].pc \in {"marking", "working", "resuming"},
           NEW e \in Executions, e.pc = "working", e.released = w.exec[x].released,
           NEW l, Shares(w.mem, l), l.semWaiters = w.mem.semWaiters,
           l.slotOwners = w.mem.slotOwners, l.resumeWaiters = w.mem.resumeWaiters,
           l.slots = w.mem.slots
    PROVE  Fits(Turn(w, x, e, l), C, fresh, n)
<1> DEFINE r == RunOf(x)
           v == Turn(w, x, e, l)
<1>0. /\ l \in Mems /\ l.executions = w.mem.executions /\ l.queued = w.mem.queued
      /\ l.specs = w.mem.specs /\ l.cancelled = w.mem.cancelled
      /\ l.closed = w.mem.closed /\ l.recovered = w.mem.recovered
      /\ w.exec[x].pc \notin {"none", "acquiring"} /\ x # NoExec /\ e.pc # "none"
  BY ExecsAreOfRuns DEF Shares
<1>1. /\ r \in Runs /\ w \in Worlds /\ v.mem = l /\ w.mem \in Mems
      /\ SlotFits(w, r) /\ StartFits(w, C, r) /\ RowFits(w, C, r)
      /\ fresh => AuditFits(w, C, r)
      /\ Pc(w, r) = w.exec[x].pc /\ Pc(v, r) = e.pc
      /\ Woken(w, r) <=> w.exec[x].released
      /\ Woken(v, r) <=> e.released
      /\ St(v, r) = St(w, r) /\ Audits(v, r) = Audits(w, r)
      /\ Waits(v, r) <=> l.resumeWaiters[r] # NoExec
      /\ Waits(w, r) <=> w.mem.resumeWaiters[r] # NoExec
      /\ Waits(w, r) => w.mem.resumeWaiters[r] = x
      /\ Queued(v) = Queued(w)
  BY <1>0, TurnViews
<1> HIDE DEF v
<1>2. /\ l.resumeWaiters[r] \in {NoExec, x} /\ OthersShare(w.mem, l, r)
      /\ r \in l.slotOwners <=> r \in w.mem.slotOwners
  BY <1>1 DEF Mems, Put, OthersShare
<1>3. SlotFits(v, r)
  BY <1>0, <1>1, <1>2 DEF SlotFits, Holds, Put, Mems
<1>4. StartFits(v, C, r)
  BY <1>0, <1>1 DEF StartFits
<1>5. RowFits(v, C, r)
  BY <1>0, <1>1 DEF RowFits
<1>6. fresh => AuditFits(v, C, r)
  BY <1>0, <1>1 DEF AuditFits
<1>7. 0 = (l.slots - w.mem.slots)
             + (Cardinality(l.slotOwners) - Cardinality(w.mem.slotOwners))
             + (Weight(e) - Weight(w.exec[x]))
  <2>1. w.mem.slotOwners \in SUBSET Runs /\ w.mem.slots \in Nat /\ l.slots \in Nat
    BY <1>0, <1>1 DEF Mems
  <2>2. Cardinality(w.mem.slotOwners) \in Nat
    BY <1>1, <2>1, OwnersMove
  <2>3. Cardinality(l.slotOwners) = Cardinality(w.mem.slotOwners)
    BY <1>1, <2>1, OwnersMove DEF SlotFits, Holds
  <2>4. Weight(e) = 0 /\ Weight(w.exec[x]) = 0
    BY DEF Weight
  <2> QED
    BY <2>1, <2>2, <2>3, <2>4
<1>8. SlotFits(v, r) /\ StartFits(v, C, r) /\ RowFits(v, C, r) /\ (fresh => AuditFits(v, C, r))
  BY <1>3, <1>4, <1>5, <1>6
<1>9. LineFits(v)
  <2>1. v.exec = Put(w.exec, x, e)
    BY <1>0, <1>1, TurnIs DEF v
  <2> QED
    BY <1>0, <1>1, <2>1, LineStays DEF Fits
<1>10. Fits(v, C, fresh, n + (0))
  <2>1. 0 \in Int
    OBVIOUS
  <2> QED
    BY <1>0, <1>2, <1>7, <1>8, <1>9, <2>1, TurnFits DEF v
<1> QED
  BY <1>10, TurnSlots, <1>0 DEF v

\* It yields, its waiter registered.
LEMMA YieldFits ==
    ASSUME NEW w, NEW C, NEW fresh \in BOOLEAN, NEW n, Fits(w, C, fresh, n),
           NEW x \in Execs, w.exec[x].pc \in {"marking", "working"},
           NEW e \in Executions, e.pc = "yielding", e.released = FALSE,
           NEW l, Shares(w.mem, l), l.semWaiters = w.mem.semWaiters,
           l.slotOwners = w.mem.slotOwners, l.slots = w.mem.slots,
           l.resumeWaiters = Put(w.mem.resumeWaiters, RunOf(x), x)
    PROVE  Fits(Turn(w, x, e, l), C, fresh, n)
<1> DEFINE r == RunOf(x)
           v == Turn(w, x, e, l)
<1>0. /\ l \in Mems /\ l.executions = w.mem.executions /\ l.queued = w.mem.queued
      /\ l.specs = w.mem.specs /\ l.cancelled = w.mem.cancelled
      /\ l.closed = w.mem.closed /\ l.recovered = w.mem.recovered
      /\ w.exec[x].pc \notin {"none", "acquiring"} /\ x # NoExec /\ e.pc # "none"
  BY ExecsAreOfRuns DEF Shares
<1>1. /\ r \in Runs /\ w \in Worlds /\ v.mem = l /\ w.mem \in Mems
      /\ SlotFits(w, r) /\ StartFits(w, C, r) /\ RowFits(w, C, r)
      /\ fresh => AuditFits(w, C, r)
      /\ Pc(w, r) = w.exec[x].pc /\ Pc(v, r) = e.pc
      /\ Woken(w, r) <=> w.exec[x].released
      /\ Woken(v, r) <=> e.released
      /\ St(v, r) = St(w, r) /\ Audits(v, r) = Audits(w, r)
      /\ Waits(v, r) <=> l.resumeWaiters[r] # NoExec
      /\ Waits(w, r) <=> w.mem.resumeWaiters[r] # NoExec
      /\ Waits(w, r) => w.mem.resumeWaiters[r] = x
      /\ Queued(v) = Queued(w)
  BY <1>0, TurnViews
<1> HIDE DEF v
<1>2. /\ l.resumeWaiters[r] \in {NoExec, x} /\ OthersShare(w.mem, l, r)
      /\ r \in l.slotOwners <=> r \in w.mem.slotOwners
  BY <1>1 DEF Mems, Put, OthersShare
<1>3. SlotFits(v, r)
  BY <1>0, <1>1, <1>2 DEF SlotFits, Holds, Put, Mems
<1>4. StartFits(v, C, r)
  BY <1>0, <1>1 DEF StartFits
<1>5. RowFits(v, C, r)
  BY <1>0, <1>1 DEF RowFits
<1>6. fresh => AuditFits(v, C, r)
  BY <1>0, <1>1 DEF AuditFits
<1>7. 0 = (l.slots - w.mem.slots)
             + (Cardinality(l.slotOwners) - Cardinality(w.mem.slotOwners))
             + (Weight(e) - Weight(w.exec[x]))
  <2>1. w.mem.slotOwners \in SUBSET Runs /\ w.mem.slots \in Nat /\ l.slots \in Nat
    BY <1>0, <1>1 DEF Mems
  <2>2. Cardinality(w.mem.slotOwners) \in Nat
    BY <1>1, <2>1, OwnersMove
  <2>3. Cardinality(l.slotOwners) = Cardinality(w.mem.slotOwners)
    BY <1>1, <2>1, OwnersMove DEF SlotFits, Holds
  <2>4. Weight(e) = 0 /\ Weight(w.exec[x]) = 0
    BY DEF Weight
  <2> QED
    BY <2>1, <2>2, <2>3, <2>4
<1>8. SlotFits(v, r) /\ StartFits(v, C, r) /\ RowFits(v, C, r) /\ (fresh => AuditFits(v, C, r))
  BY <1>3, <1>4, <1>5, <1>6
<1>9. LineFits(v)
  <2>1. v.exec = Put(w.exec, x, e)
    BY <1>0, <1>1, TurnIs DEF v
  <2> QED
    BY <1>0, <1>1, <2>1, LineStays DEF Fits
<1>10. Fits(v, C, fresh, n + (0))
  <2>1. 0 \in Int
    OBVIOUS
  <2> QED
    BY <1>0, <1>2, <1>7, <1>8, <1>9, <2>1, TurnFits DEF v
<1> QED
  BY <1>10, TurnSlots, <1>0 DEF v

\* It parks: its slot is in nobody's hands.
LEMMA ParkFits ==
    ASSUME NEW w, NEW C, NEW fresh \in BOOLEAN, NEW n, Fits(w, C, fresh, n),
           NEW x \in Execs, w.exec[x].pc = "yielding",
           NEW e \in Executions, e.pc = "parked", e.released = w.exec[x].released,
           NEW l, Shares(w.mem, l), l.semWaiters = w.mem.semWaiters,
           l.slotOwners = w.mem.slotOwners \ {RunOf(x)}, l.slots = w.mem.slots,
           l.resumeWaiters = w.mem.resumeWaiters
    PROVE  Fits(Turn(w, x, e, l), C, fresh, n - 1)
<1> DEFINE r == RunOf(x)
           v == Turn(w, x, e, l)
<1>0. /\ l \in Mems /\ l.executions = w.mem.executions /\ l.queued = w.mem.queued
      /\ l.specs = w.mem.specs /\ l.cancelled = w.mem.cancelled
      /\ l.closed = w.mem.closed /\ l.recovered = w.mem.recovered
      /\ w.exec[x].pc \notin {"none", "acquiring"} /\ x # NoExec /\ e.pc # "none"
  BY ExecsAreOfRuns DEF Shares
<1>1. /\ r \in Runs /\ w \in Worlds /\ v.mem = l /\ w.mem \in Mems
      /\ SlotFits(w, r) /\ StartFits(w, C, r) /\ RowFits(w, C, r)
      /\ fresh => AuditFits(w, C, r)
      /\ Pc(w, r) = w.exec[x].pc /\ Pc(v, r) = e.pc
      /\ Woken(w, r) <=> w.exec[x].released
      /\ Woken(v, r) <=> e.released
      /\ St(v, r) = St(w, r) /\ Audits(v, r) = Audits(w, r)
      /\ Waits(v, r) <=> l.resumeWaiters[r] # NoExec
      /\ Waits(w, r) <=> w.mem.resumeWaiters[r] # NoExec
      /\ Waits(w, r) => w.mem.resumeWaiters[r] = x
      /\ Queued(v) = Queued(w)
  BY <1>0, TurnViews
<1> HIDE DEF v
<1>2. /\ l.resumeWaiters[r] \in {NoExec, x} /\ OthersShare(w.mem, l, r)
      /\ r \in l.slotOwners <=> FALSE
  BY <1>1 DEF Mems, Put, OthersShare
<1>3. SlotFits(v, r)
  BY <1>0, <1>1, <1>2 DEF SlotFits, Holds, Put, Mems
<1>4. StartFits(v, C, r)
  BY <1>0, <1>1 DEF StartFits
<1>5. RowFits(v, C, r)
  BY <1>0, <1>1 DEF RowFits
<1>6. fresh => AuditFits(v, C, r)
  BY <1>0, <1>1 DEF AuditFits
<1>7. -1 = (l.slots - w.mem.slots)
             + (Cardinality(l.slotOwners) - Cardinality(w.mem.slotOwners))
             + (Weight(e) - Weight(w.exec[x]))
  <2>1. w.mem.slotOwners \in SUBSET Runs /\ w.mem.slots \in Nat /\ l.slots \in Nat
    BY <1>0, <1>1 DEF Mems
  <2>2. Cardinality(w.mem.slotOwners) \in Nat
    BY <1>1, <2>1, OwnersMove
  <2>3. Cardinality(l.slotOwners) = Cardinality(w.mem.slotOwners) - 1
    BY <1>1, <2>1, OwnersMove DEF SlotFits, Holds
  <2>4. Weight(e) = 0 /\ Weight(w.exec[x]) = 0
    BY DEF Weight
  <2> QED
    BY <2>1, <2>2, <2>3, <2>4
<1>8. SlotFits(v, r) /\ StartFits(v, C, r) /\ RowFits(v, C, r) /\ (fresh => AuditFits(v, C, r))
  BY <1>3, <1>4, <1>5, <1>6
<1>9. LineFits(v)
  <2>1. v.exec = Put(w.exec, x, e)
    BY <1>0, <1>1, TurnIs DEF v
  <2> QED
    BY <1>0, <1>1, <2>1, LineStays DEF Fits
<1>10. Fits(v, C, fresh, n + (-1))
  <2>1. -1 \in Int
    OBVIOUS
  <2> QED
    BY <1>0, <1>2, <1>7, <1>8, <1>9, <2>1, TurnFits DEF v
<1> QED
  BY <1>10, TurnSlots, <1>0 DEF v

\* Released, it takes a free slot ...
LEMMA GrantFits ==
    ASSUME NEW w, NEW C, NEW fresh \in BOOLEAN, NEW n, Fits(w, C, fresh, n),
           NEW x \in Execs, w.exec[x].pc = "parked", w.exec[x].released = TRUE,
           NEW e \in Executions, e.pc = "granted", e.released = w.exec[x].released,
           NEW l, Shares(w.mem, l), l.semWaiters = w.mem.semWaiters,
           l.slotOwners = w.mem.slotOwners, l.slots = w.mem.slots - 1,
           l.resumeWaiters = w.mem.resumeWaiters
    PROVE  Fits(Turn(w, x, e, l), C, fresh, n)
<1> DEFINE r == RunOf(x)
           v == Turn(w, x, e, l)
<1>0. /\ l \in Mems /\ l.executions = w.mem.executions /\ l.queued = w.mem.queued
      /\ l.specs = w.mem.specs /\ l.cancelled = w.mem.cancelled
      /\ l.closed = w.mem.closed /\ l.recovered = w.mem.recovered
      /\ w.exec[x].pc \notin {"none", "acquiring"} /\ x # NoExec /\ e.pc # "none"
  BY ExecsAreOfRuns DEF Shares
<1>1. /\ r \in Runs /\ w \in Worlds /\ v.mem = l /\ w.mem \in Mems
      /\ SlotFits(w, r) /\ StartFits(w, C, r) /\ RowFits(w, C, r)
      /\ fresh => AuditFits(w, C, r)
      /\ Pc(w, r) = w.exec[x].pc /\ Pc(v, r) = e.pc
      /\ Woken(w, r) <=> w.exec[x].released
      /\ Woken(v, r) <=> e.released
      /\ St(v, r) = St(w, r) /\ Audits(v, r) = Audits(w, r)
      /\ Waits(v, r) <=> l.resumeWaiters[r] # NoExec
      /\ Waits(w, r) <=> w.mem.resumeWaiters[r] # NoExec
      /\ Waits(w, r) => w.mem.resumeWaiters[r] = x
      /\ Queued(v) = Queued(w)
  BY <1>0, TurnViews
<1> HIDE DEF v
<1>2. /\ l.resumeWaiters[r] \in {NoExec, x} /\ OthersShare(w.mem, l, r)
      /\ r \in l.slotOwners <=> r \in w.mem.slotOwners
  BY <1>1 DEF Mems, Put, OthersShare
<1>3. SlotFits(v, r)
  BY <1>0, <1>1, <1>2 DEF SlotFits, Holds, Put, Mems
<1>4. StartFits(v, C, r)
  BY <1>0, <1>1 DEF StartFits
<1>5. RowFits(v, C, r)
  BY <1>0, <1>1 DEF RowFits
<1>6. fresh => AuditFits(v, C, r)
  BY <1>0, <1>1 DEF AuditFits
<1>7. 0 = (l.slots - w.mem.slots)
             + (Cardinality(l.slotOwners) - Cardinality(w.mem.slotOwners))
             + (Weight(e) - Weight(w.exec[x]))
  <2>1. w.mem.slotOwners \in SUBSET Runs /\ w.mem.slots \in Nat /\ l.slots \in Nat
    BY <1>0, <1>1 DEF Mems
  <2>2. Cardinality(w.mem.slotOwners) \in Nat
    BY <1>1, <2>1, OwnersMove
  <2>3. Cardinality(l.slotOwners) = Cardinality(w.mem.slotOwners)
    BY <1>1, <2>1, OwnersMove DEF SlotFits, Holds
  <2>4. Weight(e) = 1 /\ Weight(w.exec[x]) = 0
    BY DEF Weight
  <2> QED
    BY <2>1, <2>2, <2>3, <2>4
<1>8. SlotFits(v, r) /\ StartFits(v, C, r) /\ RowFits(v, C, r) /\ (fresh => AuditFits(v, C, r))
  BY <1>3, <1>4, <1>5, <1>6
<1>9. LineFits(v)
  <2>1. v.exec = Put(w.exec, x, e)
    BY <1>0, <1>1, TurnIs DEF v
  <2> QED
    BY <1>0, <1>1, <2>1, LineStays DEF Fits
<1>10. Fits(v, C, fresh, n + (0))
  <2>1. 0 \in Int
    OBVIOUS
  <2> QED
    BY <1>0, <1>2, <1>7, <1>8, <1>9, <2>1, TurnFits DEF v
<1> QED
  BY <1>10, TurnSlots, <1>0 DEF v

\* ... and comes to own it.
LEMMA ResumeFits ==
    ASSUME NEW w, NEW C, NEW fresh \in BOOLEAN, NEW n, Fits(w, C, fresh, n),
           NEW x \in Execs, w.exec[x].pc = "granted",
           NEW e \in Executions, e.pc = "resuming", e.released = w.exec[x].released,
           NEW l, Shares(w.mem, l), l.semWaiters = w.mem.semWaiters,
           l.slotOwners = w.mem.slotOwners \cup {RunOf(x)}, l.slots = w.mem.slots,
           l.resumeWaiters = w.mem.resumeWaiters
    PROVE  Fits(Turn(w, x, e, l), C, fresh, n)
<1> DEFINE r == RunOf(x)
           v == Turn(w, x, e, l)
<1>0. /\ l \in Mems /\ l.executions = w.mem.executions /\ l.queued = w.mem.queued
      /\ l.specs = w.mem.specs /\ l.cancelled = w.mem.cancelled
      /\ l.closed = w.mem.closed /\ l.recovered = w.mem.recovered
      /\ w.exec[x].pc \notin {"none", "acquiring"} /\ x # NoExec /\ e.pc # "none"
  BY ExecsAreOfRuns DEF Shares
<1>1. /\ r \in Runs /\ w \in Worlds /\ v.mem = l /\ w.mem \in Mems
      /\ SlotFits(w, r) /\ StartFits(w, C, r) /\ RowFits(w, C, r)
      /\ fresh => AuditFits(w, C, r)
      /\ Pc(w, r) = w.exec[x].pc /\ Pc(v, r) = e.pc
      /\ Woken(w, r) <=> w.exec[x].released
      /\ Woken(v, r) <=> e.released
      /\ St(v, r) = St(w, r) /\ Audits(v, r) = Audits(w, r)
      /\ Waits(v, r) <=> l.resumeWaiters[r] # NoExec
      /\ Waits(w, r) <=> w.mem.resumeWaiters[r] # NoExec
      /\ Waits(w, r) => w.mem.resumeWaiters[r] = x
      /\ Queued(v) = Queued(w)
  BY <1>0, TurnViews
<1> HIDE DEF v
<1>2. /\ l.resumeWaiters[r] \in {NoExec, x} /\ OthersShare(w.mem, l, r)
      /\ r \in l.slotOwners <=> TRUE
  BY <1>1 DEF Mems, Put, OthersShare
<1>3. SlotFits(v, r)
  BY <1>0, <1>1, <1>2 DEF SlotFits, Holds, Put, Mems
<1>4. StartFits(v, C, r)
  BY <1>0, <1>1 DEF StartFits
<1>5. RowFits(v, C, r)
  BY <1>0, <1>1 DEF RowFits
<1>6. fresh => AuditFits(v, C, r)
  BY <1>0, <1>1 DEF AuditFits
<1>7. 0 = (l.slots - w.mem.slots)
             + (Cardinality(l.slotOwners) - Cardinality(w.mem.slotOwners))
             + (Weight(e) - Weight(w.exec[x]))
  <2>1. w.mem.slotOwners \in SUBSET Runs /\ w.mem.slots \in Nat /\ l.slots \in Nat
    BY <1>0, <1>1 DEF Mems
  <2>2. Cardinality(w.mem.slotOwners) \in Nat
    BY <1>1, <2>1, OwnersMove
  <2>3. Cardinality(l.slotOwners) = Cardinality(w.mem.slotOwners) + 1
    BY <1>1, <2>1, OwnersMove DEF SlotFits, Holds
  <2>4. Weight(e) = 0 /\ Weight(w.exec[x]) = 1
    BY DEF Weight
  <2> QED
    BY <2>1, <2>2, <2>3, <2>4
<1>8. SlotFits(v, r) /\ StartFits(v, C, r) /\ RowFits(v, C, r) /\ (fresh => AuditFits(v, C, r))
  BY <1>3, <1>4, <1>5, <1>6
<1>9. LineFits(v)
  <2>1. v.exec = Put(w.exec, x, e)
    BY <1>0, <1>1, TurnIs DEF v
  <2> QED
    BY <1>0, <1>1, <2>1, LineStays DEF Fits
<1>10. Fits(v, C, fresh, n + (0))
  <2>1. 0 \in Int
    OBVIOUS
  <2> QED
    BY <1>0, <1>2, <1>7, <1>8, <1>9, <2>1, TurnFits DEF v
<1> QED
  BY <1>10, TurnSlots, <1>0 DEF v


\* ... or joins the line for one.
LEMMA LineUpFits ==
    ASSUME NEW w, NEW C, NEW fresh \in BOOLEAN, NEW n, Fits(w, C, fresh, n),
           NEW x \in Execs, w.exec[x].pc = "parked", w.exec[x].released = TRUE,
           NEW e \in Executions, e.pc = "acquiring", e.released = w.exec[x].released,
           NEW l, Shares(w.mem, l), l.semWaiters = Append(w.mem.semWaiters, x),
           l.slotOwners = w.mem.slotOwners, l.slots = w.mem.slots,
           l.resumeWaiters = w.mem.resumeWaiters
    PROVE  Fits(Turn(w, x, e, l), C, fresh, n)
<1> DEFINE r == RunOf(x)
           v == Turn(w, x, e, l)
<1>0. /\ l \in Mems /\ l.executions = w.mem.executions /\ l.queued = w.mem.queued
      /\ l.specs = w.mem.specs /\ l.cancelled = w.mem.cancelled
      /\ l.closed = w.mem.closed /\ l.recovered = w.mem.recovered
      /\ w.exec[x].pc \notin {"none", "acquiring"} /\ x # NoExec /\ e.pc # "none"
  BY ExecsAreOfRuns DEF Shares
<1>1. /\ r \in Runs /\ w \in Worlds /\ v.mem = l /\ w.mem \in Mems
      /\ SlotFits(w, r) /\ StartFits(w, C, r) /\ RowFits(w, C, r)
      /\ fresh => AuditFits(w, C, r)
      /\ Pc(w, r) = w.exec[x].pc /\ Pc(v, r) = e.pc
      /\ Woken(w, r) <=> w.exec[x].released
      /\ Woken(v, r) <=> e.released
      /\ St(v, r) = St(w, r) /\ Audits(v, r) = Audits(w, r)
      /\ Waits(v, r) <=> l.resumeWaiters[r] # NoExec
      /\ Waits(w, r) <=> w.mem.resumeWaiters[r] # NoExec
      /\ Waits(w, r) => w.mem.resumeWaiters[r] = x
      /\ Queued(v) = Queued(w)
  BY <1>0, TurnViews
<1> HIDE DEF v
<1>2. /\ l.resumeWaiters[r] \in {NoExec, x} /\ OthersShare(w.mem, l, r)
      /\ r \in l.slotOwners <=> r \in w.mem.slotOwners
  BY <1>1 DEF Mems, Put, OthersShare
<1>3. SlotFits(v, r)
  BY <1>0, <1>1, <1>2 DEF SlotFits, Holds, Put, Mems
<1>4. StartFits(v, C, r)
  BY <1>0, <1>1 DEF StartFits
<1>5. RowFits(v, C, r)
  BY <1>0, <1>1 DEF RowFits
<1>6. fresh => AuditFits(v, C, r)
  BY <1>0, <1>1 DEF AuditFits
<1>7. 0 = (l.slots - w.mem.slots)
             + (Cardinality(l.slotOwners) - Cardinality(w.mem.slotOwners))
             + (Weight(e) - Weight(w.exec[x]))
  <2>1. w.mem.slotOwners \in SUBSET Runs /\ w.mem.slots \in Nat /\ l.slots \in Nat
    BY <1>0, <1>1 DEF Mems
  <2>2. Cardinality(w.mem.slotOwners) \in Nat
    BY <1>1, <2>1, OwnersMove
  <2>3. Cardinality(l.slotOwners) = Cardinality(w.mem.slotOwners)
    BY <1>1, <2>1, OwnersMove DEF SlotFits, Holds
  <2>4. Weight(e) = 0 /\ Weight(w.exec[x]) = 0
    BY DEF Weight
  <2> QED
    BY <2>1, <2>2, <2>3, <2>4
<1>8. SlotFits(v, r) /\ StartFits(v, C, r) /\ RowFits(v, C, r) /\ (fresh => AuditFits(v, C, r))
  BY <1>3, <1>4, <1>5, <1>6
<1>9. LineFits(v)
  <2> DEFINE s == w.mem.semWaiters
             k == Len(s)
  <2>1. v.exec = Put(w.exec, x, e) /\ v.mem.semWaiters = Append(s, x)
    BY <1>0, <1>1, TurnIs DEF v
  <2>2. s \in Seq(Execs) /\ w.exec \in [Execs -> Executions]
    BY <1>1 DEF Worlds, Mems
  <2>3. /\ k \in Nat /\ DOMAIN s = 1..k /\ DOMAIN Append(s, x) = 1..(k + 1)
        /\ Append(s, x)[k + 1] = x
        /\ \A i \in 1..k : Append(s, x)[i] = s[i] /\ s[i] \in Execs
    BY <2>2, AppendProperties, LenProperties, ElementOfSeq
  <2>4. \A i \in 1..k : w.exec[s[i]].pc = "acquiring" /\ s[i] # x
    BY <2>3 DEF Fits, LineFits
  <2>5. \A i, j \in 1..k : s[i] = s[j] => i = j
    BY <2>3 DEF Fits, LineFits
  <2> HIDE DEF s, k
  <2>6. \A i \in 1..(k + 1) : v.exec[Append(s, x)[i]].pc = "acquiring"
    <3> SUFFICES ASSUME NEW i \in 1..(k + 1)
                 PROVE  v.exec[Append(s, x)[i]].pc = "acquiring"
      OBVIOUS
    <3>1. CASE i = k + 1
      BY <2>1, <2>2, <2>3, <3>1 DEF Put
    <3>2. CASE i # k + 1
      <4>1. i \in 1..k
        BY <2>3, <3>2
      <4> QED
        BY <4>1, <2>1, <2>2, <2>3, <2>4 DEF Put
    <3> QED
      BY <3>1, <3>2
  <2>7. ASSUME NEW i \in 1..(k + 1), NEW j \in 1..(k + 1), Append(s, x)[i] = Append(s, x)[j]
        PROVE  i = j
    <3>1. i \in 1..k \/ i = k + 1
      BY <2>3
    <3>2. j \in 1..k \/ j = k + 1
      BY <2>3
    <3> QED
      BY <3>1, <3>2, <2>3, <2>4, <2>5, <2>7
  <2> QED
    BY <2>1, <2>3, <2>6, <2>7 DEF LineFits
<1>10. Fits(v, C, fresh, n + (0))
  <2>1. 0 \in Int
    OBVIOUS
  <2> QED
    BY <1>0, <1>2, <1>7, <1>8, <1>9, <2>1, TurnFits DEF v
<1> QED
  BY <1>10, TurnSlots, <1>0 DEF v

\* Semaphore.release(): whoever is first in line has the slot, or nobody.
LEMMA ReleaseFits ==
    ASSUME NEW w, NEW C, NEW fresh \in BOOLEAN, NEW n, Fits(w, C, fresh, n)
    PROVE  /\ Fits(Release(w), C, fresh, n + 1)
           /\ Release(w).mem.closed = w.mem.closed /\ Release(w).mem.cancelled = w.mem.cancelled
           /\ Release(w).mem.recovered = w.mem.recovered
           /\ Release(w).mem.resumeWaiters = w.mem.resumeWaiters /\ Release(w).db = w.db
           /\ \A x \in Execs : w.exec[x].pc # "acquiring" => Release(w).exec[x] = w.exec[x]
<1> DEFINE s == w.mem.semWaiters
<1>1. w \in Worlds /\ w.mem \in Mems /\ s \in Seq(Execs) /\ Slots(w) = n /\ LineFits(w)
  BY DEF Fits, Worlds, Mems
<1>2. CASE s = <<>>
  <2> DEFINE k == w.mem.slots + 1
             l == [w.mem EXCEPT !.slots = k]
             v == [w EXCEPT !.mem = l]
  <2>1. Release(w) = v
    BY <1>2 DEF Release
  <2>0. k \in Nat
    BY <1>1 DEF Mems
  <2> HIDE DEF k
  <2>2. l \in Mems /\ l.slots = k /\ l.slotOwners = w.mem.slotOwners
        /\ l.queued = w.mem.queued /\ l.specs = w.mem.specs /\ l.executions = w.mem.executions
        /\ l.cancelled = w.mem.cancelled /\ l.closed = w.mem.closed /\ l.recovered = w.mem.recovered
        /\ l.resumeWaiters = w.mem.resumeWaiters /\ l.semWaiters = w.mem.semWaiters
    BY <1>1, <2>0 DEF Mems
  <2> HIDE DEF l
  <2>3. v \in Worlds /\ v.db = w.db /\ v.exec = w.exec /\ v.mem = l
    BY <1>1, <2>2, Replaced
  <2> HIDE DEF v
  <2>4. \A r \in Runs : RunFits(w, C, fresh, r)
    BY DEF Fits
  <2>5. ASSUME NEW r \in Runs
        PROVE  RunFits(v, C, fresh, r)
    <3>1. /\ St(v, r) = St(w, r) /\ Audits(v, r) = Audits(w, r) /\ Current(v, r) = Current(w, r)
          /\ Pc(v, r) = Pc(w, r) /\ Queued(v) = Queued(w)
          /\ Woken(v, r) <=> Woken(w, r)
          /\ Waits(v, r) <=> Waits(w, r)
      BY <2>2, <2>3 DEF St, Audits, Current, Pc, Woken, Waits, Queued
    <3>2. Linked(v, r)
      BY <2>2, <2>3, <2>4, <3>1 DEF RunFits, Linked
    <3>3. SlotFits(v, r) /\ StartFits(v, C, r) /\ RowFits(v, C, r)
      BY <2>2, <2>3, <2>4, <3>1 DEF RunFits, SlotFits, StartFits, RowFits
    <3>4. fresh => AuditFits(v, C, r)
      BY <2>2, <2>3, <2>4, <3>1 DEF RunFits, AuditFits
    <3> QED
      BY <3>2, <3>3, <3>4 DEF RunFits
  <2>6. LineFits(v)
    BY <1>1, <2>2, <2>3 DEF LineFits
  <2>7. Slots(v) = n + 1
    <3>1. /\ w.mem.slots \in Nat /\ Cardinality(w.mem.slotOwners) \in Nat
          /\ Cardinality(Granted(w)) \in Nat
      <4>1. w.mem.slotOwners \subseteq Runs /\ Granted(w) \subseteq Execs
        BY <1>1 DEF Mems, Granted
      <4>2. IsFiniteSet(w.mem.slotOwners) /\ IsFiniteSet(Granted(w))
        BY <4>1, RunsAssumption, ExecsFinite, FS_Subset
      <4> QED
        BY <1>1, <4>2, FS_CardinalityType DEF Mems
    <3>2. Granted(v) = Granted(w)
      BY <2>3 DEF Granted
    <3> QED
      BY <1>1, <2>2, <2>3, <3>1, <3>2 DEF Slots, k
  <2> QED
    BY <2>1, <2>2, <2>3, <2>5, <2>6, <2>7 DEF Fits
<1>3. CASE s # <<>>
  <2> DEFINE x == Head(s)
             e == Stand(w.exec[x], "granted")
             l == [w.mem EXCEPT !.semWaiters = Tail(s)]
             v == Turn(w, x, e, l)
             r == RunOf(x)
  <2>1. /\ x \in Execs /\ Tail(s) \in Seq(Execs) /\ x = s[1] /\ 1 \in DOMAIN s
        /\ Len(s) \in Nat /\ DOMAIN s = 1..Len(s) /\ DOMAIN Tail(s) = 1..(Len(s) - 1)
        /\ \A i \in 1..(Len(s) - 1) : Tail(s)[i] = s[i + 1] /\ i + 1 \in DOMAIN s
    BY <1>1, <1>3, HeadTailProperties, LenProperties, EmptySeq, ElementOfSeq
  <2>2. Release(w) = v
    BY <1>1, <1>3 DEF Release, GoTo, Turn, Put, Stand, Worlds
  <2>3. w.exec[x].pc = "acquiring"
    BY <1>1, <2>1 DEF LineFits
  <2>4. e \in Executions /\ e.pc = "granted" /\ e.released = w.exec[x].released
    BY <1>1, <2>1, StandIs DEF Worlds, ExecStates
  <2>5. Shares(w.mem, l) /\ OthersShare(w.mem, l, r) /\ l.slotOwners = w.mem.slotOwners
        /\ l.slots = w.mem.slots /\ l.resumeWaiters = w.mem.resumeWaiters
        /\ l.semWaiters = Tail(s)
    BY <1>1, <2>1 DEF Shares, OthersShare, Mems
  <2>6. l \in Mems /\ l.queued = w.mem.queued /\ l.executions = w.mem.executions
        /\ l.specs = w.mem.specs /\ l.cancelled = w.mem.cancelled
        /\ l.closed = w.mem.closed /\ l.recovered = w.mem.recovered
    BY <2>5 DEF Shares
  <2> HIDE DEF x, e, l
  <2>7. /\ r \in Runs /\ v.mem = l /\ v.exec = Put(w.exec, x, e) /\ v.db = w.db
        /\ SlotFits(w, r) /\ StartFits(w, C, r) /\ RowFits(w, C, r)
        /\ fresh => AuditFits(w, C, r)
        /\ Pc(w, r) = w.exec[x].pc /\ Pc(v, r) = e.pc
        /\ St(v, r) = St(w, r) /\ Audits(v, r) = Audits(w, r)
        /\ Waits(v, r) <=> l.resumeWaiters[r] # NoExec
        /\ Waits(w, r) <=> w.mem.resumeWaiters[r] # NoExec
        /\ Queued(v) = Queued(w)
    BY <1>1, <2>1, <2>3, <2>4, <2>6, TurnViews, TurnIs
  <2> HIDE DEF v
  <2>8. SlotFits(v, r) /\ StartFits(v, C, r) /\ RowFits(v, C, r) /\ l.resumeWaiters[r] = NoExec
    BY <2>3, <2>4, <2>5, <2>6, <2>7 DEF SlotFits, StartFits, RowFits, Holds
  <2>9. fresh => AuditFits(v, C, r)
    BY <2>3, <2>4, <2>6, <2>7 DEF AuditFits
  <2>10. LineFits(v)
    <3>1. ASSUME NEW i \in DOMAIN Tail(s)
          PROVE  v.exec[Tail(s)[i]].pc = "acquiring"
      <4>1. Tail(s)[i] = s[i + 1] /\ i + 1 \in DOMAIN s /\ i + 1 # 1
        BY <2>1
      <4>2. s[i + 1] # x /\ w.exec[s[i + 1]].pc = "acquiring"
        BY <1>1, <2>1, <4>1 DEF LineFits
      <4>3. s[i + 1] \in Execs /\ w.exec \in [Execs -> Executions]
        BY <1>1, <4>1 DEF Worlds
      <4> QED
        BY <2>7, <4>1, <4>2, <4>3 DEF Put
    <3>2. ASSUME NEW i \in DOMAIN Tail(s), NEW j \in DOMAIN Tail(s), Tail(s)[i] = Tail(s)[j]
          PROVE  i = j
      <4>1. /\ Tail(s)[i] = s[i + 1] /\ i + 1 \in DOMAIN s /\ i \in Nat
            /\ Tail(s)[j] = s[j + 1] /\ j + 1 \in DOMAIN s /\ j \in Nat
        BY <2>1
      <4>2. i + 1 = j + 1
        BY <1>1, <3>2, <4>1 DEF LineFits
      <4> QED
        BY <4>1, <4>2
    <3> HIDE DEF s
    <3> QED
      BY <2>5, <2>7, <3>1, <3>2 DEF LineFits
  <2>11. 1 = (l.slots - w.mem.slots)
             + (Cardinality(l.slotOwners) - Cardinality(w.mem.slotOwners))
             + (Weight(e) - Weight(w.exec[x]))
    <3>1. w.mem.slots \in Nat /\ w.mem.slotOwners \in SUBSET Runs
      BY <1>1 DEF Mems
    <3>2. Cardinality(w.mem.slotOwners) \in Nat
      BY <2>7, <3>1, OwnersMove
    <3>3. Weight(e) = 1 /\ Weight(w.exec[x]) = 0
      BY <2>3, <2>4 DEF Weight
    <3> QED
      BY <2>5, <3>1, <3>2, <3>3
  <2>12. Fits(v, C, fresh, n + 1)
    <3>1. 1 \in Int /\ w.exec[x].pc # "none" /\ e.pc # "none" /\ l.resumeWaiters[r] \in {NoExec, x}
      BY <2>3, <2>4, <2>8
    <3> QED
      BY <2>1, <2>4, <2>5, <2>8, <2>9, <2>10, <2>11, <3>1, TurnFits DEF v
  <2>13. \A y \in Execs : w.exec[y].pc # "acquiring" => v.exec[y] = w.exec[y]
    BY <1>1, <2>3, <2>7 DEF Put, Worlds
  <2> QED
    BY <2>2, <2>5, <2>6, <2>7, <2>12, <2>13
<1> QED
  BY <1>2, <1>3


\* A move that writes the row as well, and frees or takes no slot.
LEMMA RowTurnFits ==
    ASSUME NEW w, NEW C, NEW fresh \in BOOLEAN, NEW n, Fits(w, C, fresh, n),
           NEW x \in Execs, w.exec[x].pc \notin {"none", "acquiring", "granted"},
           NEW v \in Worlds, NEW row, NEW e \in Executions, e.pc \notin {"none", "granted"},
           Moved(w, v, x, row, e, v.mem), SameMem(w.mem, v.mem),
           LET r == RunOf(x)
           IN SlotFits(v, r) /\ StartFits(v, C, r) /\ RowFits(v, C, r) /\ (fresh => AuditFits(v, C, r)),
           ~Waits(w, RunOf(x))
    PROVE  Fits(v, C, fresh, n)
<1> DEFINE r == RunOf(x)
           l == v.mem
<1>1. r \in Runs /\ w \in Worlds /\ Slots(w) = n /\ LineFits(w)
  BY ExecsAreOfRuns DEF Fits
<1>2. MemAlike(w.mem, l, r) /\ l.executions = w.mem.executions
      /\ l.resumeWaiters[r] \in {NoExec, x} /\ l.semWaiters = w.mem.semWaiters
      /\ l.slots = w.mem.slots /\ l.slotOwners = w.mem.slotOwners
  BY DEF SameMem, MemAlike, Waits
<1>3. SlotFits(v, r) /\ StartFits(v, C, r) /\ RowFits(v, C, r) /\ (fresh => AuditFits(v, C, r))
  OBVIOUS
<1>4. LineFits(v)
  BY <1>1, <1>2, LineStays DEF Moved
<1>5. Slots(v) = n /\ n \in Int
  <2>1. /\ Slots(w) \in Nat /\ Slots(v) \in Nat
        /\ Slots(v) - Slots(w) = (l.slots - w.mem.slots)
                  + (Cardinality(l.slotOwners) - Cardinality(w.mem.slotOwners))
                  + (Weight(e) - Weight(w.exec[x]))
    BY <1>1, MoveSlots
  <2>2. Weight(e) = 0 /\ Weight(w.exec[x]) = 0
    BY DEF Weight
  <2>3. w.mem.slots \in Nat /\ Cardinality(w.mem.slotOwners) \in Nat
    <3>1. w.mem.slotOwners \in SUBSET Runs /\ w.mem.slots \in Nat
      BY <1>1 DEF Worlds, Mems
    <3> QED
      BY <1>1, <3>1, OwnersMove
  <2> QED
    BY <1>1, <1>2, <2>1, <2>2, <2>3
<1> HIDE DEF l
<1>6. Moved(w, v, x, row, e, l)
  BY DEF l
<1> QED
  BY <1>2, <1>3, <1>4, <1>5, <1>6, MoveFits

\* What is known of the run before and after.
RowViews(w, v, C, fresh, x, row, e) ==
    LET r == RunOf(x)
    IN  /\ SlotFits(w, r) /\ StartFits(w, C, r) /\ RowFits(w, C, r)
        /\ fresh => AuditFits(w, C, r)
        /\ Pc(w, r) = w.exec[x].pc /\ Pc(v, r) = e.pc
        /\ Audits(v, r) = row.audits /\ St(v, r) = row.status
        /\ Audits(w, r) = w.db[r].audits /\ St(w, r) = w.db[r].status
        /\ Woken(v, r) <=> e.released
        /\ Waits(v, r) <=> Waits(w, r)
        /\ Queued(v) = Queued(w)
        /\ v.mem.slotOwners = w.mem.slotOwners /\ v.mem.specs = w.mem.specs
        /\ v.mem.cancelled = w.mem.cancelled
        /\ v.mem.closed = w.mem.closed /\ v.mem.recovered = w.mem.recovered

LEMMA RowTurnViews ==
    ASSUME NEW w, NEW C, NEW fresh \in BOOLEAN, NEW n, Fits(w, C, fresh, n),
           NEW x \in Execs, w.exec[x].pc # "none",
           NEW v \in Worlds, NEW row, NEW e,
           Moved(w, v, x, row, e, v.mem), SameMem(w.mem, v.mem)
    PROVE  RowViews(w, v, C, fresh, x, row, e)
<1> DEFINE r == RunOf(x)
<1>1. r \in Runs /\ w \in Worlds /\ RunFits(w, C, fresh, r)
  BY ExecsAreOfRuns DEF Fits
<1>2. Current(w, r) = x /\ Pc(w, r) = w.exec[x].pc
  BY CurrentIs
<1>3. v.mem.executions = w.mem.executions
  BY DEF SameMem
<1>4. /\ St(v, r) = row.status /\ Audits(v, r) = row.audits /\ Pc(v, r) = e.pc
      /\ Woken(v, r) <=> e.released
      /\ Waits(v, r) <=> v.mem.resumeWaiters[r] # NoExec
      /\ Queued(v) = ToSet(v.mem.queued)
  BY <1>1, <1>2, <1>3, MovedViews
<1> QED
  BY <1>1, <1>2, <1>4 DEF RowViews, RunFits, SameMem, Waits, Queued, St, Audits

\* The pipeline has returned or thrown, and the row says so.
LEMMA SettleFits ==
    ASSUME NEW w, NEW C, NEW fresh \in BOOLEAN, NEW n, Fits(w, C, fresh, n),
           NEW x \in Execs, w.exec[x].pc = "working",
           NEW v \in Worlds, NEW row, NEW e \in Executions, e.pc = "settling",
           row.status \in {"done", "failed"}, row.audits = Audits(w, RunOf(x)),
           Moved(w, v, x, row, e, v.mem), SameMem(w.mem, v.mem)
    PROVE  Fits(v, C, fresh, n)
<1> DEFINE r == RunOf(x)
<1>1. w.exec[x].pc \notin {"none", "acquiring", "granted"} /\ e.pc \notin {"none", "granted"}
  OBVIOUS
<1>a. RowViews(w, v, C, fresh, x, row, e)
  BY <1>1, RowTurnViews
<1>2. /\ SlotFits(w, r) /\ StartFits(w, C, r) /\ RowFits(w, C, r)
      /\ fresh => AuditFits(w, C, r)
      /\ Pc(w, r) = w.exec[x].pc /\ Pc(v, r) = e.pc
      /\ Audits(v, r) = Audits(w, r) /\ St(v, r) \in {"done", "failed"}
      /\ Waits(v, r) <=> Waits(w, r)
      /\ Queued(v) = Queued(w)
      /\ v.mem.slotOwners = w.mem.slotOwners /\ v.mem.specs = w.mem.specs
      /\ v.mem.cancelled = w.mem.cancelled
      /\ v.mem.closed = w.mem.closed /\ v.mem.recovered = w.mem.recovered
  BY <1>a DEF RowViews, St, Audits
<1>3. ~Waits(w, r) /\ SlotFits(v, r)
  BY <1>2 DEF SlotFits, Holds
<1>4. StartFits(v, C, r)
  BY <1>2 DEF StartFits
<1>5. RowFits(v, C, r)
  BY <1>2 DEF RowFits, Terminal
<1>6. fresh => AuditFits(v, C, r)
  BY <1>2, <1>4 DEF AuditFits, StartFits
<1> QED
  BY <1>1, <1>3, <1>4, <1>5, <1>6, RowTurnFits

\* The completion audit is written.
LEMMA AuditedFits ==
    ASSUME NEW w, NEW C, NEW fresh \in BOOLEAN, NEW n, Fits(w, C, fresh, n),
           NEW x \in Execs, w.exec[x].pc \in {"settling", "aborting"},
           NEW v \in Worlds, NEW row, NEW e \in Executions, e.pc = "auditing",
           row.status = w.db[RunOf(x)].status, row.audits = w.db[RunOf(x)].audits + 1,
           Moved(w, v, x, row, e, v.mem), SameMem(w.mem, v.mem)
    PROVE  Fits(v, C, fresh, n)
<1> DEFINE r == RunOf(x)
<1>1. w.exec[x].pc \notin {"none", "acquiring", "granted"} /\ e.pc \notin {"none", "granted"}
  OBVIOUS
<1>a. RowViews(w, v, C, fresh, x, row, e)
  BY <1>1, RowTurnViews
<1>2. /\ SlotFits(w, r) /\ StartFits(w, C, r) /\ RowFits(w, C, r)
      /\ fresh => AuditFits(w, C, r)
      /\ Pc(w, r) = w.exec[x].pc /\ Pc(v, r) = e.pc
      /\ Audits(v, r) = Audits(w, r) + 1 /\ St(v, r) = St(w, r)
      /\ Waits(v, r) <=> Waits(w, r)
      /\ Queued(v) = Queued(w)
      /\ v.mem.slotOwners = w.mem.slotOwners /\ v.mem.specs = w.mem.specs
      /\ v.mem.cancelled = w.mem.cancelled
      /\ v.mem.closed = w.mem.closed /\ v.mem.recovered = w.mem.recovered
  BY <1>a DEF RowViews, St, Audits
<1>3. ~Waits(w, r) /\ SlotFits(v, r)
  BY <1>2 DEF SlotFits, Holds
<1>4. StartFits(v, C, r)
  BY <1>2 DEF StartFits
<1>5. RowFits(v, C, r)
  BY <1>2 DEF RowFits
<1>6. fresh => AuditFits(v, C, r)
  BY <1>2, <1>4 DEF AuditFits, StartFits
<1> QED
  BY <1>1, <1>3, <1>4, <1>5, <1>6, RowTurnFits

\* The end of an execution: the run is forgotten, its slot in nobody's hands.
LEMMA ForgottenFits ==
    ASSUME NEW w, NEW C, NEW fresh \in BOOLEAN, NEW n, Fits(w, C, fresh, n),
           NEW x \in Execs, w.exec[x].pc = "auditing",
           NEW v \in Worlds, NEW e \in Executions, e.pc = "none",
           v.db = w.db, v.exec = Put(w.exec, x, e),
           v.mem.executions = Put(w.mem.executions, RunOf(x), NoExec),
           v.mem.cancelled = w.mem.cancelled \ {RunOf(x)},
           v.mem.specs = w.mem.specs \ {RunOf(x)},
           v.mem.slotOwners = w.mem.slotOwners \ {RunOf(x)},
           v.mem.queued = w.mem.queued, v.mem.resumeWaiters = w.mem.resumeWaiters,
           v.mem.slots = w.mem.slots, v.mem.semWaiters = w.mem.semWaiters,
           v.mem.closed = w.mem.closed, v.mem.recovered = w.mem.recovered
    PROVE  Fits(v, C, fresh, IF RunOf(x) \in w.mem.slotOwners THEN n - 1 ELSE n)
<1> DEFINE r == RunOf(x)
<1>1. /\ r \in Runs /\ x # NoExec /\ w \in Worlds /\ Slots(w) = n /\ LineFits(w)
      /\ RunFits(w, C, fresh, r)
  BY ExecsAreOfRuns DEF Fits
<1>2. Current(w, r) = x /\ Pc(w, r) = "auditing"
  BY CurrentIs
<1>3. w.mem.executions \in [Runs -> Execs \cup {NoExec}] /\ w.exec \in [Execs -> Executions]
      /\ w.mem.resumeWaiters \in [Runs -> Execs \cup {NoExec}]
  BY <1>1 DEF Worlds, Mems
<1>4. Current(v, r) = NoExec /\ Pc(v, r) = "none" /\ St(v, r) = St(w, r) /\ Audits(v, r) = Audits(w, r)
      /\ Queued(v) = Queued(w) /\ (Waits(v, r) <=> Waits(w, r))
  BY <1>1, <1>3 DEF Current, Pc, St, Audits, Queued, Waits, Put
<1>5. ~Waits(w, r)
  BY <1>1, <1>2 DEF RunFits, SlotFits
<1>6. Linked(v, r)
  <2>1. \A y \in Execs : RunOf(y) = r => v.exec[y].pc = "none"
    BY <1>1, <1>2, <1>3 DEF RunFits, Linked, Put
  <2>2. \A y \in Execs : y # NoExec
    BY ExecsAreOfRuns
  <2> QED
    BY <2>1, <2>2, <1>1, <1>4, <1>5 DEF Linked
<1>7. SlotFits(v, r)
  BY <1>1, <1>4, <1>5 DEF RunFits, SlotFits, Holds
<1>8. StartFits(v, C, r)
  BY <1>1, <1>2, <1>4 DEF RunFits, StartFits
<1>9. RowFits(v, C, r)
  BY <1>1, <1>2, <1>4 DEF RunFits, RowFits, StartFits, Terminal
<1>10. fresh => AuditFits(v, C, r)
  BY <1>1, <1>2, <1>4 DEF RunFits, AuditFits
<1>11. RunFits(v, C, fresh, r)
  BY <1>6, <1>7, <1>8, <1>9, <1>10 DEF RunFits
<1>12. Alike(w, v, r)
  BY <1>1, <1>3 DEF Alike, MemAlike, Put
<1>13. LineFits(v)
  BY <1>1, LineStays
<1>14. Slots(v) = IF r \in w.mem.slotOwners THEN n - 1 ELSE n
  <2>1. /\ Cardinality(Granted(w)) \in Nat
        /\ Cardinality(Granted(v)) + Weight(w.exec[x]) = Cardinality(Granted(w)) + Weight(e)
        /\ Cardinality(Granted(v)) \in Nat
    BY <1>1, GrantedMoves
  <2>2. Weight(e) = 0 /\ Weight(w.exec[x]) = 0
    BY DEF Weight
  <2>3. w.mem.slotOwners \in SUBSET Runs /\ w.mem.slots \in Nat
    BY <1>1 DEF Worlds, Mems
  <2>4. /\ Cardinality(w.mem.slotOwners) \in Nat
        /\ Cardinality(v.mem.slotOwners) = IF r \in w.mem.slotOwners
                                           THEN Cardinality(w.mem.slotOwners) - 1
                                           ELSE Cardinality(w.mem.slotOwners)
    BY <1>1, <2>3, OwnersMove
  <2> QED
    BY <1>1, <2>1, <2>2, <2>3, <2>4 DEF Slots
<1> QED
  BY <1>1, <1>11, <1>12, <1>13, <1>14, OneRunFits

-----------------------------------------------------------------------------
(* The queue.                                                              *)

\* The members of s that are in S are those of a sequence of runs.
LEMMA KeepIs ==
    ASSUME NEW s \in Seq(Runs), NEW S
    PROVE  Keep(s, S) \in Seq(Runs) /\ ToSet(Keep(s, S)) = ToSet(s) \cap S
<1> DEFINE N == Len(s)
           More(t, n) == IF s[n] \in S THEN Append(t, s[n]) ELSE t
           IsKept(f, m) == f = [n \in 0..m |-> IF n = 0 THEN <<>> ELSE More(f[n - 1], n)]
           Reached == {m \in Nat : \E f : IsKept(f, m)}
<1>1. /\ N \in Nat /\ DOMAIN s = 1..N /\ \A i \in 1..N : s[i] \in Runs
  BY LenProperties, ElementOfSeq
<1>2. Reached = Nat
  <2>1. 0 \in Reached
    <3> DEFINE f == [n \in 0..0 |-> <<>>]
    <3>1. IsKept(f, 0)
      OBVIOUS
    <3> QED
      BY <3>1
  <2>2. ASSUME NEW m \in Reached
        PROVE  m + 1 \in Reached
    <3>1. PICK f : IsKept(f, m)
      OBVIOUS
    <3> HIDE DEF More
    <3> DEFINE g == [n \in 0..(m + 1) |-> IF n = m + 1 THEN More(f[m], m + 1) ELSE f[n]]
    <3>2. \A n \in 0..m : f[n] = IF n = 0 THEN <<>> ELSE More(f[n - 1], n)
      BY <3>1
    <3>3. m \in Nat
      OBVIOUS
    <3>4. ASSUME NEW n \in 0..(m + 1)
          PROVE  g[n] = IF n = 0 THEN <<>> ELSE More(g[n - 1], n)
      <4>1. CASE n = m + 1
        <5>1. g[n] = More(f[m], n) /\ n # 0 /\ n - 1 = m /\ m \in 0..(m + 1) /\ m # m + 1
          BY <4>1, <3>3
        <5>2. g[m] = f[m]
          BY <5>1
        <5> QED
          BY <5>1, <5>2
      <4>2. CASE n # m + 1
        <5>1. n \in 0..m
          BY <4>2, <3>3
        <5>2. n # 0 => n - 1 \in 0..(m + 1) /\ n - 1 # m + 1
          BY <5>1, <3>3
        <5> QED
          BY <5>1, <5>2, <3>2, <4>2
      <4> QED
        BY <4>1, <4>2
    <3>5. g = [n \in 0..(m + 1) |-> IF n = 0 THEN <<>> ELSE More(g[n - 1], n)]
      BY <3>4
    <3> HIDE DEF g
    <3>6. IsKept(g, m + 1)
      BY <3>5
    <3> HIDE DEF IsKept
    <3>7. \E e : IsKept(e, m + 1)
      BY <3>6
    <3> QED
      BY <3>3, <3>7
  <2> HIDE DEF Reached
  <2>3. Reached \in SUBSET Nat
    BY DEF Reached
  <2> QED
    BY <2>1, <2>2, <2>3, SetInduction
<1> DEFINE kept == CHOOSE f : IsKept(f, N)
<1>3. IsKept(kept, N)
  <2>1. \E f : IsKept(f, N)
    BY <1>1, <1>2
  <2> QED
    BY <2>1
<1>4. Keep(s, S) = kept[N]
  BY DEF Keep
<1>5. \A n \in 0..N : kept[n] = IF n = 0 THEN <<>> ELSE More(kept[n - 1], n)
  <2> HIDE DEF kept
  <2> QED
    BY <1>3
<1> HIDE DEF kept, N
<1> DEFINE Good(n) == /\ kept[n] \in Seq(Runs)
                      /\ ToSet(kept[n]) = {s[i] : i \in 1..n} \cap S
           Goods == {n \in Nat : n <= N => Good(n)}
<1>6. 0 \in Goods
  <2>1. kept[0] = <<>>
    BY <1>1, <1>5
  <2>2. Good(0)
    BY <2>1 DEF ToSet
  <2> QED
    BY <2>2
<1>7. ASSUME NEW n \in Goods
      PROVE  n + 1 \in Goods
  <2> SUFFICES ASSUME n + 1 <= N
               PROVE  Good(n + 1)
    OBVIOUS
  <2>1. n \in Nat /\ Good(n)
    BY <1>1
  <2>2. kept[n + 1] = More(kept[n], n + 1) /\ s[n + 1] \in Runs
    <3>1. n + 1 \in 0..N /\ n + 1 # 0 /\ (n + 1) - 1 = n /\ n + 1 \in 1..N
      BY <2>1, <1>1
    <3> QED
      BY <3>1, <1>1, <1>5
  <2>3. {s[i] : i \in 1..(n + 1)} = {s[i] : i \in 1..n} \cup {s[n + 1]}
    BY <2>1
  <2>4. CASE s[n + 1] \in S
    <3>1. kept[n + 1] = Append(kept[n], s[n + 1])
      BY <2>2, <2>4
    <3>2. /\ Append(kept[n], s[n + 1]) \in Seq(Runs)
          /\ ToSet(Append(kept[n], s[n + 1])) = ToSet(kept[n]) \cup {s[n + 1]}
      <4> DEFINE t == kept[n]
                 a == s[n + 1]
      <4>1. t \in Seq(Runs) /\ a \in Runs
        BY <2>1, <2>2
      <4> HIDE DEF t, a
      <4>2. /\ Append(t, a) \in Seq(Runs) /\ Len(t) \in Nat /\ DOMAIN t = 1..Len(t)
            /\ DOMAIN Append(t, a) = 1..(Len(t) + 1)
            /\ \A i \in 1..Len(t) : Append(t, a)[i] = t[i]
            /\ Append(t, a)[Len(t) + 1] = a
        BY <4>1, AppendProperties, LenProperties
      <4>3. ToSet(Append(t, a)) = ToSet(t) \cup {a}
        BY <4>2 DEF ToSet
      <4> QED
        BY <4>2, <4>3 DEF t, a
    <3> QED
      BY <3>1, <3>2, <2>1, <2>3, <2>4
  <2>5. CASE s[n + 1] \notin S
    BY <2>1, <2>2, <2>3, <2>5
  <2> QED
    BY <2>4, <2>5
<1>8. Goods = Nat
  <2> HIDE DEF Good
  <2>1. Goods \in SUBSET Nat
    OBVIOUS
  <2> HIDE DEF Goods
  <2> QED
    BY <1>6, <1>7, <2>1, SetInduction
<1>9. Good(N)
  BY <1>1, <1>8
<1> QED
  BY <1>1, <1>4, <1>9 DEF ToSet

\* A sequence has no more members than places.
LEMMA MembersOf ==
    ASSUME NEW s \in Seq(Runs)
    PROVE  /\ ToSet(s) \in SUBSET Runs /\ IsFiniteSet(ToSet(s))
           /\ Cardinality(ToSet(s)) \in Nat /\ Cardinality(ToSet(s)) <= Len(s)
<1>1. Len(s) \in Nat /\ DOMAIN s = 1..Len(s) /\ \A i \in 1..Len(s) : s[i] \in Runs
  BY LenProperties, ElementOfSeq
<1>2. ToSet(s) \in SUBSET Runs
  BY <1>1 DEF ToSet
<1>3. IsFiniteSet(ToSet(s))
  BY <1>2, RunsAssumption, FS_Subset
<1>4. Cardinality(ToSet(s)) \in Nat
  BY <1>3, FS_CardinalityType
<1>5. Cardinality(ToSet(s)) <= Len(s)
  <2> DEFINE f == [i \in 1..Len(s) |-> s[i]]
  <2>1. f \in Surjection(1..Len(s), ToSet(s))
    BY <1>1 DEF Surjection, ToSet
  <2>2. ExistsSurjection(1..Len(s), ToSet(s))
    BY <2>1 DEF ExistsSurjection
  <2> QED
    BY <1>1, <2>2, FS_SurjCardinalityBound
<1> QED
  BY <1>2, <1>3, <1>4, <1>5

\* What pump() starts is queued, and no more than there are slots.
LEMMA ToStartIs ==
    ASSUME NEW m \in Mems
    PROVE  /\ ToStart(m) \in Seq(Runs)
           /\ ToSet(ToStart(m)) \in SUBSET ToSet(m.queued)
           /\ m.closed => ToSet(ToStart(m)) = {}
           /\ IsFiniteSet(ToSet(ToStart(m)))
           /\ Cardinality(ToSet(ToStart(m))) \in 0..m.slots
<1> DEFINE s == Startable(m)
           k == IF m.slots < Len(s) THEN m.slots ELSE Len(s)
           t == SubSeq(s, 1, k)
<1>1. m.queued \in Seq(Runs) /\ m.slots \in Nat /\ m.closed \in BOOLEAN
  BY DEF Mems
<1>2. s \in Seq(Runs) /\ ToSet(s) \in SUBSET ToSet(m.queued)
  BY <1>1, KeepIs DEF Startable
<1>3. CASE m.closed
  <2>1. ToStart(m) = <<>>
    BY <1>3 DEF ToStart
  <2>2. ToStart(m) \in Seq(Runs) /\ ToSet(ToStart(m)) = {}
    BY <2>1 DEF ToSet
  <2>3. IsFiniteSet({}) /\ Cardinality({}) = 0
    BY FS_EmptySet
  <2> HIDE DEF t
  <2> QED
    BY <1>1, <2>2, <2>3
<1>4. CASE ~m.closed
  <2>1. ToStart(m) = t
    BY <1>4 DEF ToStart
  <2> HIDE DEF s
  <2>2. Len(s) \in Nat /\ DOMAIN s = 1..Len(s) /\ \A i \in 1..Len(s) : s[i] \in Runs
    BY <1>2, LenProperties, ElementOfSeq
  <2>3. k \in Nat /\ k <= Len(s) /\ k <= m.slots
    BY <1>1, <2>2
  <2> HIDE DEF k
  <2>4. \A i \in 1..k : s[i] \in Runs
    BY <2>2, <2>3
  <2>5. t \in Seq(Runs) /\ Len(t) = k /\ \A i \in 1..k : t[i] = s[i]
    <3>1. /\ t \in Seq(Runs) /\ Len(t) = (IF 1 <= k THEN k - 1 + 1 ELSE 0)
          /\ \A i \in 1..(k - 1 + 1) : t[i] = s[1 + i - 1]
      BY <2>3, <2>4, SubSeqProperties
    <3> QED
      BY <3>1, <2>3
  <2> HIDE DEF t
  <2>6. DOMAIN t = 1..k
    BY <2>5, LenProperties
  <2>7. ToSet(t) \in SUBSET ToSet(s)
    BY <2>2, <2>3, <2>5, <2>6 DEF ToSet
  <2>8. IsFiniteSet(ToSet(t)) /\ Cardinality(ToSet(t)) \in Nat /\ Cardinality(ToSet(t)) <= k
    BY <2>5, MembersOf
  <2>9. Cardinality(ToSet(t)) \in 0..m.slots
    BY <2>3, <2>8, <1>1
  <2> QED
    BY <1>2, <1>4, <2>1, <2>5, <2>7, <2>8, <2>9
<1> QED
  BY <1>1, <1>3, <1>4

\* A run without execution has room for one.
LEMMA FreshIs ==
    ASSUME NEW w \in Worlds, NEW r \in Runs, Linked(w, r), Pc(w, r) = "none"
    PROVE  /\ FreshExec(w, r) \in Execs /\ RunOf(FreshExec(w, r)) = r
           /\ Current(w, r) = NoExec
           /\ \A x \in Execs : RunOf(x) = r => w.exec[x].pc = "none"
<1>1. Current(w, r) \in Execs \cup {NoExec}
  BY DEF Worlds, Mems, Current
<1>2. Current(w, r) = NoExec
  <2> SUFFICES ASSUME Current(w, r) # NoExec PROVE FALSE
    OBVIOUS
  <2>1. Current(w, r) \in Execs /\ RunOf(Current(w, r)) = r
    BY <1>1 DEF Linked
  <2>2. w.exec[Current(w, r)].pc # "none"
    BY <2>1 DEF Linked
  <2> QED
    BY <2>2 DEF Pc
<1>3. \A x \in Execs : RunOf(x) = r => w.exec[x].pc = "none"
  BY <1>2, ExecsAreOfRuns DEF Linked
<1>4. PICK k \in 1..MaxExecs : TRUE
  BY BoundsAssumption
<1>5. <<r, k>> \in Execs /\ RunOf(<<r, k>>) = r
  BY <1>4 DEF Execs, RunOf
<1>6. \E j \in 1..MaxExecs : w.exec[<<r, j>>].pc = "none"
  BY <1>3, <1>4, <1>5
<1>7. PICK j \in 1..MaxExecs : FreshExec(w, r) = <<r, j>>
  BY <1>6 DEF FreshExec
<1> QED
  BY <1>2, <1>3, <1>7 DEF Execs, RunOf

\* What pump() makes of a world.
LEMMA PumpIs ==
    ASSUME NEW w \in Worlds, \A r \in Runs : Linked(w, r),
           \A r \in ToSet(ToStart(w.mem)) :
              Pc(w, r) = "none" /\ r \in w.mem.specs /\ St(w, r) # "absent"
    PROVE  LET v == Pump(w)
               go == ToSet(ToStart(w.mem))
           IN /\ v \in Worlds
              /\ go \in SUBSET Queued(w) /\ go \in SUBSET Runs /\ w.mem.closed => go = {}
              /\ v.mem.closed = w.mem.closed /\ v.mem.recovered = w.mem.recovered
              /\ v.mem.cancelled = w.mem.cancelled /\ v.mem.specs = w.mem.specs
              /\ v.mem.resumeWaiters = w.mem.resumeWaiters
              /\ v.mem.semWaiters = w.mem.semWaiters
              /\ v.mem.slots + Cardinality(go) = w.mem.slots
              /\ v.mem.slotOwners = w.mem.slotOwners \cup go
              /\ Queued(v) = Queued(w) \ go
              /\ \A r \in Runs \ go : /\ v.mem.executions[r] = w.mem.executions[r]
                                      /\ v.db[r] = w.db[r]
                                      /\ \A x \in Execs : RunOf(x) = r => v.exec[x] = w.exec[x]
              /\ \A r \in go :
                   /\ v.mem.executions[r] \in Execs /\ RunOf(v.mem.executions[r]) = r
                   /\ \A x \in Execs : RunOf(x) = r =>
                        v.exec[x].pc = IF x = v.mem.executions[r] THEN "marking" ELSE "none"
                   /\ Audits(v, r) = Audits(w, r)
                   /\ St(v, r) = IF St(w, r) \in Terminal THEN St(w, r) ELSE "running"
<1> DEFINE m == w.mem
           t == ToStart(m)
           go == ToSet(t)
           started == {FreshExec(w, r) : r \in go}
           marking == Keep(t, m.specs)
           queue == Keep(m.queued, Runs \ go)
           more == [i \in DOMAIN marking |-> FreshExec(w, marking[i])]
           k == m.slots - Cardinality(go)
           owners == m.slotOwners \cup go
           l == [m EXCEPT !.queued = queue, !.slots = k, !.slotOwners = owners,
                          !.writes = @ \o more,
                          !.executions = [r \in Runs |-> IF r \in go THEN FreshExec(w, r) ELSE @[r]]]
           d == [r \in Runs |-> IF r \in ToSet(marking) THEN MarkRunning(w, r).db[r] ELSE w.db[r]]
           f == [x \in Execs |->
                     IF x \notin started THEN w.exec[x]
                     ELSE [pc |-> IF RunOf(x) \in m.specs THEN "marking" ELSE "rejected",
                           released |-> FALSE, turns |-> 0]]
<1>1. Pump(w) = [db |-> d, mem |-> l, exec |-> f]
  BY DEF Pump
<1>2. m \in Mems /\ w.db \in [Runs -> Rows] /\ w.exec \in [Execs -> Executions]
  BY DEF Worlds
<1>3. /\ t \in Seq(Runs) /\ go \in SUBSET ToSet(m.queued) /\ (m.closed => go = {})
      /\ Cardinality(go) \in 0..m.slots
  BY <1>2, ToStartIs
<1>4. /\ m.queued \in Seq(Runs) /\ m.slots \in Nat /\ m.writes \in Seq(Execs \cup Calls)
      /\ m.specs \in SUBSET Runs /\ m.slotOwners \in SUBSET Runs
      /\ m.executions \in [Runs -> Execs \cup {NoExec}]
  BY <1>2 DEF Mems
<1>5. go \in SUBSET Runs
  BY <1>3, MembersOf
<1>6. marking \in Seq(Runs) /\ ToSet(marking) = go
  <2>1. marking \in Seq(Runs) /\ ToSet(marking) = go \cap m.specs
    BY <1>3, KeepIs
  <2>2. \A r \in go : r \in m.specs
    OBVIOUS
  <2> HIDE DEF go, marking, m
  <2> QED
    BY <2>1, <2>2
<1>7. queue \in Seq(Runs) /\ ToSet(queue) = ToSet(m.queued) \ go
  <2>1. queue \in Seq(Runs) /\ ToSet(queue) = ToSet(m.queued) \cap (Runs \ go)
    BY <1>4, KeepIs
  <2>2. ToSet(m.queued) \in SUBSET Runs
    BY <1>4, MembersOf
  <2> QED
    BY <2>1, <2>2
<1>8. \A r \in go : /\ FreshExec(w, r) \in Execs /\ RunOf(FreshExec(w, r)) = r
                    /\ Current(w, r) = NoExec
                    /\ \A x \in Execs : RunOf(x) = r => w.exec[x].pc = "none"
  <2> SUFFICES ASSUME NEW r \in go
               PROVE  /\ FreshExec(w, r) \in Execs /\ RunOf(FreshExec(w, r)) = r
                      /\ Current(w, r) = NoExec
                      /\ \A x \in Execs : RunOf(x) = r => w.exec[x].pc = "none"
    OBVIOUS
  <2>1. r \in Runs /\ Linked(w, r) /\ Pc(w, r) = "none"
    BY <1>5
  <2> QED
    BY <2>1, FreshIs
<1>9. \A r \in Runs : /\ MarkRunning(w, r).db[r] = IF St(w, r) \in Terminal THEN w.db[r]
                                                  ELSE [w.db[r] EXCEPT !.status = "running"]
  <2> SUFFICES ASSUME NEW r \in Runs
               PROVE  MarkRunning(w, r).db[r] = IF St(w, r) \in Terminal THEN w.db[r]
                                                  ELSE [w.db[r] EXCEPT !.status = "running"]
    OBVIOUS
  <2>1. w.db[r] \in Rows /\ w.db[r].status \in Statuses
    BY <1>2 DEF Rows
  <2>2. CASE w.db[r].status \in Terminal
    BY <2>1, <2>2 DEF MarkRunning, SetStatus, Write, St
  <2>3. CASE w.db[r].status \notin Terminal
    <3>1. MarkRunning(w, r) = [w EXCEPT !.db = Put(w.db, r, [w.db[r] EXCEPT !.status = "running"])]
      BY <2>1, <2>3 DEF MarkRunning, SetStatus, Write, Put
    <3>2. MarkRunning(w, r).db = Put(w.db, r, [w.db[r] EXCEPT !.status = "running"])
      BY <3>1 DEF Worlds
    <3> QED
      BY <1>2, <2>3, <3>2 DEF Put, St
  <2> QED
    BY <2>2, <2>3
<1>10. more \in Seq(Execs)
  <2>1. Len(marking) \in Nat /\ DOMAIN marking = 1..Len(marking)
    BY <1>6, LenProperties
  <2>2. \A i \in DOMAIN marking : marking[i] \in go
    BY <1>6 DEF ToSet
  <2> HIDE DEF marking
  <2>3. more \in [1..Len(marking) -> Execs]
    BY <2>1, <2>2, <1>8
  <2> HIDE DEF more
  <2> QED
    BY <2>1, <2>3, SeqDef
<1>11. k \in Nat /\ k + Cardinality(go) = m.slots /\ owners \in SUBSET Runs
  BY <1>3, <1>4, <1>5
<1>12. /\ l \in Mems
       /\ l.queued = queue /\ l.slots = k /\ l.slotOwners = owners
       /\ l.closed = m.closed /\ l.recovered = m.recovered /\ l.cancelled = m.cancelled
       /\ l.specs = m.specs /\ l.resumeWaiters = m.resumeWaiters /\ l.semWaiters = m.semWaiters
       /\ \A r \in Runs : l.executions[r] = IF r \in go THEN FreshExec(w, r) ELSE m.executions[r]
  <2>1. m.writes \o more \in Seq(Execs \cup Calls)
    <3>1. more \in Seq(Execs \cup Calls)
      BY <1>10
    <3> HIDE DEF more
    <3> QED
      BY <1>4, <3>1, ConcatProperties
  <2> DEFINE ws == m.writes \o more
             xs == [r \in Runs |-> IF r \in go THEN FreshExec(w, r) ELSE m.executions[r]]
  <2>2. xs \in [Runs -> Execs \cup {NoExec}]
    BY <1>4, <1>8
  <2>3. l = [m EXCEPT !.queued = queue, !.slots = k, !.slotOwners = owners, !.writes = ws,
                      !.executions = xs]
    OBVIOUS
  <2>4. \A r \in Runs : xs[r] = IF r \in go THEN FreshExec(w, r) ELSE m.executions[r]
    OBVIOUS
  <2> HIDE DEF ws, xs, l, queue, k, owners, go, m
  <2>5. ws \in Seq(Execs \cup Calls)
    BY <2>1 DEF ws
  <2>6. /\ l \in Mems
        /\ l.queued = queue /\ l.slots = k /\ l.slotOwners = owners /\ l.executions = xs
        /\ l.closed = m.closed /\ l.recovered = m.recovered /\ l.cancelled = m.cancelled
        /\ l.specs = m.specs /\ l.resumeWaiters = m.resumeWaiters /\ l.semWaiters = m.semWaiters
    BY <1>2, <1>7, <1>11, <2>2, <2>3, <2>5 DEF Mems
  <2> QED
    BY <2>4, <2>6
<1> HIDE DEF l
<1>13. /\ d \in [Runs -> Rows]
       /\ \A r \in Runs \ go : d[r] = w.db[r]
       /\ \A r \in go : /\ d[r].audits = Audits(w, r)
                        /\ d[r].status = IF St(w, r) \in Terminal THEN St(w, r) ELSE "running"
  <2>1. \A r \in Runs : d[r] = IF r \in go THEN MarkRunning(w, r).db[r] ELSE w.db[r]
    BY <1>6
  <2>2. \A r \in Runs : w.db[r] \in Rows /\ [w.db[r] EXCEPT !.status = "running"] \in Rows
    BY <1>2 DEF Rows, Statuses
  <2>3. \A r \in Runs : d[r] \in Rows
    BY <1>9, <2>1, <2>2
  <2>4. \A r \in Runs : /\ [w.db[r] EXCEPT !.status = "running"].status = "running"
                        /\ [w.db[r] EXCEPT !.status = "running"].audits = w.db[r].audits
    BY <2>2 DEF Rows
  <2>5. d \in [Runs -> Rows]
    BY <2>3
  <2> HIDE DEF d, go
  <2>6. \A r \in Runs \ go : d[r] = w.db[r]
    BY <2>1
  <2>7. ASSUME NEW r \in go
        PROVE  /\ d[r].audits = Audits(w, r)
               /\ d[r].status = IF St(w, r) \in Terminal THEN St(w, r) ELSE "running"
    <3>1. r \in Runs /\ d[r] = MarkRunning(w, r).db[r]
      BY <1>5, <2>1
    <3>2. CASE St(w, r) \in Terminal
      BY <1>9, <3>1, <3>2 DEF Audits, St
    <3>3. CASE St(w, r) \notin Terminal
      <4>1. d[r] = [w.db[r] EXCEPT !.status = "running"]
        BY <1>9, <3>1, <3>3
      <4> QED
        BY <2>4, <3>1, <3>3, <4>1 DEF Audits
    <3> QED
      BY <3>2, <3>3
  <2> QED
    BY <2>5, <2>6, <2>7
<1>14. f \in [Execs -> Executions]
  <2>1. [pc |-> "marking", released |-> FALSE, turns |-> 0] \in Executions
    BY BoundsAssumption DEF Executions, ExecStates
  <2>2. [pc |-> "rejected", released |-> FALSE, turns |-> 0] \in Executions
    BY BoundsAssumption DEF Executions, ExecStates
  <2> QED
    BY <1>2, <2>1, <2>2
<1>15. ASSUME NEW r \in Runs \ go, NEW x \in Execs, RunOf(x) = r
       PROVE  f[x] = w.exec[x]
  <2>1. x \notin started
    BY <1>8, <1>15
  <2> QED
    BY <2>1
<1>16. ASSUME NEW r \in go, NEW x \in Execs, RunOf(x) = r
       PROVE  f[x].pc = IF x = FreshExec(w, r) THEN "marking" ELSE "none"
  <2>1. CASE x = FreshExec(w, r)
    BY <2>1, <1>16
  <2>2. CASE x # FreshExec(w, r)
    <3>1. x \notin started
      BY <1>8, <1>16, <2>2
    <3> QED
      BY <3>1, <2>2, <1>8, <1>16
  <2> QED
    BY <2>1, <2>2
<1> HIDE DEF d, f
<1>17. Pump(w) \in Worlds /\ Pump(w).db = d /\ Pump(w).mem = l /\ Pump(w).exec = f
  BY <1>1, <1>12, <1>13, <1>14 DEF Worlds
<1> HIDE DEF t, go, k, queue, owners, m
<1>18. \A r \in Runs \ go : /\ l.executions[r] = m.executions[r] /\ d[r] = w.db[r]
                            /\ \A x \in Execs : RunOf(x) = r => f[x] = w.exec[x]
  BY <1>12, <1>13, <1>15
<1>19. \A r \in go :
          /\ l.executions[r] \in Execs /\ RunOf(l.executions[r]) = r
          /\ \A x \in Execs : RunOf(x) = r =>
                f[x].pc = IF x = l.executions[r] THEN "marking" ELSE "none"
  BY <1>5, <1>8, <1>12, <1>16
<1> HIDE DEF started, marking, more
<1> QED
  BY <1>3, <1>5, <1>7, <1>11, <1>12, <1>13, <1>17, <1>18, <1>19
     DEF Queued, St, Audits, go, t, m, k, owners

-----------------------------------------------------------------------------
(* What the calls rely on, and who works.                                  *)

\* Nothing is closed or forgotten, and nothing woken but the runs of Z, unless
\* all is closed.
Onward(w, v, Z) ==
    /\ v.mem.closed = w.mem.closed /\ v.mem.recovered = w.mem.recovered
    /\ \A r \in Runs : /\ St(w, r) # "absent" => St(v, r) # "absent"
                       /\ Waits(w, r) /\ r \notin Z => w.mem.closed \/ Waits(v, r)

\* No execution begins to work.
Steady(w, v) == \A x \in Execs : v.exec[x].pc = "working" => v.exec[x] = w.exec[x]

LEMMA OnwardTwice ==
    ASSUME NEW u, NEW w, NEW v, NEW Y, NEW Z, Onward(u, w, Y), Onward(w, v, Z)
    PROVE  Onward(u, v, Y \cup Z)
BY DEF Onward

LEMMA SteadyTwice ==
    ASSUME NEW u, NEW w, NEW v, Steady(u, w), Steady(w, v)
    PROVE  Steady(u, v)
BY DEF Steady

\* pump() starts runs that fit, and they fit afterwards.
LEMMA PumpFits ==
    ASSUME NEW w, NEW C, NEW fresh \in BOOLEAN, NEW n, Fits(w, C, fresh, n)
    PROVE  /\ Fits(Pump(w), C, fresh, n)
           /\ Onward(w, Pump(w), {}) /\ Steady(w, Pump(w))
<1> DEFINE v == Pump(w)
           go == ToSet(ToStart(w.mem))
<1>1. /\ w \in Worlds /\ LineFits(w) /\ Slots(w) = n /\ w.mem \in Mems
      /\ \A r \in Runs : RunFits(w, C, fresh, r)
  BY DEF Fits, Worlds
<1>2. /\ go \in SUBSET ToSet(w.mem.queued) /\ (w.mem.closed => go = {})
      /\ go \in SUBSET Runs /\ IsFiniteSet(go)
  <2>1. /\ go \in SUBSET ToSet(w.mem.queued) /\ (w.mem.closed => go = {}) /\ IsFiniteSet(go)
        /\ ToStart(w.mem) \in Seq(Runs)
    BY <1>1, ToStartIs
  <2> QED
    BY <2>1, MembersOf
<1> HIDE DEF go
<1>3. \A r \in go : /\ r \in Runs /\ ~w.mem.closed /\ w.mem.recovered /\ r \in Queued(w)
                    /\ Pc(w, r) = "none" /\ St(w, r) # "absent"
                    /\ r \in w.mem.specs /\ r \notin C
                    /\ r \notin w.mem.slotOwners /\ ~Waits(w, r)
                    /\ St(w, r) = "cancelled" => r \in w.mem.cancelled
                    /\ fresh => Audits(w, r) = 0 /\ St(w, r) \notin {"done", "failed"}
  <2> SUFFICES ASSUME NEW r \in go
               PROVE  /\ r \in Runs /\ ~w.mem.closed /\ w.mem.recovered /\ r \in Queued(w)
                      /\ Pc(w, r) = "none" /\ St(w, r) # "absent"
                      /\ r \in w.mem.specs /\ r \notin C
                      /\ r \notin w.mem.slotOwners /\ ~Waits(w, r)
                      /\ St(w, r) = "cancelled" => r \in w.mem.cancelled
                      /\ fresh => Audits(w, r) = 0 /\ St(w, r) \notin {"done", "failed"}
    OBVIOUS
  <2>1. r \in Runs /\ ~w.mem.closed /\ r \in Queued(w) /\ RunFits(w, C, fresh, r)
    BY <1>1, <1>2 DEF Queued
  <2>2. /\ Pc(w, r) = "none" /\ St(w, r) # "absent" /\ r \in w.mem.specs /\ r \notin C
        /\ w.mem.recovered
    BY <2>1 DEF RunFits, StartFits
  <2>3. r \notin w.mem.slotOwners /\ ~Waits(w, r)
    BY <2>1, <2>2 DEF RunFits, SlotFits, Holds
  <2>4. St(w, r) = "cancelled" => r \in w.mem.cancelled
    BY <2>1 DEF RunFits, RowFits
  <2>5. fresh => Audits(w, r) = 0 /\ St(w, r) \notin {"done", "failed"}
    BY <2>1 DEF RunFits, AuditFits
  <2> QED
    BY <2>1, <2>2, <2>3, <2>4, <2>5
<1>4. /\ v \in Worlds
      /\ v.mem.closed = w.mem.closed /\ v.mem.recovered = w.mem.recovered
      /\ v.mem.cancelled = w.mem.cancelled /\ v.mem.specs = w.mem.specs
      /\ v.mem.resumeWaiters = w.mem.resumeWaiters
      /\ v.mem.semWaiters = w.mem.semWaiters
      /\ v.mem.slots + Cardinality(go) = w.mem.slots
      /\ v.mem.slotOwners = w.mem.slotOwners \cup go
      /\ Queued(v) = Queued(w) \ go
      /\ \A r \in Runs \ go : /\ v.mem.executions[r] = w.mem.executions[r]
                              /\ v.db[r] = w.db[r]
                              /\ \A x \in Execs : RunOf(x) = r => v.exec[x] = w.exec[x]
      /\ \A r \in go :
           /\ v.mem.executions[r] \in Execs /\ RunOf(v.mem.executions[r]) = r
           /\ \A x \in Execs : RunOf(x) = r =>
                v.exec[x].pc = IF x = v.mem.executions[r] THEN "marking" ELSE "none"
           /\ Audits(v, r) = Audits(w, r)
           /\ St(v, r) = IF St(w, r) \in Terminal THEN St(w, r) ELSE "running"
  <2>1. \A r \in Runs : Linked(w, r)
    BY <1>1 DEF RunFits
  <2>2. \A r \in ToSet(ToStart(w.mem)) :
              Pc(w, r) = "none" /\ r \in w.mem.specs /\ St(w, r) # "absent"
    BY <1>3 DEF go
  <2> QED
    BY <1>1, <2>1, <2>2, PumpIs DEF go
<1> HIDE DEF v
<1>5. ASSUME NEW r \in Runs \ go
      PROVE  RunFits(v, C, fresh, r)
  <2>1. r \in ToSet(v.mem.queued) <=> r \in ToSet(w.mem.queued)
    BY <1>4 DEF Queued
  <2>2. AlikeAt(w, v, r)
    BY <1>4, <2>1 DEF AlikeAt
  <2> QED
    BY <1>1, <2>2, AlikeFits
<1>6. ASSUME NEW r \in go
      PROVE  RunFits(v, C, fresh, r)
  <2> DEFINE y == v.mem.executions[r]
  <2>1. /\ y \in Execs /\ RunOf(y) = r
        /\ \A x \in Execs : RunOf(x) = r => v.exec[x].pc = IF x = y THEN "marking" ELSE "none"
        /\ Audits(v, r) = Audits(w, r)
        /\ St(v, r) = IF St(w, r) \in Terminal THEN St(w, r) ELSE "running"
    BY <1>4
  <2>2. Current(v, r) = y
    BY DEF Current
  <2> HIDE DEF y
  <2>3. y # NoExec /\ Pc(v, r) = "marking"
    BY <2>1, <2>2, ExecsAreOfRuns DEF Pc
  <2>4. ~Waits(v, r)
    BY <1>3, <1>4 DEF Waits
  <2>5. Linked(v, r)
    BY <2>1, <2>2, <2>4 DEF Linked
  <2>6. r \notin Queued(v) /\ r \in v.mem.slotOwners
    BY <1>4
  <2>7. SlotFits(v, r)
    BY <2>3, <2>4, <2>6 DEF SlotFits, Holds
  <2>8. St(v, r) # "absent"
    BY <2>1 DEF Terminal
  <2>9. StartFits(v, C, r)
    BY <1>3, <1>4, <2>3, <2>6, <2>8 DEF StartFits
  <2>10. RowFits(v, C, r)
    <3>1. r \in w.mem.cancelled => St(w, r) \in Terminal
      BY <1>1, <1>3 DEF RunFits, RowFits
    <3>2. r \in v.mem.cancelled => St(v, r) \in Terminal
      BY <1>4, <2>1, <3>1
    <3> QED
      BY <1>3, <1>4, <2>1, <2>3, <3>2 DEF RowFits
  <2>11. fresh => AuditFits(v, C, r)
    BY <1>3, <1>4, <2>1, <2>3, <2>6, <2>8 DEF AuditFits, Terminal
  <2> QED
    BY <2>5, <2>7, <2>9, <2>10, <2>11 DEF RunFits
<1>7. LineFits(v)
  <2>1. \A i \in DOMAIN w.mem.semWaiters : w.mem.semWaiters[i] \in Execs
    BY <1>1 DEF Mems
  <2>2. ASSUME NEW x \in Execs, w.exec[x].pc = "acquiring"
        PROVE  v.exec[x].pc = "acquiring"
    <3>1. RunOf(x) \in Runs /\ Linked(w, RunOf(x))
      BY <1>1, ExecsAreOfRuns DEF RunFits
    <3>2. RunOf(x) \notin go
      <4>1. Current(w, RunOf(x)) = x
        BY <2>2, <3>1 DEF Linked
      <4>2. Pc(w, RunOf(x)) = "acquiring"
        BY <2>2, <4>1, ExecsAreOfRuns DEF Pc
      <4> QED
        BY <1>3, <4>2
    <3> QED
      BY <1>4, <2>2, <3>1, <3>2
  <2> QED
    BY <1>1, <1>4, <2>1, <2>2 DEF LineFits
<1>8. ASSUME NEW x \in Execs
      PROVE  /\ v.exec[x].pc = "granted" <=> w.exec[x].pc = "granted"
             /\ v.exec[x].pc = "working" => v.exec[x] = w.exec[x]
  <2>1. RunOf(x) \in Runs /\ Linked(w, RunOf(x))
    BY <1>1, ExecsAreOfRuns DEF RunFits
  <2>2. CASE RunOf(x) \notin go
    BY <1>4, <2>1, <2>2
  <2>3. CASE RunOf(x) \in go
    <3>1. v.exec[x].pc \in {"marking", "none"}
      BY <1>4, <2>3
    <3>2. w.exec[x].pc = "none"
      <4>1. Pc(w, RunOf(x)) = "none"
        BY <1>3, <2>3
      <4> QED
        BY <1>1, <2>1, <4>1, FreshIs
    <3> QED
      BY <3>1, <3>2
  <2> QED
    BY <2>2, <2>3
<1>9. Slots(v) = n
  <2>1. Granted(v) = Granted(w)
    BY <1>8 DEF Granted
  <2>2. w.mem.slotOwners \cap go = {}
    BY <1>3
  <2>3. w.mem.slotOwners \in SUBSET Runs /\ w.mem.slots \in Nat /\ v.mem.slots \in Nat
    BY <1>1, <1>4 DEF Mems, Worlds
  <2>4. IsFiniteSet(w.mem.slotOwners)
    BY <2>3, RunsAssumption, FS_Subset
  <2>5. Cardinality(w.mem.slotOwners \cup go) = Cardinality(w.mem.slotOwners) + Cardinality(go) - Cardinality({})
    BY <1>2, <2>2, <2>4, FS_Union
  <2>6. Cardinality({}) = 0 /\ Cardinality(w.mem.slotOwners) \in Nat /\ Cardinality(go) \in Nat
    BY <1>2, <2>4, FS_EmptySet, FS_CardinalityType
  <2>7. Cardinality(Granted(w)) \in Nat
    <3>1. Granted(w) \in SUBSET Execs
      BY DEF Granted
    <3>2. IsFiniteSet(Granted(w))
      BY <3>1, ExecsFinite, FS_Subset
    <3> QED
      BY <3>2, FS_CardinalityType
  <2>8. Slots(v) = v.mem.slots + Cardinality(v.mem.slotOwners) + Cardinality(Granted(v))
    BY DEF Slots
  <2>9. n = w.mem.slots + Cardinality(w.mem.slotOwners) + Cardinality(Granted(w))
    BY <1>1 DEF Slots
  <2>10. Cardinality(v.mem.slotOwners) = Cardinality(w.mem.slotOwners) + Cardinality(go)
    BY <1>4, <2>5, <2>6
  <2> QED
    BY <1>4, <2>1, <2>3, <2>6, <2>7, <2>8, <2>9, <2>10
<1>10. Fits(v, C, fresh, n)
  BY <1>4, <1>5, <1>6, <1>7, <1>9 DEF Fits
<1>11. Steady(w, v)
  BY <1>8 DEF Steady
<1>12. Onward(w, v, {})
  <2>1. ASSUME NEW r \in Runs
        PROVE  /\ St(w, r) # "absent" => St(v, r) # "absent"
               /\ Waits(w, r) => Waits(v, r)
    <3>1. CASE r \in go
      BY <1>3, <1>4, <3>1 DEF Terminal, Waits
    <3>2. CASE r \notin go
      BY <1>4, <3>2 DEF St, Waits
    <3> QED
      BY <3>1, <3>2
  <2> QED
    BY <1>4, <2>1 DEF Onward
<1> QED
  BY <1>10, <1>11, <1>12 DEF v

-----------------------------------------------------------------------------
(* Waking.                                                                 *)

\* A move that takes no slot, frees none and starts no work.
LEMMA TurnGoesOn ==
    ASSUME NEW w \in Worlds, NEW x \in Execs, NEW e \in Executions, NEW l, Shares(w.mem, l),
           \A r \in Runs \ {RunOf(x)} : l.resumeWaiters[r] = w.mem.resumeWaiters[r]
    PROVE  /\ Onward(w, Turn(w, x, e, l), {RunOf(x)})
           /\ (w.mem.resumeWaiters[RunOf(x)] # NoExec => l.resumeWaiters[RunOf(x)] # NoExec)
                => Onward(w, Turn(w, x, e, l), {})
           /\ e.pc # "working" => Steady(w, Turn(w, x, e, l))
<1> DEFINE v == Turn(w, x, e, l)
<1>1. /\ l \in Mems /\ l.closed = w.mem.closed /\ l.recovered = w.mem.recovered
  BY DEF Shares
<1>2. v.db = w.db /\ v.mem = l /\ v.exec = Put(w.exec, x, e)
  BY <1>1, TurnIs
<1>3. \A y \in Execs : v.exec[y] = IF y = x THEN e ELSE w.exec[y]
  BY <1>2 DEF Put, Worlds
<1> HIDE DEF v
<1>4. e.pc # "working" => Steady(w, v)
  BY <1>3 DEF Steady
<1>5. Onward(w, v, {RunOf(x)})
  BY <1>1, <1>2 DEF Onward, St, Waits
<1>6. (w.mem.resumeWaiters[RunOf(x)] # NoExec => l.resumeWaiters[RunOf(x)] # NoExec)
        => Onward(w, v, {})
  BY <1>1, <1>2 DEF Onward, St, Waits
<1> QED
  BY <1>4, <1>5, <1>6 DEF v

\* An execution that is told to go on.
Woke(e) == [e EXCEPT !.released = TRUE]

\* resume(), cancel() and pauseAndWait() wake whoever waits.
LEMMA WakeFits ==
    ASSUME NEW w, NEW C, NEW fresh \in BOOLEAN, NEW n, Fits(w, C, fresh, n), NEW r \in Runs
    PROVE  /\ Fits(WakeWaiter(w, r), C, fresh, n)
           /\ Onward(w, WakeWaiter(w, r), {r}) /\ Steady(w, WakeWaiter(w, r))
<1>1. w \in Worlds /\ RunFits(w, C, fresh, r) /\ w.mem \in Mems /\ w.exec \in [Execs -> Executions]
  BY DEF Fits, Worlds
<1>2. CASE ~Waits(w, r)
  <2>1. WakeWaiter(w, r) = w
    BY <1>2 DEF WakeWaiter, Waits
  <2> QED
    BY <2>1 DEF Onward, Steady
<1>3. CASE Waits(w, r)
  <2> DEFINE x == w.mem.resumeWaiters[r]
             e == Woke(w.exec[x])
             f == Put(w.mem.resumeWaiters, r, NoExec)
             l == [w.mem EXCEPT !.resumeWaiters = f]
  <2>1. x = Current(w, r) /\ x # NoExec /\ x \in Execs
    BY <1>1, <1>3 DEF RunFits, Linked, Waits, Mems
  <2>2. RunOf(x) = r /\ w.exec[x].pc \in {"yielding", "parked"}
    BY <1>1, <1>3, <2>1 DEF RunFits, Linked, SlotFits, Pc
  <2>3. f \in [Runs -> Execs \cup {NoExec}] /\ f[r] = NoExec
        /\ \A q \in Runs \ {r} : f[q] = w.mem.resumeWaiters[q]
    BY <1>1 DEF Mems, Put
  <2>4. WakeWaiter(w, r) = Turn(w, x, e, l)
    BY <1>1, <1>3, <2>1 DEF WakeWaiter, Waits, Turn, Put, Woke, Worlds, Mems
  <2> HIDE DEF x, f
  <2>5. e \in Executions /\ e.pc = w.exec[x].pc /\ e.released = TRUE
    BY <1>1, <2>1 DEF Executions, Woke
  <2>6. /\ Shares(w.mem, l) /\ l.resumeWaiters = f /\ l.slotOwners = w.mem.slotOwners
        /\ l.slots = w.mem.slots /\ l.semWaiters = w.mem.semWaiters
    BY <1>1, <2>3 DEF Shares, Mems
  <2> HIDE DEF l, e
  <2>7. Onward(w, Turn(w, x, e, l), {r}) /\ Steady(w, Turn(w, x, e, l))
    BY <1>1, <2>1, <2>2, <2>3, <2>5, <2>6, TurnGoesOn
  <2> DEFINE v == Turn(w, x, e, l)
  <2>8. /\ l \in Mems /\ l.executions = w.mem.executions /\ l.queued = w.mem.queued
        /\ l.specs = w.mem.specs /\ l.cancelled = w.mem.cancelled
        /\ l.closed = w.mem.closed /\ l.recovered = w.mem.recovered
    BY <2>6 DEF Shares
  <2>9. /\ v.mem = l
        /\ SlotFits(w, r) /\ StartFits(w, C, r) /\ RowFits(w, C, r)
        /\ fresh => AuditFits(w, C, r)
        /\ Pc(w, r) = w.exec[x].pc /\ Pc(v, r) = e.pc
        /\ St(v, r) = St(w, r) /\ Audits(v, r) = Audits(w, r)
        /\ Waits(v, r) <=> l.resumeWaiters[r] # NoExec
        /\ Queued(v) = Queued(w)
    BY <2>1, <2>2, <2>5, <2>8, TurnViews
  <2>10. v.exec = Put(w.exec, x, e)
    BY <1>1, <2>1, <2>5, <2>8, TurnIs
  <2> HIDE DEF v
  <2>11. SlotFits(v, r)
    BY <2>2, <2>3, <2>5, <2>6, <2>8, <2>9 DEF SlotFits, Holds
  <2>12. StartFits(v, C, r)
    BY <2>2, <2>5, <2>8, <2>9 DEF StartFits
  <2>13. RowFits(v, C, r)
    BY <2>2, <2>5, <2>8, <2>9 DEF RowFits
  <2>14. fresh => AuditFits(v, C, r)
    BY <2>2, <2>5, <2>8, <2>9 DEF AuditFits
  <2>15. LineFits(v)
    BY <1>1, <2>1, <2>2, <2>6, <2>9, <2>10, LineStays DEF Fits
  <2>16. 0 = (l.slots - w.mem.slots)
             + (Cardinality(l.slotOwners) - Cardinality(w.mem.slotOwners))
             + (Weight(e) - Weight(w.exec[x]))
    <3>1. w.mem.slotOwners \in SUBSET Runs /\ w.mem.slots \in Nat
      BY <1>1 DEF Mems
    <3>2. Cardinality(w.mem.slotOwners) \in Nat
      BY <3>1, OwnersMove
    <3>3. Weight(e) = 0 /\ Weight(w.exec[x]) = 0
      BY <2>2, <2>5 DEF Weight
    <3> QED
      BY <2>6, <3>1, <3>2, <3>3
  <2>17. Fits(v, C, fresh, n + 0)
    <3>1. 0 \in Int /\ w.exec[x].pc # "none" /\ e.pc # "none" /\ l.resumeWaiters[r] \in {NoExec, x}
          /\ OthersShare(w.mem, l, r)
      BY <2>2, <2>3, <2>5, <2>6 DEF OthersShare
    <3> QED
      BY <2>1, <2>2, <2>5, <2>6, <2>11, <2>12, <2>13, <2>14, <2>15, <2>16, <3>1, TurnFits DEF v
  <2>18. n + 0 = n
    <3>1. n \in Nat
      BY <2>1, <2>5, <2>8, TurnSlots
    <3> QED
      BY <3>1
  <2> QED
    BY <2>4, <2>7, <2>17, <2>18 DEF v
<1> QED
  BY <1>2, <1>3

\* close(), at its end, wakes everything that waits.
LEMMA WakeAllFits ==
    ASSUME NEW w, NEW C, NEW fresh \in BOOLEAN, NEW n, Fits(w, C, fresh, n), w.mem.closed
    PROVE  /\ Fits(WakeEverything(w), C, fresh, n)
           /\ Onward(w, WakeEverything(w), {}) /\ Steady(w, WakeEverything(w))
<1> DEFINE v == WakeEverything(w)
           denied == ToSet(w.mem.semWaiters)
           waiters == {w.mem.resumeWaiters[r] : r \in Runs}
           none == [r \in Runs |-> NoExec]
           l == [w.mem EXCEPT !.resumeWaiters = none, !.semWaiters = <<>>]
           f == [x \in Execs |->
                     [w.exec[x] EXCEPT !.released = @ \/ x \in waiters,
                                       !.pc = IF x \in denied THEN "denied" ELSE @]]
<1>1. /\ w \in Worlds /\ w.mem \in Mems /\ w.exec \in [Execs -> Executions]
      /\ w.mem.semWaiters \in Seq(Execs) /\ LineFits(w) /\ Slots(w) = n
      /\ \A r \in Runs : RunFits(w, C, fresh, r)
  BY DEF Fits, Worlds, Mems
<1>2. v = [db |-> w.db, mem |-> l, exec |-> f]
  BY DEF WakeEverything
<1>3. /\ l \in Mems /\ l.semWaiters = <<>> /\ \A r \in Runs : l.resumeWaiters[r] = NoExec
      /\ l.queued = w.mem.queued /\ l.specs = w.mem.specs /\ l.executions = w.mem.executions
      /\ l.cancelled = w.mem.cancelled /\ l.closed = w.mem.closed /\ l.recovered = w.mem.recovered
      /\ l.slots = w.mem.slots /\ l.slotOwners = w.mem.slotOwners
  <2>1. none \in [Runs -> Execs \cup {NoExec}] /\ <<>> \in Seq(Execs)
    OBVIOUS
  <2>2. \A r \in Runs : none[r] = NoExec
    OBVIOUS
  <2> HIDE DEF none
  <2> QED
    BY <1>1, <2>1, <2>2 DEF Mems
<1> HIDE DEF l
<1>4. ASSUME NEW x \in Execs
      PROVE  /\ f[x] \in Executions
             /\ f[x].pc = IF x \in denied THEN "denied" ELSE w.exec[x].pc
             /\ x \in denied => w.exec[x].pc = "acquiring"
             /\ x \notin denied /\ x \notin waiters => f[x] = w.exec[x]
  <2>1. w.exec[x] \in Executions /\ w.exec[x].released \in BOOLEAN /\ "denied" \in ExecStates
    BY <1>1 DEF Executions, ExecStates
  <2> DEFINE a == w.exec[x].released \/ x \in waiters
             b == IF x \in denied THEN "denied" ELSE w.exec[x].pc
  <2>2. a \in BOOLEAN
    OBVIOUS
  <2>3. b \in ExecStates
    BY <2>1 DEF Executions
  <2>4. f[x] = [w.exec[x] EXCEPT !.released = a, !.pc = b]
    OBVIOUS
  <2>5. x \in denied => w.exec[x].pc = "acquiring"
    BY <1>1 DEF LineFits, ToSet
  <2>7. x \notin denied /\ x \notin waiters => a = w.exec[x].released /\ b = w.exec[x].pc
    BY <2>1
  <2> HIDE DEF a, b, f
  <2>8. x \notin denied /\ x \notin waiters => f[x] = w.exec[x]
    BY <2>1, <2>4, <2>7 DEF Executions
  <2>6. f[x] \in Executions /\ f[x].pc = b
    BY <2>1, <2>2, <2>3, <2>4 DEF Executions
  <2> QED
    BY <2>5, <2>6, <2>8 DEF b
<1>5. f \in [Execs -> Executions]
  BY <1>4
<1> HIDE DEF f
<1>6. v \in Worlds /\ v.db = w.db /\ v.mem = l /\ v.exec = f
  BY <1>1, <1>2, <1>3, <1>5 DEF Worlds
<1> HIDE DEF v, denied, waiters
<1>7. ASSUME NEW r \in Runs
      PROVE  RunFits(v, C, fresh, r)
  <2>1. RunFits(w, C, fresh, r) /\ Linked(w, r)
    BY <1>1 DEF RunFits
  <2>2. /\ Current(v, r) = Current(w, r) /\ St(v, r) = St(w, r) /\ Audits(v, r) = Audits(w, r)
        /\ Queued(v) = Queued(w) /\ ~Waits(v, r)
    BY <1>3, <1>6 DEF Current, St, Audits, Queued, Waits
  <2>3. Current(w, r) \in Execs \cup {NoExec}
    BY <1>1 DEF Mems, Current
  <2>4. \/ Pc(v, r) = Pc(w, r)
        \/ Pc(v, r) = "denied" /\ Pc(w, r) = "acquiring"
    BY <1>4, <1>6, <2>2, <2>3 DEF Pc
  <2>5. \A x \in Execs : v.exec[x].pc = "none" <=> w.exec[x].pc = "none"
    BY <1>4, <1>6
  <2>6. Linked(v, r)
    BY <2>1, <2>2, <2>5 DEF Linked
  <2>7. SlotFits(v, r)
    BY <1>3, <1>6, <2>1, <2>2, <2>4 DEF RunFits, SlotFits, Holds
  <2>8. StartFits(v, C, r)
    BY <1>3, <1>6, <2>1, <2>2, <2>4 DEF RunFits, StartFits
  <2>9. RowFits(v, C, r)
    BY <1>3, <1>6, <2>1, <2>2 DEF RunFits, RowFits
  <2>10. fresh => AuditFits(v, C, r)
    BY <1>3, <1>6, <2>1, <2>2, <2>4 DEF RunFits, AuditFits
  <2> QED
    BY <2>6, <2>7, <2>8, <2>9, <2>10 DEF RunFits
<1>8. LineFits(v)
  <2>1. v.mem.semWaiters = <<>>
    BY <1>3, <1>6
  <2>2. DOMAIN v.mem.semWaiters = {}
    BY <2>1
  <2> QED
    BY <2>2 DEF LineFits
<1>9. Slots(v) = n
  <2>1. Granted(v) = Granted(w)
    BY <1>4, <1>6 DEF Granted
  <2> QED
    BY <1>1, <1>3, <1>6, <2>1 DEF Slots
<1>10. Onward(w, v, {})
  BY <1>3, <1>6 DEF Onward, St
<1>11. Steady(w, v)
  <2> SUFFICES ASSUME NEW x \in Execs, v.exec[x].pc = "working"
               PROVE  v.exec[x] = w.exec[x]
    BY DEF Steady
  <2>1. x \notin denied /\ w.exec[x].pc = "working"
    BY <1>4, <1>6
  <2>2. x \notin waiters
    <3> SUFFICES ASSUME NEW r \in Runs, x = w.mem.resumeWaiters[r]
                 PROVE  FALSE
      BY DEF waiters
    <3>1. RunFits(w, C, fresh, r) /\ x # NoExec
      BY <1>1, ExecsAreOfRuns
    <3>2. x = Current(w, r) /\ Waits(w, r)
      BY <3>1 DEF RunFits, Linked, Waits
    <3> QED
      BY <2>1, <3>1, <3>2 DEF RunFits, SlotFits, Pc
  <2> QED
    BY <1>4, <1>6, <2>1, <2>2
<1> QED
  BY <1>6, <1>7, <1>8, <1>9, <1>10, <1>11 DEF Fits, v

\* A change of the memory, or of a row r, that no execution makes.
SameRest(w, v) ==
    /\ v.exec = w.exec /\ v.mem.executions = w.mem.executions
    /\ v.mem.resumeWaiters = w.mem.resumeWaiters /\ v.mem.slotOwners = w.mem.slotOwners
    /\ v.mem.slots = w.mem.slots /\ v.mem.semWaiters = w.mem.semWaiters

\* It leaves open what it makes of the row, the queue and the flags.
RestOf(w, v, C, fresh, r) ==
    /\ Pc(v, r) = Pc(w, r) /\ (Waits(v, r) <=> Waits(w, r))
    /\ Linked(v, r)
    /\ (w.mem.closed => v.mem.closed) => SlotFits(v, r)
    /\ StartFits(w, C, r) /\ RowFits(w, C, r)
    /\ fresh => AuditFits(w, C, r)

LEMMA RestIs ==
    ASSUME NEW w, NEW C, NEW fresh \in BOOLEAN, NEW n, Fits(w, C, fresh, n),
           NEW v \in Worlds, SameRest(w, v)
    PROVE  /\ LineFits(v) /\ Slots(v) = n /\ Steady(w, v)
           /\ \A r \in Runs : RestOf(w, v, C, fresh, r)
<1>1. w \in Worlds /\ LineFits(w) /\ Slots(w) = n /\ \A r \in Runs : RunFits(w, C, fresh, r)
  BY DEF Fits
<1>2. LineFits(v)
  BY <1>1 DEF SameRest, LineFits
<1>3. Slots(v) = n
  BY <1>1 DEF SameRest, Slots, Granted
<1>4. Steady(w, v)
  BY DEF SameRest, Steady
<1>5. ASSUME NEW r \in Runs
      PROVE  RestOf(w, v, C, fresh, r)
  <2>1. Linked(w, r) /\ SlotFits(w, r)
    BY <1>1 DEF RunFits
  <2>2. Current(v, r) = Current(w, r)
    BY DEF SameRest, Current
  <2>3. Pc(v, r) = Pc(w, r) /\ (Waits(v, r) <=> Waits(w, r)) /\ (Woken(v, r) <=> Woken(w, r))
    BY <2>2 DEF SameRest, Pc, Waits, Woken
  <2>4. Linked(v, r)
    BY <2>1, <2>2, <2>3 DEF Linked, SameRest
  <2>5. (w.mem.closed => v.mem.closed) => SlotFits(v, r)
    BY <2>1, <2>3 DEF SlotFits, SameRest
  <2>6. StartFits(w, C, r) /\ RowFits(w, C, r) /\ (fresh => AuditFits(w, C, r))
    BY <1>1 DEF RunFits
  <2> QED
    BY <2>3, <2>4, <2>5, <2>6 DEF RestOf
<1> QED
  BY <1>2, <1>3, <1>4, <1>5

-----------------------------------------------------------------------------
(* Steps of the specification, and the worlds they lead to.                *)

LEMMA WorldIs == World.db = db /\ World.mem = mem /\ World.exec = exec
BY DEF World

LEMMA BecomeIs ==
    ASSUME NEW w \in Worlds, Become(w)
    PROVE  World' = w
<1>1. World' = [db |-> db', mem |-> mem', exec |-> exec']
  BY DEF World
<1>2. w = [db |-> w.db, mem |-> w.mem, exec |-> w.exec]
  BY DEF Worlds
<1> QED
  BY <1>1, <1>2 DEF Become

\* Nothing that the calls rely on, and nobody who works, is in the queues.
LEMMA StillOnward ==
    ASSUME NEW w, NEW v, v.exec = w.exec, \A r \in Runs : v.db[r].status = w.db[r].status,
           v.mem.closed = w.mem.closed, v.mem.recovered = w.mem.recovered,
           v.mem.resumeWaiters = w.mem.resumeWaiters
    PROVE  Onward(w, v, {}) /\ Steady(w, v)
BY DEF Onward, Steady, St, Waits

LEMMA AwaitGoesOn ==
    ASSUME NEW w, NEW C, NEW fresh \in BOOLEAN, NEW n, Fits(w, C, fresh, n),
           NEW a \in Execs \cup Calls
    PROVE  /\ Fits(Await(w, a), C, fresh, n)
           /\ Onward(w, Await(w, a), {}) /\ Steady(w, Await(w, a))
           /\ Await(w, a).db = w.db /\ Await(w, a).exec = w.exec
<1>1. w \in Worlds /\ w.mem \in Mems
  BY DEF Fits, Worlds
<1>2. /\ Await(w, a).db = w.db /\ Await(w, a).exec = w.exec
      /\ Await(w, a).mem = Queue(w.mem, Append(w.mem.writes, a))
      /\ Append(w.mem.writes, a) \in Seq(Execs \cup Calls)
  BY <1>1, AwaitIs
<1>3. /\ Await(w, a).mem.closed = w.mem.closed /\ Await(w, a).mem.recovered = w.mem.recovered
      /\ Await(w, a).mem.resumeWaiters = w.mem.resumeWaiters
  BY <1>1, <1>2 DEF Queue, Mems
<1>4. Onward(w, Await(w, a), {}) /\ Steady(w, Await(w, a))
  BY <1>2, <1>3, StillOnward
<1> QED
  BY <1>2, <1>4, AwaitFits

\* Whoever is served goes on in the same world, but for the queue of writes.
LEMMA ServedGoesOn ==
    ASSUME NEW C, NEW fresh \in BOOLEAN, NEW n, Fits(World, C, fresh, n), NEW a, Served(a)
    PROVE  /\ Fits(AfterWrite, C, fresh, n)
           /\ Onward(World, AfterWrite, {}) /\ Steady(World, AfterWrite)
           /\ AfterWrite \in Worlds /\ AfterWrite.db = db /\ AfterWrite.exec = exec
           /\ AfterWrite.mem = Queue(mem, Tail(mem.writes))
           /\ SameMem(mem, AfterWrite.mem)
           /\ a \in Execs \cup Calls
<1>1. World \in Worlds /\ mem \in Mems /\ mem.writes \in Seq(Execs \cup Calls)
  BY WorldIs DEF Fits, Worlds, Mems
<1>2. mem.writes # <<>> /\ a = Head(mem.writes)
  BY DEF Served
<1>3. Tail(mem.writes) \in Seq(Execs \cup Calls) /\ a \in Execs \cup Calls
  BY <1>1, <1>2
<1>4. Queue(mem, Tail(mem.writes)) \in Mems /\ SameMem(mem, Queue(mem, Tail(mem.writes)))
  BY <1>1, <1>3, QueueIs DEF SameMem
<1>5. AfterWrite = [World EXCEPT !.mem = Queue(mem, Tail(mem.writes))]
  BY <1>1, WorldIs DEF AfterWrite, Queue, Worlds
<1>6. /\ AfterWrite \in Worlds /\ AfterWrite.db = db /\ AfterWrite.exec = exec
      /\ AfterWrite.mem = Queue(mem, Tail(mem.writes))
  BY <1>1, <1>4, <1>5, WorldIs, Replaced
<1>7. SameMem(World.mem, AfterWrite.mem) /\ AfterWrite.db = World.db /\ AfterWrite.exec = World.exec
  BY <1>4, <1>6, WorldIs
<1>8. Fits(AfterWrite, C, fresh, n)
  BY <1>6, <1>7, SameFits
<1>9. Onward(World, AfterWrite, {}) /\ Steady(World, AfterWrite)
  BY <1>7, StillOnward DEF SameMem
<1> QED
  BY <1>3, <1>4, <1>6, <1>8, <1>9

LEMMA AbortGoesOn ==
    ASSUME NEW w, NEW C, NEW fresh \in BOOLEAN, NEW n \in Int, Fits(w, C, fresh, n),
           NEW x \in Execs,
           w.exec[x].pc \in {"marking", "working", "parked", "granted", "denied", "resuming"},
           w.exec[x].pc = "parked" => w.exec[x].released,
           RunOf(x) \in w.mem.cancelled \/ w.mem.closed
    PROVE  /\ Fits(Abort(w, x), C, fresh, n - Weight(w.exec[x]))
           /\ Onward(w, Abort(w, x), {}) /\ Steady(w, Abort(w, x))
<1> DEFINE v == Abort(w, x)
<1>1. w \in Worlds /\ w.mem \in Mems /\ RunOf(x) \in Runs
      /\ w.db \in [Runs -> Rows] /\ w.exec \in [Execs -> Executions]
  BY ExecsAreOfRuns DEF Fits, Worlds
<1>2. /\ Append(w.mem.writes, x) \in Seq(Execs \cup Calls)
      /\ Moved(w, v, x, Finished(w.db[RunOf(x)]),
               Stand(w.exec[x], "aborting"), Queue(w.mem, Append(w.mem.writes, x)))
  BY <1>1, AbortIs
<1>3. /\ v.mem.closed = w.mem.closed /\ v.mem.recovered = w.mem.recovered
      /\ v.mem.resumeWaiters = w.mem.resumeWaiters
  BY <1>1, <1>2 DEF Moved, Queue, Mems
<1>4. \A r \in Runs : v.db[r].status = w.db[r].status
  BY <1>1, <1>2 DEF Moved, Put, Finished, Rows
<1>5. \A y \in Execs : v.exec[y] = IF y = x THEN Stand(w.exec[x], "aborting") ELSE w.exec[y]
  BY <1>1, <1>2 DEF Moved, Put
<1>6. Stand(w.exec[x], "aborting").pc = "aborting"
  BY <1>1, StandIs DEF ExecStates
<1>7. Steady(w, v)
  BY <1>5, <1>6 DEF Steady
<1>8. Onward(w, v, {})
  BY <1>3, <1>4 DEF Onward, St, Waits
<1> QED
  BY <1>7, <1>8, AbortFits

\* A row that says the same of the run, or something else of one under way.
LEMMA RowGoesOn ==
    ASSUME NEW w, NEW C, NEW fresh \in BOOLEAN, NEW n, Fits(w, C, fresh, n),
           NEW r \in Runs, NEW row \in Rows, row.audits = Audits(w, r),
           \/ row.status = St(w, r)
           \/ /\ St(w, r) \notin Terminal \cup {"absent"}
              /\ row.status \notin Terminal \cup {"absent"}
              /\ row.status = "running" => Pc(w, r) # "none",
           NEW v, v = [w EXCEPT !.db = Put(w.db, r, row)]
    PROVE  /\ Fits(v, C, fresh, n) /\ v.mem = w.mem /\ v.exec = w.exec
           /\ Onward(w, v, {}) /\ Steady(w, v)
<1>1. w \in Worlds /\ w.db \in [Runs -> Rows]
  BY DEF Fits, Worlds
<1>2. Fits(v, C, fresh, n) /\ v.mem = w.mem /\ v.exec = w.exec /\ v.db = Put(w.db, r, row)
  BY RowFitsToo
<1>3. \A q \in Runs : St(w, q) # "absent" => St(v, q) # "absent"
  BY <1>1, <1>2 DEF St, Put
<1>4. Onward(w, v, {}) /\ Steady(w, v)
  BY <1>2, <1>3 DEF Onward, Steady, Waits
<1> QED
  BY <1>2, <1>4

\* UPDATE runs SET status = to, for a run under way.
LEMMA StatusGoesOn ==
    ASSUME NEW w, NEW C, NEW fresh \in BOOLEAN, NEW n, Fits(w, C, fresh, n),
           NEW r \in Runs, NEW from, St(w, r) \in from => St(w, r) \notin Terminal \cup {"absent"},
           NEW to \in Statuses \ (Terminal \cup {"absent"}),
           to = "running" => Pc(w, r) # "none"
    PROVE  /\ Fits(SetStatus(w, r, from, to), C, fresh, n)
           /\ SetStatus(w, r, from, to).mem = w.mem /\ SetStatus(w, r, from, to).exec = w.exec
           /\ Onward(w, SetStatus(w, r, from, to), {}) /\ Steady(w, SetStatus(w, r, from, to))
<1> DEFINE row == [w.db[r] EXCEPT !.status = to]
<1>1. w \in Worlds /\ w.db \in [Runs -> Rows]
  BY DEF Fits, Worlds
<1>2. CASE St(w, r) \in from
  <2>1. row \in Rows /\ row.audits = Audits(w, r) /\ row.status = to
    BY <1>1 DEF Rows, Audits
  <2>2. SetStatus(w, r, from, to) = [w EXCEPT !.db = Put(w.db, r, row)]
    BY <1>1, <1>2 DEF SetStatus, Write, St, Put, Worlds
  <2> HIDE DEF row
  <2>3. to \notin Terminal \cup {"absent"} /\ St(w, r) \notin Terminal \cup {"absent"}
    BY <1>2
  <2> QED
    BY <2>1, <2>2, <2>3, RowGoesOn
<1>3. CASE St(w, r) \notin from
  <2>1. SetStatus(w, r, from, to) = w
    BY <1>3 DEF SetStatus, Write, St
  <2> QED
    BY <2>1 DEF Onward, Steady
<1> QED
  BY <1>2, <1>3

-----------------------------------------------------------------------------
(* The steps of executions keep the invariant, and what the calls rely on.  *)

Now(w) == Fits(w, Created(call), crashes = 0, MaxParallelRuns)
Kept == Now(World') /\ Onward(World, World', {})

LEMMA NowIs ==
    ASSUME IInv
    PROVE  /\ Now(World) /\ World \in Worlds
           /\ mem \in Mems /\ db \in [Runs -> Rows] /\ exec \in [Execs -> Executions]
           /\ (crashes = 0) \in BOOLEAN
           /\ MaxParallelRuns \in Nat \ {0} /\ MaxParallelRuns \in Int
<1>1. Now(World) /\ World \in Worlds
  BY DEF IInv, Now, Fits
<1>2. mem \in Mems /\ db \in [Runs -> Rows] /\ exec \in [Execs -> Executions]
  BY <1>1, WorldIs DEF Worlds
<1> QED
  BY <1>1, <1>2, MaxParallelRunsAssumption

LEMMA KeptIs ==
    ASSUME IInv, NEW w, Become(w), Now(w), Onward(World, w, {})
    PROVE  Kept /\ World' = w
<1>1. w \in Worlds
  BY DEF Now, Fits
<1>2. World' = w
  BY <1>1, BecomeIs
<1> QED
  BY <1>2 DEF Kept

\* What is known of an execution under way, and of its run.
LEMMA UnderWay ==
    ASSUME IInv, NEW x \in Execs, exec[x].pc # "none", NEW r, r = RunOf(x)
    PROVE  /\ r \in Runs /\ Current(World, r) = x /\ Pc(World, r) = exec[x].pc
           /\ SlotFits(World, r) /\ StartFits(World, Created(call), r) /\ RowFits(World, Created(call), r)
           /\ St(World, r) # "absent"
           /\ Waits(World, r) => exec[x].pc \in {"yielding", "parked"}
<1>1. Now(World) /\ (crashes = 0) \in BOOLEAN
  BY NowIs
<1>2. r \in Runs /\ Linked(World, r) /\ SlotFits(World, r) /\ StartFits(World, Created(call), r)
      /\ RowFits(World, Created(call), r)
  BY <1>1, ExecsAreOfRuns DEF Now, Fits, RunFits
<1>3. Current(World, r) = x /\ x # NoExec
  BY <1>2, WorldIs, ExecsAreOfRuns DEF Linked
<1>4. Pc(World, r) = exec[x].pc
  BY <1>3, WorldIs DEF Pc
<1>5. St(World, r) # "absent"
  BY <1>2, <1>4 DEF StartFits
<1>6. Waits(World, r) => exec[x].pc \in {"yielding", "parked"}
  BY <1>2, <1>4 DEF SlotFits
<1> QED
  BY <1>2, <1>3, <1>4, <1>5, <1>6

LEMMA ArrivedIs ==
    ASSUME IInv, NEW x \in Execs, AtCheckpoint(x)
    PROVE  /\ Now(Arrived(x)) /\ Arrived(x) \in Worlds
           /\ Onward(World, Arrived(x), {}) /\ Steady(World, Arrived(x))
           /\ Arrived(x).db = db /\ Arrived(x).exec = exec /\ SameMem(mem, Arrived(x).mem)
           /\ exec[x].pc \in {"marking", "working"}
<1>1. Now(World) /\ World \in Worlds /\ (crashes = 0) \in BOOLEAN
  BY NowIs
<1>2. CASE exec[x].pc = "marking" /\ Served(x)
  <2>1. Arrived(x) = AfterWrite
    BY <1>2 DEF Arrived
  <2> QED
    BY <1>1, <1>2, <2>1, ServedGoesOn DEF Now
<1>3. CASE exec[x].pc = "working"
  <2>1. Arrived(x) = World
    BY <1>3 DEF Arrived
  <2>2. Onward(World, World, {}) /\ Steady(World, World) /\ SameMem(mem, mem)
    BY DEF Onward, Steady, SameMem
  <2> QED
    BY <1>1, <1>3, <2>1, <2>2, WorldIs
<1> QED
  BY <1>2, <1>3 DEF AtCheckpoint

LEMMA StopAtCheckpointKeeps ==
    ASSUME IInv, NEW x \in Execs, StopAtCheckpoint(x)
    PROVE  Kept /\ Steady(World, World')
<1> DEFINE w == Arrived(x)
<1>1. /\ Now(w) /\ w \in Worlds /\ Onward(World, w, {}) /\ Steady(World, w)
      /\ w.db = db /\ w.exec = exec /\ SameMem(mem, w.mem)
      /\ exec[x].pc \in {"marking", "working"}
  BY ArrivedIs DEF StopAtCheckpoint
<1>2. Become(Abort(w, x)) /\ Stopping(RunOf(x))
  BY DEF StopAtCheckpoint
<1> HIDE DEF w
<1>3. RunOf(x) \in w.mem.cancelled \/ w.mem.closed
  BY <1>1, <1>2 DEF Stopping, SameMem
<1>4. Weight(w.exec[x]) = 0
  BY <1>1 DEF Weight
<1>5. /\ Fits(Abort(w, x), Created(call), crashes = 0, MaxParallelRuns - 0)
      /\ Onward(w, Abort(w, x), {}) /\ Steady(w, Abort(w, x))
  BY <1>1, <1>3, <1>4, NowIs, AbortGoesOn DEF Now
<1>6. Now(Abort(w, x))
  BY <1>5, NowIs DEF Now
<1>7. Onward(World, Abort(w, x), {} \cup {}) /\ Steady(World, Abort(w, x))
  BY <1>1, <1>5, OnwardTwice, SteadyTwice
<1>8. Kept /\ World' = Abort(w, x)
  BY <1>2, <1>6, <1>7, KeptIs
<1> QED
  BY <1>7, <1>8

\* The waiter it registers, and its own state.
Yields(e) == [e EXCEPT !.released = FALSE, !.pc = "yielding"]

LEMMA YieldAtCheckpointKeeps ==
    ASSUME IInv, NEW x \in Execs, YieldAtCheckpoint(x)
    PROVE  Kept /\ Steady(World, World')
<1> DEFINE w == Arrived(x)
           r == RunOf(x)
           e == Yields(w.exec[x])
           f == Put(w.mem.resumeWaiters, r, x)
           l == [w.mem EXCEPT !.resumeWaiters = f]
           v == Turn(w, x, e, l)
           u == SetStatus(v, r, {"running"}, "paused")
           C == Created(call)
           fresh == crashes = 0
<1>1. /\ Now(w) /\ w \in Worlds /\ Onward(World, w, {}) /\ Steady(World, w)
      /\ w.db = db /\ w.exec = exec /\ SameMem(mem, w.mem)
      /\ exec[x].pc \in {"marking", "working"}
  BY ArrivedIs DEF YieldAtCheckpoint
<1>2. r \in Runs /\ ~Waits(World, r) /\ x # NoExec
  BY <1>1, UnderWay, ExecsAreOfRuns
<1>3. w.mem.resumeWaiters[r] = NoExec
  BY <1>1, <1>2, WorldIs DEF Waits, SameMem
<1>4. WakeWaiter(w, r) = w
  BY <1>3 DEF WakeWaiter
<1>5. w.mem \in Mems /\ w.exec \in [Execs -> Executions] /\ w.exec[x] \in Executions
  BY <1>1 DEF Worlds
<1>6. [w EXCEPT !.mem.resumeWaiters[r] = x, !.exec[x].released = FALSE,
                !.exec[x].pc = "yielding"] = v
  BY <1>1, <1>5 DEF Turn, Put, Yields, Worlds
<1>7. Become(Await(u, x))
  <2>1. Become(Await(SetStatus([WakeWaiter(w, r) EXCEPT
                 !.mem.resumeWaiters[r] = x, !.exec[x].released = FALSE,
                 !.exec[x].pc = "yielding"], r, {"running"}, "paused"), x))
    BY DEF YieldAtCheckpoint
  <2> HIDE DEF w, v
  <2> QED
    BY <2>1, <1>4, <1>6
<1>8. f \in [Runs -> Execs \cup {NoExec}] /\ f[r] = x /\ \A q \in Runs \ {r} : f[q] = w.mem.resumeWaiters[q]
  BY <1>2, <1>5 DEF Mems, Put
<1>9. e \in Executions /\ e.pc = "yielding" /\ e.released = FALSE
  BY <1>5 DEF Executions, ExecStates, Yields
<1> HIDE DEF w
<1>10. /\ Shares(w.mem, l) /\ l.resumeWaiters = f /\ l.slotOwners = w.mem.slotOwners
       /\ l.slots = w.mem.slots /\ l.semWaiters = w.mem.semWaiters
  BY <1>5, <1>8 DEF Shares, Mems
<1>11. fresh \in BOOLEAN
  OBVIOUS
<1> HIDE DEF e, l, v, u, C, fresh
<1>12. Fits(w, C, fresh, MaxParallelRuns)
  BY <1>1 DEF Now, C, fresh
<1>13. Fits(v, C, fresh, MaxParallelRuns)
  BY <1>1, <1>9, <1>10, <1>11, <1>12, YieldFits DEF v, f
<1>14. Onward(w, v, {}) /\ Steady(w, v)
  BY <1>1, <1>2, <1>8, <1>9, <1>10, TurnGoesOn DEF v
<1>15. "paused" \in Statuses \ (Terminal \cup {"absent"}) /\ "running" \notin Terminal \cup {"absent"}
  BY DEF Statuses, Terminal
<1>16. Fits(u, C, fresh, MaxParallelRuns) /\ Onward(v, u, {}) /\ Steady(v, u)
  BY <1>2, <1>11, <1>13, <1>15, StatusGoesOn DEF u
<1>17. Fits(Await(u, x), C, fresh, MaxParallelRuns) /\ Onward(u, Await(u, x), {}) /\ Steady(u, Await(u, x))
  BY <1>11, <1>16, AwaitGoesOn
<1>18. Onward(World, Await(u, x), (({} \cup {}) \cup {}) \cup {})
  BY <1>1, <1>14, <1>16, <1>17, OnwardTwice
<1>19. Steady(World, Await(u, x))
  BY <1>1, <1>14, <1>16, <1>17, SteadyTwice
<1>20. Now(Await(u, x))
  BY <1>17 DEF Now, C, fresh
<1>21. Kept /\ World' = Await(u, x)
  BY <1>7, <1>18, <1>20, KeptIs
<1> QED
  BY <1>19, <1>21

\* Its state once it works again.
Works(e, turn) == [e EXCEPT !.pc = "working", !.turns = @ + turn]

\* An execution that goes (back) to work.
LEMMA WorksAgain ==
    ASSUME NEW w, NEW C, NEW fresh \in BOOLEAN, NEW n, Fits(w, C, fresh, n),
           NEW x \in Execs, w.exec[x].pc \in {"marking", "working", "resuming"},
           NEW turn \in {0, 1}, w.exec[x].turns + turn \in 0..MaxTurns
    PROVE  /\ Fits([GoTo(w, x, "working") EXCEPT !.exec[x].turns = @ + turn], C, fresh, n)
           /\ Onward(w, [GoTo(w, x, "working") EXCEPT !.exec[x].turns = @ + turn], {})
<1> DEFINE e == Works(w.exec[x], turn)
           v == Turn(w, x, e, w.mem)
<1>1. w \in Worlds /\ w.mem \in Mems /\ w.exec \in [Execs -> Executions] /\ w.exec[x] \in Executions
  BY DEF Fits, Worlds
<1>2. [GoTo(w, x, "working") EXCEPT !.exec[x].turns = @ + turn] = v
  BY <1>1 DEF GoTo, Turn, Put, Works, Worlds, Executions
<1>3. e \in Executions /\ e.pc = "working" /\ e.released = w.exec[x].released
  BY <1>1 DEF Executions, ExecStates, Works
<1>4. Shares(w.mem, w.mem)
  BY <1>1 DEF Shares
<1> HIDE DEF e
<1>5. Fits(v, C, fresh, n)
  BY <1>3, <1>4, WorkFits
<1>6. Onward(w, v, {})
  BY <1>1, <1>3, <1>4, TurnGoesOn
<1> QED
  BY <1>2, <1>5, <1>6

LEMMA PassCheckpointKeeps ==
    ASSUME IInv, NEW x \in Execs, PassCheckpoint(x)
    PROVE  Kept
<1> DEFINE w == Arrived(x)
           turn == IF exec[x].pc = "working" THEN 1 ELSE 0
           v == [GoTo(w, x, "working") EXCEPT !.exec[x].turns = @ + turn]
<1>1. /\ Now(w) /\ w \in Worlds /\ Onward(World, w, {})
      /\ w.exec = exec /\ exec[x].pc \in {"marking", "working"}
  BY ArrivedIs DEF PassCheckpoint
<1>2. Become(v)
  BY DEF PassCheckpoint
<1>3. exec[x] \in Executions
  BY NowIs
<1>4. turn \in {0, 1} /\ exec[x].turns + turn \in 0..MaxTurns
  <2>1. exec[x].turns \in 0..MaxTurns /\ (exec[x].pc = "working" => exec[x].turns < MaxTurns)
    BY <1>3 DEF Executions, PassCheckpoint, AtCheckpoint
  <2> QED
    BY <2>1, BoundsAssumption
<1> HIDE DEF w, turn
<1>5. Fits(v, Created(call), crashes = 0, MaxParallelRuns) /\ Onward(w, v, {})
  BY <1>1, <1>4, WorksAgain DEF Now
<1> HIDE DEF v
<1>6. Onward(World, v, {} \cup {})
  BY <1>1, <1>5, OnwardTwice
<1> QED
  BY <1>2, <1>5, <1>6, KeptIs DEF Now

LEMMA ReleaseGoesOn ==
    ASSUME NEW w, NEW C, NEW fresh \in BOOLEAN, NEW n, Fits(w, C, fresh, n)
    PROVE  /\ Fits(Release(w), C, fresh, n + 1)
           /\ Onward(w, Release(w), {}) /\ Steady(w, Release(w))
<1>1. w \in Worlds /\ w.exec \in [Execs -> Executions] /\ w.mem.semWaiters \in Seq(Execs)
  BY DEF Fits, Worlds, Mems
<1>2. /\ Fits(Release(w), C, fresh, n + 1)
      /\ Release(w).mem.closed = w.mem.closed /\ Release(w).mem.recovered = w.mem.recovered
      /\ Release(w).mem.resumeWaiters = w.mem.resumeWaiters /\ Release(w).db = w.db
  BY ReleaseFits
<1>3. Onward(w, Release(w), {})
  BY <1>2 DEF Onward, St, Waits
<1>4. Steady(w, Release(w))
  <2>1. CASE w.mem.semWaiters = <<>>
    <3>1. Release(w).exec = w.exec
      BY <1>1, <2>1 DEF Release, Worlds
    <3> QED
      BY <3>1 DEF Steady
  <2>2. CASE w.mem.semWaiters # <<>>
    <3> DEFINE h == Head(w.mem.semWaiters)
    <3>1. h \in Execs
      BY <1>1, <2>2
    <3> HIDE DEF h
    <3>2. Release(w) = [GoTo(w, h, "granted") EXCEPT !.mem.semWaiters = Tail(@)]
      BY <2>2 DEF Release, h
    <3>3. GoTo(w, h, "granted").exec = Put(w.exec, h, Stand(w.exec[h], "granted"))
          /\ GoTo(w, h, "granted") \in Worlds
      BY <1>1, <3>1, GoToIs DEF ExecStates
    <3>4. Release(w).exec = Put(w.exec, h, Stand(w.exec[h], "granted"))
      BY <3>2, <3>3 DEF Worlds
    <3>5. Stand(w.exec[h], "granted").pc = "granted"
      BY <1>1, <3>1, StandIs DEF ExecStates
    <3>6. \A y \in Execs : Release(w).exec[y] = IF y = h THEN Stand(w.exec[h], "granted") ELSE w.exec[y]
      BY <1>1, <3>4 DEF Put
    <3> QED
      BY <3>5, <3>6 DEF Steady
  <2> QED
    BY <2>1, <2>2
<1> QED
  BY <1>2, <1>3, <1>4

LEMMA GiveUpSlotKeeps ==
    ASSUME IInv, NEW x \in Execs, GiveUpSlot(x)
    PROVE  Kept /\ Steady(World, World')
<1> DEFINE a == AfterWrite
           r == RunOf(x)
           e == Stand(a.exec[x], "parked")
           o == a.mem.slotOwners \ {r}
           l == [a.mem EXCEPT !.slotOwners = o]
           w == Turn(a, x, e, l)
           C == Created(call)
           fresh == crashes = 0
<1>1. Served(x) /\ exec[x].pc = "yielding" /\ fresh \in BOOLEAN /\ r \in Runs
  BY ExecsAreOfRuns DEF GiveUpSlot
<1>2. Fits(World, C, fresh, MaxParallelRuns) /\ MaxParallelRuns \in Nat
  BY NowIs DEF Now
<1> HIDE DEF C, fresh
<1>3. /\ Fits(a, C, fresh, MaxParallelRuns) /\ Onward(World, a, {}) /\ Steady(World, a)
      /\ a \in Worlds /\ a.exec = exec
  BY <1>1, <1>2, ServedGoesOn
<1>4. a.mem \in Mems /\ a.exec \in [Execs -> Executions] /\ a.exec[x] \in Executions
  BY <1>3 DEF Worlds
<1>5. [GoTo(a, x, "parked") EXCEPT !.mem.slotOwners = @ \ {r}] = w
  BY <1>3, <1>4 DEF GoTo, Turn, Put, Stand, Worlds
<1>6. Become(Pump(Release(w)))
  <2>1. Become(Pump(Release([GoTo(AfterWrite, x, "parked") EXCEPT !.mem.slotOwners = @ \ {RunOf(x)}])))
    BY DEF GiveUpSlot
  <2> HIDE DEF w
  <2> QED
    BY <2>1, <1>5 DEF a, r
<1> HIDE DEF a
<1>7. e \in Executions /\ e.pc = "parked" /\ e.released = a.exec[x].released
  BY <1>4, StandIs DEF ExecStates
<1>8. o \in SUBSET Runs
  BY <1>4 DEF Mems
<1> HIDE DEF o
<1>9. /\ Shares(a.mem, l) /\ l.semWaiters = a.mem.semWaiters /\ l.slotOwners = o
      /\ l.slots = a.mem.slots /\ l.resumeWaiters = a.mem.resumeWaiters
  BY <1>4, <1>8 DEF Shares, Mems
<1> HIDE DEF l, e
<1>10. Fits(w, C, fresh, MaxParallelRuns - 1)
  BY <1>1, <1>3, <1>7, <1>9, ParkFits DEF o
<1>11. Onward(a, w, {}) /\ Steady(a, w)
  BY <1>1, <1>3, <1>7, <1>9, TurnGoesOn
<1> HIDE DEF w
<1>12. /\ Fits(Release(w), C, fresh, (MaxParallelRuns - 1) + 1)
       /\ Onward(w, Release(w), {}) /\ Steady(w, Release(w))
  BY <1>1, <1>10, ReleaseGoesOn
<1>13. Fits(Release(w), C, fresh, MaxParallelRuns)
  BY <1>2, <1>12
<1>14. /\ Fits(Pump(Release(w)), C, fresh, MaxParallelRuns)
       /\ Onward(Release(w), Pump(Release(w)), {}) /\ Steady(Release(w), Pump(Release(w)))
  BY <1>1, <1>13, PumpFits
<1>15. Onward(World, Pump(Release(w)), (({} \cup {}) \cup {}) \cup {})
  BY <1>3, <1>11, <1>12, <1>14, OnwardTwice
<1>16. Steady(World, Pump(Release(w)))
  BY <1>3, <1>11, <1>12, <1>14, SteadyTwice
<1>17. Now(Pump(Release(w)))
  BY <1>14 DEF Now, C, fresh
<1>18. Kept /\ World' = Pump(Release(w))
  BY <1>6, <1>15, <1>17, KeptIs
<1> QED
  BY <1>16, <1>18

\* An execution that stops where it stands.
LEMMA StopsHere ==
    ASSUME IInv, NEW w, Now(w), Onward(World, w, {}), Steady(World, w), w.exec = exec,
           SameMem(mem, w.mem), NEW x \in Execs, Become(Abort(w, x)), Stopping(RunOf(x)),
           exec[x].pc \in {"marking", "working", "parked", "denied", "resuming"},
           exec[x].pc = "parked" => exec[x].released
    PROVE  Kept /\ Steady(World, World')
<1>1. RunOf(x) \in w.mem.cancelled \/ w.mem.closed
  BY DEF Stopping, SameMem
<1>2. Weight(w.exec[x]) = 0
  BY DEF Weight
<1>3. /\ Fits(Abort(w, x), Created(call), crashes = 0, MaxParallelRuns - 0)
      /\ Onward(w, Abort(w, x), {}) /\ Steady(w, Abort(w, x))
  BY <1>1, <1>2, NowIs, AbortGoesOn DEF Now
<1>4. Now(Abort(w, x))
  BY <1>3, NowIs DEF Now
<1>5. Onward(World, Abort(w, x), {} \cup {}) /\ Steady(World, Abort(w, x))
  BY <1>3, OnwardTwice, SteadyTwice
<1>6. Kept /\ World' = Abort(w, x)
  BY <1>4, <1>5, KeptIs
<1> QED
  BY <1>5, <1>6

LEMMA WorldItself ==
    ASSUME IInv
    PROVE  /\ Now(World) /\ Onward(World, World, {}) /\ Steady(World, World)
           /\ World.exec = exec /\ SameMem(mem, World.mem)
<1>1. World.mem = mem /\ World.exec = exec
  BY WorldIs
<1> QED
  BY <1>1, NowIs DEF Onward, Steady, SameMem

LEMMA StopWithoutSlotKeeps ==
    ASSUME IInv, NEW x \in Execs, StopWithoutSlot(x)
    PROVE  Kept /\ Steady(World, World')
<1>1. exec[x].pc = "denied" /\ Become(Abort(World, x))
  BY DEF StopWithoutSlot
<1>2. SlotFits(World, RunOf(x)) /\ Pc(World, RunOf(x)) = "denied"
  BY <1>1, UnderWay
<1>3. Stopping(RunOf(x))
  BY <1>2, WorldIs DEF SlotFits, Stopping
<1> QED
  BY <1>1, <1>3, WorldItself, StopsHere

LEMMA ReacquireSlotKeeps ==
    ASSUME IInv, NEW x \in Execs, ReacquireSlot(x)
    PROVE  Kept /\ Steady(World, World')
<1> DEFINE C == Created(call)
           fresh == crashes = 0
<1>1. /\ exec[x].pc = "parked" /\ exec[x].released = TRUE /\ fresh \in BOOLEAN
      /\ World \in Worlds /\ mem \in Mems /\ exec \in [Execs -> Executions] /\ exec[x] \in Executions
      /\ Fits(World, C, fresh, MaxParallelRuns)
  BY NowIs DEF ReacquireSlot, Executions, Now
<1> HIDE DEF C, fresh
<1>2. CASE Stopping(RunOf(x)) /\ Become(Abort(World, x))
  BY <1>1, <1>2, WorldItself, StopsHere
<1>3. CASE mem.slots > 0 /\ Become([GoTo(World, x, "granted") EXCEPT !.mem.slots = @ - 1])
  <2> DEFINE e == Stand(exec[x], "granted")
             s == mem.slots - 1
             l == [mem EXCEPT !.slots = s]
             v == Turn(World, x, e, l)
  <2>1. [GoTo(World, x, "granted") EXCEPT !.mem.slots = @ - 1] = v
    BY <1>1 DEF GoTo, Turn, Put, Stand, World
  <2>2. e \in Executions /\ e.pc = "granted" /\ e.released = exec[x].released
    BY <1>1, StandIs DEF ExecStates
  <2>3. s \in Nat
    BY <1>1, <1>3 DEF Mems
  <2> HIDE DEF s
  <2>4. /\ Shares(mem, l) /\ l.semWaiters = mem.semWaiters /\ l.slotOwners = mem.slotOwners
        /\ l.slots = s /\ l.resumeWaiters = mem.resumeWaiters
    BY <1>1, <2>3 DEF Shares, Mems
  <2> HIDE DEF l, e
  <2>5. Fits(v, C, fresh, MaxParallelRuns)
    BY <1>1, <2>2, <2>4, WorldIs, GrantFits DEF s
  <2>6. Onward(World, v, {}) /\ Steady(World, v)
    BY <1>1, <2>2, <2>4, WorldIs, TurnGoesOn
  <2>7. Become(v)
    BY <1>3, <2>1
  <2> HIDE DEF v
  <2>8. Kept /\ World' = v
    BY <2>5, <2>6, <2>7, KeptIs DEF Now, C, fresh
  <2> QED
    BY <2>6, <2>8
<1>4. CASE Become([GoTo(World, x, "acquiring") EXCEPT !.mem.semWaiters = Append(@, x)])
  <2> DEFINE e == Stand(exec[x], "acquiring")
             s == Append(mem.semWaiters, x)
             l == [mem EXCEPT !.semWaiters = s]
             v == Turn(World, x, e, l)
  <2>1. [GoTo(World, x, "acquiring") EXCEPT !.mem.semWaiters = Append(@, x)] = v
    BY <1>1 DEF GoTo, Turn, Put, Stand, World
  <2>2. e \in Executions /\ e.pc = "acquiring" /\ e.released = exec[x].released
    BY <1>1, StandIs DEF ExecStates
  <2>3. s \in Seq(Execs)
    BY <1>1 DEF Mems
  <2> HIDE DEF s
  <2>4. /\ Shares(mem, l) /\ l.semWaiters = s /\ l.slotOwners = mem.slotOwners
        /\ l.slots = mem.slots /\ l.resumeWaiters = mem.resumeWaiters
    BY <1>1, <2>3 DEF Shares, Mems
  <2> HIDE DEF l, e
  <2>5. Fits(v, C, fresh, MaxParallelRuns)
    BY <1>1, <2>2, <2>4, WorldIs, LineUpFits DEF s
  <2>6. Onward(World, v, {}) /\ Steady(World, v)
    BY <1>1, <2>2, <2>4, WorldIs, TurnGoesOn
  <2>7. Become(v)
    BY <1>4, <2>1
  <2> HIDE DEF v
  <2>8. Kept /\ World' = v
    BY <2>5, <2>6, <2>7, KeptIs DEF Now, C, fresh
  <2> QED
    BY <2>6, <2>8
<1> QED
  BY <1>2, <1>3, <1>4 DEF ReacquireSlot

LEMMA ResumeWithSlotKeeps ==
    ASSUME IInv, NEW x \in Execs, ResumeWithSlot(x)
    PROVE  Kept /\ Steady(World, World')
<1> DEFINE C == Created(call)
           fresh == crashes = 0
           r == RunOf(x)
<1>1. /\ exec[x].pc = "granted" /\ fresh \in BOOLEAN /\ r \in Runs
      /\ World \in Worlds /\ mem \in Mems /\ exec \in [Execs -> Executions] /\ exec[x] \in Executions
      /\ Fits(World, C, fresh, MaxParallelRuns) /\ MaxParallelRuns \in Nat
  BY NowIs, ExecsAreOfRuns DEF ResumeWithSlot, Now
<1> HIDE DEF C, fresh
<1>2. CASE Stopping(r) /\ Become(Abort(Release(World), x))
  <2> DEFINE w == Release(World)
  <2>1. Fits(w, C, fresh, MaxParallelRuns + 1) /\ Onward(World, w, {}) /\ Steady(World, w)
    BY <1>1, ReleaseGoesOn
  <2>2. /\ w.mem.closed = mem.closed /\ w.mem.cancelled = mem.cancelled
        /\ w.exec[x] = exec[x]
    BY <1>1, WorldIs, ReleaseFits
  <2> HIDE DEF w
  <2>3. r \in w.mem.cancelled \/ w.mem.closed
    BY <1>2, <2>2 DEF Stopping
  <2>4. Weight(w.exec[x]) = 1 /\ MaxParallelRuns + 1 \in Int /\ (MaxParallelRuns + 1) - 1 = MaxParallelRuns
    BY <1>1, <2>2 DEF Weight
  <2>5. /\ Fits(Abort(w, x), C, fresh, (MaxParallelRuns + 1) - Weight(w.exec[x]))
        /\ Onward(w, Abort(w, x), {}) /\ Steady(w, Abort(w, x))
    BY <1>1, <2>1, <2>2, <2>3, <2>4, AbortGoesOn
  <2>6. Fits(Abort(w, x), C, fresh, MaxParallelRuns)
    BY <2>4, <2>5
  <2>7. Onward(World, Abort(w, x), {} \cup {}) /\ Steady(World, Abort(w, x))
    BY <2>1, <2>5, OnwardTwice, SteadyTwice
  <2>8. Kept /\ World' = Abort(w, x)
    BY <1>2, <2>6, <2>7, KeptIs DEF Now, C, fresh, w
  <2> QED
    BY <2>7, <2>8
<1>3. CASE Become(Await(MarkRunning([GoTo(World, x, "resuming")
                     EXCEPT !.mem.slotOwners = @ \cup {r}], r), x))
  <2> DEFINE e == Stand(exec[x], "resuming")
             o == mem.slotOwners \cup {r}
             l == [mem EXCEPT !.slotOwners = o]
             v == Turn(World, x, e, l)
             u == SetStatus(v, r, Statuses \ Terminal, "running")
  <2>1. [GoTo(World, x, "resuming") EXCEPT !.mem.slotOwners = @ \cup {r}] = v
    BY <1>1 DEF GoTo, Turn, Put, Stand, World
  <2>2. e \in Executions /\ e.pc = "resuming" /\ e.released = exec[x].released
    BY <1>1, StandIs DEF ExecStates
  <2>3. o \in SUBSET Runs
    BY <1>1 DEF Mems
  <2> HIDE DEF o
  <2>4. /\ Shares(mem, l) /\ l.semWaiters = mem.semWaiters /\ l.slotOwners = o
        /\ l.slots = mem.slots /\ l.resumeWaiters = mem.resumeWaiters /\ l \in Mems
        /\ l.executions = mem.executions
    BY <1>1, <2>3 DEF Shares, Mems
  <2> HIDE DEF l, e
  <2>5. Fits(v, C, fresh, MaxParallelRuns)
    BY <1>1, <2>2, <2>4, WorldIs, ResumeFits DEF o
  <2>6. Onward(World, v, {}) /\ Steady(World, v)
    BY <1>1, <2>2, <2>4, WorldIs, TurnGoesOn
  <2>7. Become(Await(u, x))
    BY <1>3, <2>1 DEF MarkRunning
  <2>8. Pc(v, r) = "resuming" /\ St(v, r) = St(World, r) /\ St(World, r) # "absent"
    <3>1. exec[x].pc # "none" /\ World.exec[x].pc # "none" /\ World.mem.executions = l.executions
      BY <1>1, <2>4, WorldIs
    <3>2. Pc(v, r) = "resuming" /\ St(v, r) = St(World, r)
      BY <1>1, <2>2, <2>4, <3>1, TurnViews
    <3> QED
      BY <3>1, <3>2, UnderWay
  <2> HIDE DEF v, u
  <2>9. "running" \in Statuses \ (Terminal \cup {"absent"})
    BY DEF Statuses, Terminal
  <2>10. Fits(u, C, fresh, MaxParallelRuns) /\ Onward(v, u, {}) /\ Steady(v, u)
    BY <1>1, <2>5, <2>8, <2>9, StatusGoesOn DEF u
  <2>11. /\ Fits(Await(u, x), C, fresh, MaxParallelRuns)
         /\ Onward(u, Await(u, x), {}) /\ Steady(u, Await(u, x))
    BY <1>1, <2>10, AwaitGoesOn
  <2>12. Onward(World, Await(u, x), ({} \cup {}) \cup {}) /\ Steady(World, Await(u, x))
    BY <2>6, <2>10, <2>11, OnwardTwice, SteadyTwice
  <2>13. Kept /\ World' = Await(u, x)
    BY <2>7, <2>11, <2>12, KeptIs DEF Now, C, fresh
  <2> QED
    BY <2>12, <2>13
<1> QED
  BY <1>2, <1>3 DEF ResumeWithSlot

LEMMA LeavePauseKeeps ==
    ASSUME IInv, NEW x \in Execs, LeavePause(x)
    PROVE  Kept
<1> DEFINE w == AfterWrite
<1>1. Served(x) /\ exec[x].pc = "resuming" /\ World \in Worlds /\ exec[x] \in Executions
  BY NowIs DEF LeavePause
<1>2. /\ Now(w) /\ Onward(World, w, {}) /\ Steady(World, w) /\ w.exec = exec /\ SameMem(mem, w.mem)
      /\ w \in Worlds
  BY <1>1, NowIs, ServedGoesOn DEF Now
<1> HIDE DEF w
<1>3. CASE Stopping(RunOf(x)) /\ Become(Abort(w, x))
  BY <1>1, <1>2, <1>3, StopsHere
<1>4. CASE Become(GoTo(w, x, "working"))
  <2> DEFINE e == Stand(exec[x], "working")
             v == Turn(w, x, e, w.mem)
  <2>1. GoTo(w, x, "working") = v /\ Shares(w.mem, w.mem)
    BY <1>2 DEF GoTo, Turn, Put, Stand, Worlds, Shares
  <2>2. e \in Executions /\ e.pc = "working" /\ e.released = exec[x].released
    BY <1>1, StandIs DEF ExecStates
  <2> HIDE DEF e
  <2>3. Fits(v, Created(call), crashes = 0, MaxParallelRuns)
    BY <1>1, <1>2, <2>1, <2>2, NowIs, WorkFits DEF Now
  <2>4. Onward(w, v, {})
    BY <1>2, <2>1, <2>2, TurnGoesOn
  <2> HIDE DEF v
  <2>5. Onward(World, v, {} \cup {})
    BY <1>2, <2>4, OnwardTwice
  <2> QED
    BY <1>4, <2>1, <2>3, <2>5, KeptIs DEF Now
<1> QED
  BY <1>3, <1>4 DEF LeavePause, w

LEMMA MovedGoesOn ==
    ASSUME NEW w \in Worlds, NEW v, NEW x \in Execs, NEW row, NEW e, NEW l,
           Moved(w, v, x, row, e, l), row.status # "absent", e.pc # "working",
           l.closed = w.mem.closed, l.recovered = w.mem.recovered,
           l.resumeWaiters = w.mem.resumeWaiters
    PROVE  Onward(w, v, {}) /\ Steady(w, v)
<1>1. w.exec \in [Execs -> Executions] /\ w.db \in [Runs -> Rows] /\ RunOf(x) \in Runs
  BY ExecsAreOfRuns DEF Worlds
<1>2. \A y \in Execs : v.exec[y] = IF y = x THEN e ELSE w.exec[y]
  BY <1>1 DEF Moved, Put
<1>3. \A q \in Runs : v.db[q] = IF q = RunOf(x) THEN row ELSE w.db[q]
  BY <1>1 DEF Moved, Put
<1> QED
  BY <1>2, <1>3 DEF Moved, Onward, Steady, St, Waits

LEMMA SettleKeeps ==
    ASSUME IInv, NEW x \in Execs, NEW outcome \in {"done", "failed"}, Settle(x, outcome)
    PROVE  Kept /\ Steady(World, World')
<1> DEFINE C == Created(call)
           fresh == crashes = 0
           r == RunOf(x)
           row == [db[r] EXCEPT !.status = outcome, !.pauseReq = 0, !.finishedAt = "set"]
           e == Stand(exec[x], "settling")
           p == mem.pauseRequested \ {r}
           l == [mem EXCEPT !.pauseRequested = p]
           w == [GoTo(World, x, "settling") EXCEPT !.mem.pauseRequested = @ \ {r}]
           v == [db |-> Put(db, r, row), mem |-> l, exec |-> Put(exec, x, e)]
<1>1. /\ exec[x].pc = "working" /\ fresh \in BOOLEAN /\ r \in Runs
      /\ World \in Worlds /\ mem \in Mems /\ exec \in [Execs -> Executions] /\ exec[x] \in Executions
      /\ db \in [Runs -> Rows]
      /\ Fits(World, C, fresh, MaxParallelRuns) /\ MaxParallelRuns \in Nat
  BY NowIs, ExecsAreOfRuns DEF Settle, Now
<1>2. CASE Stopping(r)
  <2>1. Become(Abort(World, x))
    BY <1>2 DEF Settle
  <2> QED
    BY <1>1, <1>2, <2>1, WorldItself, StopsHere
<1>3. CASE ~Stopping(r)
  <2>1. Become(Await(Write(w, r, Statuses \ {"cancelled"}, row), x))
    BY <1>3 DEF Settle
  <2>2. db[r].status # "cancelled"
    <3>1. RowFits(World, C, r) /\ Pc(World, r) = "working"
      BY <1>1, UnderWay
    <3> QED
      BY <1>3, <3>1, WorldIs DEF RowFits, Stopping, St
  <2>3. w.db = db /\ Write(w, r, Statuses \ {"cancelled"}, row) = v
    <3> DEFINE g == GoTo(World, x, "settling")
    <3>3. g = [db |-> db, mem |-> mem, exec |-> Put(exec, x, e)]
      BY <1>1 DEF World, GoTo, Put, Stand
    <3>1. w = [db |-> db, mem |-> l, exec |-> Put(exec, x, e)]
      <4> HIDE DEF g, e
      <4> QED
        BY <3>3 DEF g
    <3>2. db[r].status \in Statuses \ {"cancelled"}
      BY <1>1, <2>2 DEF Rows
    <3> HIDE DEF row, l, e, w
    <3> QED
      BY <3>1, <3>2 DEF Write, Put
  <2>4. row \in Rows /\ row.status = outcome /\ row.audits = Audits(World, r)
    BY <1>1, WorldIs, ZenonT(60) DEF Rows, Statuses, Audits
  <2>5. e \in Executions /\ e.pc = "settling"
    BY <1>1, StandIs DEF ExecStates
  <2>6. p \in SUBSET Runs
    BY <1>1 DEF Mems
  <2> HIDE DEF p
  <2>7. /\ l \in Mems /\ SameMem(mem, l)
    BY <1>1, <2>6 DEF SameMem, Mems
  <2>8. Put(db, r, row) \in [Runs -> Rows] /\ Put(exec, x, e) \in [Execs -> Executions]
    BY <1>1, <2>4, <2>5 DEF Put
  <2> HIDE DEF w, row, e, l, C, fresh
  <2>9. v \in Worlds /\ v.mem = l /\ Moved(World, v, x, row, e, l)
    BY <2>7, <2>8, WorldIs DEF Worlds, Moved
  <2> HIDE DEF v
  <2>10. Fits(v, C, fresh, MaxParallelRuns)
    BY <1>1, <2>4, <2>5, <2>7, <2>9, WorldIs, SettleFits
  <2>11. Onward(World, v, {}) /\ Steady(World, v)
    BY <1>1, <2>4, <2>5, <2>7, <2>9, WorldIs, MovedGoesOn DEF SameMem
  <2>12. /\ Fits(Await(v, x), C, fresh, MaxParallelRuns)
         /\ Onward(v, Await(v, x), {}) /\ Steady(v, Await(v, x))
    BY <1>1, <2>10, AwaitGoesOn
  <2>13. Onward(World, Await(v, x), {} \cup {}) /\ Steady(World, Await(v, x))
    BY <2>11, <2>12, OnwardTwice, SteadyTwice
  <2>14. Kept /\ World' = Await(v, x)
    BY <2>1, <2>3, <2>12, <2>13, KeptIs DEF Now, C, fresh
  <2> QED
    BY <2>13, <2>14
<1> QED
  BY <1>2, <1>3

LEMMA WriteCompletionAuditKeeps ==
    ASSUME IInv, NEW x \in Execs, WriteCompletionAudit(x)
    PROVE  Kept /\ Steady(World, World')
<1> DEFINE C == Created(call)
           fresh == crashes = 0
           r == RunOf(x)
           a == AfterWrite
           row == [db[r] EXCEPT !.audits = @ + 1]
           e == Stand(exec[x], "auditing")
           v == [db |-> Put(db, r, row), mem |-> a.mem, exec |-> Put(exec, x, e)]
<1>1. /\ exec[x].pc \in {"settling", "aborting"} /\ fresh \in BOOLEAN /\ r \in Runs
      /\ World \in Worlds /\ mem \in Mems /\ exec \in [Execs -> Executions] /\ exec[x] \in Executions
      /\ db \in [Runs -> Rows] /\ Served(x)
      /\ Fits(World, C, fresh, MaxParallelRuns) /\ MaxParallelRuns \in Nat
  BY NowIs, ExecsAreOfRuns DEF WriteCompletionAudit, Now
<1>2. /\ Fits(a, C, fresh, MaxParallelRuns) /\ Onward(World, a, {}) /\ Steady(World, a)
      /\ a \in Worlds /\ a.exec = exec /\ a.db = db /\ SameMem(mem, a.mem)
  BY <1>1, ServedGoesOn
<1>3. Become(Await([GoTo(a, x, "auditing") EXCEPT !.db[r].audits = @ + 1], x))
  BY DEF WriteCompletionAudit
<1> HIDE DEF a
<1>4. [GoTo(a, x, "auditing") EXCEPT !.db[r].audits = @ + 1] = v
  <2> DEFINE g == GoTo(a, x, "auditing")
  <2>1. g = [db |-> db, mem |-> a.mem, exec |-> Put(exec, x, e)]
    BY <1>1, <1>2 DEF GoTo, Put, Stand, Worlds
  <2> HIDE DEF g, e
  <2>2. [g EXCEPT !.db[r].audits = @ + 1] = v
    BY <2>1 DEF Put
  <2> QED
    BY <2>2 DEF g
<1>5. row \in Rows /\ row.status = db[r].status /\ row.audits = db[r].audits + 1
  BY <1>1 DEF Rows
<1>6. e \in Executions /\ e.pc = "auditing"
  BY <1>1, StandIs DEF ExecStates
<1>7. Put(db, r, row) \in [Runs -> Rows] /\ Put(exec, x, e) \in [Execs -> Executions]
      /\ a.mem \in Mems
  BY <1>1, <1>2, <1>5, <1>6 DEF Put, Worlds
<1>8. row.status # "absent"
  BY <1>1, <1>5, UnderWay, WorldIs DEF St
<1> HIDE DEF row, e, C, fresh
<1>9. v \in Worlds /\ v.mem = a.mem /\ Moved(a, v, x, row, e, a.mem)
  BY <1>2, <1>7 DEF Worlds, Moved
<1> HIDE DEF v
<1>10. Fits(v, C, fresh, MaxParallelRuns)
  <2>1. SameMem(a.mem, v.mem) /\ Moved(a, v, x, row, e, v.mem)
    BY <1>9 DEF SameMem
  <2> QED
    BY <1>1, <1>2, <1>5, <1>6, <1>9, <2>1, AuditedFits
<1>11. Onward(a, v, {}) /\ Steady(a, v)
  BY <1>2, <1>6, <1>8, <1>9, MovedGoesOn
<1>12. /\ Fits(Await(v, x), C, fresh, MaxParallelRuns)
       /\ Onward(v, Await(v, x), {}) /\ Steady(v, Await(v, x))
  BY <1>1, <1>10, AwaitGoesOn
<1>13. Onward(World, Await(v, x), ({} \cup {}) \cup {}) /\ Steady(World, Await(v, x))
  BY <1>2, <1>11, <1>12, OnwardTwice, SteadyTwice
<1>14. Kept /\ World' = Await(v, x)
  BY <1>3, <1>4, <1>12, <1>13, KeptIs DEF Now, C, fresh
<1> QED
  BY <1>13, <1>14

LEMMA FinalizeKeeps ==
    ASSUME IInv, NEW x \in Execs, Finalize(x)
    PROVE  Kept /\ Steady(World, World')
<1> DEFINE C == Created(call)
           fresh == crashes = 0
           r == RunOf(x)
           a == AfterWrite
           v == Forget(x)
           e == Stand(exec[x], "none")
           u == IF r \in mem.slotOwners THEN Release(v) ELSE v
<1>1. /\ exec[x].pc = "auditing" /\ fresh \in BOOLEAN /\ r \in Runs
      /\ World \in Worlds /\ mem \in Mems /\ exec \in [Execs -> Executions] /\ exec[x] \in Executions
      /\ db \in [Runs -> Rows] /\ Served(x)
      /\ Fits(World, C, fresh, MaxParallelRuns) /\ MaxParallelRuns \in Nat
  BY NowIs, ExecsAreOfRuns DEF Finalize, Now
<1>2. /\ Fits(a, C, fresh, MaxParallelRuns) /\ Onward(World, a, {}) /\ Steady(World, a)
      /\ a \in Worlds /\ a.exec = exec /\ a.db = db /\ SameMem(mem, a.mem) /\ a.mem \in Mems
  BY <1>1, ServedGoesOn DEF Worlds
<1>3. Become(Pump(u))
  BY DEF Finalize
<1>4. v = [GoTo(a, x, "none") EXCEPT !.mem.executions[r] = NoExec,
                                     !.mem.cancelled = @ \ {r},
                                     !.mem.pauseRequested = @ \ {r},
                                     !.mem.specs = @ \ {r},
                                     !.mem.slotOwners = @ \ {r}]
  BY DEF Forget
<1> HIDE DEF a, v
<1>5. e \in Executions /\ e.pc = "none"
  BY <1>1, StandIs DEF ExecStates
<1>6. v.db = a.db /\ v.exec = Put(a.exec, x, e)
  BY <1>2, <1>4 DEF GoTo, Put, Stand, Worlds, Mems
<1>mem. /\ v.mem = [a.mem EXCEPT !.executions = Put(@, r, NoExec),
                               !.cancelled = @ \ {r}, !.pauseRequested = @ \ {r},
                               !.specs = @ \ {r}, !.slotOwners = @ \ {r}]
      /\ v = [db |-> v.db, mem |-> v.mem, exec |-> v.exec]
  BY <1>2, <1>4 DEF GoTo, Put, Stand, Worlds, Mems
<1>7. /\ v.mem.executions = Put(a.mem.executions, r, NoExec)
      /\ v.mem.cancelled = a.mem.cancelled \ {r} /\ v.mem.specs = a.mem.specs \ {r}
      /\ v.mem.slotOwners = a.mem.slotOwners \ {r}
      /\ v.mem.queued = a.mem.queued /\ v.mem.resumeWaiters = a.mem.resumeWaiters
      /\ v.mem.slots = a.mem.slots /\ v.mem.semWaiters = a.mem.semWaiters
      /\ v.mem.closed = a.mem.closed /\ v.mem.recovered = a.mem.recovered
  BY <1>2, <1>mem DEF Mems
<1>8. v \in Worlds
  <2>1. Put(a.exec, x, e) \in [Execs -> Executions] /\ a.db \in [Runs -> Rows]
    BY <1>1, <1>2, <1>5 DEF Put
  <2>2. v.mem \in Mems
    <3> DEFINE f == Put(a.mem.executions, r, NoExec)
               g == a.mem.cancelled \ {r}
               h == a.mem.pauseRequested \ {r}
               i == a.mem.specs \ {r}
               j == a.mem.slotOwners \ {r}
    <3>1. f \in [Runs -> Execs \cup {NoExec}] /\ g \in SUBSET Runs /\ h \in SUBSET Runs
          /\ i \in SUBSET Runs /\ j \in SUBSET Runs
      BY <1>1, <1>2 DEF Put, Mems
    <3>2. v.mem = [a.mem EXCEPT !.executions = f, !.cancelled = g, !.pauseRequested = h,
                                !.specs = i, !.slotOwners = j]
      BY <1>mem
    <3> HIDE DEF f, g, h, i, j
    <3> QED
      BY <1>2, <3>1, <3>2 DEF Mems
  <2> QED
    BY <1>6, <1>mem, <2>1, <2>2 DEF Worlds
<1> HIDE DEF e, C, fresh
<1>9. /\ Fits(v, C, fresh, IF r \in a.mem.slotOwners THEN MaxParallelRuns - 1 ELSE MaxParallelRuns)
      /\ Onward(a, v, {}) /\ Steady(a, v)
  <2>1. Fits(v, C, fresh, IF r \in a.mem.slotOwners THEN MaxParallelRuns - 1 ELSE MaxParallelRuns)
    BY <1>1, <1>2, <1>5, <1>6, <1>7, <1>8, ForgottenFits
  <2>2. \A y \in Execs : v.exec[y] = IF y = x THEN e ELSE a.exec[y]
    BY <1>1, <1>2, <1>6 DEF Put
  <2> QED
    BY <1>5, <1>6, <1>7, <2>1, <2>2 DEF Onward, Steady, St, Waits
<1>10. Fits(u, C, fresh, MaxParallelRuns) /\ Onward(v, u, {}) /\ Steady(v, u)
  <2>1. r \in a.mem.slotOwners <=> r \in mem.slotOwners
    BY <1>2 DEF SameMem
  <2>2. CASE r \in mem.slotOwners
    <3>1. Fits(v, C, fresh, MaxParallelRuns - 1) /\ (MaxParallelRuns - 1) + 1 = MaxParallelRuns
      BY <1>1, <1>9, <2>1, <2>2
    <3>2. /\ Fits(Release(v), C, fresh, (MaxParallelRuns - 1) + 1)
          /\ Onward(v, Release(v), {}) /\ Steady(v, Release(v))
      BY <1>1, <3>1, ReleaseGoesOn
    <3> QED
      BY <2>2, <3>1, <3>2
  <2>3. CASE r \notin mem.slotOwners
    BY <1>9, <2>1, <2>3 DEF Onward, Steady
  <2> QED
    BY <2>2, <2>3
<1> HIDE DEF u
<1>11. /\ Fits(Pump(u), C, fresh, MaxParallelRuns)
       /\ Onward(u, Pump(u), {}) /\ Steady(u, Pump(u))
  BY <1>1, <1>10, PumpFits
<1>12. Onward(World, Pump(u), (({} \cup {}) \cup {}) \cup {}) /\ Steady(World, Pump(u))
  BY <1>2, <1>9, <1>10, <1>11, OnwardTwice, SteadyTwice
<1>13. Kept /\ World' = Pump(u)
  BY <1>3, <1>11, <1>12, KeptIs DEF Now, C, fresh
<1> QED
  BY <1>12, <1>13

-----------------------------------------------------------------------------
(* The calls, when none of them moves.                                     *)

LEMMA CallsStay ==
    ASSUME NEW w, NEW v, NEW k, CallsFit(w, k),
           w.mem.closed => v.mem.closed, w.mem.recovered => v.mem.recovered,
           \A r \in Runs : /\ St(w, r) # "absent" => St(v, r) # "absent"
                           /\ Waits(w, r) => v.mem.closed \/ Waits(v, r)
    PROVE  CallsFit(v, k)
<1> SUFFICES ASSUME NEW c \in Calls, Open(k[c])
             PROVE  CallFits(v, k, c)
  BY DEF CallsFit
<1>1. CallFits(w, k, c) /\ k[c].runs \in SUBSET Runs
  BY DEF CallsFit, ClientCalls
<1>2. k[c].op = "close" => v.mem.closed /\ (k[c].runs # {} => v.mem.recovered)
  BY <1>1 DEF CallFits
<1>3. k[c].op # "close" => v.mem.recovered /\ \E r \in Runs : k[c].runs = {r} /\ St(v, r) # "absent"
  BY <1>1 DEF CallFits
<1>4. k[c].op = "resume" /\ ~v.mem.closed =>
         /\ k[c].pc \in {"read", "cleared"}
         /\ \A r \in k[c].runs : Waits(v, r) /\ \A d \in Calls : On(k[d], r) => d = c
  BY <1>1 DEF CallFits
<1> QED
  BY <1>1, <1>2, <1>3, <1>4 DEF CallFits

LEMMA ExecutionKeeps ==
    ASSUME IInv, Kept, call' = call, crashes' = crashes
    PROVE  IInv'
<1>1. CallsFit(World, call) /\ Careful /\ crashes \in 0..MaxCrashes
  BY DEF IInv
<1>2. Now(World') /\ Onward(World, World', {})
  BY DEF Kept
<1>3. CallsFit(World', call)
  BY <1>1, <1>2, CallsStay DEF Onward
<1>4. Fits(World', Created(call'), crashes' = 0, MaxParallelRuns) /\ CallsFit(World', call')
  BY <1>2, <1>3 DEF Now
<1> QED
  BY <1>1, <1>4 DEF IInv

-----------------------------------------------------------------------------
(* The start, a restart, and recovery.                                     *)

LEMMA FreshMemIs ==
    /\ FreshMem \in Mems
    /\ FreshMem.queued = <<>> /\ ToSet(FreshMem.queued) = {} /\ FreshMem.cancelled = {} /\ FreshMem.slotOwners = {}
    /\ \A r \in Runs : FreshMem.executions[r] = NoExec /\ FreshMem.resumeWaiters[r] = NoExec
    /\ FreshMem.slots = MaxParallelRuns /\ FreshMem.semWaiters = <<>>
    /\ FreshMem.closed = FALSE /\ FreshMem.recovered = FALSE
    /\ NoExecutions \in [Execs -> Executions]
    /\ \A x \in Execs : NoExecutions[x].pc = "none"
<1>1. 0 \in 0..MaxTurns
  BY BoundsAssumption
<1>2. NoExecutions \in [Execs -> Executions] /\ \A x \in Execs : NoExecutions[x].pc = "none"
  BY <1>1 DEF NoExecutions, Executions, ExecStates
<1>3. /\ <<>> \in Seq(Runs) /\ <<>> \in Seq(Execs) /\ <<>> \in Seq(Execs \cup Calls)
      /\ {} \in SUBSET Runs
      /\ [r \in Runs |-> NoExec] \in [Runs -> Execs \cup {NoExec}]
      /\ MaxParallelRuns \in Nat
  BY MaxParallelRunsAssumption
<1>4. FreshMem \in Mems
  BY <1>3 DEF FreshMem, Mems
<1>5. ToSet(<<>>) = {}
  BY DEF ToSet
<1> QED
  BY <1>2, <1>4, <1>5 DEF FreshMem

LEMMA FreshFits ==
    ASSUME NEW w, w.mem = FreshMem, w.exec = NoExecutions, w.db \in [Runs -> Rows],
           w = [db |-> w.db, mem |-> w.mem, exec |-> w.exec],
           NEW fresh \in BOOLEAN, fresh => \A r \in Runs : St(w, r) = "absent" /\ Audits(w, r) = 0
    PROVE  Fits(w, {}, fresh, MaxParallelRuns)
<1>1. w \in Worlds
  BY FreshMemIs DEF Worlds
<1>2. ASSUME NEW r \in Runs
      PROVE  RunFits(w, {}, fresh, r)
  <2>1. /\ Current(w, r) = NoExec /\ Pc(w, r) = "none" /\ ~Waits(w, r) /\ Queued(w) = {}
        /\ r \notin w.mem.slotOwners /\ r \notin w.mem.cancelled
        /\ w.mem.recovered = FALSE /\ w.mem.closed = FALSE
    BY FreshMemIs DEF Current, Pc, Waits, Queued
  <2>2. Linked(w, r)
    BY <2>1, FreshMemIs, ExecsAreOfRuns DEF Linked
  <2>3. SlotFits(w, r)
    BY <2>1 DEF SlotFits, Holds
  <2>4. StartFits(w, {}, r)
    BY <2>1 DEF StartFits
  <2>5. RowFits(w, {}, r)
    BY <2>1 DEF RowFits
  <2>6. fresh => AuditFits(w, {}, r)
    BY <2>1 DEF AuditFits
  <2> QED
    BY <2>2, <2>3, <2>4, <2>5, <2>6 DEF RunFits
<1>3. LineFits(w)
  <2>1. DOMAIN w.mem.semWaiters = {}
    BY FreshMemIs
  <2> QED
    BY <2>1 DEF LineFits
<1>4. Slots(w) = MaxParallelRuns
  <2>1. Granted(w) = {}
    BY FreshMemIs DEF Granted
  <2>2. Cardinality({}) = 0
    BY FS_EmptySet
  <2>3. w.mem.slots = MaxParallelRuns /\ w.mem.slotOwners = {}
    BY FreshMemIs
  <2> QED
    BY <2>1, <2>2, <2>3, MaxParallelRunsAssumption DEF Slots
<1> QED
  BY <1>1, <1>2, <1>3, <1>4 DEF Fits

LEMMA InitFits ==
    ASSUME Init, Careful
    PROVE  IInv
<1>1. /\ World.mem = FreshMem /\ World.exec = NoExecutions /\ World.db = db
      /\ World = [db |-> World.db, mem |-> World.mem, exec |-> World.exec]
  BY DEF World, Init
<1>2. db \in [Runs -> Rows] /\ \A r \in Runs : St(World, r) = "absent" /\ Audits(World, r) = 0
  BY <1>1 DEF Init, Rows, Statuses, St, Audits
<1>3. \A c \in Calls : call[c].op = "none" /\ ~Open(call[c])
  BY DEF Init, Open
<1>4. Created(call) = {}
  BY <1>3 DEF Created, On
<1>5. call \in ClientCalls
  BY DEF Init, ClientCalls, CallStates, Statuses
<1>6. crashes = 0 /\ crashes \in 0..MaxCrashes
  BY BoundsAssumption DEF Init
<1>7. Fits(World, {}, crashes = 0, MaxParallelRuns)
  BY <1>1, <1>2, <1>6, FreshFits
<1>8. CallsFit(World, call)
  BY <1>3, <1>5 DEF CallsFit
<1> QED
  BY <1>4, <1>6, <1>7, <1>8 DEF IInv

LEMMA CrashKeeps ==
    ASSUME IInv, Crash
    PROVE  IInv'
<1> DEFINE w == [db |-> db, mem |-> FreshMem, exec |-> NoExecutions]
<1>1. w = [db |-> w.db, mem |-> w.mem, exec |-> w.exec]
      /\ w.mem = FreshMem /\ w.exec = NoExecutions /\ w.db = db
  OBVIOUS
<1>2. World' = w
  BY DEF World, Crash
<1> HIDE DEF w
<1>3. crashes' \in 0..MaxCrashes /\ (crashes' = 0) = FALSE /\ Careful
  BY BoundsAssumption DEF Crash, IInv
<1>4. Fits(w, {}, FALSE, MaxParallelRuns)
  BY <1>1, NowIs, FreshFits
<1>5. call \in ClientCalls
  BY DEF IInv, CallsFit
<1>6. call' \in ClientCalls /\ \A c \in Calls : ~Open(call'[c])
  <2>1. Over("lost") \in [op : Ops \cup {"none"}, runs : SUBSET Runs, pc : CallStates,
                          saw : Statuses, awaits : SUBSET Execs] /\ Over("lost").pc = "lost"
    BY DEF Over, CallStates, Statuses
  <2>2. \A c \in Calls : call'[c] = IF Open(call[c]) THEN Over("lost") ELSE call[c]
    BY DEF Crash, Pending, Open
  <2>3. call' = [c \in Calls |-> call'[c]]
    BY DEF Crash
  <2> QED
    BY <1>5, <2>1, <2>2, <2>3 DEF ClientCalls, Open
<1>7. Created(call') = {} /\ CallsFit(w, call')
  BY <1>6 DEF Created, On, CallsFit
<1>8. Fits(World', Created(call'), crashes' = 0, MaxParallelRuns) /\ CallsFit(World', call')
  BY <1>2, <1>3, <1>4, <1>7
<1> QED
  BY <1>3, <1>8 DEF IInv

LEMMA RecoverStaleRunsKeeps ==
    ASSUME IInv, RecoverStaleRuns
    PROVE  IInv' /\ Steady(World, World')
<1> DEFINE rows == [r \in Runs |-> IF db[r].status = "running"
                                   THEN [db[r] EXCEPT !.status = "paused"] ELSE db[r]]
           stale == {r \in Runs : rows[r].status = "queued"}
           C == Created(call)
           fresh == crashes = 0
<1>1. ~mem.recovered /\ World \in Worlds /\ mem \in Mems /\ db \in [Runs -> Rows]
      /\ exec \in [Execs -> Executions]
      /\ fresh \in BOOLEAN /\ Fits(World, C, fresh, MaxParallelRuns)
      /\ call' = call /\ crashes' = crashes
  BY NowIs DEF RecoverStaleRuns, Now
<1>2. PICK order \in SetToSeqs(stale) :
              Become(Pump([World EXCEPT !.db = rows,
                                        !.mem.recovered = TRUE,
                                        !.mem.specs = @ \cup stale,
                                        !.mem.queued = @ \o order]))
  BY DEF RecoverStaleRuns
<1> DEFINE specs == mem.specs \cup stale
           queued == mem.queued \o order
           l == [mem EXCEPT !.recovered = TRUE, !.specs = specs, !.queued = queued]
           v == [World EXCEPT !.db = rows, !.mem = l]
<1>3. rows \in [Runs -> Rows]
      /\ \A r \in Runs : /\ rows[r].audits = db[r].audits
                         /\ rows[r].status = IF db[r].status = "running" THEN "paused" ELSE db[r].status
  <2> SUFFICES ASSUME NEW r \in Runs
               PROVE  /\ rows[r] \in Rows /\ rows[r].audits = db[r].audits
                      /\ rows[r].status = IF db[r].status = "running" THEN "paused" ELSE db[r].status
    OBVIOUS
  <2>1. db[r] \in Rows
    BY <1>1
  <2> QED
    BY <2>1 DEF Rows, Statuses
<1> HIDE DEF rows
<1>4. order \in Seq(Runs) /\ ToSet(order) \in SUBSET stale
  <2>1. stale \in SUBSET Runs /\ IsFiniteSet(stale)
    BY RunsAssumption, FS_Subset
  <2>2. Cardinality(stale) \in Nat
    BY <2>1, FS_CardinalityType
  <2>3. order \in [1..Cardinality(stale) -> stale]
    BY DEF SetToSeqs
  <2> HIDE DEF stale
  <2>4. order \in Seq(stale) /\ DOMAIN order = 1..Cardinality(stale)
    BY <2>2, <2>3
  <2> QED
    BY <2>1, <2>3, <2>4 DEF ToSet
<1>5. ASSUME NEW r \in Runs
      PROVE  /\ Pc(World, r) = "none" /\ r \notin Queued(World) /\ r \notin C
             /\ Linked(World, r) /\ SlotFits(World, r) /\ StartFits(World, C, r) /\ RowFits(World, C, r)
             /\ fresh => AuditFits(World, C, r)
  <2>1. RunFits(World, C, fresh, r) /\ World.mem.recovered = FALSE
    BY <1>1, WorldIs DEF Fits, Mems
  <2> QED
    BY <2>1 DEF RunFits, StartFits
<1>6. queued \in Seq(Runs) /\ ToSet(queued) \in SUBSET stale
  <2>1. mem.queued \in Seq(Runs)
    BY <1>1 DEF Mems
  <2>2. ToSet(mem.queued) \in SUBSET Runs
    BY <2>1, MembersOf
  <2>3. ToSet(mem.queued) = {}
    BY <1>5, <2>2, WorldIs DEF Queued
  <2>4. queued \in Seq(Runs)
    BY <1>4, <2>1
  <2> HIDE DEF stale
  <2>5. ToSet(queued) \in SUBSET (ToSet(mem.queued) \cup ToSet(order))
    <3>1. \A i \in 1..Len(queued) : queued[i] \in ToSet(mem.queued) \cup ToSet(order)
      <4> TAKE i \in 1..Len(queued)
      <4>1. Len(queued) = Len(mem.queued) + Len(order) /\ Len(mem.queued) \in Nat /\ Len(order) \in Nat
        BY <1>4, <2>1
      <4>2. CASE i <= Len(mem.queued)
        <5>1. queued[i] = mem.queued[i] /\ i \in DOMAIN mem.queued
          BY <1>4, <2>1, <4>1, <4>2
        <5> QED
          BY <5>1 DEF ToSet
      <4>3. CASE i > Len(mem.queued)
        <5>1. /\ queued[i] = order[i - Len(mem.queued)]
              /\ i - Len(mem.queued) \in DOMAIN order
          BY <1>4, <2>1, <4>1, <4>3
        <5> QED
          BY <5>1 DEF ToSet
      <4> QED
        BY <4>1, <4>2, <4>3
    <3>2. DOMAIN queued = 1..Len(queued)
      BY <2>4
    <3> HIDE DEF queued
    <3> QED
      BY <3>1, <3>2 DEF ToSet
  <2> QED
    BY <1>4, <2>3, <2>4, <2>5
<1>7. [World EXCEPT !.db = rows, !.mem.recovered = TRUE,
                    !.mem.specs = @ \cup stale, !.mem.queued = @ \o order] = v
  <2>1. World.mem.specs \cup stale = specs /\ World.mem.queued \o order = queued
    BY WorldIs
  <2> HIDE DEF stale, specs, queued
  <2>2. [World EXCEPT !.db = rows, !.mem.recovered = TRUE,
                      !.mem.specs = specs, !.mem.queued = queued]
          = [World EXCEPT !.db = rows, !.mem = l]
    BY <1>1 DEF World, Mems
  <2> QED
    BY <2>1, <2>2
<1>8. specs \in SUBSET Runs /\ stale \in SUBSET specs
  BY <1>1 DEF Mems
<1> HIDE DEF specs, queued
<1>9. /\ l \in Mems /\ l.recovered = TRUE /\ l.specs = specs /\ l.queued = queued
      /\ l.closed = mem.closed /\ l.executions = mem.executions /\ l.resumeWaiters = mem.resumeWaiters
      /\ l.slotOwners = mem.slotOwners /\ l.slots = mem.slots /\ l.semWaiters = mem.semWaiters
      /\ l.cancelled = mem.cancelled
  BY <1>1, <1>6, <1>8 DEF Mems
<1> HIDE DEF l
<1>10. v \in Worlds /\ v.db = rows /\ v.mem = l /\ v.exec = exec
  BY <1>1, <1>3, <1>9, WorldIs DEF Worlds
<1>11. Become(Pump(v))
  <2> HIDE DEF v
  <2> QED
    BY <1>2, <1>7
<1> HIDE DEF v, C, fresh
<1>12. SameRest(World, v)
  BY <1>9, <1>10, WorldIs DEF SameRest
<1>13. /\ LineFits(v) /\ Slots(v) = MaxParallelRuns /\ Steady(World, v)
       /\ \A r \in Runs : /\ Pc(v, r) = Pc(World, r) /\ (Waits(v, r) <=> Waits(World, r))
                          /\ Linked(v, r) /\ SlotFits(v, r)
  <2>1. Fits(World, C, fresh, MaxParallelRuns) /\ fresh \in BOOLEAN /\ v \in Worlds /\ SameRest(World, v)
        /\ (World.mem.closed => v.mem.closed)
    BY <1>1, <1>9, <1>10, <1>12, WorldIs
  <2>2. LineFits(v) /\ Slots(v) = MaxParallelRuns /\ Steady(World, v)
    BY <2>1, RestIs
  <2>3. \A r \in Runs : RestOf(World, v, C, fresh, r)
    BY <2>1, RestIs
  <2> QED
    BY <2>1, <2>2, <2>3 DEF RestOf
<1>14. ASSUME NEW r \in Runs
       PROVE  RunFits(v, C, fresh, r)
  <2>1. /\ Pc(v, r) = "none" /\ r \notin C /\ Linked(v, r) /\ SlotFits(v, r)
        /\ StartFits(World, C, r) /\ RowFits(World, C, r)
        /\ fresh => AuditFits(World, C, r)
    BY <1>5, <1>13
  <2>2. /\ St(v, r) = IF St(World, r) = "running" THEN "paused" ELSE St(World, r)
        /\ Audits(v, r) = Audits(World, r)
    BY <1>3, <1>10, WorldIs DEF St, Audits
  <2>3. r \in Queued(v) => St(v, r) = "queued" /\ r \in v.mem.specs
    BY <1>6, <1>8, <1>9, <1>10 DEF Queued, St
  <2>4. v.mem.recovered = TRUE /\ World.mem.recovered = FALSE
        /\ v.mem.cancelled = World.mem.cancelled
    BY <1>1, <1>9, <1>10, WorldIs DEF Mems
  <2>5. StartFits(v, C, r)
    BY <2>1, <2>3, <2>4 DEF StartFits
  <2>6. RowFits(v, C, r)
    BY <2>1, <2>2, <2>3, <2>4 DEF RowFits, Terminal
  <2>7. fresh => AuditFits(v, C, r)
    BY <2>1, <2>2, <2>3, <2>4 DEF AuditFits
  <2> QED
    BY <2>1, <2>5, <2>6, <2>7 DEF RunFits
<1>15. Fits(v, C, fresh, MaxParallelRuns)
  BY <1>10, <1>13, <1>14 DEF Fits
<1>16. /\ Fits(Pump(v), C, fresh, MaxParallelRuns)
       /\ Onward(v, Pump(v), {}) /\ Steady(v, Pump(v))
  BY <1>1, <1>15, PumpFits
<1>17. World' = Pump(v)
  <2>1. Pump(v) \in Worlds
    BY <1>16 DEF Fits
  <2> QED
    BY <1>11, <2>1, BecomeIs
<1>18. CallsFit(Pump(v), call)
  <2>1. CallsFit(World, call) /\ World.mem.recovered = FALSE /\ v.mem.recovered = TRUE
        /\ v.mem.closed = World.mem.closed
    BY <1>1, <1>9, <1>10, WorldIs DEF IInv, Mems
  <2>2. \A r \in Runs : St(World, r) # "absent" => St(v, r) # "absent"
    BY <1>3, <1>10, WorldIs DEF St
  <2>3. CallsFit(v, call)
    BY <1>13, <2>1, <2>2, CallsStay
  <2> QED
    BY <1>16, <2>3, CallsStay DEF Onward
<1>19. Steady(World, World')
  BY <1>13, <1>16, <1>17, SteadyTwice
<1>20. Fits(World', Created(call'), crashes' = 0, MaxParallelRuns) /\ CallsFit(World', call')
  BY <1>1, <1>16, <1>17, <1>18 DEF C, fresh
<1>21. Careful /\ crashes' \in 0..MaxCrashes
  BY <1>1 DEF IInv
<1> QED
  BY <1>19, <1>20, <1>21 DEF IInv

-----------------------------------------------------------------------------
(* The calls, when one of them moves.                                      *)

CallRecords == [op : Ops \cup {"none"}, runs : SUBSET Runs, pc : CallStates,
                saw : Statuses, awaits : SUBSET Execs]

\* What a call's next state has to be, for the others to be left alone.
LeavesAlone(k, c, kc, v) ==
    Open(kc) => \A r \in kc.runs :
        \/ On(k[c], r)
        \/ v.mem.closed
        \/ \A d \in Calls \ {c} : k[d].op = "resume" => ~On(k[d], r)

LEMMA CallsGoOn ==
    ASSUME NEW w, NEW v, NEW k, CallsFit(w, k),
           w.mem.closed => v.mem.closed, w.mem.recovered => v.mem.recovered,
           NEW c \in Calls, NEW kc \in CallRecords, LeavesAlone(k, c, kc, v),
           \A r \in Runs : /\ St(w, r) # "absent" => St(v, r) # "absent"
                           /\ Waits(w, r) => v.mem.closed \/ Waits(v, r) \/ On(k[c], r),
           Open(kc) => CallFits(v, Put(k, c, kc), c)
    PROVE  CallsFit(v, Put(k, c, kc))
<1> DEFINE l == Put(k, c, kc)
<1>1. k \in ClientCalls
  BY DEF CallsFit
<1>2. l \in ClientCalls /\ l[c] = kc /\ \A d \in Calls : d # c => l[d] = k[d]
  BY <1>1 DEF ClientCalls, CallRecords, Put
<1> HIDE DEF l
<1>3. SUFFICES ASSUME NEW d \in Calls, Open(l[d])
               PROVE  CallFits(v, l, d)
  BY <1>2 DEF CallsFit, l
<1>4. CASE d = c
  BY <1>2, <1>3, <1>4 DEF l
<1>5. CASE d # c
  <2>1. CallFits(w, k, d) /\ l[d] = k[d] /\ Open(k[d]) /\ k[d].runs \in SUBSET Runs
    BY <1>1, <1>2, <1>3, <1>5 DEF CallsFit, ClientCalls
  <2>2. l[d].op = "close" => v.mem.closed /\ (l[d].runs # {} => v.mem.recovered)
    BY <2>1 DEF CallFits
  <2>3. l[d].op # "close" => v.mem.recovered /\ \E r \in Runs : l[d].runs = {r} /\ St(v, r) # "absent"
    BY <2>1 DEF CallFits
  <2>4. ASSUME l[d].op = "create"
        PROVE  /\ l[d].pc = "inserted"
               /\ \A e \in Calls : l[e].op = "create" /\ Open(l[e]) /\ l[e].runs = l[d].runs => e = d
    <3>1. l[d].pc = "inserted"
      BY <2>1, <2>4 DEF CallFits
    <3>2. ASSUME NEW e \in Calls, l[e].op = "create" /\ Open(l[e]) /\ l[e].runs = l[d].runs
          PROVE  e = d
      <4>1. CASE e # c
        BY <1>2, <2>1, <2>4, <3>2, <4>1 DEF CallFits
      <4>2. CASE e = c
        <5>1. CallFits(v, l, c) /\ l[c].op = "create"
          BY <1>2, <3>2, <4>2 DEF l
        <5>2. \A f \in Calls : l[f].op = "create" /\ Open(l[f]) /\ l[f].runs = l[c].runs => f = c
          BY <5>1 DEF CallFits
        <5> QED
          BY <1>3, <2>4, <3>2, <4>2, <5>2
      <4> QED
        BY <4>1, <4>2
    <3> QED
      BY <3>1, <3>2
  <2>5. ASSUME l[d].op = "resume", ~v.mem.closed
        PROVE  /\ l[d].pc \in {"read", "cleared"}
               /\ \A r \in l[d].runs : Waits(v, r) /\ \A e \in Calls : On(l[e], r) => e = d
    <3>1. /\ l[d].pc \in {"read", "cleared"}
          /\ \A r \in l[d].runs : Waits(w, r) /\ \A e \in Calls : On(k[e], r) => e = d
      BY <2>1, <2>5 DEF CallFits
    <3>2. ASSUME NEW r \in l[d].runs
          PROVE  Waits(v, r) /\ \A e \in Calls : On(l[e], r) => e = d
      <4>1. r \in Runs /\ On(k[d], r) /\ Waits(w, r) /\ ~On(k[c], r)
        BY <1>5, <2>1, <3>1, <3>2 DEF On
      <4>2. Waits(v, r)
        BY <2>5, <4>1
      <4>3. ~On(kc, r)
        <5> SUFFICES ASSUME On(kc, r)
                     PROVE  FALSE
          OBVIOUS
        <5>1. Open(kc) /\ r \in kc.runs
          BY DEF On
        <5>2. \A e \in Calls \ {c} : k[e].op = "resume" => ~On(k[e], r)
          BY <2>5, <4>1, <5>1 DEF LeavesAlone
        <5> QED
          BY <1>5, <2>1, <2>5, <4>1, <5>2
      <4> QED
        BY <1>2, <3>1, <4>2, <4>3
    <3> QED
      BY <3>1, <3>2
  <2> QED
    BY <2>2, <2>3, <2>4, <2>5 DEF CallFits
<1> QED
  BY <1>4, <1>5

\* Which runs are on their way to the queue.
LEMMA CreatedStays ==
    ASSUME NEW k \in ClientCalls, NEW c \in Calls, NEW kc,
           k[c].op # "create" \/ ~Open(k[c]), kc.op # "create" \/ ~Open(kc)
    PROVE  Created(Put(k, c, kc)) = Created(k)
<1>1. Put(k, c, kc)[c] = kc /\ \A d \in Calls : d # c => Put(k, c, kc)[d] = k[d]
  BY DEF ClientCalls, Put
<1> QED
  BY <1>1 DEF Created, On

LEMMA CreatedGrows ==
    ASSUME NEW k \in ClientCalls, NEW c \in Calls, ~Open(k[c]),
           NEW kc, NEW r \in Runs, kc.op = "create", Open(kc), kc.runs = {r}
    PROVE  Created(Put(k, c, kc)) = Created(k) \cup {r}
<1>1. Put(k, c, kc)[c] = kc /\ \A d \in Calls : d # c => Put(k, c, kc)[d] = k[d]
  BY DEF ClientCalls, Put
<1>2. ASSUME NEW q \in Runs
      PROVE  q \in Created(Put(k, c, kc)) <=> q \in Created(k) \/ q = r
  BY <1>1 DEF Created, On
<1>3. Created(Put(k, c, kc)) \subseteq Runs /\ Created(k) \subseteq Runs
  BY DEF Created
<1> QED
  BY <1>2, <1>3

LEMMA CreatedShrinks ==
    ASSUME NEW w, NEW k, CallsFit(w, k), NEW c \in Calls, k[c].op = "create", Open(k[c]),
           NEW kc, ~Open(kc), NEW r \in k[c].runs
    PROVE  r \in Created(k) /\ Created(Put(k, c, kc)) = Created(k) \ {r}
<1>1. k \in ClientCalls /\ CallFits(w, k, c)
  BY DEF CallsFit
<1>2. Put(k, c, kc)[c] = kc /\ \A d \in Calls : d # c => Put(k, c, kc)[d] = k[d]
  BY <1>1 DEF ClientCalls, Put
<1>3. r \in Runs /\ k[c].runs = {r}
  BY <1>1 DEF CallFits
<1>4. \A d \in Calls : k[d].op = "create" /\ On(k[d], r) => d = c
  <2> SUFFICES ASSUME NEW d \in Calls, k[d].op = "create", On(k[d], r)
               PROVE  d = c
    OBVIOUS
  <2>1. Open(k[d]) /\ r \in k[d].runs /\ CallFits(w, k, d)
    BY DEF On, CallsFit
  <2>2. k[d].runs = {r}
    BY <2>1 DEF CallFits
  <2> QED
    BY <1>1, <1>3, <2>1, <2>2 DEF CallFits
<1>5. ASSUME NEW q \in Runs
      PROVE  q \in Created(Put(k, c, kc)) <=> q \in Created(k) /\ q # r
  BY <1>2, <1>3, <1>4 DEF Created, On
<1>6. Created(Put(k, c, kc)) \subseteq Runs /\ Created(k) \subseteq Runs /\ r \in Created(k)
  BY <1>3 DEF Created, On
<1> QED
  BY <1>5, <1>6

-----------------------------------------------------------------------------
(* What calls do to the world.                                             *)

\* cancel() and close(): a run is known to be cancelled, and its row ended.
Cancels(w, v, r, row) ==
    /\ SameRest(w, v)
    /\ v.mem.closed = w.mem.closed /\ v.mem.recovered = w.mem.recovered /\ w.mem.recovered
    /\ v.mem.queued = w.mem.queued /\ v.mem.cancelled = w.mem.cancelled \cup {r}
    /\ \/ v.mem.specs = w.mem.specs
       \/ w.mem.closed /\ v.mem.specs = w.mem.specs \ {r}
    /\ v.db = Put(w.db, r, row) /\ row.audits = Audits(w, r)
    /\ \/ row.status = "cancelled"
       \/ row.status = St(w, r) /\ row.status \in {"done", "failed"}

LEMMA CancelFits ==
    ASSUME NEW w, NEW C, NEW fresh \in BOOLEAN, NEW n, Fits(w, C, fresh, n),
           NEW v \in Worlds, NEW r \in Runs, NEW row, Cancels(w, v, r, row)
    PROVE  Fits(v, C, fresh, n) /\ Onward(w, v, {}) /\ Steady(w, v)
<1> USE DEF Cancels
<1>1. w \in Worlds /\ w.db \in [Runs -> Rows] /\ \A q \in Runs : RunFits(w, C, fresh, q)
  BY DEF Fits, Worlds
<1>2. LineFits(v) /\ Slots(v) = n /\ Steady(w, v)
  BY RestIs
<1>3. RestOf(w, v, C, fresh, r)
  BY RestIs
<1>4. v.db[r] = row /\ \A q \in Runs \ {r} : v.db[q] = w.db[q]
  BY <1>1 DEF Put
<1>5. Alike(w, v, r)
  <2>1. \A q \in Runs \ {r} : (q \in v.mem.specs <=> q \in w.mem.specs)
                              /\ (q \in v.mem.cancelled <=> q \in w.mem.cancelled)
    OBVIOUS
  <2> QED
    BY <1>4, <2>1 DEF Alike, MemAlike, SameRest
<1>6. RunFits(v, C, fresh, r)
  <2>1. /\ Pc(v, r) = Pc(w, r) /\ Linked(v, r) /\ SlotFits(v, r)
        /\ StartFits(w, C, r) /\ RowFits(w, C, r)
        /\ fresh => AuditFits(w, C, r)
    BY <1>3 DEF RestOf
  <2>2. St(v, r) = row.status /\ Audits(v, r) = Audits(w, r) /\ Queued(v) = Queued(w)
    BY <1>4 DEF St, Audits, Queued
  <2>3. StartFits(v, C, r)
    BY <2>1, <2>2 DEF StartFits
  <2>4. RowFits(v, C, r)
    BY <2>1, <2>2 DEF RowFits, Terminal
  <2>5. fresh => AuditFits(v, C, r)
    BY <2>1, <2>2 DEF AuditFits
  <2> QED
    BY <2>1, <2>3, <2>4, <2>5 DEF RunFits
<1>7. Fits(v, C, fresh, n)
  BY <1>2, <1>5, <1>6, OneRunFits
<1>8. Onward(w, v, {})
  <2>1. \A q \in Runs : St(w, q) # "absent" => St(v, q) # "absent"
    BY <1>4 DEF St
  <2> QED
    BY <2>1 DEF Onward, Waits, SameRest
<1> QED
  BY <1>2, <1>7, <1>8

\* createRun(): a row for a run that had none.
Inserts(w, v, r, row) ==
    /\ St(w, r) = "absent" /\ w.mem.recovered = TRUE /\ w.mem.closed = FALSE
    /\ v.db = Put(w.db, r, row) /\ v.mem = w.mem /\ v.exec = w.exec
    /\ row.status = "queued" /\ row.audits = Audits(w, r)

LEMMA InsertedFits ==
    ASSUME NEW w, NEW C, NEW fresh \in BOOLEAN, NEW n, Fits(w, C, fresh, n),
           NEW r \in Runs, NEW v \in Worlds, NEW row, Inserts(w, v, r, row)
    PROVE  Fits(v, C \cup {r}, fresh, n) /\ Onward(w, v, {}) /\ Steady(w, v)
<1> USE DEF Inserts
<1>1. w \in Worlds /\ w.db \in [Runs -> Rows] /\ SameRest(w, v)
  BY DEF Fits, Worlds, SameRest
<1>2. LineFits(v) /\ Slots(v) = n /\ Steady(w, v)
  BY <1>1, RestIs
<1>3. RestOf(w, v, C, fresh, r)
  BY <1>1, RestIs
<1>4. v.db[r] = row /\ \A q \in Runs \ {r} : v.db[q] = w.db[q]
  BY <1>1 DEF Put
<1>5. Alike(w, v, r)
  BY <1>4 DEF Alike, MemAlike
<1>6. RunFits(v, C \cup {r}, fresh, r)
  <2>1. /\ Pc(v, r) = Pc(w, r) /\ Linked(v, r) /\ SlotFits(v, r)
        /\ StartFits(w, C, r) /\ RowFits(w, C, r)
        /\ fresh => AuditFits(w, C, r)
    BY <1>3 DEF RestOf
  <2>2. St(v, r) = "queued" /\ Audits(v, r) = Audits(w, r) /\ Queued(v) = Queued(w)
    BY <1>4 DEF St, Audits, Queued
  <2>3. Pc(w, r) = "none" /\ r \notin C /\ r \notin Queued(w) /\ r \notin w.mem.cancelled
    BY <2>1 DEF StartFits, RowFits, Terminal
  <2>4. StartFits(v, C \cup {r}, r)
    BY <2>1, <2>2, <2>3 DEF StartFits
  <2>5. RowFits(v, C \cup {r}, r)
    BY <2>1, <2>2, <2>3 DEF RowFits, Terminal
  <2>6. fresh => AuditFits(v, C \cup {r}, r)
    BY <2>1, <2>2, <2>3 DEF AuditFits
  <2> QED
    BY <2>1, <2>4, <2>5, <2>6 DEF RunFits
<1>7. Fits(v, C \cup {r}, fresh, n)
  BY <1>2, <1>5, <1>6, OneRunFits
<1>8. Onward(w, v, {})
  <2>1. \A q \in Runs : St(w, q) # "absent" => St(v, q) # "absent"
    BY <1>4 DEF St
  <2> QED
    BY <2>1 DEF Onward, Waits
<1> QED
  BY <1>2, <1>7, <1>8

\* createRun(): the pump may start it now.
LEMMA EnqueuedFits ==
    ASSUME NEW w, NEW C, NEW fresh \in BOOLEAN, NEW n, Fits(w, C, fresh, n),
           NEW r \in C, r \in Runs,
           NEW v \in Worlds, SameRest(w, v), v.db = w.db,
           v.mem.closed = w.mem.closed, v.mem.recovered = w.mem.recovered,
           v.mem.cancelled = w.mem.cancelled, v.mem.specs = w.mem.specs \cup {r},
           ToSet(v.mem.queued) = ToSet(w.mem.queued) \cup {r}
    PROVE  Fits(v, C \ {r}, fresh, n) /\ Onward(w, v, {}) /\ Steady(w, v)
<1>1. LineFits(v) /\ Slots(v) = n /\ Steady(w, v)
  BY RestIs
<1>2. RestOf(w, v, C, fresh, r)
  BY RestIs
<1>3. Alike(w, v, r)
  <2>1. \A q \in Runs \ {r} : (q \in v.mem.specs <=> q \in w.mem.specs)
                              /\ (q \in ToSet(v.mem.queued) <=> q \in ToSet(w.mem.queued))
    OBVIOUS
  <2> QED
    BY <2>1 DEF Alike, MemAlike, SameRest
<1>4. RunFits(v, C \ {r}, fresh, r)
  <2>1. /\ Pc(v, r) = Pc(w, r) /\ Linked(v, r) /\ SlotFits(v, r)
        /\ StartFits(w, C, r) /\ RowFits(w, C, r)
        /\ fresh => AuditFits(w, C, r)
    BY <1>2 DEF RestOf
  <2>2. St(v, r) = St(w, r) /\ Audits(v, r) = Audits(w, r) /\ r \in Queued(v) /\ r \in v.mem.specs
    BY DEF St, Audits, Queued
  <2>3. StartFits(v, C \ {r}, r)
    BY <2>1, <2>2 DEF StartFits
  <2>4. RowFits(v, C \ {r}, r)
    BY <2>1, <2>2 DEF RowFits
  <2>5. fresh => AuditFits(v, C \ {r}, r)
    BY <2>1, <2>2 DEF AuditFits
  <2> QED
    BY <2>1, <2>3, <2>4, <2>5 DEF RunFits
<1>5. Fits(v, C \ {r}, fresh, n)
  BY <1>1, <1>3, <1>4, OneRunFits
<1>6. Onward(w, v, {})
  BY DEF Onward, St, Waits, SameRest
<1> QED
  BY <1>1, <1>5, <1>6

\* cancel(): out of the queue.
LEMMA DroppedFits ==
    ASSUME NEW w, NEW C, NEW fresh \in BOOLEAN, NEW n, Fits(w, C, fresh, n), NEW r \in Runs,
           NEW v \in Worlds, SameRest(w, v), v.db = w.db,
           v.mem.closed = w.mem.closed, v.mem.recovered = w.mem.recovered,
           v.mem.cancelled = w.mem.cancelled, v.mem.specs = w.mem.specs,
           ToSet(v.mem.queued) \subseteq ToSet(w.mem.queued),
           ToSet(w.mem.queued) \ {r} \subseteq ToSet(v.mem.queued)
    PROVE  Fits(v, C, fresh, n) /\ Onward(w, v, {}) /\ Steady(w, v)
<1>1. LineFits(v) /\ Slots(v) = n /\ Steady(w, v)
  BY RestIs
<1>2. RestOf(w, v, C, fresh, r)
  BY RestIs
<1>3. Alike(w, v, r)
  <2>1. \A q \in Runs \ {r} : q \in ToSet(v.mem.queued) <=> q \in ToSet(w.mem.queued)
    OBVIOUS
  <2> QED
    BY <2>1 DEF Alike, MemAlike, SameRest
<1>4. RunFits(v, C, fresh, r)
  <2>1. /\ Pc(v, r) = Pc(w, r) /\ Linked(v, r) /\ SlotFits(v, r)
        /\ StartFits(w, C, r) /\ RowFits(w, C, r)
        /\ fresh => AuditFits(w, C, r)
    BY <1>2 DEF RestOf
  <2>2. St(v, r) = St(w, r) /\ Audits(v, r) = Audits(w, r)
        /\ (r \in Queued(v) => r \in Queued(w))
    BY DEF St, Audits, Queued
  <2>3. StartFits(v, C, r)
    BY <2>1, <2>2 DEF StartFits
  <2>4. RowFits(v, C, r)
    BY <2>1, <2>2 DEF RowFits
  <2>5. fresh => AuditFits(v, C, r)
    BY <2>1, <2>2 DEF AuditFits
  <2> QED
    BY <2>1, <2>3, <2>4, <2>5 DEF RunFits
<1>5. Fits(v, C, fresh, n)
  BY <1>1, <1>3, <1>4, OneRunFits
<1>6. Onward(w, v, {})
  BY DEF Onward, St, Waits, SameRest
<1> QED
  BY <1>1, <1>5, <1>6

\* Once all is closed nothing starts, whatever is in the queue.
LEMMA ClosedFits ==
    ASSUME NEW w, NEW C, NEW fresh \in BOOLEAN, NEW n, Fits(w, C, fresh, n),
           NEW v \in Worlds, SameRest(w, v), v.db = w.db,
           v.mem.closed = TRUE, v.mem.recovered = w.mem.recovered,
           v.mem.cancelled = w.mem.cancelled,
           w.mem.recovered = FALSE => ToSet(v.mem.queued) = {}
    PROVE  Fits(v, C, fresh, n) /\ Steady(w, v)
<1>1. LineFits(v) /\ Slots(v) = n /\ Steady(w, v) /\ \A r \in Runs : RestOf(w, v, C, fresh, r)
  BY RestIs
<1>2. ASSUME NEW r \in Runs
      PROVE  RunFits(v, C, fresh, r)
  <2>1. /\ Pc(v, r) = Pc(w, r) /\ Linked(v, r) /\ SlotFits(v, r)
        /\ StartFits(w, C, r) /\ RowFits(w, C, r)
        /\ fresh => AuditFits(w, C, r)
    BY <1>1 DEF RestOf
  <2>2. St(v, r) = St(w, r) /\ Audits(v, r) = Audits(w, r)
        /\ (w.mem.recovered = FALSE => Queued(v) = {})
    BY DEF St, Audits, Queued
  <2>3. w.mem.recovered \in BOOLEAN
    BY DEF Fits, Worlds, Mems
  <2>4. StartFits(v, C, r)
    BY <2>1, <2>2, <2>3 DEF StartFits
  <2>5. RowFits(v, C, r)
    BY <2>1, <2>2 DEF RowFits
  <2>6. fresh => AuditFits(v, C, r)
    BY <2>1, <2>2 DEF AuditFits
  <2> QED
    BY <2>1, <2>4, <2>5, <2>6 DEF RunFits
<1> QED
  BY <1>1, <1>2 DEF Fits

LEMMA RemoveFirstIs ==
    ASSUME NEW s \in Seq(Runs), NEW e
    PROVE  /\ RemoveFirst(s, e) \in Seq(Runs)
           /\ ToSet(RemoveFirst(s, e)) \subseteq ToSet(s)
           /\ ToSet(s) \ {e} \subseteq ToSet(RemoveFirst(s, e))
<1> DEFINE I == {i \in 1..Len(s) : s[i] = e}
<1>1. CASE I = {}
  <2>1. RemoveFirst(s, e) = s
    BY <1>1 DEF RemoveFirst
  <2> QED
    BY <2>1
<1>2. CASE I # {}
  <2> DEFINE k == Min(I)
             t == SubSeq(s, 1, k - 1)
             u == SubSeq(s, k + 1, Len(s))
  <2>1. k \in I
    <3>1. I \in SUBSET Nat
      OBVIOUS
    <3> HIDE DEF I
    <3>2. \E x \in I : \A y \in I : x <= y
      BY <1>2, <3>1, LeastNat
    <3> QED
      BY <3>2 DEF Min
  <2>2. RemoveFirst(s, e) = t \o u
    <3>1. \E i \in 1..Len(s) : s[i] = e
      BY <1>2
    <3>2. SelectInSeq(s, LAMBDA v : v = e) = k
      BY <1>2 DEF SelectInSeq
    <3> QED
      BY <3>1, <3>2 DEF RemoveFirst, RemoveAt
  <2>3. k \in 1..Len(s) /\ s[k] = e /\ Len(s) \in Nat
    BY <2>1
  <2> HIDE DEF k
  <2>4. /\ t \in Seq(Runs) /\ Len(t) = k - 1 /\ \A i \in 1..(k - 1) : t[i] = s[i]
        /\ u \in Seq(Runs) /\ Len(u) = Len(s) - k /\ \A i \in 1..(Len(s) - k) : u[i] = s[i + k]
    <3>1. t \in Seq(Runs) /\ Len(t) = k - 1 /\ \A i \in 1..(k - 1) : t[i] = s[i]
      BY <2>3
    <3>2. u \in Seq(Runs) /\ Len(u) = Len(s) - k
      BY <2>3
    <3>3. \A i \in 1..(Len(s) - k) : u[i] = s[i + k]
      BY <2>3
    <3> QED
      BY <3>1, <3>2, <3>3
  <2> HIDE DEF t, u
  <2> DEFINE v == t \o u
  <2>5. /\ v \in Seq(Runs) /\ Len(v) = Len(s) - 1
        /\ \A i \in 1..(k - 1) : v[i] = s[i]
        /\ \A i \in k..(Len(s) - 1) : v[i] = s[i + 1]
    <3>1. v \in Seq(Runs) /\ Len(v) = Len(t) + Len(u) /\ Len(v) = Len(s) - 1
      <4>1. t \in Seq(Runs) /\ u \in Seq(Runs)
        BY <2>4
      <4>2. v \in Seq(Runs) /\ Len(v) = Len(t) + Len(u)
        BY <4>1, ConcatProperties
      <4> HIDE DEF v
      <4>3. (k - 1) + (Len(s) - k) = Len(s) - 1
        BY <2>3
      <4> QED
        BY <2>4, <4>2, <4>3
    <3>2. \A i \in 1..(k - 1) : v[i] = s[i]
      BY <2>3, <2>4
    <3>3. ASSUME NEW i \in k..(Len(s) - 1)
          PROVE  v[i] = s[i + 1]
      <4>1. i \in 1..(Len(t) + Len(u)) /\ i > Len(t) /\ i - Len(t) \in 1..(Len(s) - k)
            /\ (i - Len(t)) + k = i + 1
        BY <2>3, <2>4
      <4>2. v[i] = u[i - Len(t)]
        BY <2>4, <4>1
      <4> QED
        BY <2>4, <4>1, <4>2
    <3> QED
      BY <3>1, <3>2, <3>3
  <2> HIDE DEF v
  <2>6. ASSUME NEW i \in DOMAIN v
        PROVE  v[i] \in ToSet(s)
    <3>1. i \in 1..(Len(s) - 1)
      BY <2>5
    <3>2. i \in 1..Len(s) /\ i + 1 \in 1..Len(s) /\ (i \in 1..(k - 1) \/ i \in k..(Len(s) - 1))
      BY <2>3, <3>1
    <3>3. v[i] = s[i] \/ v[i] = s[i + 1]
      BY <2>5, <3>2
    <3> QED
      BY <3>2, <3>3 DEF ToSet
  <2>7. ASSUME NEW j \in DOMAIN s, s[j] # e
        PROVE  s[j] \in ToSet(v)
    <3>1. j \in 1..Len(s) /\ j # k
      BY <2>3, <2>7
    <3>2. CASE j < k
      <4>1. j \in 1..(k - 1) /\ j \in 1..(Len(s) - 1)
        BY <2>3, <3>1, <3>2
      <4>2. v[j] = s[j] /\ j \in DOMAIN v
        BY <2>5, <4>1
      <4> QED
        BY <4>2 DEF ToSet
    <3>3. CASE j > k
      <4>1. j - 1 \in k..(Len(s) - 1) /\ j - 1 \in 1..(Len(s) - 1) /\ (j - 1) + 1 = j
        BY <2>3, <3>1, <3>3
      <4>2. v[j - 1] = s[j] /\ j - 1 \in DOMAIN v
        BY <2>5, <4>1
      <4> QED
        BY <4>2 DEF ToSet
    <3> QED
      BY <2>3, <3>1, <3>2, <3>3
  <2>8. ToSet(v) \subseteq ToSet(s)
    BY <2>6 DEF ToSet
  <2>9. ToSet(s) \ {e} \subseteq ToSet(v)
    <3> SUFFICES ASSUME NEW a \in ToSet(s), a # e
                 PROVE  a \in ToSet(v)
      OBVIOUS
    <3>1. PICK j \in DOMAIN s : a = s[j]
      BY DEF ToSet
    <3> QED
      BY <2>7, <3>1
  <2>10. RemoveFirst(s, e) = v
    BY <2>2 DEF v
  <2> QED
    BY <2>5, <2>8, <2>9, <2>10
<1> QED
  BY <1>1, <1>2

-----------------------------------------------------------------------------
(* The steps of calls keep the invariant.                                  *)

LEMMA OpenCall ==
    ASSUME IInv, NEW c \in Calls
    PROVE  /\ call \in ClientCalls /\ call[c] \in CallRecords /\ CallsFit(World, call)
           /\ Open(call[c]) => CallFits(World, call, c)
           /\ Open(call[c]) /\ call[c].op # "close" =>
                mem.recovered = TRUE
                /\ \A r \in call[c].runs : r \in Runs /\ call[c].runs = {r} /\ St(World, r) # "absent"
<1>1. call \in ClientCalls /\ CallsFit(World, call) /\ (Open(call[c]) => CallFits(World, call, c))
  BY DEF IInv, CallsFit
<1>2. call[c] \in CallRecords
  BY <1>1 DEF ClientCalls, CallRecords
<1>3. mem.recovered \in BOOLEAN
  BY NowIs DEF Mems
<1> QED
  BY <1>1, <1>2, <1>3, WorldIs DEF CallFits

\* A call steps: the world goes on, and leaves the other calls what they rely on.
LEMMA CallKeeps ==
    ASSUME IInv, NEW c \in Calls, NEW kc \in CallRecords, call' = Put(call, c, kc),
           crashes' = crashes, NEW v, Become(v),
           Fits(v, Created(Put(call, c, kc)), crashes = 0, MaxParallelRuns),
           mem.closed => v.mem.closed, mem.recovered => v.mem.recovered,
           LeavesAlone(call, c, kc, v),
           \A r \in Runs : /\ St(World, r) # "absent" => St(v, r) # "absent"
                           /\ Waits(World, r) => v.mem.closed \/ Waits(v, r) \/ On(call[c], r),
           Open(kc) => CallFits(v, Put(call, c, kc), c)
    PROVE  IInv' /\ World' = v
<1>1. CallsFit(World, call) /\ Careful /\ crashes \in 0..MaxCrashes
  BY DEF IInv
<1>2. v \in Worlds
  BY DEF Fits
<1>3. World' = v
  BY <1>2, BecomeIs
<1>4. CallsFit(v, Put(call, c, kc))
  BY <1>1, WorldIs, CallsGoOn
<1>5. Fits(World', Created(call'), crashes' = 0, MaxParallelRuns) /\ CallsFit(World', call')
  BY <1>3, <1>4
<1> QED
  BY <1>1, <1>3, <1>5 DEF IInv

\* A call returns; it may have woken a run of its own.
LEMMA ReturnKeeps ==
    ASSUME IInv, NEW c \in Calls, Returns(c), call[c].op # "create", crashes' = crashes,
           NEW v, Become(v), Now(v), NEW Z, Onward(World, v, Z), \A r \in Z : On(call[c], r)
    PROVE  IInv' /\ World' = v
<1> DEFINE kc == Over("returned")
<1>1. call \in ClientCalls
  BY OpenCall
<1>2. call' = Put(call, c, kc)
  BY DEF Returns, Put
<1>3. kc \in CallRecords /\ kc.op = "none" /\ ~Open(kc)
  BY DEF Over, CallRecords, Statuses, CallStates, Open
<1> HIDE DEF kc
<1>4. Created(Put(call, c, kc)) = Created(call)
  BY <1>1, <1>3, CreatedStays
<1>5. Fits(v, Created(Put(call, c, kc)), crashes = 0, MaxParallelRuns)
  BY <1>4 DEF Now
<1>6. LeavesAlone(call, c, kc, v)
  BY <1>3 DEF LeavesAlone
<1>7. /\ v.mem.closed = mem.closed /\ v.mem.recovered = mem.recovered
      /\ \A r \in Runs : /\ St(World, r) # "absent" => St(v, r) # "absent"
                         /\ Waits(World, r) => v.mem.closed \/ Waits(v, r) \/ On(call[c], r)
  BY WorldIs DEF Onward
<1> QED
  BY <1>2, <1>3, <1>5, <1>6, <1>7, CallKeeps

\* A call goes on to await something else.
LEMMA StepKeeps ==
    ASSUME IInv, NEW c \in Calls, NEW pc \in CallStates, Goes(c, pc), Open(call[c]),
           call[c].op # "create", crashes' = crashes,
           NEW v, Become(v), Now(v), Onward(World, v, {}),
           call[c].op = "resume" => pc = "cleared" \/ v.mem.closed
    PROVE  IInv' /\ World' = v
<1> DEFINE kc == [call[c] EXCEPT !.pc = pc]
<1>1. call \in ClientCalls /\ call[c] \in CallRecords /\ CallFits(World, call, c)
  BY OpenCall
<1>2. call' = Put(call, c, kc)
  BY DEF Goes, Put
<1>3. kc \in CallRecords /\ kc.op = call[c].op /\ kc.runs = call[c].runs /\ kc.pc = pc
  BY <1>1 DEF CallRecords
<1> HIDE DEF kc
<1>4. Created(Put(call, c, kc)) = Created(call)
  BY <1>1, <1>3, CreatedStays
<1>5. Fits(v, Created(Put(call, c, kc)), crashes = 0, MaxParallelRuns)
  BY <1>4 DEF Now
<1>6. LeavesAlone(call, c, kc, v)
  BY <1>3 DEF LeavesAlone, On
<1>7. /\ v.mem.closed = mem.closed /\ v.mem.recovered = mem.recovered
      /\ \A r \in Runs : /\ St(World, r) # "absent" => St(v, r) # "absent"
                         /\ Waits(World, r) => v.mem.closed \/ Waits(v, r)
  BY WorldIs DEF Onward
<1>8. CallFits(v, Put(call, c, kc), c)
  <2> DEFINE l == Put(call, c, kc)
  <2>1. l[c] = kc /\ \A d \in Calls : d # c => l[d] = call[d]
    BY <1>1 DEF ClientCalls, Put
  <2> HIDE DEF l
  <2>2. kc.op = "close" => v.mem.closed /\ (kc.runs # {} => v.mem.recovered)
    BY <1>1, <1>3, <1>7, WorldIs DEF CallFits
  <2>3. kc.op # "close" => v.mem.recovered /\ \E r \in Runs : kc.runs = {r} /\ St(v, r) # "absent"
    BY <1>1, <1>3, <1>7, WorldIs DEF CallFits
  <2>4. kc.op = "resume" /\ ~v.mem.closed =>
          /\ kc.pc \in {"read", "cleared"}
          /\ \A r \in kc.runs : Waits(v, r) /\ \A d \in Calls : On(l[d], r) => d = c
    <3> SUFFICES ASSUME kc.op = "resume", ~v.mem.closed
                 PROVE  /\ kc.pc \in {"read", "cleared"}
                        /\ \A r \in kc.runs : Waits(v, r) /\ \A d \in Calls : On(l[d], r) => d = c
      OBVIOUS
    <3>1. \A r \in call[c].runs : Waits(World, r) /\ \A d \in Calls : On(call[d], r) => d = c
      BY <1>1, <1>3, <1>7, WorldIs DEF CallFits
    <3>2. call[c].runs \subseteq Runs
      BY <1>1 DEF CallRecords
    <3> QED
      BY <1>3, <1>7, <2>1, <3>1, <3>2
  <2> QED
    BY <1>3, <2>1, <2>2, <2>3, <2>4 DEF CallFits, l
<1> QED
  BY <1>2, <1>3, <1>5, <1>6, <1>7, <1>8, CallKeeps

\* A call has been served.
LEMMA ServedCall ==
    ASSUME IInv, NEW c \in Calls, NEW op, NEW pc, Continues(c, op, pc),
           pc \notin {"unused", "returned", "lost"}
    PROVE  /\ Open(call[c]) /\ call[c].op = op /\ call[c].pc = pc
           /\ Now(AfterWrite) /\ AfterWrite \in Worlds /\ AfterWrite.mem \in Mems
           /\ Onward(World, AfterWrite, {}) /\ Steady(World, AfterWrite)
           /\ AfterWrite.db = db /\ AfterWrite.exec = exec
           /\ AfterWrite.mem = Queue(mem, Tail(mem.writes)) /\ SameMem(mem, AfterWrite.mem)
<1>1. Open(call[c]) /\ call[c].op = op /\ call[c].pc = pc /\ Served(c)
  BY DEF Continues, At, Open
<1>2. Fits(World, Created(call), crashes = 0, MaxParallelRuns) /\ (crashes = 0) \in BOOLEAN
  BY NowIs DEF Now
<1> QED
  BY <1>1, <1>2, ServedGoesOn DEF Now, Worlds

\* pause() and resume() set and clear the flag, and the row's.
Flagged(w, P, r, p) == [w EXCEPT !.mem.pauseRequested = P, !.db[r].pauseReq = p]

LEMMA PauseFlagGoesOn ==
    ASSUME NEW w, NEW C, NEW fresh \in BOOLEAN, NEW n, Fits(w, C, fresh, n),
           NEW r \in Runs, NEW P \in SUBSET Runs, NEW p \in {0, 1}
    PROVE  /\ Fits(Flagged(w, P, r, p), C, fresh, n)
           /\ Onward(w, Flagged(w, P, r, p), {}) /\ Steady(w, Flagged(w, P, r, p))
<1> DEFINE row == [w.db[r] EXCEPT !.pauseReq = p]
           l == [w.mem EXCEPT !.pauseRequested = P]
           u == [w EXCEPT !.db = Put(w.db, r, row)]
           v == [w EXCEPT !.mem.pauseRequested = P, !.db[r].pauseReq = p]
<1>1. w \in Worlds /\ w.db \in [Runs -> Rows] /\ w.mem \in Mems
  BY DEF Fits, Worlds
<1>2. row \in Rows /\ row.audits = Audits(w, r) /\ row.status = St(w, r)
  BY <1>1 DEF Rows, Audits, St
<1>3. l \in Mems /\ SameMem(w.mem, l)
  BY <1>1 DEF Mems, SameMem
<1>4. v.db = Put(w.db, r, row) /\ v.mem = l /\ v.exec = w.exec
  BY <1>1 DEF Worlds, Put
<1>5. v \in Worlds
  <2>1. v = [w EXCEPT !.mem = l, !.db = Put(w.db, r, row)]
    BY <1>1 DEF Worlds, Put
  <2>2. Put(w.db, r, row) \in [Runs -> Rows]
    BY <1>1, <1>2 DEF Put
  <2> HIDE DEF v, l, row
  <2> QED
    BY <1>1, <1>3, <2>1, <2>2 DEF Worlds
<1> HIDE DEF row, l, v
<1>6. /\ Fits(u, C, fresh, n) /\ u.mem = w.mem /\ u.exec = w.exec
      /\ Onward(w, u, {}) /\ Steady(w, u)
  BY <1>2, RowGoesOn
<1>7. u.db = Put(w.db, r, row)
  BY <1>1 DEF Worlds
<1> HIDE DEF u
<1>8. SameMem(u.mem, v.mem) /\ v.db = u.db /\ v.exec = u.exec
  BY <1>3, <1>4, <1>6, <1>7
<1>9. Fits(v, C, fresh, n)
  BY <1>5, <1>6, <1>8, SameFits
<1>10. Onward(u, v, {}) /\ Steady(u, v)
  BY <1>8, StillOnward DEF SameMem
<1>11. Onward(w, v, {} \cup {}) /\ Steady(w, v)
  BY <1>6, <1>10, OnwardTwice, SteadyTwice
<1> QED
  BY <1>9, <1>11 DEF v, Flagged

LEMMA PauseReturnsKeeps ==
    ASSUME IInv, NEW c \in Calls, PauseReturns(c)
    PROVE  IInv' /\ Steady(World, World')
<1>1. Continues(c, "pause", "parked") /\ Become(AfterWrite) /\ Returns(c) /\ crashes' = crashes
  BY DEF PauseReturns
<1>2. call[c].op = "pause" /\ Now(AfterWrite) /\ Onward(World, AfterWrite, {}) /\ Steady(World, AfterWrite)
  BY <1>1, ServedCall
<1>3. IInv' /\ World' = AfterWrite
  BY <1>1, <1>2, ReturnKeeps
<1> QED
  BY <1>2, <1>3

LEMMA AwaitNow ==
    ASSUME IInv, NEW w, Now(w), NEW a \in Execs \cup Calls
    PROVE  Now(Await(w, a)) /\ Onward(w, Await(w, a), {}) /\ Steady(w, Await(w, a))
BY NowIs, AwaitGoesOn DEF Now

LEMMA RequestPauseKeeps ==
    ASSUME IInv, NEW c \in Calls, RequestPause(c)
    PROVE  IInv' /\ Steady(World, World')
<1> DEFINE w == AfterWrite
<1>1. Continues(c, "pause", "read") /\ crashes' = crashes
  BY DEF RequestPause
<1>2. /\ Open(call[c]) /\ call[c].op = "pause"
      /\ Now(w) /\ w.mem \in Mems /\ Onward(World, w, {}) /\ Steady(World, w)
  BY <1>1, ServedCall
<1>3. PICK r \in call[c].runs :
          IF call[c].saw \in Terminal
          THEN Become(w) /\ Returns(c)
          ELSE /\ Become(Await([w EXCEPT !.mem.pauseRequested = @ \cup {r},
                                         !.db[r].pauseReq = 1], c))
               /\ Goes(c, "flagged")
  BY DEF RequestPause
<1> HIDE DEF w
<1>4. r \in Runs
  BY <1>2, <1>3, OpenCall DEF CallRecords
<1>5. CASE call[c].saw \in Terminal
  <2>1. IInv' /\ World' = w
    BY <1>1, <1>2, <1>3, <1>5, ReturnKeeps
  <2> QED
    BY <1>2, <2>1
<1>6. CASE call[c].saw \notin Terminal
  <2> DEFINE P == w.mem.pauseRequested \cup {r}
             v == Flagged(w, P, r, 1)
  <2>1. P \in SUBSET Runs
    BY <1>2, <1>4 DEF Mems
  <2>2. Become(Await(v, c)) /\ Goes(c, "flagged")
    BY <1>3, <1>6 DEF Flagged
  <2> HIDE DEF P
  <2>3. Now(v) /\ Onward(w, v, {}) /\ Steady(w, v)
    BY <1>2, <1>4, <2>1, NowIs, PauseFlagGoesOn DEF Now
  <2> HIDE DEF v
  <2>4. Now(Await(v, c)) /\ Onward(v, Await(v, c), {}) /\ Steady(v, Await(v, c))
    BY <2>3, AwaitNow
  <2>5. Onward(World, Await(v, c), ({} \cup {}) \cup {}) /\ Steady(World, Await(v, c))
    BY <1>2, <2>3, <2>4, OnwardTwice, SteadyTwice
  <2>6. "flagged" \in CallStates
    BY DEF CallStates
  <2>7. IInv' /\ World' = Await(v, c)
    BY <1>1, <1>2, <2>2, <2>4, <2>5, <2>6, StepKeeps
  <2> QED
    BY <2>5, <2>7
<1> QED
  BY <1>5, <1>6

LEMMA ClearPauseKeeps ==
    ASSUME IInv, NEW c \in Calls, ClearPause(c)
    PROVE  IInv' /\ Steady(World, World')
<1> DEFINE w == AfterWrite
<1>1. Continues(c, "resume", "read") /\ crashes' = crashes /\ Goes(c, "cleared")
  BY DEF ClearPause
<1>2. /\ Open(call[c]) /\ call[c].op = "resume"
      /\ Now(w) /\ w.mem \in Mems /\ Onward(World, w, {}) /\ Steady(World, w)
  BY <1>1, ServedCall
<1>3. PICK r \in call[c].runs :
          Become(Await([w EXCEPT !.mem.pauseRequested = @ \ {r}, !.db[r].pauseReq = 0], c))
  BY DEF ClearPause
<1> HIDE DEF w
<1>4. r \in Runs
  BY <1>2, <1>3, OpenCall DEF CallRecords
<1> DEFINE P == w.mem.pauseRequested \ {r}
           v == Flagged(w, P, r, 0)
<1>5. P \in SUBSET Runs
  BY <1>2, <1>4 DEF Mems
<1>6. Become(Await(v, c))
  BY <1>3 DEF Flagged
<1> HIDE DEF P
<1>7. Now(v) /\ Onward(w, v, {}) /\ Steady(w, v)
  BY <1>2, <1>4, <1>5, NowIs, PauseFlagGoesOn DEF Now
<1> HIDE DEF v
<1>8. Now(Await(v, c)) /\ Onward(v, Await(v, c), {}) /\ Steady(v, Await(v, c))
  BY <1>7, AwaitNow
<1>9. Onward(World, Await(v, c), ({} \cup {}) \cup {}) /\ Steady(World, Await(v, c))
  BY <1>2, <1>7, <1>8, OnwardTwice, SteadyTwice
<1>10. "cleared" \in CallStates
  BY DEF CallStates
<1>11. IInv' /\ World' = Await(v, c)
  BY <1>1, <1>2, <1>6, <1>8, <1>9, <1>10, StepKeeps
<1> QED
  BY <1>9, <1>11

LEMMA ParkQueuedRunKeeps ==
    ASSUME IInv, NEW c \in Calls, ParkQueuedRun(c)
    PROVE  IInv' /\ Steady(World, World')
<1> DEFINE w == AfterWrite
<1>1. Continues(c, "pause", "flagged") /\ crashes' = crashes
  BY DEF ParkQueuedRun
<1>2. /\ Open(call[c]) /\ call[c].op = "pause"
      /\ Now(w) /\ Onward(World, w, {}) /\ Steady(World, w)
  BY <1>1, ServedCall
<1>3. PICK r \in call[c].runs :
          IF call[c].saw = "queued"
          THEN Become(Await(SetStatus(w, r, {"queued"}, "paused"), c)) /\ Goes(c, "parked")
          ELSE Become(w) /\ Returns(c)
  BY DEF ParkQueuedRun
<1> HIDE DEF w
<1>4. r \in Runs
  BY <1>2, <1>3, OpenCall DEF CallRecords
<1>5. CASE call[c].saw # "queued"
  <2>1. IInv' /\ World' = w
    BY <1>1, <1>2, <1>3, <1>5, ReturnKeeps
  <2> QED
    BY <1>2, <2>1
<1>6. CASE call[c].saw = "queued"
  <2> DEFINE v == SetStatus(w, r, {"queued"}, "paused")
  <2>1. Become(Await(v, c)) /\ Goes(c, "parked")
    BY <1>3, <1>6
  <2>2. "paused" \in Statuses \ (Terminal \cup {"absent"}) /\ "queued" \notin Terminal \cup {"absent"}
    BY DEF Statuses, Terminal
  <2>3. Now(v) /\ Onward(w, v, {}) /\ Steady(w, v)
    BY <1>2, <1>4, <2>2, NowIs, StatusGoesOn DEF Now
  <2> HIDE DEF v
  <2>4. Now(Await(v, c)) /\ Onward(v, Await(v, c), {}) /\ Steady(v, Await(v, c))
    BY <2>3, AwaitNow
  <2>5. Onward(World, Await(v, c), ({} \cup {}) \cup {}) /\ Steady(World, Await(v, c))
    BY <1>2, <2>3, <2>4, OnwardTwice, SteadyTwice
  <2>6. "parked" \in CallStates
    BY DEF CallStates
  <2>7. IInv' /\ World' = Await(v, c)
    BY <1>1, <1>2, <2>1, <2>4, <2>5, <2>6, StepKeeps
  <2> QED
    BY <2>5, <2>7
<1> QED
  BY <1>5, <1>6

LEMMA PumpAfterResumeKeeps ==
    ASSUME IInv, NEW c \in Calls, PumpAfterResume(c)
    PROVE  IInv' /\ Steady(World, World')
<1> DEFINE w == AfterWrite
<1>1. Continues(c, "resume", "requeued") /\ crashes' = crashes /\ Returns(c) /\ Become(Pump(w))
  BY DEF PumpAfterResume
<1>2. call[c].op = "resume" /\ Now(w) /\ Onward(World, w, {}) /\ Steady(World, w)
  BY <1>1, ServedCall
<1> HIDE DEF w
<1>3. Now(Pump(w)) /\ Onward(w, Pump(w), {}) /\ Steady(w, Pump(w))
  BY <1>2, NowIs, PumpFits DEF Now
<1>4. Onward(World, Pump(w), {} \cup {}) /\ Steady(World, Pump(w))
  BY <1>2, <1>3, OnwardTwice, SteadyTwice
<1>5. IInv' /\ World' = Pump(w)
  BY <1>1, <1>2, <1>3, <1>4, ReturnKeeps
<1> QED
  BY <1>4, <1>5

LEMMA WakeOrRequeueKeeps ==
    ASSUME IInv, NEW c \in Calls, WakeOrRequeue(c)
    PROVE  IInv' /\ Steady(World, World')
<1> DEFINE a == AfterWrite
<1>1. Continues(c, "resume", "cleared") /\ crashes' = crashes
  BY DEF WakeOrRequeue
<1>2. /\ Open(call[c]) /\ call[c].op = "resume" /\ a.mem \in Mems /\ a \in Worlds
      /\ Now(a) /\ Onward(World, a, {}) /\ Steady(World, a) /\ SameMem(mem, a.mem)
  BY <1>1, ServedCall
<1>3. PICK r \in call[c].runs :
          LET w == [a EXCEPT !.mem.specs = @ \cup {r},
                             !.mem.queued = IF Contains(@, r) THEN @ ELSE Append(@, r)]
          IN  CASE mem.resumeWaiters[r] # NoExec ->
                     Become(WakeWaiter(a, r)) /\ Returns(c)
                [] mem.resumeWaiters[r] = NoExec /\ call[c].saw = "paused" ->
                     Become(Await(SetStatus(w, r, {"paused"}, "queued"), c)) /\ Goes(c, "requeued")
                [] OTHER ->
                     Become(a) /\ Returns(c)
  BY DEF WakeOrRequeue
<1> HIDE DEF a
<1>4. r \in Runs /\ On(call[c], r) /\ mem.recovered = TRUE
  BY <1>2, <1>3, OpenCall DEF CallRecords, On
<1>5. CASE mem.resumeWaiters[r] # NoExec
  <2> DEFINE v == WakeWaiter(a, r)
  <2>1. Become(v) /\ Returns(c)
    BY <1>3, <1>5
  <2>2. Now(v) /\ Onward(a, v, {r}) /\ Steady(a, v)
    BY <1>2, <1>4, NowIs, WakeFits DEF Now
  <2> HIDE DEF v
  <2>3. Onward(World, v, {} \cup {r}) /\ Steady(World, v)
    BY <1>2, <2>2, OnwardTwice, SteadyTwice
  <2>4. IInv' /\ World' = v
    BY <1>1, <1>2, <1>4, <2>1, <2>2, <2>3, ReturnKeeps
  <2> QED
    BY <2>3, <2>4
<1>6. CASE mem.resumeWaiters[r] = NoExec /\ call[c].saw = "paused"
  <2> DEFINE S == a.mem.specs \cup {r}
             q == IF Contains(a.mem.queued, r) THEN a.mem.queued ELSE Append(a.mem.queued, r)
             l == [a.mem EXCEPT !.specs = S, !.queued = q]
             w == [a EXCEPT !.mem.specs = S, !.mem.queued = q]
             v == SetStatus(w, r, {"paused"}, "queued")
  <2>1. mem.closed = TRUE
    <3>1. CallFits(World, call, c) /\ ~Waits(World, r)
      BY <1>2, <1>6, OpenCall, WorldIs DEF Waits
    <3>2. mem.closed \in BOOLEAN
      BY NowIs DEF Mems
    <3> QED
      BY <1>2, <1>3, <3>1, <3>2, WorldIs DEF CallFits
  <2>2. Become(Await(v, c)) /\ Goes(c, "requeued")
    BY <1>3, <1>6
  <2>3. S \in SUBSET Runs /\ q \in Seq(Runs)
    BY <1>2, <1>4 DEF Mems
  <2> HIDE DEF S, q
  <2>4. l \in Mems
    BY <1>2, <2>3 DEF Mems
  <2>5. w \in Worlds /\ w.mem = l /\ w.db = a.db /\ w.exec = a.exec
    BY <1>2, <2>4 DEF Worlds
  <2>6. /\ SameRest(a, w) /\ w.mem.closed = TRUE /\ w.mem.recovered = a.mem.recovered
        /\ w.mem.cancelled = a.mem.cancelled /\ a.mem.recovered = TRUE
        /\ w.mem.resumeWaiters = a.mem.resumeWaiters /\ w.mem.closed = a.mem.closed
    <3> HIDE DEF w
    <3>1. a.mem.closed = TRUE /\ a.mem.recovered = TRUE
      BY <1>2, <1>4, <2>1 DEF SameMem
    <3>2. /\ l.executions = a.mem.executions /\ l.resumeWaiters = a.mem.resumeWaiters
          /\ l.slotOwners = a.mem.slotOwners /\ l.slots = a.mem.slots
          /\ l.semWaiters = a.mem.semWaiters /\ l.closed = a.mem.closed
          /\ l.recovered = a.mem.recovered /\ l.cancelled = a.mem.cancelled
      BY <1>2 DEF Mems
    <3> HIDE DEF l
    <3> QED
      BY <2>5, <3>1, <3>2 DEF SameRest
  <2> HIDE DEF w, l
  <2>7. Now(w) /\ Onward(a, w, {}) /\ Steady(a, w)
    <3>1. Now(w)
      BY <1>2, <2>5, <2>6, NowIs, ClosedFits DEF Now
    <3> QED
      BY <2>5, <2>6, <3>1, StillOnward
  <2>8. "queued" \in Statuses \ (Terminal \cup {"absent"}) /\ "paused" \notin Terminal \cup {"absent"}
    BY DEF Statuses, Terminal
  <2>9. Now(v) /\ Onward(w, v, {}) /\ Steady(w, v)
    BY <1>4, <2>7, <2>8, NowIs, StatusGoesOn DEF Now
  <2> HIDE DEF v
  <2>10. Now(Await(v, c)) /\ Onward(v, Await(v, c), {}) /\ Steady(v, Await(v, c))
    BY <2>9, AwaitNow
  <2>11. Onward(World, Await(v, c), (({} \cup {}) \cup {}) \cup {}) /\ Steady(World, Await(v, c))
    BY <1>2, <2>7, <2>9, <2>10, OnwardTwice, SteadyTwice
  <2>12. Await(v, c).mem.closed = TRUE /\ "requeued" \in CallStates
    BY <2>6, <2>7, <2>9, <2>10 DEF Onward, CallStates
  <2>13. IInv' /\ World' = Await(v, c)
    BY <1>1, <1>2, <2>2, <2>10, <2>11, <2>12, StepKeeps
  <2> QED
    BY <2>11, <2>13
<1>7. CASE mem.resumeWaiters[r] = NoExec /\ call[c].saw # "paused"
  <2>1. Become(a) /\ Returns(c)
    BY <1>3, <1>7
  <2>2. IInv' /\ World' = a
    BY <1>1, <1>2, <2>1, ReturnKeeps
  <2> QED
    BY <1>2, <2>2
<1> QED
  BY <1>5, <1>6, <1>7

\* The row of a run that is cancelled.
Ended(row) == [row EXCEPT !.status = "cancelled", !.pauseReq = 0]

LEMMA EndedIs ==
    ASSUME NEW row \in Rows
    PROVE  Ended(row) \in Rows /\ Ended(row).status = "cancelled" /\ Ended(row).audits = row.audits
BY DEF Rows, Ended, Statuses

LEMMA CancelNow ==
    ASSUME IInv, NEW w, Now(w), NEW v \in Worlds, NEW r \in Runs, NEW row, Cancels(w, v, r, row)
    PROVE  Now(v) /\ Onward(w, v, {}) /\ Steady(w, v)
<1> DEFINE fresh == crashes = 0
           C == Created(call)
<1>1. fresh \in BOOLEAN /\ Fits(w, C, fresh, MaxParallelRuns)
  BY DEF Now
<1> HIDE DEF fresh, C
<1>2. Fits(v, C, fresh, MaxParallelRuns) /\ Onward(w, v, {}) /\ Steady(w, v)
  BY <1>1, CancelFits
<1> QED
  BY <1>2 DEF Now, fresh, C

LEMMA MarkCancelledKeeps ==
    ASSUME IInv, NEW c \in Calls, MarkCancelled(c)
    PROVE  IInv' /\ Steady(World, World')
<1> DEFINE w == AfterWrite
<1>1. Continues(c, "cancel", "read") /\ crashes' = crashes
  BY DEF MarkCancelled
<1>2. /\ Open(call[c]) /\ call[c].op = "cancel" /\ w.mem \in Mems /\ w \in Worlds
      /\ Now(w) /\ Onward(World, w, {}) /\ Steady(World, w) /\ SameMem(mem, w.mem)
  BY <1>1, ServedCall
<1>3. PICK r \in call[c].runs :
          IF call[c].saw \in Terminal
          THEN Become(w) /\ Returns(c)
          ELSE /\ Become(Await([w EXCEPT !.mem.cancelled = @ \cup {r},
                                         !.db[r].status = "cancelled",
                                         !.db[r].pauseReq = 0], c))
               /\ Goes(c, "marked")
  BY DEF MarkCancelled
<1> HIDE DEF w
<1>4. r \in Runs /\ w.mem.recovered = TRUE
  BY <1>2, <1>3, OpenCall DEF CallRecords, SameMem
<1>5. CASE call[c].saw \in Terminal
  <2>1. IInv' /\ World' = w
    BY <1>1, <1>2, <1>3, <1>5, ReturnKeeps
  <2> QED
    BY <1>2, <2>1
<1>6. CASE call[c].saw \notin Terminal
  <2> DEFINE S == w.mem.cancelled \cup {r}
             l == [w.mem EXCEPT !.cancelled = S]
             d == Put(w.db, r, Ended(w.db[r]))
             v == [w EXCEPT !.mem.cancelled = S, !.db[r].status = "cancelled", !.db[r].pauseReq = 0]
  <2>1. Become(Await(v, c)) /\ Goes(c, "marked")
    BY <1>3, <1>6
  <2>2. S \in SUBSET Runs /\ w.db \in [Runs -> Rows] /\ w.db[r] \in Rows
    BY <1>2, <1>4 DEF Mems, Worlds
  <2> HIDE DEF S
  <2>3. l \in Mems
    BY <1>2, <2>2 DEF Mems
  <2>4. d \in [Runs -> Rows]
    BY <1>4, <2>2, EndedIs DEF Put
  <2>5. v.mem = l /\ v.db = d /\ v.exec = w.exec
    BY <1>2 DEF Worlds, Put, Ended
  <2>6. v \in Worlds
    <3>1. v = [w EXCEPT !.mem = l, !.db = d]
      BY <1>2, ZenonT(60) DEF Worlds, Put, Ended
    <3> HIDE DEF v, l, d
    <3> QED
      BY <1>2, <2>3, <2>4, <3>1 DEF Worlds
  <2>7. /\ SameRest(w, v) /\ v.mem.closed = w.mem.closed /\ v.mem.recovered = w.mem.recovered
        /\ v.mem.queued = w.mem.queued /\ v.mem.cancelled = S /\ v.mem.specs = w.mem.specs
    <3> HIDE DEF v
    <3> QED
      BY <1>2, <2>5 DEF SameRest, Mems
  <2> HIDE DEF v, l
  <2>8. Now(v) /\ Onward(w, v, {}) /\ Steady(w, v)
    <3>1. Ended(w.db[r]).audits = Audits(w, r) /\ Ended(w.db[r]).status = "cancelled"
      BY <2>2, EndedIs DEF Audits
    <3>2. v.mem.cancelled = w.mem.cancelled \cup {r} /\ v.db = Put(w.db, r, Ended(w.db[r]))
      BY <2>5, <2>7 DEF S
    <3>3. Cancels(w, v, r, Ended(w.db[r]))
      BY <1>4, <2>7, <3>1, <3>2 DEF Cancels
    <3> HIDE DEF d
    <3> QED
      BY <1>2, <1>4, <2>6, <3>3, CancelNow
  <2>9. Now(Await(v, c)) /\ Onward(v, Await(v, c), {}) /\ Steady(v, Await(v, c))
    BY <2>8, AwaitNow
  <2>10. Onward(World, Await(v, c), ({} \cup {}) \cup {}) /\ Steady(World, Await(v, c))
    BY <1>2, <2>8, <2>9, OnwardTwice, SteadyTwice
  <2>11. "marked" \in CallStates
    BY DEF CallStates
  <2>12. IInv' /\ World' = Await(v, c)
    BY <1>1, <1>2, <2>1, <2>9, <2>10, <2>11, StepKeeps
  <2> QED
    BY <2>10, <2>12
<1> QED
  BY <1>5, <1>6

LEMMA DropCancelledKeeps ==
    ASSUME IInv, NEW c \in Calls, DropCancelled(c)
    PROVE  IInv' /\ Steady(World, World')
<1> DEFINE w == AfterWrite
<1>1. Continues(c, "cancel", "marked") /\ crashes' = crashes /\ Returns(c)
  BY DEF DropCancelled
<1>2. /\ Open(call[c]) /\ call[c].op = "cancel" /\ w.mem \in Mems /\ w \in Worlds
      /\ Now(w) /\ Onward(World, w, {}) /\ Steady(World, w)
  BY <1>1, ServedCall
<1>3. PICK r \in call[c].runs : Become(WakeWaiter([w EXCEPT !.mem.queued = RemoveFirst(@, r)], r))
  BY DEF DropCancelled
<1> HIDE DEF w
<1>4. r \in Runs /\ On(call[c], r)
  BY <1>2, <1>3, OpenCall DEF CallRecords, On
<1> DEFINE q == RemoveFirst(w.mem.queued, r)
           l == [w.mem EXCEPT !.queued = q]
           u == [w EXCEPT !.mem.queued = q]
           v == WakeWaiter(u, r)
<1>5. Become(v)
  BY <1>3
<1>6. /\ q \in Seq(Runs) /\ ToSet(q) \subseteq ToSet(w.mem.queued)
      /\ ToSet(w.mem.queued) \ {r} \subseteq ToSet(q)
  BY <1>2, RemoveFirstIs DEF Mems
<1> HIDE DEF q
<1>7. l \in Mems
  BY <1>2, <1>6 DEF Mems
<1>8. u \in Worlds /\ u.mem = l /\ u.db = w.db /\ u.exec = w.exec
  BY <1>2, <1>7 DEF Worlds
<1>9. /\ SameRest(w, u) /\ u.mem.closed = w.mem.closed /\ u.mem.recovered = w.mem.recovered
      /\ u.mem.cancelled = w.mem.cancelled /\ u.mem.specs = w.mem.specs /\ u.mem.queued = q
  <2> HIDE DEF u
  <2> QED
    BY <1>2, <1>8 DEF SameRest, Mems
<1> HIDE DEF u, l, v
<1>10. Now(u) /\ Onward(w, u, {}) /\ Steady(w, u)
  BY <1>2, <1>4, <1>6, <1>8, <1>9, NowIs, DroppedFits DEF Now
<1>11. Now(v) /\ Onward(u, v, {r}) /\ Steady(u, v)
  BY <1>4, <1>10, NowIs, WakeFits DEF Now, v
<1>12. Onward(World, v, ({} \cup {}) \cup {r}) /\ Steady(World, v)
  BY <1>2, <1>10, <1>11, OnwardTwice, SteadyTwice
<1>13. IInv' /\ World' = v
  BY <1>1, <1>2, <1>4, <1>5, <1>11, <1>12, ReturnKeeps
<1> QED
  BY <1>12, <1>13

\* A call made now is open to nobody yet.
LEMMA Unused ==
    ASSUME IInv, NEW c \in Calls, call[c].pc = "unused", NEW kc
    PROVE  /\ ~Open(call[c]) /\ Put(call, c, kc)[c] = kc
           /\ \A d \in Calls : d # c => Put(call, c, kc)[d] = call[d]
           /\ \A r : ~On(call[c], r)
<1>1. call \in ClientCalls
  BY OpenCall
<1>2. Put(call, c, kc)[c] = kc /\ \A d \in Calls : d # c => Put(call, c, kc)[d] = call[d]
  BY <1>1 DEF ClientCalls, Put
<1> QED
  BY <1>2 DEF Open, On

LEMMA ReadRunKeeps ==
    ASSUME IInv, NEW c \in Calls, NEW op \in Ops, NEW r \in Runs, ReadRun(c, op, r)
    PROVE  IInv' /\ Steady(World, World')
<1> DEFINE kc == [op |-> op, runs |-> {r}, pc |-> "read", saw |-> db[r].status, awaits |-> {}]
           v == Await(World, c)
           l == Put(call, c, kc)
<1>1. /\ call[c].pc = "unused" /\ mem.closed = FALSE /\ mem.recovered = TRUE
      /\ op \in {"pause", "resume", "cancel"} /\ St(World, r) # "absent"
      /\ call' = l /\ crashes' = crashes /\ Become(v)
  <2>1. mem.closed \in BOOLEAN /\ mem.recovered \in BOOLEAN
    BY NowIs DEF Mems
  <2> QED
    BY <2>1, WorldIs DEF ReadRun, Starts, Put, St
<1>2. kc \in CallRecords
  BY NowIs DEF CallRecords, CallStates, Rows
<1>3. kc.op = op /\ kc.runs = {r} /\ kc.pc = "read" /\ Open(kc)
  BY DEF Open
<1>4. /\ \A d \in Calls : On(call[d], r) => call[d].op # "resume" /\ op # "resume"
      /\ op = "resume" => Waits(World, r)
  <2>1. MayCall(op, r) /\ Careful
    BY DEF ReadRun, IInv
  <2> QED
    BY <2>1, WorldIs DEF MayCall, Pending, On, Open, Waits
<1> HIDE DEF kc, v, l
<1>5. /\ ~Open(call[c]) /\ l[c] = kc /\ \A d \in Calls : d # c => l[d] = call[d]
  BY <1>1, Unused DEF l
<1>6. Now(v) /\ Onward(World, v, {}) /\ Steady(World, v)
  BY NowIs, AwaitNow DEF v
<1>7. Created(l) = Created(call)
  BY <1>1, <1>3, <1>5, OpenCall, CreatedStays DEF l
<1>8. Fits(v, Created(l), crashes = 0, MaxParallelRuns)
  BY <1>6, <1>7 DEF Now
<1>9. LeavesAlone(call, c, kc, v)
  BY <1>3, <1>4 DEF LeavesAlone
<1>10. /\ v.mem.closed = FALSE /\ v.mem.recovered = TRUE
       /\ \A q \in Runs : /\ St(World, q) # "absent" => St(v, q) # "absent"
                          /\ Waits(World, q) => v.mem.closed \/ Waits(v, q)
  BY <1>1, <1>6, WorldIs DEF Onward
<1>11. CallFits(v, l, c)
  <2>1. op = "resume" => Waits(v, r) /\ \A d \in Calls : On(l[d], r) => d = c
    BY <1>4, <1>5, <1>10
  <2> QED
    BY <1>1, <1>3, <1>5, <1>10, <2>1 DEF CallFits
<1>12. IInv' /\ World' = v
  BY <1>1, <1>2, <1>8, <1>9, <1>10, <1>11, CallKeeps DEF l
<1> QED
  BY <1>6, <1>12

LEMMA InsertRunKeeps ==
    ASSUME IInv, NEW c \in Calls, NEW r \in Runs, InsertRun(c, r)
    PROVE  IInv' /\ Steady(World, World')
<1> DEFINE kc == [op |-> "create", runs |-> {r}, pc |-> "inserted", saw |-> "absent", awaits |-> {}]
           row == [db[r] EXCEPT !.status = "queued"]
           u == [World EXCEPT !.db[r].status = "queued"]
           v == Await(u, c)
           l == Put(call, c, kc)
           C == Created(call)
           fresh == crashes = 0
<1>1. /\ call[c].pc = "unused" /\ mem.closed = FALSE /\ mem.recovered = TRUE
      /\ "create" \in Ops /\ St(World, r) = "absent"
      /\ call' = l /\ crashes' = crashes /\ Become(v)
  <2>1. mem.closed \in BOOLEAN /\ mem.recovered \in BOOLEAN
    BY NowIs DEF Mems
  <2> QED
    BY <2>1, WorldIs DEF InsertRun, Starts, Put, St
<1>2. kc \in CallRecords
  BY <1>1 DEF CallRecords, CallStates, Statuses
<1>3. kc.op = "create" /\ kc.runs = {r} /\ kc.pc = "inserted" /\ Open(kc)
  BY DEF Open
<1> HIDE DEF kc, l
<1>4. Fits(World, C, fresh, MaxParallelRuns) /\ fresh \in BOOLEAN /\ World \in Worlds
  BY NowIs DEF Now
<1>5. row \in Rows /\ row.status = "queued" /\ row.audits = Audits(World, r)
  <2>1. db[r] \in Rows
    BY NowIs
  <2> QED
    BY <2>1, WorldIs DEF Rows, Audits, Statuses
<1>6. u = [World EXCEPT !.db = Put(db, r, row)]
  BY <1>4, WorldIs DEF Put, Worlds
<1> HIDE DEF row
<1>7. Put(db, r, row) \in [Runs -> Rows]
  BY <1>5, NowIs DEF Put
<1>8. u \in Worlds /\ u.db = Put(World.db, r, row) /\ u.mem = World.mem /\ u.exec = World.exec
  <2> HIDE DEF u
  <2> QED
    BY <1>4, <1>6, <1>7, WorldIs DEF Worlds
<1> HIDE DEF u, C, fresh
<1>9. Fits(u, C \cup {r}, fresh, MaxParallelRuns) /\ Onward(World, u, {}) /\ Steady(World, u)
  <2>1. Inserts(World, u, r, row)
    BY <1>1, <1>5, <1>8, WorldIs DEF Inserts
  <2> QED
    BY <1>4, <1>8, <2>1, InsertedFits
<1>10. Fits(v, C \cup {r}, fresh, MaxParallelRuns) /\ Onward(u, v, {}) /\ Steady(u, v)
  BY <1>4, <1>9, AwaitGoesOn
<1> HIDE DEF v
<1>11. Onward(World, v, {} \cup {}) /\ Steady(World, v)
  BY <1>9, <1>10, OnwardTwice, SteadyTwice
<1>12. /\ ~Open(call[c]) /\ l[c] = kc /\ \A d \in Calls : d # c => l[d] = call[d]
  BY <1>1, Unused DEF l
<1>13. Created(l) = C \cup {r}
  <2>1. call \in ClientCalls
    BY OpenCall
  <2> QED
    BY <1>3, <1>12, <2>1, CreatedGrows DEF l, C
<1>14. Fits(v, Created(l), crashes = 0, MaxParallelRuns)
  BY <1>10, <1>13 DEF fresh
<1>15. \A d \in Calls : On(call[d], r) => call[d].op = "close"
  <2> SUFFICES ASSUME NEW d \in Calls, On(call[d], r), call[d].op # "close"
               PROVE  FALSE
    OBVIOUS
  <2> QED
    BY <1>1, OpenCall DEF On
<1>16. LeavesAlone(call, c, kc, v)
  BY <1>3, <1>15 DEF LeavesAlone
<1>17. /\ v.mem.closed = FALSE /\ v.mem.recovered = TRUE
       /\ \A q \in Runs : /\ St(World, q) # "absent" => St(v, q) # "absent"
                          /\ Waits(World, q) => v.mem.closed \/ Waits(v, q)
  BY <1>1, <1>11, WorldIs DEF Onward
<1>18. St(v, r) # "absent"
  <2>1. St(u, r) = "queued"
    BY <1>4, <1>5, <1>8 DEF St, Put, Worlds
  <2> QED
    BY <1>10, <2>1 DEF Onward
<1>19. CallFits(v, l, c)
  <2>1. \A d \in Calls : l[d].op = "create" /\ Open(l[d]) /\ l[d].runs = l[c].runs => d = c
    <3> SUFFICES ASSUME NEW d \in Calls, l[d].op = "create", Open(l[d]), l[d].runs = l[c].runs, d # c
                 PROVE  FALSE
      OBVIOUS
    <3>1. On(call[d], r) /\ call[d].op = "create"
      BY <1>3, <1>12 DEF On
    <3> QED
      BY <1>15, <3>1
  <2> QED
    BY <1>3, <1>12, <1>17, <1>18, <2>1 DEF CallFits
<1>20. IInv' /\ World' = v
  BY <1>1, <1>2, <1>14, <1>16, <1>17, <1>19, CallKeeps DEF l
<1> QED
  BY <1>11, <1>20

LEMMA EnqueueRunKeeps ==
    ASSUME IInv, NEW c \in Calls, EnqueueRun(c)
    PROVE  IInv' /\ Steady(World, World')
<1> DEFINE kc == Over("returned")
           l == Put(call, c, kc)
           w == AfterWrite
           C == Created(call)
           fresh == crashes = 0
<1>1. Continues(c, "create", "inserted") /\ crashes' = crashes /\ call' = l
  BY DEF EnqueueRun, Returns, Put
<1>2. /\ Open(call[c]) /\ call[c].op = "create" /\ w.mem \in Mems /\ w \in Worlds
      /\ Now(w) /\ Onward(World, w, {}) /\ Steady(World, w)
  BY <1>1, ServedCall
<1>3. PICK r \in call[c].runs :
          Become(Pump([w EXCEPT !.mem.specs = @ \cup {r}, !.mem.queued = Append(@, r)]))
  BY DEF EnqueueRun
<1>4. kc \in CallRecords /\ kc.op = "none" /\ ~Open(kc)
  BY DEF Over, CallRecords, Statuses, CallStates, Open
<1> HIDE DEF w, kc
<1>5. r \in Runs /\ r \in C /\ Created(l) = C \ {r}
  <2>1. CallsFit(World, call) /\ r \in Runs
    BY <1>2, <1>3, OpenCall
  <2>2. r \in Created(call) /\ Created(Put(call, c, kc)) = Created(call) \ {r}
    BY <1>2, <1>3, <1>4, <2>1, CreatedShrinks
  <2> QED
    BY <2>1, <2>2
<1> DEFINE S == w.mem.specs \cup {r}
           q == Append(w.mem.queued, r)
           m == [w.mem EXCEPT !.specs = S, !.queued = q]
           u == [w EXCEPT !.mem.specs = S, !.mem.queued = q]
           v == Pump(u)
<1>6. Become(v)
  BY <1>3
<1>7. S \in SUBSET Runs /\ q \in Seq(Runs) /\ ToSet(q) = ToSet(w.mem.queued) \cup {r}
  <2>1. w.mem.queued \in Seq(Runs) /\ w.mem.specs \in SUBSET Runs
    BY <1>2 DEF Mems
  <2>2. ToSet(q) = ToSet(w.mem.queued) \cup {r}
    <3> DEFINE s == w.mem.queued
    <3>1. s \in Seq(Runs)
      BY <2>1
    <3> HIDE DEF s
    <3>2. Len(Append(s, r)) = Len(s) + 1 /\ Len(s) \in Nat /\ DOMAIN s = 1..Len(s)
          /\ DOMAIN Append(s, r) = 1..(Len(s) + 1)
          /\ Append(s, r)[Len(s) + 1] = r /\ \A i \in 1..Len(s) : Append(s, r)[i] = s[i]
      BY <1>5, <3>1
    <3>3. ToSet(Append(s, r)) = ToSet(s) \cup {r}
      BY <3>2 DEF ToSet
    <3> QED
      BY <3>3 DEF s
  <2> QED
    BY <1>5, <2>1, <2>2
<1> HIDE DEF S, q
<1>8. m \in Mems
  BY <1>2, <1>7 DEF Mems
<1>9. u \in Worlds /\ u.mem = m /\ u.db = w.db /\ u.exec = w.exec
  BY <1>2, <1>8 DEF Worlds
<1>10. /\ SameRest(w, u) /\ u.mem.closed = w.mem.closed /\ u.mem.recovered = w.mem.recovered
       /\ u.mem.cancelled = w.mem.cancelled /\ u.mem.specs = w.mem.specs \cup {r}
       /\ ToSet(u.mem.queued) = ToSet(w.mem.queued) \cup {r}
  <2> HIDE DEF u
  <2>1. u.mem.specs = S /\ u.mem.queued = q
    BY <1>2, <1>9 DEF Mems
  <2> QED
    BY <1>2, <1>7, <1>9, <2>1 DEF SameRest, Mems, S
<1>11. Fits(w, C, fresh, MaxParallelRuns) /\ fresh \in BOOLEAN
  BY <1>2 DEF Now
<1> HIDE DEF u, m, C, fresh
<1>12. Fits(u, C \ {r}, fresh, MaxParallelRuns) /\ Onward(w, u, {}) /\ Steady(w, u)
  BY <1>5, <1>9, <1>10, <1>11, EnqueuedFits
<1>13. Fits(v, C \ {r}, fresh, MaxParallelRuns) /\ Onward(u, v, {}) /\ Steady(u, v)
  BY <1>11, <1>12, PumpFits
<1> HIDE DEF v
<1>14. Onward(World, v, ({} \cup {}) \cup {}) /\ Steady(World, v)
  BY <1>2, <1>12, <1>13, OnwardTwice, SteadyTwice
<1>15. Fits(v, Created(l), crashes = 0, MaxParallelRuns)
  BY <1>5, <1>13 DEF fresh
<1>16. LeavesAlone(call, c, kc, v)
  BY <1>4 DEF LeavesAlone
<1>17. /\ v.mem.closed = mem.closed /\ v.mem.recovered = mem.recovered
       /\ \A p \in Runs : /\ St(World, p) # "absent" => St(v, p) # "absent"
                          /\ Waits(World, p) => v.mem.closed \/ Waits(v, p)
  BY <1>14, WorldIs DEF Onward
<1>18. IInv' /\ World' = v
  BY <1>1, <1>4, <1>6, <1>15, <1>16, <1>17, CallKeeps
<1> QED
  BY <1>14, <1>18

-----------------------------------------------------------------------------
(* close().                                                                *)

\* A world that close() works on.
Closing(w) ==
    /\ Now(w) /\ w.mem.closed = TRUE /\ w.mem.recovered = mem.recovered
    /\ \A r \in Runs : St(World, r) # "absent" => St(w, r) # "absent"
    /\ Steady(World, w)

LEMMA ClosingGoesOn ==
    ASSUME NEW w, Closing(w), NEW v, Now(v), Onward(w, v, {}), Steady(w, v)
    PROVE  Closing(v)
<1>1. Steady(World, v)
  BY SteadyTwice DEF Closing
<1> QED
  BY <1>1 DEF Closing, Onward

\* Call c may be, or become, a close() that is under way.
MayClose(c) == "close" \in Ops /\ (call[c].op # "create" \/ ~Open(call[c]))

\* A close() leaves all other calls alone, which it has closed.
LEMMA CloseKeeps ==
    ASSUME IInv, NEW c \in Calls, MayClose(c), NEW v, Closing(v), Become(v), crashes' = crashes,
           NEW kc \in CallRecords, call' = Put(call, c, kc),
           kc.op = "close", kc.runs # {} => v.mem.recovered
    PROVE  IInv' /\ Steady(World, World')
<1>1. call \in ClientCalls
  BY OpenCall
<1>2. Put(call, c, kc)[c] = kc
  BY <1>1 DEF ClientCalls, Put
<1>3. Created(Put(call, c, kc)) = Created(call)
  BY <1>1, CreatedStays DEF MayClose
<1>4. Fits(v, Created(Put(call, c, kc)), crashes = 0, MaxParallelRuns)
  BY <1>3 DEF Closing, Now
<1>5. v.mem.closed /\ v.mem.recovered = mem.recovered
  BY DEF Closing
<1>6. LeavesAlone(call, c, kc, v)
  BY <1>5 DEF LeavesAlone
<1>7. CallFits(v, Put(call, c, kc), c)
  BY <1>2, <1>5 DEF CallFits
<1>8. \A r \in Runs : /\ St(World, r) # "absent" => St(v, r) # "absent"
                      /\ Waits(World, r) => v.mem.closed \/ Waits(v, r) \/ On(call[c], r)
  BY <1>5 DEF Closing
<1>9. IInv' /\ World' = v
  BY <1>4, <1>5, <1>6, <1>7, <1>8, CallKeeps
<1> QED
  BY <1>9 DEF Closing

\* Whoever is on the list of executions has been started, after recovery.
LEMMA ExecutingIs ==
    ASSUME IInv
    PROVE  Executing(mem) \in SUBSET Runs /\ (Executing(mem) # {} => mem.recovered = TRUE)
<1>1. Executing(mem) \in SUBSET Runs
  BY DEF Executing
<1>2. ASSUME NEW r \in Executing(mem)
      PROVE  mem.recovered = TRUE
  <2>1. r \in Runs /\ Current(World, r) # NoExec /\ Current(World, r) \in Execs
    BY NowIs, WorldIs DEF Executing, Current, Mems
  <2>2. RunFits(World, Created(call), crashes = 0, r)
    BY <2>1, NowIs DEF Now, Fits
  <2>3. Linked(World, r) /\ StartFits(World, Created(call), r)
    BY <2>2 DEF RunFits
  <2>4. Pc(World, r) # "none"
    BY <2>1, <2>3 DEF Linked, Pc
  <2>5. mem.recovered \in BOOLEAN
    BY NowIs DEF Mems
  <2> QED
    BY <2>3, <2>4, <2>5, WorldIs DEF StartFits
<1> QED
  BY <1>1, <1>2

LEMMA SweepQueuedKeeps ==
    ASSUME IInv, NEW c \in Calls, MayClose(c), NEW w, Closing(w), NEW todo \in SUBSET Runs,
           todo # {} => mem.recovered = TRUE, SweepQueued(c, w, todo), crashes' = crashes
    PROVE  IInv' /\ Steady(World, World')
<1>1. PICK r \in todo :
        /\ Become(Await([w EXCEPT !.mem.cancelled = @ \cup {r},
                                  !.mem.pauseRequested = @ \ {r},
                                  !.mem.specs = @ \ {r},
                                  !.db[r].status = "cancelled",
                                  !.db[r].pauseReq = 0], c))
        /\ call' = [call EXCEPT ![c] = [op |-> "close", runs |-> todo \ {r}, pc |-> "queued",
                                       saw |-> "absent", awaits |-> {}]]
  BY DEF SweepQueued
<1> DEFINE kc == [op |-> "close", runs |-> todo \ {r}, pc |-> "queued", saw |-> "absent", awaits |-> {}]
           S == w.mem.cancelled \cup {r}
           P == w.mem.pauseRequested \ {r}
           T == w.mem.specs \ {r}
           d == Put(w.db, r, Ended(w.db[r]))
           l == [w.mem EXCEPT !.cancelled = S, !.pauseRequested = P, !.specs = T]
           v == [w EXCEPT !.mem.cancelled = S, !.mem.pauseRequested = P, !.mem.specs = T,
                          !.db[r].status = "cancelled", !.db[r].pauseReq = 0]
<1>2. r \in Runs /\ Become(Await(v, c)) /\ call' = Put(call, c, kc)
  BY <1>1 DEF Put
<1>3. /\ w \in Worlds /\ w.mem \in Mems /\ w.db \in [Runs -> Rows] /\ w.db[r] \in Rows
      /\ w.mem.closed = TRUE /\ w.mem.recovered = TRUE /\ Now(w)
  BY <1>1, <1>2 DEF Closing, Now, Fits, Worlds
<1>4. kc \in CallRecords /\ kc.op = "close"
  BY DEF CallRecords, CallStates, Statuses, MayClose
<1> HIDE DEF kc
<1>5. S \in SUBSET Runs /\ P \in SUBSET Runs /\ T \in SUBSET Runs
  BY <1>2, <1>3 DEF Mems
<1>6. d \in [Runs -> Rows]
  BY <1>2, <1>3, EndedIs DEF Put
<1> HIDE DEF S, P, T
<1>7. l \in Mems
  BY <1>3, <1>5 DEF Mems
<1>8. v.mem = l /\ v.db = d /\ v.exec = w.exec
  BY <1>3 DEF Worlds, Put, Ended
<1>9. v = [w EXCEPT !.mem = l, !.db = d]
  BY <1>3, ZenonT(60) DEF Worlds, Put, Ended
<1> HIDE DEF v, d
<1>10. v \in Worlds
  <2> HIDE DEF l
  <2> QED
    BY <1>3, <1>6, <1>7, <1>9 DEF Worlds
<1>11. /\ SameRest(w, v) /\ v.mem.closed = w.mem.closed /\ v.mem.recovered = w.mem.recovered
       /\ v.mem.queued = w.mem.queued /\ v.mem.cancelled = S /\ v.mem.specs = T
  BY <1>3, <1>8 DEF SameRest, Mems
<1> HIDE DEF l
<1>12. Ended(w.db[r]).audits = Audits(w, r) /\ Ended(w.db[r]).status = "cancelled"
  BY <1>3, EndedIs DEF Audits
<1>13. Cancels(w, v, r, Ended(w.db[r]))
  BY <1>3, <1>8, <1>11, <1>12 DEF Cancels, S, T, d
<1>14. Now(v) /\ Onward(w, v, {}) /\ Steady(w, v)
  BY <1>2, <1>3, <1>10, <1>13, CancelNow
<1>15. Closing(v)
  BY <1>14, ClosingGoesOn
<1>16. Now(Await(v, c)) /\ Onward(v, Await(v, c), {}) /\ Steady(v, Await(v, c))
  BY <1>14, AwaitNow
<1>17. Closing(Await(v, c))
  BY <1>15, <1>16, ClosingGoesOn
<1>18. Await(v, c).mem.recovered
  BY <1>3, <1>11, <1>16 DEF Onward
<1> QED
  BY <1>2, <1>4, <1>17, <1>18, CloseKeeps

LEMMA SweepExecutionsKeeps ==
    ASSUME IInv, NEW c \in Calls, MayClose(c), NEW w, Closing(w), NEW todo \in SUBSET Runs,
           todo # {} => mem.recovered = TRUE, SweepExecutions(c, w, todo), crashes' = crashes
    PROVE  IInv' /\ Steady(World, World')
<1>1. w \in Worlds /\ w.mem \in Mems /\ w.db \in [Runs -> Rows] /\ Now(w) /\ w.mem.closed = TRUE
  BY DEF Closing, Now, Fits, Worlds
<1>2. ASSUME NEW r \in todo,
             Become(Await(Write([w EXCEPT !.mem.cancelled = @ \cup {r}], r,
                                Statuses \ {"done", "failed"},
                                [w.db[r] EXCEPT !.status = "cancelled", !.pauseReq = 0]), c)),
             call' = [call EXCEPT ![c] = [op |-> "close", runs |-> todo \ {r},
                                         pc |-> "executions", saw |-> "absent", awaits |-> {}]]
      PROVE  IInv' /\ Steady(World, World')
  <2> DEFINE kc == [op |-> "close", runs |-> todo \ {r}, pc |-> "executions",
                    saw |-> "absent", awaits |-> {}]
             S == w.mem.cancelled \cup {r}
             l == [w.mem EXCEPT !.cancelled = S]
             u == [w EXCEPT !.mem.cancelled = S]
             v == Write(u, r, Statuses \ {"done", "failed"}, Ended(w.db[r]))
             row == IF St(w, r) \in {"done", "failed"} THEN w.db[r] ELSE Ended(w.db[r])
  <2>1. r \in Runs /\ Become(Await(v, c)) /\ call' = Put(call, c, kc) /\ w.mem.recovered = TRUE
    BY <1>2 DEF Put, Ended, Closing
  <2>2. kc \in CallRecords /\ kc.op = "close"
    BY DEF CallRecords, CallStates, Statuses, MayClose
  <2> HIDE DEF kc
  <2>3. S \in SUBSET Runs
    BY <1>1, <2>1 DEF Mems
  <2> HIDE DEF S
  <2>4. l \in Mems
    BY <1>1, <2>3 DEF Mems
  <2>5. u \in Worlds /\ u.mem = l /\ u.db = w.db /\ u.exec = w.exec
    BY <1>1, <2>4 DEF Worlds
  <2>6. w.db[r] \in Rows /\ w.db[r].status \in Statuses
    BY <1>1, <2>1 DEF Rows
  <2>7. /\ row \in Rows /\ row.audits = Audits(w, r)
        /\ \/ row.status = "cancelled"
           \/ row.status = St(w, r) /\ row.status \in {"done", "failed"}
    BY <2>6, EndedIs DEF Audits, St
  <2>8. v.mem = l /\ v.exec = w.exec /\ v.db = Put(w.db, r, row) /\ v \in Worlds
    <3> HIDE DEF u, l
    <3>1. CASE St(w, r) \in {"done", "failed"}
      <4>1. v = u
        BY <2>5, <3>1 DEF Write, St
      <4>2. w.db = Put(w.db, r, w.db[r]) /\ row = w.db[r]
        BY <1>1, <2>1, <3>1 DEF Put
      <4> HIDE DEF v, row
      <4> QED
        BY <2>5, <4>1, <4>2
    <3>2. CASE St(w, r) \notin {"done", "failed"}
      <4>1. v = [u EXCEPT !.db = Put(w.db, r, row)]
        BY <2>5, <2>6, <3>2 DEF Write, St, Put
      <4> HIDE DEF v, row
      <4>2. Put(w.db, r, row) \in [Runs -> Rows]
        BY <1>1, <2>1, <2>7 DEF Put
      <4> QED
        BY <2>4, <2>5, <4>1, <4>2 DEF Worlds
    <3> QED
      BY <3>1, <3>2
  <2> HIDE DEF v, row, u
  <2>9. /\ SameRest(w, v) /\ v.mem.closed = w.mem.closed /\ v.mem.recovered = w.mem.recovered
        /\ v.mem.queued = w.mem.queued /\ v.mem.cancelled = S /\ v.mem.specs = w.mem.specs
    BY <1>1, <2>8 DEF SameRest, Mems
  <2> HIDE DEF l
  <2>10. Cancels(w, v, r, row)
    BY <2>1, <2>7, <2>8, <2>9 DEF Cancels, S
  <2>11. Now(v) /\ Onward(w, v, {}) /\ Steady(w, v)
    BY <1>1, <2>1, <2>8, <2>10, CancelNow
  <2>12. Now(Await(v, c)) /\ Onward(v, Await(v, c), {}) /\ Steady(v, Await(v, c))
    BY <2>11, AwaitNow
  <2>13. Closing(v)
    BY <2>11, ClosingGoesOn
  <2>14. Closing(Await(v, c))
    BY <2>12, <2>13, ClosingGoesOn
  <2>15. Await(v, c).mem.recovered
    BY <2>1, <2>9, <2>12 DEF Onward
  <2> QED
    BY <2>1, <2>2, <2>14, <2>15, CloseKeeps
<1>3. ASSUME Become(WakeEverything(w)),
             call' = [call EXCEPT ![c] = [op |-> "close", runs |-> {}, pc |-> "waiting",
                        saw |-> "absent", awaits |-> {w.mem.executions[r] : r \in Executing(w.mem)}]]
      PROVE  IInv' /\ Steady(World, World')
  <2> DEFINE a == {w.mem.executions[r] : r \in Executing(w.mem)}
             kc == [op |-> "close", runs |-> {}, pc |-> "waiting", saw |-> "absent", awaits |-> a]
             v == WakeEverything(w)
  <2>1. call' = Put(call, c, kc) /\ Become(v)
    BY <1>3 DEF Put
  <2>2. a \in SUBSET Execs
    BY <1>1 DEF Mems, Executing
  <2> HIDE DEF a
  <2>3. kc \in CallRecords /\ kc.op = "close" /\ kc.runs = {}
    BY <2>2 DEF CallRecords, CallStates, Statuses, MayClose
  <2> HIDE DEF kc
  <2>4. Now(v) /\ Onward(w, v, {}) /\ Steady(w, v)
    <3>1. Fits(w, Created(call), crashes = 0, MaxParallelRuns) /\ (crashes = 0) \in BOOLEAN /\ w.mem.closed
      BY <1>1 DEF Now
    <3> QED
      BY <3>1, WakeAllFits DEF Now
  <2> HIDE DEF v
  <2>5. Closing(v)
    BY <2>4, ClosingGoesOn
  <2> QED
    BY <2>1, <2>3, <2>5, CloseKeeps
<1> QED
  BY <1>2, <1>3 DEF SweepExecutions

LEMMA CloseBeginsKeeps ==
    ASSUME IInv, NEW c \in Calls, CloseBegins(c)
    PROVE  IInv' /\ Steady(World, World')
<1> DEFINE w == [World EXCEPT !.mem.closed = TRUE, !.mem.queued = <<>>]
           l == [mem EXCEPT !.closed = TRUE, !.queued = <<>>]
           todo == ToSet(mem.queued)
<1>1. /\ call[c].pc = "unused" /\ "close" \in Ops /\ crashes' = crashes
      /\ IF todo # {} THEN SweepQueued(c, w, todo) ELSE SweepExecutions(c, w, Executing(mem))
  BY DEF CloseBegins
<1>2. World \in Worlds /\ mem \in Mems /\ mem.queued \in Seq(Runs) /\ Now(World)
  BY NowIs DEF Mems
<1>3. w.mem = l /\ w.db = World.db /\ w.exec = World.exec
  BY <1>2, WorldIs DEF Worlds
<1>4. l \in Mems /\ l.closed = TRUE /\ l.recovered = mem.recovered /\ l.queued = <<>>
      /\ l.executions = mem.executions /\ l.resumeWaiters = mem.resumeWaiters
      /\ l.slotOwners = mem.slotOwners /\ l.slots = mem.slots /\ l.semWaiters = mem.semWaiters
      /\ l.cancelled = mem.cancelled
  <2>1. <<>> \in Seq(Runs)
    OBVIOUS
  <2> DEFINE e == <<>>
  <2>2. e \in Seq(Runs)
    BY <2>1
  <2>3. l = [mem EXCEPT !.closed = TRUE, !.queued = e]
    OBVIOUS
  <2>4. e = <<>>
    OBVIOUS
  <2> HIDE DEF e
  <2> QED
    BY <1>2, <2>2, <2>3, <2>4 DEF Mems
<1>5. w = [World EXCEPT !.mem = l]
  BY <1>2, WorldIs DEF Worlds
<1> HIDE DEF w, l
<1>6. w \in Worlds
  BY <1>2, <1>4, <1>5 DEF Worlds
<1>7. SameRest(World, w) /\ w.mem.recovered = mem.recovered /\ w.mem.cancelled = World.mem.cancelled
      /\ w.mem.closed = TRUE /\ w.mem.queued = <<>>
  BY <1>3, <1>4, WorldIs DEF SameRest
<1>8. ToSet(w.mem.queued) = {}
  BY <1>7 DEF ToSet
<1>9. Now(w) /\ Steady(World, w)
  <2> DEFINE fresh == crashes = 0
             C == Created(call)
  <2>1. Fits(World, C, fresh, MaxParallelRuns) /\ fresh \in BOOLEAN
    BY <1>2 DEF Now
  <2> HIDE DEF fresh, C
  <2>2. Fits(w, C, fresh, MaxParallelRuns) /\ Steady(World, w)
    BY <1>3, <1>6, <1>7, <1>8, <2>1, WorldIs, ClosedFits
  <2> QED
    BY <2>2 DEF Now, fresh, C
<1>10. Closing(w)
  BY <1>3, <1>7, <1>9 DEF Closing, St
<1>11. MayClose(c)
  BY <1>1 DEF MayClose, Open
<1>12. CASE todo # {}
  <2>1. todo \in SUBSET Runs
    BY <1>2 DEF ToSet
  <2>2. PICK r \in todo : TRUE
    BY <1>12
  <2>3. StartFits(World, Created(call), r) /\ r \in Queued(World)
    BY <1>2, <2>1, <2>2, WorldIs DEF Now, Fits, RunFits, Queued
  <2>4. mem.recovered = TRUE
    BY <1>2, <2>3, WorldIs DEF StartFits, Mems
  <2>5. SweepQueued(c, w, todo)
    BY <1>1, <1>12
  <2> HIDE DEF todo
  <2> QED
    BY <1>1, <1>10, <1>11, <2>1, <2>4, <2>5, SweepQueuedKeeps
<1>13. CASE todo = {}
  BY <1>1, <1>10, <1>11, <1>13, ExecutingIs, SweepExecutionsKeeps
<1> QED
  BY <1>12, <1>13

LEMMA CloseContinuesKeeps ==
    ASSUME IInv, NEW c \in Calls, CloseContinues(c)
    PROVE  IInv' /\ Steady(World, World')
<1> DEFINE w == AfterWrite
           todo == call[c].runs
<1>1. /\ Continues(c, "close", "queued") \/ Continues(c, "close", "executions")
      /\ crashes' = crashes
      /\ \/ SweepQueued(c, w, todo)
         \/ SweepExecutions(c, w, Executing(mem))
         \/ SweepExecutions(c, w, todo)
  BY DEF CloseContinues
<1>2. /\ Open(call[c]) /\ call[c].op = "close" /\ w.mem \in Mems
      /\ Now(w) /\ Onward(World, w, {}) /\ Steady(World, w)
  BY <1>1, ServedCall
<1>3. /\ todo \in SUBSET Runs /\ call[c].op \in Ops \cup {"none"}
      /\ mem.closed = TRUE /\ (todo # {} => mem.recovered = TRUE)
  <2>1. call[c] \in CallRecords /\ CallFits(World, call, c) /\ mem \in Mems
    BY <1>2, OpenCall, NowIs
  <2>2. mem.closed \in BOOLEAN /\ mem.recovered \in BOOLEAN
    BY <2>1 DEF Mems
  <2> QED
    BY <1>2, <2>1, <2>2, WorldIs DEF CallRecords, CallFits
<1> HIDE DEF w, todo
<1>4. MayClose(c)
  BY <1>2, <1>3 DEF MayClose
<1>5. Closing(w)
  BY <1>2, <1>3, WorldIs DEF Closing, Onward
<1>6. CASE SweepQueued(c, w, todo)
  BY <1>1, <1>3, <1>4, <1>5, <1>6, SweepQueuedKeeps
<1>7. CASE SweepExecutions(c, w, Executing(mem))
  BY <1>1, <1>4, <1>5, <1>7, ExecutingIs, SweepExecutionsKeeps
<1>8. CASE SweepExecutions(c, w, todo)
  BY <1>1, <1>3, <1>4, <1>5, <1>8, SweepExecutionsKeeps
<1> QED
  BY <1>1, <1>6, <1>7, <1>8

\* A world that stays as it is.
LEMMA StaysIs ==
    ASSUME UNCHANGED <<db, mem, exec>>
    PROVE  Become(World) /\ Onward(World, World, {}) /\ Steady(World, World)
BY WorldIs DEF Become, Onward, Steady

LEMMA CloseAgainKeeps ==
    ASSUME IInv, NEW c \in Calls, CloseAgain(c)
    PROVE  IInv' /\ Steady(World, World')
<1> DEFINE a == {mem.executions[r] : r \in Executing(mem)}
           kc == [op |-> "close", runs |-> {}, pc |-> "waiting", saw |-> "absent", awaits |-> a]
<1>1. /\ call[c].pc = "unused" /\ "close" \in Ops /\ mem.closed /\ call' = Put(call, c, kc)
      /\ crashes' = crashes /\ UNCHANGED <<db, mem, exec>>
  BY DEF CloseAgain, Put
<1>2. mem \in Mems /\ Now(World)
  BY NowIs
<1>3. a \in SUBSET Execs
  BY <1>2 DEF Mems, Executing
<1> HIDE DEF a
<1>4. kc \in CallRecords /\ kc.op = "close" /\ kc.runs = {}
  BY <1>1, <1>3 DEF CallRecords, CallStates, Statuses
<1> HIDE DEF kc
<1>5. MayClose(c)
  BY <1>1 DEF MayClose, Open
<1>6. Closing(World)
  <2>1. mem.closed = TRUE
    BY <1>1, <1>2 DEF Mems
  <2> QED
    BY <1>1, <1>2, <2>1, StaysIs, WorldIs DEF Closing
<1> QED
  BY <1>1, <1>4, <1>5, <1>6, StaysIs, CloseKeeps

LEMMA CloseReturnsKeeps ==
    ASSUME IInv, NEW c \in Calls, CloseReturns(c)
    PROVE  IInv' /\ Steady(World, World')
<1>1. /\ call[c].op = "close" /\ Returns(c) /\ crashes' = crashes
      /\ UNCHANGED <<db, mem, exec>>
  BY DEF CloseReturns, At
<1>2. Now(World) /\ Become(World) /\ Onward(World, World, {}) /\ Steady(World, World)
  BY <1>1, NowIs, StaysIs
<1>3. IInv' /\ World' = World
  BY <1>1, <1>2, ReturnKeeps
<1> QED
  BY <1>2, <1>3

-----------------------------------------------------------------------------
(* All steps together.                                                     *)

\* No agent turn begins on a run whose row says cancelled.
NoneBegins ==
    \A x \in Execs :
        exec'[x].pc = "working" /\ exec'[x] # exec[x] => db[RunOf(x)].status # "cancelled"

LEMMA SteadyBegins ==
    ASSUME Steady(World, World')
    PROVE  NoneBegins
<1>1. World'.exec = exec' /\ World.exec = exec
  BY DEF World
<1> QED
  BY <1>1 DEF Steady, NoneBegins

\* An execution that is told neither to stop nor to wait is of no cancelled run.
LEMMA GoesOnUncancelled ==
    ASSUME IInv, NEW x \in Execs, exec[x].pc # "none", ~Stopping(RunOf(x))
    PROVE  db[RunOf(x)].status # "cancelled"
<1>1. /\ RowFits(World, Created(call), RunOf(x)) /\ Pc(World, RunOf(x)) # "none"
      /\ ~mem.closed /\ RunOf(x) \notin mem.cancelled
  BY UnderWay DEF Stopping
<1> QED
  BY <1>1, WorldIs DEF RowFits, St

LEMMA PassCheckpointBegins ==
    ASSUME IInv, NEW x \in Execs, PassCheckpoint(x)
    PROVE  NoneBegins
<1> DEFINE w == Arrived(x)
           turn == IF exec[x].pc = "working" THEN 1 ELSE 0
<1>1. /\ AtCheckpoint(x) /\ ~Stopping(RunOf(x))
      /\ Become([GoTo(w, x, "working") EXCEPT !.exec[x].turns = @ + turn])
  BY DEF PassCheckpoint
<1>2. w \in Worlds /\ w.exec = exec /\ exec[x].pc # "none"
  BY <1>1, ArrivedIs
<1> HIDE DEF w, turn
<1>3. \A y \in Execs : y # x => exec'[y] = exec[y]
  BY <1>1, <1>2 DEF Become, GoTo, Worlds
<1>4. db[RunOf(x)].status # "cancelled"
  BY <1>1, <1>2, GoesOnUncancelled
<1> QED
  BY <1>3, <1>4 DEF NoneBegins

LEMMA LeavePauseBegins ==
    ASSUME IInv, NEW x \in Execs, LeavePause(x)
    PROVE  NoneBegins
<1> DEFINE w == AfterWrite
<1>1. /\ exec[x].pc = "resuming" /\ Served(x)
      /\ Become(IF Stopping(RunOf(x)) THEN Abort(w, x) ELSE GoTo(w, x, "working"))
  BY DEF LeavePause
<1>2. /\ w \in Worlds /\ w.exec = exec /\ w.db = db /\ SameMem(mem, w.mem) /\ Steady(World, w)
      /\ Fits(w, Created(call), crashes = 0, MaxParallelRuns) /\ (crashes = 0) \in BOOLEAN
  BY <1>1, NowIs, ServedGoesOn DEF Now
<1> HIDE DEF w
<1>3. CASE Stopping(RunOf(x))
  <2>1. Steady(w, Abort(w, x)) /\ Abort(w, x) \in Worlds
    <3>1. /\ w.exec[x].pc \in {"marking", "working", "parked", "granted", "denied", "resuming"}
          /\ w.exec[x].pc # "parked" /\ (RunOf(x) \in w.mem.cancelled \/ w.mem.closed)
          /\ MaxParallelRuns \in Int
      BY <1>1, <1>2, <1>3, NowIs DEF Stopping, SameMem
    <3> DEFINE C == Created(call)
               fresh == crashes = 0
    <3>2. Fits(w, C, fresh, MaxParallelRuns) /\ fresh \in BOOLEAN
      BY <1>2
    <3> HIDE DEF C, fresh
    <3>3. /\ Fits(Abort(w, x), C, fresh, MaxParallelRuns - Weight(w.exec[x]))
          /\ Steady(w, Abort(w, x))
      BY <3>1, <3>2, AbortGoesOn
    <3> QED
      BY <3>3 DEF Fits
  <2>2. World' = Abort(w, x)
    BY <1>1, <1>3, <2>1, BecomeIs
  <2> QED
    BY <1>2, <2>1, <2>2, SteadyTwice, SteadyBegins
<1>4. CASE ~Stopping(RunOf(x))
  <2>1. \A y \in Execs : y # x => exec'[y] = exec[y]
    BY <1>1, <1>2, <1>4 DEF Become, GoTo, Worlds
  <2>2. db[RunOf(x)].status # "cancelled"
    BY <1>1, <1>4, GoesOnUncancelled
  <2> QED
    BY <2>1, <2>2 DEF NoneBegins
<1> QED
  BY <1>3, <1>4

LEMMA ExecuteKeeps ==
    ASSUME IInv, NEW x \in Execs, Execute(x)
    PROVE  IInv' /\ NoneBegins
<1>1. call' = call /\ crashes' = crashes
  BY DEF Execute, StopAtCheckpoint, YieldAtCheckpoint, PassCheckpoint, GiveUpSlot,
     ReacquireSlot, ResumeWithSlot, StopWithoutSlot, LeavePause, Settle, WriteCompletionAudit, Finalize
<1>2. Kept /\ NoneBegins
  <2>1. CASE StopAtCheckpoint(x)
    BY <2>1, StopAtCheckpointKeeps, SteadyBegins
  <2>2. CASE YieldAtCheckpoint(x)
    BY <2>2, YieldAtCheckpointKeeps, SteadyBegins
  <2>3. CASE PassCheckpoint(x)
    BY <2>3, PassCheckpointKeeps, PassCheckpointBegins
  <2>4. CASE GiveUpSlot(x)
    BY <2>4, GiveUpSlotKeeps, SteadyBegins
  <2>5. CASE ReacquireSlot(x)
    BY <2>5, ReacquireSlotKeeps, SteadyBegins
  <2>6. CASE ResumeWithSlot(x)
    BY <2>6, ResumeWithSlotKeeps, SteadyBegins
  <2>7. CASE StopWithoutSlot(x)
    BY <2>7, StopWithoutSlotKeeps, SteadyBegins
  <2>8. CASE LeavePause(x)
    BY <2>8, LeavePauseKeeps, LeavePauseBegins
  <2>9. CASE Settle(x, "done")
    BY <2>9, SettleKeeps, SteadyBegins
  <2>10. CASE Settle(x, "failed")
    BY <2>10, SettleKeeps, SteadyBegins
  <2>11. CASE WriteCompletionAudit(x)
    BY <2>11, WriteCompletionAuditKeeps, SteadyBegins
  <2>12. CASE Finalize(x)
    BY <2>12, FinalizeKeeps, SteadyBegins
  <2> QED
    BY <2>1, <2>2, <2>3, <2>4, <2>5, <2>6, <2>7, <2>8, <2>9, <2>10, <2>11, <2>12 DEF Execute
<1> QED
  BY <1>1, <1>2, ExecutionKeeps

LEMMA InvokeKeeps ==
    ASSUME IInv, NEW c \in Calls, Invoke(c)
    PROVE  IInv' /\ NoneBegins
<1>1. ASSUME NEW r \in Runs, InsertRun(c, r)
      PROVE  IInv' /\ NoneBegins
  BY <1>1, InsertRunKeeps, SteadyBegins
<1>2. ASSUME NEW op \in Ops, NEW r \in Runs, ReadRun(c, op, r)
      PROVE  IInv' /\ NoneBegins
  BY <1>2, ReadRunKeeps, SteadyBegins
<1>3. CASE CloseBegins(c)
  BY <1>3, CloseBeginsKeeps, SteadyBegins
<1>4. CASE CloseAgain(c)
  BY <1>4, CloseAgainKeeps, SteadyBegins
<1> QED
  BY <1>1, <1>2, <1>3, <1>4 DEF Invoke

LEMMA ContinueKeeps ==
    ASSUME IInv, NEW c \in Calls, Continue(c)
    PROVE  IInv' /\ NoneBegins
<1>1. CASE EnqueueRun(c)
  BY <1>1, EnqueueRunKeeps, SteadyBegins
<1>2. CASE RequestPause(c)
  BY <1>2, RequestPauseKeeps, SteadyBegins
<1>3. CASE ParkQueuedRun(c)
  BY <1>3, ParkQueuedRunKeeps, SteadyBegins
<1>4. CASE PauseReturns(c)
  BY <1>4, PauseReturnsKeeps, SteadyBegins
<1>5. CASE ClearPause(c)
  BY <1>5, ClearPauseKeeps, SteadyBegins
<1>6. CASE WakeOrRequeue(c)
  BY <1>6, WakeOrRequeueKeeps, SteadyBegins
<1>7. CASE PumpAfterResume(c)
  BY <1>7, PumpAfterResumeKeeps, SteadyBegins
<1>8. CASE MarkCancelled(c)
  BY <1>8, MarkCancelledKeeps, SteadyBegins
<1>9. CASE DropCancelled(c)
  BY <1>9, DropCancelledKeeps, SteadyBegins
<1>10. CASE CloseContinues(c)
  BY <1>10, CloseContinuesKeeps, SteadyBegins
<1>11. CASE CloseReturns(c)
  BY <1>11, CloseReturnsKeeps, SteadyBegins
<1> QED
  BY <1>1, <1>2, <1>3, <1>4, <1>5, <1>6, <1>7, <1>8, <1>9, <1>10, <1>11 DEF Continue

LEMMA NextKeeps == IInv /\ [Next]_vars => IInv' /\ [NoneBegins]_vars
<1> SUFFICES ASSUME IInv, [Next]_vars
             PROVE  IInv' /\ [NoneBegins]_vars
  OBVIOUS
<1>1. CASE UNCHANGED vars
  <2>1. World' = World /\ call' = call /\ crashes' = crashes
    BY <1>1 DEF vars, World
  <2>2. Fits(World', Created(call'), crashes' = 0, MaxParallelRuns) /\ CallsFit(World', call')
    BY <2>1 DEF IInv
  <2> QED
    BY <1>1, <2>1, <2>2 DEF IInv
<1>2. ASSUME NEW x \in Execs, Execute(x)
      PROVE  IInv' /\ NoneBegins
  BY <1>2, ExecuteKeeps
<1>3. ASSUME NEW c \in Calls, Invoke(c) \/ Continue(c)
      PROVE  IInv' /\ NoneBegins
  BY <1>3, InvokeKeeps, ContinueKeeps
<1>4. CASE RecoverStaleRuns
  BY <1>4, RecoverStaleRunsKeeps, SteadyBegins
<1>5. CASE Crash
  <2>1. NoneBegins
    BY <1>5 DEF Crash, NoExecutions, NoneBegins
  <2> QED
    BY <1>5, <2>1, CrashKeeps
<1> QED
  BY <1>1, <1>2, <1>3, <1>4, <1>5 DEF Next

-----------------------------------------------------------------------------
(* What the invariant says.                                                *)

\* Whoever works stands for a slot that its run owns, and for no other.
LEMMA WorkersAreFew ==
    ASSUME IInv
    PROVE  Cardinality(ActivelyRunning) <= Cardinality(mem.slotOwners)
<1> DEFINE f == [x \in ActivelyRunning |-> RunOf(x)]
<1>1. IsFiniteSet(mem.slotOwners)
  <2>1. mem.slotOwners \subseteq Runs
    BY NowIs DEF Mems
  <2> QED
    BY <2>1, RunsAssumption, FS_Subset
<1>2. ASSUME NEW x \in ActivelyRunning
      PROVE  RunOf(x) \in mem.slotOwners /\ x = Current(World, RunOf(x))
  <2>1. x \in Execs /\ exec[x].pc \in Holds /\ exec[x].pc # "none"
    BY DEF ActivelyRunning, Holds
  <2>2. Current(World, RunOf(x)) = x /\ Pc(World, RunOf(x)) = exec[x].pc /\ SlotFits(World, RunOf(x))
    BY <2>1, UnderWay
  <2> QED
    BY <2>1, <2>2, WorldIs DEF SlotFits
<1>3. f \in [ActivelyRunning -> mem.slotOwners]
  BY <1>2
<1>4. \A x, y \in ActivelyRunning : f[x] = f[y] => x = y
  BY <1>2
<1> HIDE DEF f
<1>5. f \in Injection(ActivelyRunning, mem.slotOwners)
  BY <1>3, <1>4 DEF Injection, IsInjective
<1> QED
  BY <1>1, <1>5, FS_Injection

LEMMA SlotsMatch ==
    ASSUME IInv
    PROVE  SlotsAndExecutionsMatch
<1>1. Slots(World) = MaxParallelRuns /\ mem.slots \in Nat
  BY NowIs DEF Now, Fits, Mems
<1>2. mem.slots + Cardinality(mem.slotOwners)
                + Cardinality({x \in Execs : exec[x].pc = "granted"}) = MaxParallelRuns
  BY <1>1, WorldIs DEF Slots, Granted
<1>3. /\ Cardinality(mem.slotOwners) \in Nat
      /\ Cardinality({x \in Execs : exec[x].pc = "granted"}) \in Nat
      /\ Cardinality(ActivelyRunning) \in Nat
  <2>1. mem.slotOwners \subseteq Runs
    BY NowIs DEF Mems
  <2>2. IsFiniteSet(mem.slotOwners)
    BY <2>1, RunsAssumption, FS_Subset
  <2>3. IsFiniteSet({x \in Execs : exec[x].pc = "granted"}) /\ IsFiniteSet(ActivelyRunning)
    BY ExecsFinite, FS_Subset DEF ActivelyRunning
  <2> QED
    BY <2>2, <2>3, FS_CardinalityType
<1>4. Cardinality(ActivelyRunning) <= Cardinality(mem.slotOwners)
  BY WorkersAreFew
<1>5. Cardinality(ActivelyRunning) <= MaxParallelRuns
  <2> DEFINE a == Cardinality(ActivelyRunning)
             b == Cardinality(mem.slotOwners)
             g == Cardinality({x \in Execs : exec[x].pc = "granted"})
  <2>1. a \in Nat /\ b \in Nat /\ g \in Nat /\ a <= b /\ mem.slots + b + g = MaxParallelRuns
    BY <1>2, <1>3, <1>4
  <2> HIDE DEF a, b, g
  <2>2. a <= MaxParallelRuns
    BY <1>1, <2>1
  <2> QED
    BY <2>2 DEF a
<1>6. OneExecutionPerRun
  <2> SUFFICES ASSUME NEW x \in Execs, NEW y \in Execs, RunOf(x) = RunOf(y), ~Settled(x), ~Settled(y)
               PROVE  x = y
    BY DEF OneExecutionPerRun
  <2>1. Current(World, RunOf(x)) = x
    BY UnderWay DEF Settled
  <2>2. Current(World, RunOf(y)) = y
    BY UnderWay DEF Settled
  <2> QED
    BY <2>1, <2>2
<1> QED
  BY <1>2, <1>5, <1>6 DEF SlotsAndExecutionsMatch, SlotsConserved

LEMMA RowsMatch ==
    ASSUME IInv
    PROVE  RowsTellTheTruth
<1>1. ASSUME NEW r \in Runs
      PROVE  RunFits(World, Created(call), crashes = 0, r)
  BY NowIs DEF Now, Fits
<1>2. RunningHasExecution
  <2> SUFFICES ASSUME mem.recovered, ~mem.closed, NEW r \in Runs, db[r].status = "running"
               PROVE  \E x \in Execs : RunOf(x) = r /\ ~Settled(x)
    BY DEF RunningHasExecution
  <2>1. Linked(World, r) /\ SlotFits(World, r) /\ RowFits(World, Created(call), r)
    BY <1>1 DEF RunFits
  <2>2. Pc(World, r) \notin {"none", "rejected"}
    BY <2>1, WorldIs DEF SlotFits, RowFits, St
  <2>3. Current(World, r) \in Execs /\ RunOf(Current(World, r)) = r
        /\ Pc(World, r) = exec[Current(World, r)].pc
    BY <2>1, <2>2, NowIs, WorldIs DEF Linked, Pc, Current, Mems
  <2> QED
    BY <2>2, <2>3 DEF Settled
<1>3. SpendRecordedOnce
  <2> SUFFICES ASSUME crashes = 0, NEW r \in Runs, db[r].status \in {"done", "failed"},
                      mem.executions[r] = NoExec
               PROVE  db[r].audits = 1
    BY DEF SpendRecordedOnce
  <2>1. AuditFits(World, Created(call), r)
    BY <1>1 DEF RunFits
  <2>2. Pc(World, r) = "none"
    BY WorldIs DEF Pc, Current
  <2> QED
    BY <2>1, <2>2, WorldIs DEF AuditFits, St, Audits
<1> QED
  BY <1>2, <1>3 DEF RowsTellTheTruth

LEMMA NobodyRejects ==
    ASSUME IInv
    PROVE  ExecuteRunNeverRejects
<1> SUFFICES ASSUME NEW x \in Execs, exec[x].pc = "rejected"
             PROVE  FALSE
  BY DEF ExecuteRunNeverRejects
<1>1. Pc(World, RunOf(x)) = exec[x].pc /\ SlotFits(World, RunOf(x))
  BY UnderWay
<1> QED
  BY <1>1 DEF SlotFits

-----------------------------------------------------------------------------
(* The theorems.                                                           *)

\* Everything the proofs know of a scheduler whose clients are careful.
THEOREM SchedulerInvariant == Careful /\ Spec => []IInv
<1>1. Careful /\ Init => IInv
  BY InitFits
<1>2. IInv /\ [Next]_vars => IInv'
  BY NextKeeps
<1> QED
  BY <1>1, <1>2, PTL DEF Spec

\* Slots are neither lost nor created by Semaphore, executeRun() and
\* pauseAndWait(), no more executions are at work than there are slots, and no
\* run is executed twice at once, however calls overlap with pauses, ends,
\* close() and restarts.
THEOREM SlotsMatchExecutions == Careful /\ Spec => []SlotsAndExecutionsMatch
<1>1. IInv => SlotsAndExecutionsMatch
  BY SlotsMatch
<1> QED
  BY <1>1, SchedulerInvariant, PTL

\* A row that says running has an execution of this process behind it
\* (executeRun, recoverStaleRuns), and a run that is done or failed has its
\* spend recorded once (writeCompletionAudit), unless the process died.
THEOREM RowsAreTrue == Careful /\ Spec => []RowsTellTheTruth
<1>1. IInv => RowsTellTheTruth
  BY RowsMatch
<1> QED
  BY <1>1, SchedulerInvariant, PTL

\* "executeRun never rejects" (pump) is true as long as clients are careful:
\* whatever the pump starts still has its spec.
THEOREM CarefulNeverReject == Careful /\ Spec => []ExecuteRunNeverRejects
<1>1. IInv => ExecuteRunNeverRejects
  BY NobodyRejects
<1> QED
  BY <1>1, SchedulerInvariant, PTL

\* No execution works on a cancelled run: checkpoint() and pauseAndWait() find
\* the intent of cancel() or close() before the next agent turn begins.
THEOREM CancelledStops == Careful /\ Spec => CancelledDoesNoWork
<1>1. IInv /\ [Next]_vars => [NoneBegins]_vars
  BY NextKeeps
<1>2. [][IInv /\ [Next]_vars]_vars => [][NoneBegins]_vars
  BY <1>1, PTL
<1>3. [][NoneBegins]_vars => CancelledDoesNoWork
  BY DEF NoneBegins, CancelledDoesNoWork
<1> QED
  BY <1>2, <1>3, SchedulerInvariant, PTL DEF Spec
=============================================================================
