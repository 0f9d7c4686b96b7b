---------------------------- MODULE RunScheduler ----------------------------
(***************************************************************************)
(* The run scheduler of src/server/scheduler.ts: createRun, pause, resume, *)
(* cancel and close, the pump, the executions with their cooperative       *)
(* checkpoints, the slot semaphore, and restart recovery.                  *)
(*                                                                         *)
(* A step is the code between two awaits.  The write queue is FIFO and     *)
(* each of its operations is one SQL statement, so an operation takes      *)
(* effect where it is enqueued: later readers wait behind it, and a crash  *)
(* that loses it is a crash before the step that enqueued it.  Those who   *)
(* await an operation go on in the order of the queue (mem.writes).        *)
(* Recovery, whose operation also touches the memory, is a step of its own *)
(* ahead of every call that uses the queue.                                *)
(*                                                                         *)
(* Abstracted: the engine's work between two agent-step boundaries, which  *)
(* ends in another boundary, completion or an error; lifecycle events; the *)
(* contents of specs; failures of the store itself.                        *)
(*                                                                         *)
(* An operator named X_Bug is X with a plausible programming error; it is  *)
(* used only to confirm that the properties below notice the error.        *)
(***************************************************************************)
EXTENDS Naturals, Sequences, FiniteSets, SequencesExt

CONSTANTS
    Runs,              \* run ids
    Calls,             \* client calls, each made at most once
    NoExec,            \* no execution
    MaxParallelRuns,   \* opts.maxParallelRuns
    Ops,               \* the operations clients use
    Careful,           \* TRUE: clients follow the discipline of MayCall
    MaxTurns,          \* bound: agent-step boundaries after the first, per execution
    MaxExecs,          \* bound: simultaneous executions of one run
    MaxCrashes         \* bound: restarts of the process

ASSUME RunsAssumption == IsFiniteSet(Runs)
ASSUME MaxParallelRunsAssumption == MaxParallelRuns \in Nat \ {0}
ASSUME NoExecAssumption == NoExec \notin Runs \X (1..MaxExecs)
ASSUME OpsAssumption == Ops \subseteq {"create", "pause", "resume", "cancel", "close"}
ASSUME CarefulAssumption == Careful \in BOOLEAN
ASSUME BoundsAssumption == MaxTurns \in Nat /\ MaxExecs \in Nat \ {0} /\ MaxCrashes \in Nat

VARIABLES
    db,        \* the runs table: status, pause_requested, finished_at set?,
               \* and the number of completion rows in audit_log (durable)
    mem,       \* the fields of the RunScheduler object (volatile)
    exec,      \* where each executeRun() stands (volatile)
    call,      \* where each client call stands
    crashes

vars == <<db, mem, exec, call, crashes>>

Statuses == {"absent", "queued", "running", "paused", "done", "failed", "cancelled"}
Terminal == {"done", "failed", "cancelled"}

Execs == Runs \X (1..MaxExecs)
RunOf(x) == x[1]

ExecStates ==
    {"none",       \* no such execution
     "marking",    \* awaits markRunning() before the first checkpoint
     "working",    \* the engine works towards its next agent-step boundary
     "yielding",   \* awaits the write of 'paused', its waiter registered
     "parked",     \* awaits its resume waiter, its slot freed
     "acquiring",  \* awaits a slot, in the semaphore's queue
     "granted",    \* was given a slot, has not run since
     "denied",     \* was woken by Semaphore.close() without a slot
     "resuming",   \* awaits markRunning() after the pause
     "settling",   \* awaits the write of 'done' or 'failed'
     "aborting",   \* awaits the write of finishAborted()
     "auditing",   \* awaits the completion audit row
     "rejected"}   \* threw outside its try: no finally has run

CallStates ==
    {"unused", "inserted", "read", "flagged", "parked", "cleared", "requeued", "marked",
     "queued", "executions", "waiting", "returned", "lost"}

-----------------------------------------------------------------------------
(* The whole scheduler as one value, for helpers that several steps call.   *)

World == [db |-> db, mem |-> mem, exec |-> exec]

Become(w) == db' = w.db /\ mem' = w.mem /\ exec' = w.exec

\* enqueue(): actor a, an execution or a call, awaits an operation ...
Await(w, a) == [w EXCEPT !.mem.writes = Append(@, a)]

\* ... and goes on when the operations before it and its own are through.
Served(a) == mem.writes # <<>> /\ Head(mem.writes) = a
AfterWrite == [World EXCEPT !.mem.writes = Tail(@)]

\* UPDATE runs SET ... WHERE id = r [AND status IN from]
Write(w, r, from, row) == IF w.db[r].status \in from THEN [w EXCEPT !.db[r] = row] ELSE w

SetStatus(w, r, from, to) == Write(w, r, from, [w.db[r] EXCEPT !.status = to])

GoTo(w, x, pc) == [w EXCEPT !.exec[x].pc = pc]

\* markRunning(): guarded, so that a terminal row is never revived.
MarkRunning_Unguarded(w, r) == SetStatus(w, r, Statuses, "running")
MarkRunning(w, r) == SetStatus(w, r, Statuses \ Terminal, "running")

\* Semaphore.release(): hand the slot to the longest waiter, or pool it.
Release(w) ==
    IF w.mem.semWaiters = <<>> THEN [w EXCEPT !.mem.slots = @ + 1]
    ELSE [GoTo(w, Head(w.mem.semWaiters), "granted") EXCEPT !.mem.semWaiters = Tail(@)]

\* Wake the execution waiting on a resume waiter, if there is one.
WakeWaiter(w, r) ==
    IF w.mem.resumeWaiters[r] = NoExec THEN w
    ELSE [w EXCEPT !.exec[w.mem.resumeWaiters[r]].released = TRUE,
                   !.mem.resumeWaiters[r] = NoExec]

\* The members of s that are in S, in their order.
Keep(s, S) ==
    LET kept[n \in 0..Len(s)] ==
          IF n = 0 THEN <<>>
          ELSE IF s[n] \in S THEN Append(kept[n - 1], s[n]) ELSE kept[n - 1]
    IN  kept[Len(s)]

Startable(m) == Keep(m.queued, Runs \ m.pauseRequested)

ToStart_NoSlotCheck(m) == IF m.closed THEN <<>> ELSE Startable(m)

\* The runs pump() starts: FIFO among the startable ones, one per free slot.
ToStart(m) ==
    IF m.closed THEN <<>>
    ELSE LET s == Startable(m)
         IN  SubSeq(s, 1, IF m.slots < Len(s) THEN m.slots ELSE Len(s))

FreshExec(w, r) == <<r, CHOOSE k \in 1..MaxExecs : w.exec[<<r, k>>].pc = "none">>

\* pump(): each started run leaves the queue with a slot, and its executeRun()
\* runs up to its first await: it enqueues markRunning(), or throws at once
\* (before its try) when the spec is gone.
Pump(w) ==
    LET go == ToSet(ToStart(w.mem))
        started == {FreshExec(w, r) : r \in go}
        marking == Keep(ToStart(w.mem), w.mem.specs)
    IN  [db |-> [r \in Runs |->
                   IF r \in ToSet(marking) THEN MarkRunning(w, r).db[r] ELSE w.db[r]],
         mem |-> [w.mem EXCEPT
                    !.queued = Keep(@, Runs \ go),
                    !.slots = @ - Cardinality(go),
                    !.slotOwners = @ \cup go,
                    !.writes = @ \o [i \in DOMAIN marking |-> FreshExec(w, marking[i])],
                    !.executions = [r \in Runs |->
                                      IF r \in go THEN FreshExec(w, r) ELSE @[r]]],
         exec |-> [x \in Execs |->
                     IF x \notin started THEN w.exec[x]
                     ELSE [pc |-> IF RunOf(x) \in w.mem.specs THEN "marking" ELSE "rejected",
                           released |-> FALSE, turns |-> 0]]]

Stopping_OnlyClosed(r) == mem.closed

\* A run that cancel() or close() has told to stop (checkpoint, pauseAndWait).
Stopping(r) == r \in mem.cancelled \/ mem.closed

\* finishAborted(): the row is left as it is, but for finished_at.
Abort(w, x) == Await(GoTo([w EXCEPT !.db[RunOf(x)].finishedAt = "set"], x, "aborting"), x)

-----------------------------------------------------------------------------
FreshMem ==
    [queued |-> <<>>, specs |-> {}, executions |-> [r \in Runs |-> NoExec],
     slotOwners |-> {}, pauseRequested |-> {}, cancelled |-> {},
     resumeWaiters |-> [r \in Runs |-> NoExec], slots |-> MaxParallelRuns,
     semWaiters |-> <<>>, writes |-> <<>>, closed |-> FALSE, recovered |-> FALSE]

NoExecutions == [x \in Execs |-> [pc |-> "none", released |-> FALSE, turns |-> 0]]

Init ==
    /\ db = [r \in Runs |-> [status |-> "absent", pauseReq |-> 0,
                             finishedAt |-> "null", audits |-> 0]]
    /\ mem = FreshMem
    /\ exec = NoExecutions
    /\ call = [c \in Calls |-> [op |-> "none", runs |-> {}, pc |-> "unused",
                               saw |-> "absent", awaits |-> {}]]
    /\ crashes = 0

-----------------------------------------------------------------------------
(* executeRun(), checkpoint() and pauseAndWait().                          *)

\* checkpoint() is called once markRunning() is through, and then by the
\* engine at every agent-step boundary.
AtCheckpoint(x) ==
    \/ exec[x].pc = "marking" /\ Served(x)
    \/ exec[x].pc = "working" /\ exec[x].turns < MaxTurns

Arrived(x) == IF exec[x].pc = "marking" THEN AfterWrite ELSE World

StopAtCheckpoint(x) ==
    /\ AtCheckpoint(x)
    /\ Stopping(RunOf(x))
    /\ Become(Abort(Arrived(x), x))
    /\ UNCHANGED <<call, crashes>>

YieldAtCheckpoint_NoWaiter(x) ==
    /\ AtCheckpoint(x)
    /\ ~Stopping(RunOf(x))
    /\ RunOf(x) \in mem.pauseRequested
    /\ Become(Await(SetStatus(GoTo(Arrived(x), x, "yielding"), RunOf(x), {"running"}, "paused"), x))
    /\ UNCHANGED <<call, crashes>>

\* The waiter is registered before anything else, after waking a stale one.
YieldAtCheckpoint(x) ==
    LET r == RunOf(x)
        w == [WakeWaiter(Arrived(x), r) EXCEPT !.mem.resumeWaiters[r] = x,
                                               !.exec[x].released = FALSE,
                                               !.exec[x].pc = "yielding"]
    IN  /\ AtCheckpoint(x)
        /\ ~Stopping(r)
        /\ r \in mem.pauseRequested
        /\ Become(Await(SetStatus(w, r, {"running"}, "paused"), x))
        /\ UNCHANGED <<call, crashes>>

PassCheckpoint(x) ==
    LET turn == IF exec[x].pc = "working" THEN 1 ELSE 0
    IN  /\ AtCheckpoint(x)
        /\ ~Stopping(RunOf(x))
        /\ RunOf(x) \notin mem.pauseRequested
        /\ Become([GoTo(Arrived(x), x, "working") EXCEPT !.exec[x].turns = @ + turn])
        /\ UNCHANGED <<call, crashes>>

\* The row says 'paused': give the slot up, and let a queued run have it.
GiveUpSlot(x) ==
    LET w == [GoTo(AfterWrite, x, "parked") EXCEPT !.mem.slotOwners = @ \ {RunOf(x)}]
    IN  /\ exec[x].pc = "yielding"
        /\ Served(x)
        /\ Become(Pump(Release(w)))
        /\ UNCHANGED <<call, crashes>>

\* Released: stop, or semaphore.acquire() a slot again.
ReacquireSlot(x) ==
    /\ exec[x].pc = "parked"
    /\ exec[x].released
    /\ \/ Stopping(RunOf(x)) /\ Become(Abort(World, x))
       \/ /\ ~Stopping(RunOf(x))
          /\ mem.slots > 0
          /\ Become([GoTo(World, x, "granted") EXCEPT !.mem.slots = @ - 1])
       \/ /\ ~Stopping(RunOf(x))
          /\ mem.slots = 0
          /\ Become([GoTo(World, x, "acquiring") EXCEPT !.mem.semWaiters = Append(@, x)])
    /\ UNCHANGED <<call, crashes>>

\* Granted: re-check, and hand the slot back or own it and be running again.
ResumeWithSlot(x) ==
    /\ exec[x].pc = "granted"
    /\ IF Stopping(RunOf(x))
       THEN Become(Abort(Release(World), x))
       ELSE Become(Await(MarkRunning([GoTo(World, x, "resuming")
                     EXCEPT !.mem.slotOwners = @ \cup {RunOf(x)}], RunOf(x)), x))
    /\ UNCHANGED <<call, crashes>>

StopWithoutSlot(x) ==
    /\ exec[x].pc = "denied"
    /\ Become(Abort(World, x))
    /\ UNCHANGED <<call, crashes>>

\* Back in checkpoint() after pauseAndWait(): cancel and close are re-checked,
\* a new pause request is not.
LeavePause(x) ==
    /\ exec[x].pc = "resuming"
    /\ Served(x)
    /\ Become(IF Stopping(RunOf(x)) THEN Abort(AfterWrite, x) ELSE GoTo(AfterWrite, x, "working"))
    /\ UNCHANGED <<call, crashes>>

Settle_AuditsToo(x, outcome) ==
    LET r == RunOf(x)
        row == [db[r] EXCEPT !.status = outcome, !.pauseReq = 0, !.finishedAt = "set",
                             !.audits = @ + 1]
    IN  /\ exec[x].pc = "working"
        /\ Become(IF Stopping(r) THEN Abort(World, x)
                  ELSE Await(Write(GoTo(World, x, "settling"), r, Statuses \ {"cancelled"}, row), x))
        /\ UNCHANGED <<call, crashes>>

\* The pipeline returned ("done") or threw ("failed").
Settle(x, outcome) ==
    LET r == RunOf(x)
        w == [GoTo(World, x, "settling") EXCEPT !.mem.pauseRequested = @ \ {r}]
        row == [db[r] EXCEPT !.status = outcome, !.pauseReq = 0, !.finishedAt = "set"]
    IN  /\ exec[x].pc = "working"
        /\ Become(IF Stopping(r) THEN Abort(World, x)
                  ELSE Await(Write(w, r, Statuses \ {"cancelled"}, row), x))
        /\ UNCHANGED <<call, crashes>>

WriteCompletionAudit(x) ==
    /\ exec[x].pc \in {"settling", "aborting"}
    /\ Served(x)
    /\ Become(Await([GoTo(AfterWrite, x, "auditing")
                      EXCEPT !.db[RunOf(x)].audits = @ + 1], x))
    /\ UNCHANGED <<call, crashes>>

\* The finally block: forget the run, free its slot if it owns one, pump.
Forget(x) ==
    LET r == RunOf(x)
    IN  [GoTo(AfterWrite, x, "none") EXCEPT !.mem.executions[r] = NoExec,
                                       !.mem.cancelled = @ \ {r},
                                       !.mem.pauseRequested = @ \ {r},
                                       !.mem.specs = @ \ {r},
                                       !.mem.slotOwners = @ \ {r}]

Finalize_SlotAlways(x) ==
    /\ exec[x].pc = "auditing"
    /\ Served(x)
    /\ Become(Pump(Release(Forget(x))))
    /\ UNCHANGED <<call, crashes>>

Finalize_NeverReleases(x) ==
    /\ exec[x].pc = "auditing"
    /\ Served(x)
    /\ Become(Pump(Forget(x)))
    /\ UNCHANGED <<call, crashes>>

Finalize(x) ==
    /\ exec[x].pc = "auditing"
    /\ Served(x)
    /\ Become(Pump(IF RunOf(x) \in mem.slotOwners THEN Release(Forget(x)) ELSE Forget(x)))
    /\ UNCHANGED <<call, crashes>>

-----------------------------------------------------------------------------
(* createRun(), pause(), resume(), cancel() and close().                   *)

Pending(c) == call[c].pc \notin {"unused", "returned", "lost"}

\* The discipline of careful clients: resume only a run that has yielded and
\* waits for it, while no other call on that run is under way, and make none
\* until it has returned.  Every other overlap is theirs to make.
MayCall(op, r) ==
    Careful =>
        /\ \A c \in Calls : ~(Pending(c) /\ r \in call[c].runs
                              /\ "resume" \in {op, call[c].op})
        /\ op = "resume" => mem.resumeWaiters[r] # NoExec

\* Calls are interchangeable, so they are used up in a fixed order.
NextCall(c) == c = CHOOSE d \in Calls : call[d].pc = "unused"

\* A call reaches the write queue: it was open, and recovery is ahead of it.
Starts(c, op) ==
    /\ call[c].pc = "unused"
    /\ NextCall(c)
    /\ op \in Ops
    /\ ~mem.closed
    /\ mem.recovered

Goes(c, pc) == call' = [call EXCEPT ![c].pc = pc]
Over(pc) == [op |-> "none", runs |-> {}, pc |-> pc, saw |-> "absent", awaits |-> {}]
Returns(c) == call' = [call EXCEPT ![c] = Over("returned")]
At(c, op, pc) == call[c].op = op /\ call[c].pc = pc
Continues(c, op, pc) == At(c, op, pc) /\ Served(c)

\* createRun(): INSERT the row ...
InsertRun(c, r) ==
    /\ Starts(c, "create")
    /\ db[r].status = "absent"
    /\ Become(Await([World EXCEPT !.db[r].status = "queued"], c))
    /\ call' = [call EXCEPT ![c] = [op |-> "create", runs |-> {r}, pc |-> "inserted",
                                   saw |-> "absent", awaits |-> {}]]
    /\ UNCHANGED crashes

\* ... then make it known to the pump.
EnqueueRun(c) ==
    /\ Continues(c, "create", "inserted")
    /\ \E r \in call[c].runs :
          Become(Pump([AfterWrite EXCEPT !.mem.specs = @ \cup {r}, !.mem.queued = Append(@, r)]))
    /\ Returns(c)
    /\ UNCHANGED crashes

\* pause(), resume() and cancel() first read the row; what they saw is stale
\* by the time they act on it.
ReadRun(c, op, r) ==
    /\ Starts(c, op)
    /\ op \in {"pause", "resume", "cancel"}
    /\ db[r].status # "absent"
    /\ MayCall(op, r)
    /\ call' = [call EXCEPT ![c] = [op |-> op, runs |-> {r}, pc |-> "read",
                                   saw |-> db[r].status, awaits |-> {}]]
    /\ Become(Await(World, c))
    /\ UNCHANGED crashes

RequestPause(c) ==
    /\ Continues(c, "pause", "read")
    /\ \E r \in call[c].runs :
          IF call[c].saw \in Terminal
          THEN Become(AfterWrite) /\ Returns(c)
          ELSE /\ Become(Await([AfterWrite EXCEPT !.mem.pauseRequested = @ \cup {r},
                                                  !.db[r].pauseReq = 1], c))
               /\ Goes(c, "flagged")
    /\ UNCHANGED crashes

\* A run that was queued when it was read is parked at the gate, unless it
\* has started meanwhile.
ParkQueuedRun(c) ==
    /\ Continues(c, "pause", "flagged")
    /\ \E r \in call[c].runs :
          IF call[c].saw = "queued"
          THEN Become(Await(SetStatus(AfterWrite, r, {"queued"}, "paused"), c)) /\ Goes(c, "parked")
          ELSE Become(AfterWrite) /\ Returns(c)
    /\ UNCHANGED crashes

PauseReturns(c) ==
    /\ Continues(c, "pause", "parked")
    /\ Become(AfterWrite)
    /\ Returns(c)
    /\ UNCHANGED crashes

ClearPause(c) ==
    /\ Continues(c, "resume", "read")
    /\ \E r \in call[c].runs :
          Become(Await([AfterWrite EXCEPT !.mem.pauseRequested = @ \ {r},
                                          !.db[r].pauseReq = 0], c))
    /\ Goes(c, "cleared")
    /\ UNCHANGED crashes

WakeOrRequeue_Both(c) ==
    /\ Continues(c, "resume", "cleared")
    /\ \E r \in call[c].runs :
          Become(Await([WakeWaiter(AfterWrite, r) EXCEPT
                          !.mem.queued = IF Contains(@, r) THEN @ ELSE Append(@, r)], c))
    /\ Goes(c, "requeued")
    /\ UNCHANGED crashes

\* resume(), its flag cleared: wake the yielded run; else make a run that was
\* 'paused' when it was read startable again; else there is nothing to do.
WakeOrRequeue(c) ==
    /\ Continues(c, "resume", "cleared")
    /\ \E r \in call[c].runs :
          LET w == [AfterWrite EXCEPT !.mem.specs = @ \cup {r},
                                 !.mem.queued = IF Contains(@, r) THEN @ ELSE Append(@, r)]
          IN  CASE mem.resumeWaiters[r] # NoExec ->
                     Become(WakeWaiter(AfterWrite, r)) /\ Returns(c)
                [] mem.resumeWaiters[r] = NoExec /\ call[c].saw = "paused" ->
                     Become(Await(SetStatus(w, r, {"paused"}, "queued"), c)) /\ Goes(c, "requeued")
                [] OTHER ->
                     Become(AfterWrite) /\ Returns(c)
    /\ UNCHANGED crashes

PumpAfterResume(c) ==
    /\ Continues(c, "resume", "requeued")
    /\ Become(Pump(AfterWrite))
    /\ Returns(c)
    /\ UNCHANGED crashes

\* cancel(): remember the intent and write it, over whatever the row says now.
MarkCancelled(c) ==
    /\ Continues(c, "cancel", "read")
    /\ \E r \in call[c].runs :
          IF call[c].saw \in Terminal
          THEN Become(AfterWrite) /\ Returns(c)
          ELSE /\ Become(Await([AfterWrite EXCEPT !.mem.cancelled = @ \cup {r},
                                                  !.db[r].status = "cancelled",
                                                  !.db[r].pauseReq = 0], c))
               /\ Goes(c, "marked")
    /\ UNCHANGED crashes

DropCancelled_NoWake(c) ==
    /\ Continues(c, "cancel", "marked")
    /\ \E r \in call[c].runs : Become([AfterWrite EXCEPT !.mem.queued = RemoveFirst(@, r)])
    /\ Returns(c)
    /\ UNCHANGED crashes

\* cancel(), its row written: out of the queue, or awake to stop.
DropCancelled(c) ==
    /\ Continues(c, "cancel", "marked")
    /\ \E r \in call[c].runs :
          Become(WakeWaiter([AfterWrite EXCEPT !.mem.queued = RemoveFirst(@, r)], r))
    /\ Returns(c)
    /\ UNCHANGED crashes

\* close(), sweeping: cancel the runs it found queued, then those executing,
\* then wake everything that waits; each write is awaited before the next.
SweepQueued(c, w, todo) ==
    \E r \in todo :
        /\ Become(Await([w EXCEPT !.mem.cancelled = @ \cup {r},
                                  !.mem.pauseRequested = @ \ {r},
                                  !.mem.specs = @ \ {r},
                                  !.db[r].status = "cancelled",
                                  !.db[r].pauseReq = 0], c))
        /\ call' = [call EXCEPT ![c] = [op |-> "close", runs |-> todo \ {r}, pc |-> "queued",
                                       saw |-> "absent", awaits |-> {}]]

WakeEverything_NotTheParked(w) ==
    LET denied == ToSet(w.mem.semWaiters)
    IN  [db |-> w.db,
         mem |-> [w.mem EXCEPT !.semWaiters = <<>>],
         exec |-> [x \in Execs |-> [w.exec[x] EXCEPT !.pc = IF x \in denied THEN "denied" ELSE @]]]

WakeEverything(w) ==
    LET waiters == {w.mem.resumeWaiters[r] : r \in Runs}
        denied == ToSet(w.mem.semWaiters)
    IN  [db |-> w.db,
         mem |-> [w.mem EXCEPT !.resumeWaiters = [r \in Runs |-> NoExec], !.semWaiters = <<>>],
         exec |-> [x \in Execs |->
                     [w.exec[x] EXCEPT !.released = @ \/ x \in waiters,
                                       !.pc = IF x \in denied THEN "denied" ELSE @]]]

Executing(m) == {r \in Runs : m.executions[r] # NoExec}

SweepExecutions(c, w, todo) ==
    \/ \E r \in todo :
          /\ Become(Await(Write([w EXCEPT !.mem.cancelled = @ \cup {r}], r,
                                Statuses \ {"done", "failed"},
                                [w.db[r] EXCEPT !.status = "cancelled", !.pauseReq = 0]), c))
          /\ call' = [call EXCEPT ![c] = [op |-> "close", runs |-> todo \ {r},
                                         pc |-> "executions", saw |-> "absent", awaits |-> {}]]
    \/ /\ todo = {}
       /\ Become(WakeEverything(w))
       /\ call' = [call EXCEPT ![c] = [op |-> "close", runs |-> {}, pc |-> "waiting", saw |-> "absent",
                                      awaits |-> {w.mem.executions[r] : r \in Executing(w.mem)}]]

CloseBegins(c) ==
    LET w == [World EXCEPT !.mem.closed = TRUE, !.mem.queued = <<>>]
        todo == ToSet(mem.queued)
    IN  /\ call[c].pc = "unused"
        /\ NextCall(c)
        /\ "close" \in Ops
        /\ ~mem.closed
        /\ IF todo # {} THEN SweepQueued(c, w, todo)
           ELSE SweepExecutions(c, w, Executing(mem))
        /\ UNCHANGED crashes

CloseContinues(c) ==
    LET todo == call[c].runs
    IN  /\ \/ Continues(c, "close", "queued") /\ todo # {} /\ SweepQueued(c, AfterWrite, todo)
           \/ Continues(c, "close", "queued") /\ todo = {} /\ SweepExecutions(c, AfterWrite, Executing(mem))
           \/ Continues(c, "close", "executions") /\ SweepExecutions(c, AfterWrite, todo)
        /\ UNCHANGED crashes

\* A second close() only waits.
CloseAgain(c) ==
    /\ call[c].pc = "unused"
    /\ NextCall(c)
    /\ "close" \in Ops
    /\ mem.closed
    /\ call' = [call EXCEPT ![c] = [op |-> "close", runs |-> {}, pc |-> "waiting", saw |-> "absent",
                                   awaits |-> {mem.executions[r] : r \in Executing(mem)}]]
    /\ UNCHANGED <<db, mem, exec, crashes>>

Settled(x) == exec[x].pc \in {"none", "rejected"}

CloseReturns(c) ==
    /\ At(c, "close", "waiting")
    /\ \A x \in call[c].awaits : Settled(x)
    /\ Returns(c)
    /\ UNCHANGED <<db, mem, exec, crashes>>

-----------------------------------------------------------------------------
(* Restarts.                                                               *)

\* The process dies, or is stopped, and a new scheduler is constructed.
Crash ==
    /\ crashes < MaxCrashes
    /\ crashes' = crashes + 1
    /\ mem' = FreshMem
    /\ exec' = NoExecutions
    /\ call' = [c \in Calls |-> IF Pending(c) THEN Over("lost") ELSE call[c]]
    /\ UNCHANGED db

RecoverStaleRuns_LeaveRunning ==
    LET stale == {r \in Runs : db[r].status = "queued"}
    IN  /\ ~mem.recovered
        /\ \E order \in SetToSeqs(stale) :
              Become(Pump([World EXCEPT !.mem.recovered = TRUE,
                                        !.mem.specs = @ \cup stale,
                                        !.mem.queued = @ \o order]))
        /\ UNCHANGED <<call, crashes>>

\* recoverStaleRuns(): running rows are re-paused, queued rows re-enqueued (in
\* the order of the SELECT, which is not specified) and pumped.
RecoverStaleRuns ==
    LET rows == [r \in Runs |-> IF db[r].status = "running"
                                THEN [db[r] EXCEPT !.status = "paused"] ELSE db[r]]
        stale == {r \in Runs : rows[r].status = "queued"}
    IN  /\ ~mem.recovered
        /\ \E order \in SetToSeqs(stale) :
              Become(Pump([World EXCEPT !.db = rows,
                                        !.mem.recovered = TRUE,
                                        !.mem.specs = @ \cup stale,
                                        !.mem.queued = @ \o order]))
        /\ UNCHANGED <<call, crashes>>

-----------------------------------------------------------------------------
Execute(x) ==
    \/ StopAtCheckpoint(x)
    \/ YieldAtCheckpoint(x)
    \/ PassCheckpoint(x)
    \/ GiveUpSlot(x)
    \/ ReacquireSlot(x)
    \/ ResumeWithSlot(x)
    \/ StopWithoutSlot(x)
    \/ LeavePause(x)
    \/ Settle(x, "done")
    \/ Settle(x, "failed")
    \/ WriteCompletionAudit(x)
    \/ Finalize(x)

Invoke(c) ==
    \/ \E r \in Runs : InsertRun(c, r)
    \/ \E op \in Ops, r \in Runs : ReadRun(c, op, r)
    \/ CloseBegins(c)
    \/ CloseAgain(c)

Continue(c) ==
    \/ EnqueueRun(c)
    \/ RequestPause(c)
    \/ ParkQueuedRun(c)
    \/ PauseReturns(c)
    \/ ClearPause(c)
    \/ WakeOrRequeue(c)
    \/ PumpAfterResume(c)
    \/ MarkCancelled(c)
    \/ DropCancelled(c)
    \/ CloseContinues(c)
    \/ CloseReturns(c)

Next ==
    \/ \E x \in Execs : Execute(x)
    \/ \E c \in Calls : Invoke(c) \/ Continue(c)
    \/ RecoverStaleRuns
    \/ Crash

Spec == Init /\ [][Next]_vars

\* Ready continuations run, the store answers, and every agent turn ends: an
\* execution or call that can step does.  Nobody has to make a call.
Fairness ==
    /\ \A x \in Execs : WF_vars(Execute(x))
    /\ \A c \in Calls : WF_vars(Continue(c))
    /\ WF_vars(RecoverStaleRuns)

FairSpec == Spec /\ Fairness

-----------------------------------------------------------------------------
(* Properties.                                                             *)

Rows == [status : Statuses, pauseReq : {0, 1}, finishedAt : {"null", "set"}, audits : Nat]

\* The scheduler's table, memory, executions and calls have these types.
TypeOK ==
    /\ db \in [Runs -> Rows]
    /\ mem.queued \in Seq(Runs)
    /\ mem.specs \subseteq Runs
    /\ mem.executions \in [Runs -> Execs \cup {NoExec}]
    /\ mem.slotOwners \subseteq Runs
    /\ mem.pauseRequested \subseteq Runs
    /\ mem.cancelled \subseteq Runs
    /\ mem.resumeWaiters \in [Runs -> Execs \cup {NoExec}]
    /\ mem.slots \in Nat
    /\ mem.semWaiters \in Seq(Execs)
    /\ mem.writes \in Seq(Execs \cup Calls)
    /\ mem.closed \in BOOLEAN /\ mem.recovered \in BOOLEAN
    /\ exec \in [Execs -> [pc : ExecStates, released : BOOLEAN, turns : 0..MaxTurns]]
    /\ call \in [Calls -> [op : Ops \cup {"none"}, runs : SUBSET Runs, pc : CallStates,
                           saw : Statuses, awaits : SUBSET Execs]]
    /\ crashes \in 0..MaxCrashes

\* "a terminal row must never flip back to running" (pauseAndWait, markRunning):
\* whatever calls race it, and across restarts, no terminal row leaves the
\* terminal statuses.
TerminalIsFinal ==
    [][\A r \in Runs : db[r].status \in Terminal => db'[r].status \in Terminal]_vars

\* "caps concurrently ACTIVE runs at maxParallelRuns" (header): executions
\* that are between two checkpoints, or on their way there, own a slot each.
ActivelyRunning == {x \in Execs : exec[x].pc \in {"marking", "working", "yielding", "resuming"}}

\* Slots are neither lost nor created (Semaphore, executeRun, pauseAndWait):
\* each is free, owned by a run, or on its way to a resumed run, and no more
\* executions are at work than there are slots.
SlotsConserved ==
    /\ mem.slots + Cardinality(mem.slotOwners)
                 + Cardinality({x \in Execs : exec[x].pc = "granted"}) = MaxParallelRuns
    /\ Cardinality(ActivelyRunning) <= MaxParallelRuns

\* A run is never executed twice at once (createRun, resume, recovery, pump).
OneExecutionPerRun ==
    \A x, y \in Execs : RunOf(x) = RunOf(y) /\ ~Settled(x) /\ ~Settled(y) => x = y

\* Slots stand for executions and executions for runs, one for one, however
\* calls overlap with pauses, ends and a restart.
SlotsAndExecutionsMatch == SlotsConserved /\ OneExecutionPerRun

\* "no execution works on a cancelled run" (cancel, checkpoint): an agent turn
\* never begins once the row says cancelled.
CancelledDoesNoWork ==
    [][\A x \in Execs :
         exec'[x].pc = "working" /\ exec'[x] # exec[x] => db[RunOf(x)].status # "cancelled"]_vars

\* "a resume racing the yield can never miss it" (pauseAndWait): an execution
\* that yields or is parked can be reached by resume, cancel and close, or
\* has been woken already.
YieldedCanBeWoken ==
    \A x \in Execs : exec[x].pc \in {"yielding", "parked"} =>
        exec[x].released \/ mem.resumeWaiters[RunOf(x)] = x

\* A row says running only while an execution of this process stands behind it
\* (executeRun, recoverStaleRuns).
RunningHasExecution ==
    mem.recovered /\ ~mem.closed =>
        \A r \in Runs : db[r].status = "running" =>
            \E x \in Execs : RunOf(x) = r /\ ~Settled(x)

\* The completion audit (writeCompletionAudit): unless the process died, a run
\* that is done or failed has its spend recorded exactly once.
SpendRecordedOnce ==
    crashes = 0 =>
        \A r \in Runs : db[r].status \in {"done", "failed"} /\ mem.executions[r] = NoExec
                        => db[r].audits = 1

\* What clients read of a run is what became of it: "running" has an execution
\* behind it, and the spend of an ended run is recorded, once.
RowsTellTheTruth == RunningHasExecution /\ SpendRecordedOnce

\* A startable queued run starts as slots free up (pump), for every slot given
\* up is offered again, unless it is paused or cancelled or all is closed.
QueuedRunStarts ==
    \A r \in Runs :
        Contains(Startable(mem), r) ~> mem.closed \/ ~Contains(Startable(mem), r)

\* cancel() and close() stop every execution of the run: working, parked,
\* waiting for a slot, or about to.
CancelTakesEffect ==
    \A r \in Runs :
        Stopping(r) /\ mem.executions[r] # NoExec ~> mem.executions[r] = NoExec

\* Every call returns, close() in particular, unless the process dies.
EveryCallReturns == \A c \in Calls : Pending(c) ~> ~Pending(c)

-----------------------------------------------------------------------------
(* What comments and tests say of the scheduler, and the code does not do.  *)

\* "executeRun never rejects (its own catch is exhaustive)" (pump): an
\* execution always gets to its finally block, where its slot is freed.
ExecuteRunNeverRejects == \A x \in Execs : exec[x].pc # "rejected"
=============================================================================
