----------------------------- MODULE WorkerPool -----------------------------
(***************************************************************************)
(* The pool of persistent worker processes of src/core/worker.ts: request, *)
(* close, dispatch, and the handlers of process output, timeouts, exits    *)
(* and spawn failures.                                                     *)
(*                                                                         *)
(* Every handler runs to its end before another starts, so it is one step. *)
(* The workers are the environment: they answer, answer twice, write       *)
(* something else, hang, or die, and their output arrives late and in      *)
(* pieces.  An entry of "procs" is used again once its process has ended;  *)
(* whether an event is stale is decided, as in the code, by comparing the  *)
(* process with the one its slot has now.                                  *)
(*                                                                         *)
(* Abstracted: the contents of requests and answers, stderr tails, the     *)
(* validation of the WorkerSpec.                                           *)
(*                                                                         *)
(* An operator named X_Bug is X with a plausible programming error; it is  *)
(* used only to confirm that the properties below notice the error.        *)
(***************************************************************************)
EXTENDS Naturals, Sequences, FiniteSets, SequencesExt

CONSTANTS
    Reqs,          \* requests, numbered in the order they are made
    PoolSize,      \* spec.poolSize
    Procs,         \* ids for the processes that have not ended yet
    None,          \* no request, no process, no timer
    MayThrow,      \* the requests on whose params JSON.stringify may throw
    MaxOut         \* bound: unread lines of a worker

ASSUME ReqsAssumption == Reqs \subseteq Nat /\ IsFiniteSet(Reqs)
ASSUME PoolSizeAssumption == PoolSize \in Nat \ {0}
ASSUME ProcsAssumption == Procs \subseteq Nat /\ IsFiniteSet(Procs) /\ 1..PoolSize \subseteq Procs
ASSUME NoneAssumption == None \notin Nat
ASSUME BoundsAssumption == MaxOut \in Nat \ {0} /\ MayThrow \subseteq Reqs

VARIABLES
    pool,      \* the fields of the WorkerPool
    reqs,      \* the PendingRequests and what became of them
    procs,     \* the worker processes
    closing    \* where doClose() stands, and what it holds

vars == <<pool, reqs, procs, closing>>

Slots == 1..PoolSize
MAX_ATTEMPTS == 2

\* Where a request stands: "open", or how its promise was settled.
ReqStates == {"unmade", "open", "answer", "protocol", "crash", "spawn", "timeout", "closed"}
ProcStates ==
    {"none",     \* no such process
     "running",  \* spawned, or not: a failed spawn is reported by an event
     "termed",   \* told to end, by SIGTERM
     "doomed"}   \* SIGKILLed; the exit event has not fired

\* What a worker writes: an answer, be it a result or an error envelope, or no
\* valid envelope.
LineKinds == {"answer", "junk"}
\* Wire ids are never used again, so an id is the attempt it was assigned to.
Ids == [req : Reqs, attempt : 1..MAX_ATTEMPTS]
Lines == [id : Ids, kind : LineKinds]

-----------------------------------------------------------------------------
(* The pool, its requests and its processes as one value.                   *)

\* "fails": spawn() throws, should it be called in this step.
World(fails) == [pool |-> pool, reqs |-> reqs, procs |-> procs, fails |-> fails]
Become(w) == pool' = w.pool /\ reqs' = w.reqs /\ procs' = w.procs

Lowest(S) == CHOOSE i \in S : \A j \in S : i <= j

\* Bound: a handler that may spawn runs while there are ids for its processes,
\* one for each queued request it may lose in the attempt and one more; those of
\* the processes that end with it included.
IdsLeft(ending) ==
    Cardinality({p \in Procs : procs[p].state = "none"} \cup ending)
        > Cardinality({r \in ToSet(pool.queue) : reqs[r].bad})

NoProc == [state |-> "none", slot |-> 1, stdin |-> <<>>, out |-> <<>>]

NoReq == [state |-> "unmade", answerTo |-> None, blamed |-> None, bad |-> FALSE,
          attempts |-> 0, timer |-> None]

\* req.resolve() and req.reject(): how it ended, and of the line that did it
\* what the properties compare.  The rest of the request is garbage.
Reject(w, r, how) == [w EXCEPT !.reqs[r] = [NoReq EXCEPT !.state = how]]
Answered(w, r, line) == [w EXCEPT !.reqs[r] = [NoReq EXCEPT !.state = "answer", !.answerTo = line.id.req]]
Blamed(w, r, line) == [w EXCEPT !.reqs[r] = [NoReq EXCEPT !.state = "protocol", !.blamed = line.kind]]

\* The slot serves nothing any more; its request's timer is cleared.
Vacate(w, s) ==
    LET r == w.pool.slots[s].current
    IN  IF r = None THEN w
        ELSE [w EXCEPT !.pool.slots[s].current = None, !.reqs[r].timer = None]

\* The slot's process is no longer its own: whatever it does now is stale.
Detach(w, s) == [w EXCEPT !.pool.slots[s].proc = None]
Kill(w, p) == [w EXCEPT !.procs[p].state = "doomed", !.procs[p].stdin = <<>>]

Spawn_BufferKept(w, s) ==
    LET p == Lowest({q \in Procs : w.procs[q].state = "none"})
    IN  [w EXCEPT !.procs[p] = [NoProc EXCEPT !.state = "running", !.slot = s],
                  !.pool.slots[s].proc = p, !.pool.slots[s].settled = p]

\* spawn(): a new process, and a clean framing buffer.
Spawn(w, s) ==
    LET p == Lowest({q \in Procs : w.procs[q].state = "none"})
    IN  [w EXCEPT !.procs[p] = [NoProc EXCEPT !.state = "running", !.slot = s],
                  !.pool.slots[s] = [@ EXCEPT !.proc = p, !.buffer = None, !.settled = p]]

IdOf(w, r) == [req |-> r, attempt |-> w.reqs[r].attempts]

\* dispatch(), the slot having a process: write the request under a fresh id
\* and arm its timer.  Should that throw, the process is taken for dead.
Send(w, s, r) ==
    LET p == w.pool.slots[s].proc
        sent == [w EXCEPT !.reqs[r].attempts = @ + 1]
    IN  IF w.reqs[r].bad
        THEN Reject(Detach(sent, s), r, "crash")
        ELSE [sent EXCEPT !.pool.slots[s].current = r, !.reqs[r].timer = s,
                          !.procs[p].stdin = Append(@, IdOf(sent, r))]

Idle(w) == {s \in Slots : w.pool.slots[s].current = None}

\* A pass of pump()'s loop: dispatch() of the head of the queue to the first
\* slot that is not busy.
Dispatch(w) ==
    IF w.pool.queue = <<>> \/ Idle(w) = {} THEN w
    ELSE LET r == Head(w.pool.queue)
             s == Lowest(Idle(w))
             v == [w EXCEPT !.pool.queue = Tail(@)]
         IN  CASE v.pool.slots[s].proc # None -> Send(v, s, r)
               [] v.pool.slots[s].proc = None /\ w.fails -> Reject(v, r, "spawn")
               [] OTHER -> Send(Spawn(v, s), s, r)

\* pump(): the queue in its order, as long as a slot is not busy.  A closed
\* pool never gets here with a queue.
Pump(w) ==
    LET passed[n \in 0..Len(w.pool.queue)] == IF n = 0 THEN w ELSE Dispatch(passed[n - 1])
    IN  IF w.pool.closed THEN w ELSE passed[Len(w.pool.queue)]

-----------------------------------------------------------------------------
\* The constructor spawns every worker.
Init ==
    /\ pool = [queue |-> <<>>, closed |-> FALSE,
               slots |-> [s \in Slots |-> [proc |-> s, current |-> None,
                                           buffer |-> None, settled |-> s]]]
    /\ reqs = [r \in Reqs |-> NoReq]
    /\ procs = [p \in Procs |->
                  IF p \in Slots
                  THEN [NoProc EXCEPT !.state = "running", !.slot = p]
                  ELSE NoProc]
    /\ closing = [pc |-> "open", procs |-> {}, awaits |-> {}]

\* request()
Request(r, bad, fails) ==
    LET asked == [World(fails) EXCEPT !.reqs[r].state = "open", !.reqs[r].bad = bad,
                               !.pool.queue = Append(@, r)]
    IN  /\ reqs[r].state = "unmade"
        /\ \A q \in Reqs : q < r => reqs[q].state # "unmade"
        /\ bad => r \in MayThrow
        /\ IdsLeft({})
        /\ Become(IF pool.closed
                  THEN Reject(World(fails), r, "closed")
                  ELSE Pump(asked))
        /\ UNCHANGED closing

-----------------------------------------------------------------------------
(* The workers.                                                            *)

Attached(p) == pool.slots[procs[p].slot].proc = p

\* A worker takes a request and writes a line; if it keeps the request, it
\* will write another one for it later.  (What it writes once it is no slot's
\* any more is read by nobody.)
Answer(p, kind, keep) ==
    /\ procs[p].state = "running"
    /\ Attached(p)
    /\ procs[p].stdin # <<>>
    /\ Len(procs[p].out) < MaxOut
    /\ LET head == Head(procs[p].stdin)
       IN  procs' = [procs EXCEPT ![p].stdin = IF keep THEN @ ELSE Tail(@),
                                  ![p].out = Append(@, [id |-> head, kind |-> kind])]
    /\ UNCHANGED <<pool, reqs, closing>>

-----------------------------------------------------------------------------
(* Handlers.                                                               *)

\* onData() with the first part of a line: it waits in the slot's buffer.
PartArrives(p) ==
    /\ procs[p].out # <<>>
    /\ Attached(p)
    /\ pool.slots[procs[p].slot].buffer = None
    /\ pool' = [pool EXCEPT !.slots[procs[p].slot].buffer = p]
    /\ UNCHANGED <<reqs, procs, closing>>

\* failWorker(): kill it, and reject what it was serving.
FailWorker(w, s, line) ==
    LET r == w.pool.slots[s].current
    IN  Pump(Blamed(Kill(Detach(Vacate(w, s), s), w.pool.slots[s].proc), r, line))

OnLine_AnyId(w, s, line, intact) ==
    LET r == w.pool.slots[s].current
    IN  CASE r = None -> w
          [] r # None /\ (~intact \/ line.kind = "junk") -> FailWorker(w, s, line)
          [] OTHER ->
               Pump(Answered(Vacate(w, s), r, line))

\* onLine(), for a line that is as the worker wrote it or not.
OnLine(w, s, line, intact) ==
    LET r == w.pool.slots[s].current
    IN  CASE r = None -> w
          [] r # None /\ (~intact \/ line.kind = "junk") -> FailWorker(w, s, line)
          [] r # None /\ intact /\ line.kind # "junk" /\ line.id # IdOf(w, r) -> w
          [] OTHER ->
               Pump(Answered(Vacate(w, s), r, line))

\* onData() with the end of a line, or all of it, after what the buffer holds;
\* data of a replaced process is dropped.
LineArrives(p, fails) ==
    LET s == procs[p].slot
        read == [World(fails) EXCEPT !.procs[p].out = Tail(@)]
        intact == pool.slots[s].buffer \in {p, None}
    IN  /\ procs[p].out # <<>>
        /\ IdsLeft({})
        /\ Become(IF Attached(p)
                  THEN OnLine([read EXCEPT !.pool.slots[s].buffer = None], s, Head(procs[p].out), intact)
                  ELSE read)
        /\ UNCHANGED closing

OnTimeout_NotDetached(w, s, r) ==
    LET p == w.pool.slots[s].proc
        v == Vacate(w, s)
        k == IF p = None THEN v ELSE Kill(v, p)
    IN  Pump(IF w.reqs[r].attempts < MAX_ATTEMPTS
             THEN [k EXCEPT !.pool.queue = <<r>> \o @] ELSE Reject(k, r, "timeout"))

OnTimeout_RetryLast(w, s, r) ==
    LET p == w.pool.slots[s].proc
        v == Detach(Vacate(w, s), s)
        k == IF p = None THEN v ELSE Kill(v, p)
    IN  Pump(IF w.reqs[r].attempts < MAX_ATTEMPTS
             THEN [k EXCEPT !.pool.queue = Append(@, r)] ELSE Reject(k, r, "timeout"))

\* onTimeout(): fence the worker, and retry the request once, ahead of others.
OnTimeout(w, s, r) ==
    LET p == w.pool.slots[s].proc
        v == Detach(Vacate(w, s), s)
        k == IF p = None THEN v ELSE Kill(v, p)
    IN  Pump(IF w.reqs[r].attempts < MAX_ATTEMPTS
             THEN [k EXCEPT !.pool.queue = <<r>> \o @] ELSE Reject(k, r, "timeout"))

TimerFires(r, fails) ==
    /\ reqs[r].timer # None
    /\ IdsLeft({})
    /\ Become(IF pool.slots[reqs[r].timer].current = r THEN OnTimeout(World(fails), reqs[r].timer, r)
              ELSE [World(fails) EXCEPT !.reqs[r].timer = None])
    /\ UNCHANGED closing

\* The process is gone, and whoever awaits its slot's "settled" knows.
Gone(w, p) ==
    [w EXCEPT !.procs[p] = NoProc,
              !.pool.slots[w.procs[p].slot].settled = IF @ = p THEN None ELSE @]

OnEnd_NoPump(w, s) ==
    LET r == w.pool.slots[s].current
        v == Detach(Vacate(w, s), s)
    IN  IF r = None THEN v ELSE Reject(v, r, "crash")

OnEnd_StillCurrent(w, s) ==
    LET r == w.pool.slots[s].current
        v == Detach(w, s)
    IN  Pump(IF r = None THEN v ELSE Reject(v, r, "crash"))

\* onExit() and onSpawnError() of the slot's own process.
OnEnd(w, s) ==
    LET r == w.pool.slots[s].current
        v == Detach(Vacate(w, s), s)
    IN  Pump(IF r = None THEN v ELSE Reject(v, r, "crash"))

\* A process ends by itself or by a signal, or turns out never to have begun;
\* the two kinds of error are one here.
ProcessEnds(p, fails) ==
    LET s == procs[p].slot
        after == Gone(World(fails), p)
    IN  /\ procs[p].state # "none"
        /\ Attached(p) => IdsLeft({p})
        /\ Become(IF Attached(p) THEN OnEnd(after, s) ELSE after)
        /\ closing' = [closing EXCEPT !.procs = @ \ {p}, !.awaits = @ \ {p}]

-----------------------------------------------------------------------------
(* doClose().                                                              *)

InFlight == {pool.slots[s].current : s \in Slots} \ {None}

\* Closed at once, then SIGTERM to every worker, whose input nobody answers any
\* more.
CloseBegins ==
    LET live == {pool.slots[s].proc : s \in Slots} \ {None}
    IN  /\ ~pool.closed
        /\ pool' = [pool EXCEPT !.closed = TRUE, !.queue = <<>>,
                                !.slots = [s \in Slots |-> [@[s] EXCEPT !.proc = None, !.current = None]]]
        /\ reqs' = [r \in Reqs |->
                      IF r \in InFlight \cup ToSet(pool.queue)
                      THEN [NoReq EXCEPT !.state = "closed"]
                      ELSE reqs[r]]
        /\ procs' = [p \in Procs |-> IF p \in live /\ procs[p].state # "none"
                                     THEN [procs[p] EXCEPT !.state = "termed", !.stdin = <<>>]
                                     ELSE procs[p]]
        /\ closing' = [pc |-> "grace", procs |-> live,
                       awaits |-> {pool.slots[s].settled : s \in Slots} \ {None}]

GraceElapses_NoKill ==
    /\ closing.pc = "grace"
    /\ closing' = [closing EXCEPT !.pc = "awaiting"]
    /\ UNCHANGED <<pool, reqs, procs>>

\* The grace period is over: SIGKILL those of its processes that are left.
GraceElapses ==
    /\ closing.pc = "grace"
    /\ procs' = [p \in Procs |-> IF p \in closing.procs /\ procs[p].state = "termed"
                                 THEN [procs[p] EXCEPT !.state = "doomed"] ELSE procs[p]]
    /\ closing' = [closing EXCEPT !.pc = "awaiting"]
    /\ UNCHANGED <<pool, reqs>>

CloseReturns ==
    /\ closing.pc \in {"grace", "awaiting"}
    /\ closing.awaits = {}
    /\ closing' = [closing EXCEPT !.pc = "returned"]
    /\ UNCHANGED <<pool, reqs, procs>>

-----------------------------------------------------------------------------
Next ==
    \/ \E r \in Reqs, bad, fails \in BOOLEAN : Request(r, bad, fails)
    \/ \E p \in Procs, kind \in LineKinds, keep \in BOOLEAN : Answer(p, kind, keep)
    \/ \E p \in Procs : PartArrives(p)
    \/ \E p \in Procs, fails \in BOOLEAN : LineArrives(p, fails)
    \/ \E r \in Reqs, fails \in BOOLEAN : TimerFires(r, fails)
    \/ \E p \in Procs, fails \in BOOLEAN : ProcessEnds(p, fails)
    \/ CloseBegins
    \/ GraceElapses
    \/ CloseReturns

Spec == Init /\ [][Next]_vars

-----------------------------------------------------------------------------
(* Properties.                                                             *)

\* The pool, its requests and its processes have these types.
TypeOK ==
    /\ pool.queue \in Seq(Reqs)
    /\ pool.closed \in BOOLEAN
    /\ pool.slots \in [Slots -> [proc : Procs \cup {None}, current : Reqs \cup {None},
                                 buffer : Procs \cup {None}, settled : Procs \cup {None}]]
    /\ reqs \in [Reqs -> [state : ReqStates,
                          answerTo : Reqs \cup {None}, blamed : LineKinds \cup {None}, bad : BOOLEAN,
                          attempts : 0..MAX_ATTEMPTS, timer : Slots \cup {None}]]
    /\ \A p \in Procs :
          /\ procs[p].state \in ProcStates
          /\ procs[p].slot \in Slots
          /\ procs[p].stdin \in Seq(Ids)
          /\ procs[p].out \in Seq(Lines)
    /\ closing \in [pc : {"open", "grace", "awaiting", "returned"},
                    procs : SUBSET Procs, awaits : SUBSET Procs]

\* No request is dropped or kept twice (request, pump, and every handler): an
\* open one is queued once or served by one slot, with its timer running; an
\* ended one is nowhere.
Places(r) == Cardinality({i \in DOMAIN pool.queue : pool.queue[i] = r})
             + Cardinality({s \in Slots : pool.slots[s].current = r /\ reqs[r].timer = s})
EachRequestHasOnePlace ==
    \A r \in Reqs :
        /\ Places(r) = IF reqs[r].state = "open" THEN 1 ELSE 0
        /\ r \in InFlight => reqs[r].timer # None

\* "requests queue FIFO and dispatch to the next non-busy worker" (header,
\* pump), and "the retry is served before later requests" (onTimeout):
\* whatever fails, no slot idles while a request waits, and the slot that
\* timed out takes its retry in the same step, so what waits was never tried.
ServedInTurn ==
    pool.queue # <<>> =>
        /\ \A s \in Slots : pool.slots[s].current # None
        /\ \A i \in DOMAIN pool.queue : reqs[pool.queue[i]].attempts = 0

\* A request resolves with, or is failed by, an answer to that request, also
\* when late and repeated answers are about ("request-id correlation", onLine);
\* and "a partial line flushed by a replaced process must never contaminate
\* the next process's first line" (spawn): a protocol violation is one the
\* worker committed.
AnswersMatch ==
    \A r \in Reqs :
        /\ reqs[r].state = "answer" => reqs[r].answerTo = r
        /\ reqs[r].state = "protocol" => reqs[r].blamed = "junk"

\* A killed worker is fenced (onTimeout, failWorker, doClose): what a slot
\* holds has not been told to end, and has at most the one request unanswered.
SlotsHoldLiveWorkers ==
    \A s \in Slots : pool.slots[s].proc # None =>
        LET p == pool.slots[s].proc
        IN  /\ procs[p].state \in {"running"}
            /\ procs[p].slot = s
            /\ pool.slots[s].current # None =>
                  \A i \in DOMAIN procs[p].stdin :
                      reqs[procs[p].stdin[i].req].state = "open" =>
                          procs[p].stdin[i].req = pool.slots[s].current

\* "a worker that does not answer in time is killed" (WorkerSpec.timeoutMs),
\* and close() "resolves once the processes are gone": once the grace period is
\* over close() waits only for processes that were killed, or that nobody has
\* told to end because a dispatch lost them.
Lost == {p \in Procs : procs[p].state = "running" /\ ~Attached(p)}
CloseWaitsForTheKilled ==
    closing.pc = "awaiting" =>
        \A p \in closing.awaits : procs[p].state = "doomed" \/ p \in Lost

\* No worker is taken for another or forgotten, in a slot and after it.
WorkersAreAccountedFor == SlotsHoldLiveWorkers /\ CloseWaitsForTheKilled
=============================================================================
