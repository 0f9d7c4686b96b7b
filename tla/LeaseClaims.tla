----------------------------- MODULE LeaseClaims -----------------------------
(***************************************************************************)
(* The leases on work items: the claims table of src/target/claim.ts,      *)
(* written by the daemons of src/core/daemon.ts, each a process of its own *)
(* with its own connection to one database.                                *)
(*                                                                         *)
(* A daemon serializes its writes on a promise chain (writeTail), so of    *)
(* each daemon only the first call of its queue is under way; between two  *)
(* SQL statements of that call another daemon's statements and the clock   *)
(* may come.  A worker is an owner name under a daemon; the same name may  *)
(* come back under a later daemon (a resumed run), with another epoch.     *)
(*                                                                         *)
(* An owner's name stands for its run as well ("<run_id>:<worker_seq>");   *)
(* allowed_paths and the times nobody compares are left out.  Daemons are  *)
(* their epochs.  The clock is one for all processes.                      *)
(*                                                                         *)
(* An operator named X_Bug is X with a plausible programming error; it is  *)
(* used only to confirm that the properties below notice the error.        *)
(***************************************************************************)
EXTENDS Integers, Sequences, FiniteSets

CONSTANTS
    Items,      \* work items
    Owners,     \* owner names of the required form
    Daemons,    \* daemon generations by epoch, numbered as they start
    Free,       \* stands for the row a free item does not have
    Ttls,       \* the lease durations callers ask for
    MaxTime,    \* bound: the clock stops here
    MaxCalls,   \* bound: calls of workers
    MaxQueue,   \* bound: calls waiting in one daemon
    MaxStops    \* bound: daemons that close or crash

ASSUME TimesAssumption == Ttls \subseteq Nat /\ MaxTime \in Nat
ASSUME NonemptyAssumption == Items # {} /\ Owners # {} /\ Ttls # {}
ASSUME FreeAssumption == Free \notin [owner : Owners, epoch : Daemons, expires : Nat]
ASSUME DaemonsAssumption == Daemons \subseteq Nat
ASSUME BoundsAssumption == {MaxCalls, MaxQueue, MaxStops} \subseteq Nat

VARIABLES
    clock,    \* the wall clock
    claims,   \* the claims table, by primary key
    runs,     \* the runs that have a row
    daemon,   \* of each daemon: its life, closed, the reap timer, its queue
    told,     \* until when each worker was last told it holds an item, -1: it does not
    calls     \* how many calls workers have made

vars == <<clock, claims, runs, daemon, told, calls>>

Rows == [owner : Owners, epoch : Daemons, expires : Nat]
Lives == {"new", "starting", "up", "dead"}
Steps == {"begin", "insert", "rearm"}
Ops == [kind : {"claim", "heartbeat", "release", "reap", "start"},
        item : Items, owner : Owners, ttl : Ttls,
        step : Steps, now : 0..MaxTime, tries : 0..3]

Init ==
    /\ clock = 0
    /\ claims = [i \in Items |-> Free]
    /\ runs = {}
    /\ daemon = [d \in Daemons |->
                   [life |-> "new", closed |-> FALSE, timer |-> FALSE, queue |-> <<>>]]
    /\ told = [o \in Owners |-> [d \in Daemons |-> [i \in Items |-> -1]]]
    /\ calls = 0

-----------------------------------------------------------------------------
(* Calls: each passes the closed test and joins the queue.                 *)

Queue(d) == daemon[d].queue
Open(d) == daemon[d].life \in {"starting", "up"} /\ ~daemon[d].closed
Enqueue(d, op) == [daemon EXCEPT ![d].queue = Append(@, op)]

Op(kind, i, o, ttl, now) ==
    [kind |-> kind, item |-> i, owner |-> o, ttl |-> ttl,
     step |-> "begin", now |-> now, tries |-> 0]

AnyItem == CHOOSE i \in Items : TRUE
AnyOwner == CHOOSE o \in Owners : TRUE
AnyTtl == CHOOSE t \in Ttls : TRUE

\* reapExpired(): the time is taken before the sweep joins the queue.
Sweep(kind) == Op(kind, AnyItem, AnyOwner, AnyTtl, clock)

\* Bound: a sweep is asked of a daemon that has nothing else to do; calls may
\* then queue behind it, and the time it took grows old.
RoomForSweep(d) == Queue(d) = <<>>

\* claim(), heartbeat() or release() of a worker; one that releases has
\* stopped working on the item.
Call(d, o, i) ==
    /\ Open(d) /\ daemon[d].life = "up"
    /\ calls < MaxCalls
    /\ Len(Queue(d)) < MaxQueue
    /\ calls' = calls + 1
    /\ \/ /\ \E k \in {"claim", "heartbeat"}, ttl \in Ttls :
               daemon' = Enqueue(d, Op(k, i, o, ttl, 0))
          /\ UNCHANGED told
       \/ /\ daemon' = Enqueue(d, Op("release", i, o, AnyTtl, 0))
          /\ told' = [told EXCEPT ![o][d][i] = -1]
    /\ UNCHANGED <<clock, claims, runs>>

\* reapNow().
CallReap(d) ==
    /\ Open(d)
    /\ RoomForSweep(d)
    /\ daemon' = Enqueue(d, Sweep("reap"))
    /\ UNCHANGED <<clock, claims, runs, told, calls>>

\* start(): the first sweep; the timer is armed when it is through.
Start(d) ==
    /\ daemon[d].life = "new"
    /\ \A e \in Daemons : e < d => daemon[e].life # "new"
    /\ daemon' = [daemon EXCEPT ![d].life = "starting",
                                ![d].queue = Append(@, Sweep("start"))]
    /\ UNCHANGED <<clock, claims, runs, told, calls>>

\* A tick of the reap timer; after close() the sweep is refused.
TimerFires(d) ==
    /\ daemon[d].timer
    /\ Open(d)
    /\ RoomForSweep(d)
    /\ daemon' = Enqueue(d, Sweep("reap"))
    /\ UNCHANGED <<clock, claims, runs, told, calls>>

Stopped == {d \in Daemons : daemon[d].closed}

\* close(): no further writes; those queued are still served.
Close(d) ==
    /\ Open(d)
    /\ Cardinality(Stopped) < MaxStops
    /\ daemon' = [daemon EXCEPT ![d].closed = TRUE, ![d].timer = FALSE]
    /\ UNCHANGED <<clock, claims, runs, told, calls>>

-----------------------------------------------------------------------------
(* The call at the head of a daemon's queue, one SQL statement at a time.  *)

At(d, kind, step) ==
    Queue(d) # <<>> /\ Head(Queue(d)).kind = kind /\ Head(Queue(d)).step = step

Settled(d) == [daemon EXCEPT ![d].queue = Tail(@)]
GoTo(d, op) == [daemon EXCEPT ![d].queue = [@ EXCEPT ![1] = op]]

Held(i) == claims[i] # Free
HeldBy(i, o, d) == Held(i) /\ claims[i].owner = o /\ claims[i].epoch = d
Row(o, d, t) == [owner |-> o, epoch |-> d, expires |-> t]

\* What the caller believes after its call; one that has called release()
\* since does not work on the item, whatever it hears.
GivingUp(d, op) ==
    \E k \in 2..Len(Queue(d)) :
      LET later == Queue(d)[k]
      IN  later.kind = "release" /\ later.owner = op.owner /\ later.item = op.item
Tell(d, op, until) ==
    IF GivingUp(d, op) THEN told ELSE [told EXCEPT ![op.owner][d][op.item] = until]

\* claim(): the time is taken and the run gets its row.
BeginClaim(d) ==
    LET op == Head(Queue(d)) IN
    /\ At(d, "claim", "begin")
    /\ runs' = runs \cup {op.owner}
    /\ daemon' = GoTo(d, [op EXCEPT !.step = "insert", !.now = clock])
    /\ UNCHANGED <<clock, claims, told, calls>>

\* The INSERT of a claim: it takes a free item, or meets the primary key.
InsertClaim(d) ==
    LET op == Head(Queue(d)) IN
    /\ At(d, "claim", "insert")
    /\ IF Held(op.item)
       THEN /\ daemon' = GoTo(d, [op EXCEPT !.step = "rearm"])
            /\ UNCHANGED <<claims, told>>
       ELSE /\ claims' = [claims EXCEPT ![op.item] = Row(op.owner, d, op.now + op.ttl)]
            /\ told' = Tell(d, op, op.now + op.ttl)
            /\ daemon' = Settled(d)
    /\ UNCHANGED <<clock, runs, calls>>

Rearmable_AnyEpoch(d, op) ==
    /\ Held(op.item) /\ claims[op.item].owner = op.owner
    /\ claims[op.item].expires > op.now

\* Which row the UPDATE of a claim may re-arm: the caller's own, still live.
Rearmable(d, op) ==
    HeldBy(op.item, op.owner, d) /\ claims[op.item].expires > op.now

\* The UPDATE of a claim, then at most two more rounds.
RearmClaim(d) ==
    LET op == Head(Queue(d)) IN
    /\ At(d, "claim", "rearm")
    /\ \/ /\ Rearmable(d, op)
          /\ claims' = [claims EXCEPT ![op.item].expires = op.now + op.ttl]
          /\ told' = Tell(d, op, op.now + op.ttl)
          /\ daemon' = Settled(d)
       \/ /\ ~Rearmable(d, op)
          /\ op.tries < 2
          /\ daemon' = GoTo(d, [op EXCEPT !.step = "insert", !.tries = @ + 1])
          /\ UNCHANGED <<claims, told>>
       \/ /\ ~Rearmable(d, op)
          /\ op.tries >= 2
          /\ told' = Tell(d, op, -1)
          /\ daemon' = Settled(d)
          /\ UNCHANGED claims
    /\ UNCHANGED <<clock, runs, calls>>

\* heartbeat(): one UPDATE, which does not look at expires_at.
Heartbeat(d) ==
    LET op == Head(Queue(d))
        mine == HeldBy(op.item, op.owner, d)
    IN
    /\ At(d, "heartbeat", "begin")
    /\ claims' = IF mine THEN [claims EXCEPT ![op.item].expires = clock + op.ttl]
                 ELSE claims
    /\ told' = Tell(d, op, IF mine THEN clock + op.ttl ELSE -1)
    /\ daemon' = Settled(d)
    /\ UNCHANGED <<clock, runs, calls>>

Releasable_AnyEpoch(d, op) == Held(op.item) /\ claims[op.item].owner = op.owner

Releasable(d, op) == HeldBy(op.item, op.owner, d)

\* release(): one DELETE of the caller's own row.
Release(d) ==
    LET op == Head(Queue(d)) IN
    /\ At(d, "release", "begin")
    /\ claims' = IF Releasable(d, op) THEN [claims EXCEPT ![op.item] = Free] ELSE claims
    /\ daemon' = Settled(d)
    /\ UNCHANGED <<clock, runs, told, calls>>

Expired(i, now) == Held(i) /\ claims[i].expires < now

AfterSweep_NoTimer(d, op) ==
    [daemon EXCEPT ![d].queue = Tail(@),
                   ![d].life = IF op.kind = "start" THEN "up" ELSE @]

\* start() goes on from its own sweep: it arms the timer, closed or not.
AfterSweep(d, op) ==
    [daemon EXCEPT ![d].queue = Tail(@),
                   ![d].life = IF op.kind = "start" THEN "up" ELSE @,
                   ![d].timer = @ \/ op.kind = "start"]

\* reapExpired(): one DELETE of every expired row.
Reap(d) ==
    LET op == Head(Queue(d)) IN
    /\ At(d, "reap", "begin") \/ At(d, "start", "begin")
    /\ claims' = [i \in Items |-> IF Expired(i, op.now) THEN Free ELSE claims[i]]
    /\ daemon' = AfterSweep(d, op)
    /\ UNCHANGED <<clock, runs, told, calls>>

Serve(d) ==
    \/ BeginClaim(d) \/ InsertClaim(d) \/ RearmClaim(d)
    \/ Heartbeat(d) \/ Release(d) \/ Reap(d)

-----------------------------------------------------------------------------
\* The process of a daemon ends, with its workers, its queue and its timer.
Crash(d) ==
    /\ daemon[d].life \in {"starting", "up"}
    /\ Cardinality(Stopped \cup {d}) <= MaxStops
    /\ daemon' = [daemon EXCEPT ![d] = [life |-> "dead", closed |-> TRUE,
                                        timer |-> FALSE, queue |-> <<>>]]
    /\ told' = [o \in Owners |-> [told[o] EXCEPT ![d] = [i \in Items |-> -1]]]
    /\ UNCHANGED <<clock, claims, runs, calls>>

Tick ==
    /\ clock < MaxTime
    /\ clock' = clock + 1
    /\ UNCHANGED <<claims, runs, daemon, told, calls>>

Next ==
    \/ \E d \in Daemons, o \in Owners, i \in Items : Call(d, o, i)
    \/ \E d \in Daemons : Start(d) \/ CallReap(d) \/ TimerFires(d) \/ Close(d)
    \/ \E d \in Daemons : Serve(d)
    \/ \E d \in Daemons : Crash(d)
    \/ Tick

\* The event loop of a live process serves its queue and fires its timer;
\* time goes on.  Nothing makes a process crash, close or start.
Fairness ==
    /\ \A d \in Daemons : WF_vars(Serve(d)) /\ WF_vars(TimerFires(d))
    /\ WF_vars(Tick)

Spec == Init /\ [][Next]_vars /\ Fairness

-----------------------------------------------------------------------------
\* The state is well formed.
TypeOK ==
    /\ clock \in 0..MaxTime
    /\ claims \in [Items -> Rows \cup {Free}]
    /\ runs \in SUBSET Owners
    /\ daemon \in [Daemons -> [life : Lives, closed : BOOLEAN, timer : BOOLEAN,
                               queue : Seq(Ops)]]
    /\ told \in [Owners -> [Daemons -> [Items -> Nat \cup {-1}]]]
    /\ calls \in 0..MaxCalls

\* A worker that was told it holds an item, and whose lease has not run out,
\* is the one the table names, and the table keeps the lease at least as long
\* as the worker was told: neither a sweep with an older time, nor a claim
\* that overlaps another daemon's release, nor a late call of a daemon of
\* another generation takes the item from under it (claim.ts:150-156, the
\* two-active-workers guard).
ActiveWorkerOwnsTheLease ==
    \A o \in Owners, d \in Daemons, i \in Items :
      told[o][d][i] >= clock =>
        HeldBy(i, o, d) /\ claims[i].expires >= told[o][d][i]

\* Two workers never believe in the same item at once.
OneActiveWorker ==
    \A o, p \in Owners, d, e \in Daemons, i \in Items :
      told[o][d][i] >= clock /\ told[p][e][i] >= clock => o = p /\ d = e

Serving(d) == daemon[d].life = "up" /\ ~daemon[d].closed

\* Orphan recovery (daemon.ts:324-338): while a started daemon goes on, a
\* lease that ran out, whoever held it and whatever became of that process,
\* is freed or renewed.
ExpiredLeaseIsFreed ==
    \A i \in Items :
      (Held(i) /\ claims[i].expires < clock)
        ~> (~Held(i) \/ claims[i].expires >= clock \/ \A d \in Daemons : ~Serving(d))
=============================================================================
