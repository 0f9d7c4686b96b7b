-------------------------- MODULE WorkerPool_proofs --------------------------
(***************************************************************************)
(* What TLAPS checks of the worker pool, for every pool size and every set *)
(* of requests and processes.                                              *)
(*                                                                         *)
(* Every handler ends in pump(), a loop.  The invariant is stated of a     *)
(* World, the value the helpers pass on, so that it can be followed        *)
(* through them: it survives a pass of the loop, hence any number of       *)
(* passes, and after as many as there were requests the pool is quiet.     *)
(***************************************************************************)
EXTENDS WorkerPool, FiniteSetTheorems, SequenceTheorems, TLAPS

-----------------------------------------------------------------------------
(* The least of a set of naturals, and induction, from the well-founded    *)
(* order of the finite sets: with sets in the place of predicates, because *)
(* the library's own theorems take an operator, which no prover here can   *)
(* instantiate.                                                            *)

\* A set of naturals that is not empty has a least member.
LEMMA LeastNat ==
    ASSUME NEW S \in SUBSET Nat, S # {}
    PROVE  \E x \in S : \A y \in S : x <= y
<1> DEFINE T == {0..x : x \in S}
           R == StrictSubsetOrdering(Nat)
<1>1. IsWellFoundedOn(R, FiniteSubsetsOf(Nat))
  BY FS_StrictSubsetOrderingWellFounded
<1>2. T \subseteq FiniteSubsetsOf(Nat)
  <2> SUFFICES ASSUME NEW x \in S
               PROVE  0..x \in FiniteSubsetsOf(Nat)
    OBVIOUS
  <2>1. x \in Int /\ 0 \in Int /\ 0..x \subseteq Nat
    OBVIOUS
  <2>2. IsFiniteSet(0..x)
    BY <2>1, FS_Interval
  <2> QED
    BY <2>1, <2>2 DEF FiniteSubsetsOf
<1>3. T # {}
  OBVIOUS
<1> HIDE DEF R, T
<1>4. PICK m \in T : \A t \in T : ~ (<<t, m>> \in R)
  BY <1>1, <1>2, <1>3, WFMin
<1>5. PICK x \in S : m = 0..x
  BY DEF T
<1>6. ASSUME NEW y \in S, y < x
      PROVE  FALSE
  <2>1. 0..y \in T
    BY DEF T
  <2>2. 0..y \subseteq 0..x /\ 0..y # 0..x
    <3>1. x \in 0..x /\ x \notin 0..y
      BY <1>6
    <3> QED
      BY <3>1, <1>6
  <2>3. <<0..y, 0..x>> \in R
    BY <2>2 DEF R, StrictSubsetOrdering
  <2> QED
    BY <2>1, <2>3, <1>4, <1>5
<1> QED
  BY <1>6

\* Induction: a set with 0 and with the successor of each member is Nat.
LEMMA SetInduction ==
    ASSUME NEW S \in SUBSET Nat, 0 \in S, \A n \in S : n + 1 \in S
    PROVE  S = Nat
<1> DEFINE T == Nat \ S
<1>1. SUFFICES ASSUME T # {}
               PROVE  FALSE
  OBVIOUS
<1>2. PICK x \in T : \A y \in T : x <= y
  BY <1>1, LeastNat
<1>3. x # 0
  OBVIOUS
<1>4. x - 1 \in Nat /\ ~(x <= x - 1)
  BY <1>3
<1>5. x - 1 \in S
  BY <1>2, <1>4
<1> QED
  BY <1>5

-----------------------------------------------------------------------------
(* Types.                                                                  *)

SlotRecords == [proc : Procs \cup {None}, current : Reqs \cup {None},
                buffer : Procs \cup {None}, settled : Procs \cup {None}]
Requests == [state : ReqStates, answerTo : Reqs \cup {None}, blamed : LineKinds \cup {None},
             bad : BOOLEAN, attempts : 0..MAX_ATTEMPTS, timer : Slots \cup {None}]
Processes == [state : ProcStates, slot : Slots, stdin : Seq(Ids), out : Seq(Lines)]
Pools == [queue : Seq(Reqs), closed : BOOLEAN, slots : [Slots -> SlotRecords]]
Worlds == [pool : Pools, reqs : [Reqs -> Requests], procs : [Procs -> Processes],
           fails : BOOLEAN]

-----------------------------------------------------------------------------
(* The inductive invariant, but for a request h a handler has in its hand  *)
(* (None when it has none).                                                *)

Queued(w, r) == \E i \in DOMAIN w.pool.queue : w.pool.queue[i] = r
Serves(w, s, r) == w.pool.slots[s].current = r
InFlightIn(w, r) == \E s \in Slots : Serves(w, s, r)

\* Nothing waits twice, and what waits is open and served by nobody.
QueueFits(w) ==
    LET q == w.pool.queue IN
    /\ \A i, j \in DOMAIN q : q[i] = q[j] => i = j
    /\ \A i \in DOMAIN q : /\ w.reqs[q[i]].state = "open"
                           /\ w.reqs[q[i]].timer = None
                           /\ ~InFlightIn(w, q[i])

\* What a slot serves is open, was sent, and is timed for that slot; and no
\* other request is timed.
FlightFits(w) ==
    /\ \A s \in Slots : LET r == w.pool.slots[s].current IN
         r # None => /\ w.reqs[r].state = "open" /\ w.reqs[r].timer = s
                     /\ ~w.reqs[r].bad /\ w.reqs[r].attempts >= 1
    /\ \A r \in Reqs : w.reqs[r].timer # None => Serves(w, w.reqs[r].timer, r)

\* Nothing that is open is lost, but for h.
OpenFits(w, h) ==
    \A r \in Reqs : w.reqs[r].state = "open" /\ r # h => Queued(w, r) \/ InFlightIn(w, r)

HandFits(w, h) ==
    h # None => /\ h \in Reqs /\ w.reqs[h].state = "open" /\ w.reqs[h].timer = None
                /\ ~Queued(w, h) /\ ~InFlightIn(w, h)

\* A slot's process is its own and alive, what it may still answer of what is
\* open is what the slot serves, and the buffer holds none but its output.
ProcFits(w, s, h) ==
    LET p == w.pool.slots[s].proc IN
    p # None =>
      /\ w.procs[p].state = "running" /\ w.procs[p].slot = s
      /\ w.pool.slots[s].buffer \in {None, p}
      /\ \A i \in DOMAIN w.procs[p].stdin :
           LET r == w.procs[p].stdin[i].req IN
           /\ w.reqs[r].state # "unmade"
           /\ w.reqs[r].state = "open" /\ r # h => Serves(w, s, r)

SettledFits(w, s) ==
    LET p == w.pool.slots[s].settled IN
    p # None => w.procs[p].state # "none" /\ w.procs[p].slot = s

\* doClose() leaves nothing behind, and none but it tells a worker to end.
ClosedFits(w) ==
    /\ w.pool.closed => /\ w.pool.queue = <<>>
                        /\ \A s \in Slots : /\ w.pool.slots[s].proc = None
                                            /\ w.pool.slots[s].current = None
    /\ ~w.pool.closed => \A p \in Procs : w.procs[p].state # "termed"

\* A request got an answer to it, or was failed by what was none; and one
\* that was not made yet was not tried.
RecordsFit(w) ==
    \A r \in Reqs : /\ w.reqs[r].state = "answer" => w.reqs[r].answerTo = r
                    /\ w.reqs[r].state = "protocol" => w.reqs[r].blamed = "junk"
                    /\ w.reqs[r].state = "unmade" => w.reqs[r].attempts = 0

Sound(w, h) ==
    /\ w \in Worlds
    /\ QueueFits(w) /\ FlightFits(w) /\ OpenFits(w, h) /\ HandFits(w, h)
    /\ \A s \in Slots : SettledFits(w, s)
    /\ ClosedFits(w) /\ RecordsFit(w)

FitsBut(w, h) == Sound(w, h) /\ \A s \in Slots : ProcFits(w, s, h)

Fits(w) == FitsBut(w, None)

\* No slot's process may still answer h.
Unsent(w, h) ==
    \A s \in Slots : w.pool.slots[s].proc # None =>
        LET ids == w.procs[w.pool.slots[s].proc].stdin IN \A i \in DOMAIN ids : ids[i].req # h

-----------------------------------------------------------------------------
(* Whose turn it is.                                                       *)

\* Only the head of the queue may have been tried, and only while a slot is
\* there to take it.
TurnsFit(w) ==
    LET q == w.pool.queue IN
    /\ \A i \in DOMAIN q : \/ w.reqs[q[i]].attempts = 0
                           \/ i = 1 /\ Idle(w) # {} /\ w.reqs[q[i]].attempts = 1
    /\ Len(q) > 1 => \A s, t \in Idle(w) : s = t

Free(w) == {p \in Procs : w.procs[p].state = "none"}
BadQueued(w) == {r \in ToSet(w.pool.queue) : w.reqs[r].bad}

\* The ids that are left suffice for the processes the pump may spawn.
RoomFits(w) ==
    w.pool.queue # <<>> /\ Idle(w) # {} =>
        /\ Free(w) # {}
        /\ Len(w.pool.queue) > 1 => Cardinality(Free(w)) > Cardinality(BadQueued(w))

Ready(w) == Fits(w) /\ TurnsFit(w) /\ RoomFits(w)

\* The pump has nothing to do.
Quiet(w) == w.pool.queue = <<>> \/ Idle(w) = {}

\* doClose() awaits processes that are there: killed ones, ones it told to end,
\* or ones no slot knew of.
ClosingFits ==
    /\ closing \in [pc : {"open", "grace", "awaiting", "returned"},
                    procs : SUBSET Procs, awaits : SUBSET Procs]
    /\ closing.pc # "open" <=> pool.closed
    /\ closing.pc \in {"grace", "awaiting"} =>
         \A p \in closing.awaits :
           \/ procs[p].state \in {"doomed", "running"}
           \/ closing.pc = "grace" /\ procs[p].state = "termed" /\ p \in closing.procs

IInv ==
    /\ Fits(World(FALSE)) /\ TurnsFit(World(FALSE)) /\ Quiet(World(FALSE))
    /\ ClosingFits

-----------------------------------------------------------------------------
(* What the helpers do, field by field.                                    *)

\* None is no request, no process and no slot, and there are processes enough for
\* the slots.
LEMMA NoneIsNothing ==
    /\ None \notin Reqs /\ None \notin Procs /\ None \notin Slots
    /\ Slots \subseteq Procs
BY NoneAssumption, ReqsAssumption, ProcsAssumption, PoolSizeAssumption DEF Slots

\* The parts of a World have their types.
LEMMA WorldTyped ==
    ASSUME NEW w \in Worlds
    PROVE  /\ w.pool \in Pools /\ w.fails \in BOOLEAN
           /\ w.pool.queue \in Seq(Reqs) /\ w.pool.closed \in BOOLEAN
           /\ w.pool.slots \in [Slots -> SlotRecords]
           /\ w.reqs \in [Reqs -> Requests]
           /\ w.procs \in [Procs -> Processes]
           /\ \A s \in Slots : /\ w.pool.slots[s] \in SlotRecords
                               /\ w.pool.slots[s].proc \in Procs \cup {None}
                               /\ w.pool.slots[s].current \in Reqs \cup {None}
                               /\ w.pool.slots[s].buffer \in Procs \cup {None}
                               /\ w.pool.slots[s].settled \in Procs \cup {None}
           /\ \A r \in Reqs : /\ w.reqs[r] \in Requests
                              /\ w.reqs[r].state \in ReqStates
                              /\ w.reqs[r].bad \in BOOLEAN
                              /\ w.reqs[r].attempts \in 0..2
                              /\ w.reqs[r].timer \in Slots \cup {None}
           /\ \A p \in Procs : /\ w.procs[p] \in Processes
                               /\ w.procs[p].state \in ProcStates
                               /\ w.procs[p].slot \in Slots
                               /\ w.procs[p].stdin \in Seq(Ids)
                               /\ w.procs[p].out \in Seq(Lines)
<1>1. /\ w.pool \in Pools /\ w.fails \in BOOLEAN
      /\ w.reqs \in [Reqs -> Requests] /\ w.procs \in [Procs -> Processes]
  BY DEF Worlds
<1>2. /\ w.pool.queue \in Seq(Reqs) /\ w.pool.closed \in BOOLEAN
      /\ w.pool.slots \in [Slots -> SlotRecords]
  BY <1>1 DEF Pools
<1>3. \A s \in Slots : w.pool.slots[s] \in SlotRecords
  BY <1>2
<1>4. \A r \in Reqs : w.reqs[r] \in Requests
  BY <1>1
<1>5. \A p \in Procs : w.procs[p] \in Processes
  BY <1>1
<1>6. \A x \in SlotRecords : /\ x.proc \in Procs \cup {None} /\ x.current \in Reqs \cup {None}
                             /\ x.buffer \in Procs \cup {None} /\ x.settled \in Procs \cup {None}
  BY DEF SlotRecords
<1>7. \A x \in Requests : /\ x.state \in ReqStates /\ x.bad \in BOOLEAN /\ x.attempts \in 0..2
                          /\ x.timer \in Slots \cup {None}
  BY DEF Requests, MAX_ATTEMPTS
<1>8. \A x \in Processes : /\ x.state \in ProcStates /\ x.slot \in Slots
                           /\ x.stdin \in Seq(Ids) /\ x.out \in Seq(Lines)
  BY DEF Processes
<1> QED
  BY <1>1, <1>2, <1>3, <1>4, <1>5, <1>6, <1>7, <1>8

\* What is written to a process are requests.
LEMMA StdinTyped ==
    ASSUME NEW w \in Worlds, NEW p \in Procs
    PROVE  \A i \in DOMAIN w.procs[p].stdin : /\ w.procs[p].stdin[i].req \in Reqs
                                              /\ w.procs[p].stdin[i].req # None
<1>1. w.procs[p].stdin \in Seq(Ids)
  BY WorldTyped
<1>2. \A i \in DOMAIN w.procs[p].stdin : w.procs[p].stdin[i] \in Ids
  BY <1>1
<1> QED
  BY <1>2, NoneIsNothing DEF Ids

\* A world whose requests, slots or processes were changed is a world.
LEMMA PutReq ==
    ASSUME NEW w \in Worlds, NEW r \in Reqs, NEW x \in Requests
    PROVE  LET v == [w EXCEPT !.reqs[r] = x] IN
           /\ v \in Worlds /\ v.pool = w.pool /\ v.procs = w.procs /\ v.fails = w.fails
           /\ v.reqs = [w.reqs EXCEPT ![r] = x]
           /\ \A q \in Reqs : v.reqs[q] = IF q = r THEN x ELSE w.reqs[q]
BY DEF Worlds

\* Writing one process's record.
LEMMA PutProc ==
    ASSUME NEW w \in Worlds, NEW p \in Procs, NEW x \in Processes
    PROVE  LET v == [w EXCEPT !.procs[p] = x] IN
           /\ v \in Worlds /\ v.pool = w.pool /\ v.reqs = w.reqs /\ v.fails = w.fails
           /\ v.procs = [w.procs EXCEPT ![p] = x]
           /\ \A q \in Procs : v.procs[q] = IF q = p THEN x ELSE w.procs[q]
BY DEF Worlds

\* Writing the pool's record.
LEMMA PutPool ==
    ASSUME NEW w \in Worlds, NEW x \in Pools
    PROVE  LET v == [w EXCEPT !.pool = x] IN
           v \in Worlds /\ v.pool = x /\ v.reqs = w.reqs /\ v.procs = w.procs /\ v.fails = w.fails
BY DEF Worlds

\* Writing one slot's record.
LEMMA PutSlot ==
    ASSUME NEW w \in Worlds, NEW s \in Slots, NEW x \in SlotRecords
    PROVE  LET v == [w EXCEPT !.pool.slots[s] = x] IN
           /\ v \in Worlds /\ v.reqs = w.reqs /\ v.procs = w.procs /\ v.fails = w.fails
           /\ v.pool.queue = w.pool.queue /\ v.pool.closed = w.pool.closed
           /\ \A t \in Slots : v.pool.slots[t] = IF t = s THEN x ELSE w.pool.slots[t]
<1> DEFINE pool2 == [w.pool EXCEPT !.slots[s] = x]
<1>1. w.pool \in Pools /\ w.pool.slots \in [Slots -> SlotRecords]
  BY WorldTyped
<1>2. pool2 \in Pools /\ pool2.queue = w.pool.queue /\ pool2.closed = w.pool.closed
      /\ pool2.slots = [w.pool.slots EXCEPT ![s] = x]
  BY <1>1 DEF Pools
<1>3. [w EXCEPT !.pool.slots[s] = x] = [w EXCEPT !.pool = pool2]
  BY DEF Worlds, Pools
<1> HIDE DEF pool2
<1> DEFINE v == [w EXCEPT !.pool = pool2]
<1>4. v \in Worlds /\ v.pool = pool2 /\ v.reqs = w.reqs /\ v.procs = w.procs /\ v.fails = w.fails
  BY <1>2, PutPool
<1>5. \A t \in Slots : [w.pool.slots EXCEPT ![s] = x][t] = IF t = s THEN x ELSE w.pool.slots[t]
  BY <1>1
<1> HIDE DEF v
<1>6. /\ v.pool.queue = w.pool.queue /\ v.pool.closed = w.pool.closed
      /\ \A t \in Slots : v.pool.slots[t] = IF t = s THEN x ELSE w.pool.slots[t]
  BY <1>2, <1>4, <1>5
<1> QED
  BY <1>3, <1>4, <1>6 DEF v

\* Writing the queue.
LEMMA PutQueue ==
    ASSUME NEW w \in Worlds, NEW x \in Seq(Reqs)
    PROVE  LET v == [w EXCEPT !.pool.queue = x] IN
           /\ v \in Worlds /\ v.reqs = w.reqs /\ v.procs = w.procs /\ v.fails = w.fails
           /\ v.pool.queue = x /\ v.pool.closed = w.pool.closed /\ v.pool.slots = w.pool.slots
<1> DEFINE pool2 == [w.pool EXCEPT !.queue = x]
<1>1. w.pool \in Pools
  BY WorldTyped
<1>2. pool2 \in Pools /\ pool2.queue = x /\ pool2.closed = w.pool.closed
      /\ pool2.slots = w.pool.slots
  BY <1>1 DEF Pools
<1>3. [w EXCEPT !.pool.queue = x] = [w EXCEPT !.pool = pool2]
  BY DEF Worlds, Pools
<1> HIDE DEF pool2
<1>4. LET v == [w EXCEPT !.pool = pool2] IN
      v \in Worlds /\ v.pool = pool2 /\ v.reqs = w.reqs /\ v.procs = w.procs /\ v.fails = w.fails
  BY <1>2, PutPool
<1> DEFINE v == [w EXCEPT !.pool.queue = x]
<1>5. v \in Worlds /\ v.pool = pool2 /\ v.reqs = w.reqs /\ v.procs = w.procs /\ v.fails = w.fails
  BY <1>3, <1>4, Zenon
<1> HIDE DEF v
<1>6. v.pool.queue = x /\ v.pool.closed = w.pool.closed /\ v.pool.slots = w.pool.slots
  BY <1>2, <1>5, Zenon
<1> QED
  BY <1>5, <1>6, Zenon DEF v

-----------------------------------------------------------------------------
(* Handlers let go of a slot, kill, and settle what they hold.             *)

\* Vacate takes a slot's request and its timer away and nothing else.
LEMMA VacateDoes ==
    ASSUME NEW w \in Worlds, NEW s \in Slots
    PROVE  LET v == Vacate(w, s)
               h == w.pool.slots[s].current
           IN /\ v \in Worlds /\ v.procs = w.procs /\ v.fails = w.fails
              /\ v.pool.queue = w.pool.queue /\ v.pool.closed = w.pool.closed
              /\ \A t \in Slots :
                   /\ v.pool.slots[t].proc = w.pool.slots[t].proc
                   /\ v.pool.slots[t].buffer = w.pool.slots[t].buffer
                   /\ v.pool.slots[t].settled = w.pool.slots[t].settled
                   /\ v.pool.slots[t].current = IF t = s THEN None ELSE w.pool.slots[t].current
              /\ \A r \in Reqs :
                   /\ v.reqs[r].timer = IF r = h THEN None ELSE w.reqs[r].timer
                   /\ v.reqs[r].state = w.reqs[r].state
                   /\ v.reqs[r].bad = w.reqs[r].bad
                   /\ v.reqs[r].attempts = w.reqs[r].attempts
                   /\ v.reqs[r].answerTo = w.reqs[r].answerTo
                   /\ v.reqs[r].blamed = w.reqs[r].blamed
<1> DEFINE h == w.pool.slots[s].current
           x == [w.pool.slots[s] EXCEPT !.current = None]
           u == [w EXCEPT !.pool.slots[s] = x]
           y == [w.reqs[h] EXCEPT !.timer = None]
           v == [u EXCEPT !.reqs[h] = y]
<1>1. h \in Reqs \cup {None}
  BY WorldTyped
<1>2. CASE h = None
  BY <1>2, NoneIsNothing, WorldTyped DEF Vacate
<1>3. CASE h # None
  <2>1. h \in Reqs
    BY <1>1, <1>3
  <2>2. w.pool.slots[s] \in SlotRecords /\ w.reqs[h] \in Requests
    BY <2>1, WorldTyped
  <2>3. x \in SlotRecords /\ x.proc = w.pool.slots[s].proc /\ x.buffer = w.pool.slots[s].buffer
        /\ x.settled = w.pool.slots[s].settled /\ x.current = None
    BY <2>2 DEF SlotRecords
  <2>4. /\ y \in Requests /\ y.timer = None /\ y.state = w.reqs[h].state /\ y.bad = w.reqs[h].bad
        /\ y.attempts = w.reqs[h].attempts /\ y.answerTo = w.reqs[h].answerTo
        /\ y.blamed = w.reqs[h].blamed
    BY <2>2 DEF Requests
  <2>5. Vacate(w, s) = v
    <3>1. Vacate(w, s) = [w EXCEPT !.pool.slots[s].current = None, !.reqs[h].timer = None]
      BY <1>3 DEF Vacate
    <3>2. w.pool \in Pools /\ w.pool.slots \in [Slots -> SlotRecords] /\ w.reqs \in [Reqs -> Requests]
      BY WorldTyped
    <3> QED
      BY <3>1, <3>2, <2>1 DEF Worlds, Pools
  <2> HIDE DEF x, y
  <2>6. /\ u \in Worlds /\ u.reqs = w.reqs /\ u.procs = w.procs /\ u.fails = w.fails
        /\ u.pool.queue = w.pool.queue /\ u.pool.closed = w.pool.closed
        /\ \A t \in Slots : u.pool.slots[t] = IF t = s THEN x ELSE w.pool.slots[t]
    BY <2>3, PutSlot
  <2> HIDE DEF u
  <2>7. /\ v \in Worlds /\ v.pool = u.pool /\ v.procs = u.procs /\ v.fails = u.fails
        /\ \A q \in Reqs : v.reqs[q] = IF q = h THEN y ELSE u.reqs[q]
    BY <2>1, <2>4, <2>6, PutReq, ZenonT(60)
  <2> HIDE DEF v
  <2>8. /\ v \in Worlds /\ v.procs = w.procs /\ v.fails = w.fails
        /\ v.pool.queue = w.pool.queue /\ v.pool.closed = w.pool.closed
    BY <2>6, <2>7
  <2>9. \A t \in Slots :
                   /\ v.pool.slots[t].proc = w.pool.slots[t].proc
                   /\ v.pool.slots[t].buffer = w.pool.slots[t].buffer
                   /\ v.pool.slots[t].settled = w.pool.slots[t].settled
                   /\ v.pool.slots[t].current = IF t = s THEN None ELSE w.pool.slots[t].current
    BY <2>3, <2>6, <2>7
  <2>10. \A r \in Reqs :
                   /\ v.reqs[r].timer = IF r = h THEN None ELSE w.reqs[r].timer
                   /\ v.reqs[r].state = w.reqs[r].state
                   /\ v.reqs[r].bad = w.reqs[r].bad
                   /\ v.reqs[r].attempts = w.reqs[r].attempts
                   /\ v.reqs[r].answerTo = w.reqs[r].answerTo
                   /\ v.reqs[r].blamed = w.reqs[r].blamed
    BY <2>4, <2>6, <2>7 DEF y
  <2> QED
    BY <2>5, <2>8, <2>9, <2>10
<1> QED
  BY <1>2, <1>3

\* Detach takes a slot's process away and nothing else.
LEMMA DetachDoes ==
    ASSUME NEW w \in Worlds, NEW s \in Slots
    PROVE  LET v == Detach(w, s)
           IN /\ v \in Worlds /\ v.reqs = w.reqs /\ v.procs = w.procs /\ v.fails = w.fails
              /\ v.pool.queue = w.pool.queue /\ v.pool.closed = w.pool.closed
              /\ \A t \in Slots :
                   /\ v.pool.slots[t].proc = IF t = s THEN None ELSE w.pool.slots[t].proc
                   /\ v.pool.slots[t].buffer = w.pool.slots[t].buffer
                   /\ v.pool.slots[t].settled = w.pool.slots[t].settled
                   /\ v.pool.slots[t].current = w.pool.slots[t].current
<1> DEFINE x == [w.pool.slots[s] EXCEPT !.proc = None]
<1>1. w.pool.slots[s] \in SlotRecords /\ w.pool \in Pools /\ w.pool.slots \in [Slots -> SlotRecords]
  BY WorldTyped
<1>2. x \in SlotRecords /\ x.proc = None /\ x.buffer = w.pool.slots[s].buffer
        /\ x.settled = w.pool.slots[s].settled /\ x.current = w.pool.slots[s].current
  BY <1>1 DEF SlotRecords
<1>3. Detach(w, s) = [w EXCEPT !.pool.slots[s] = x]
  BY <1>1 DEF Detach, Worlds, Pools
<1> HIDE DEF x
<1> QED
  BY <1>2, <1>3, PutSlot

\* Kill dooms a process and empties its stdin and changes nothing else.
LEMMA KillDoes ==
    ASSUME NEW w \in Worlds, NEW p \in Procs
    PROVE  LET v == Kill(w, p)
           IN /\ v \in Worlds /\ v.pool = w.pool /\ v.reqs = w.reqs /\ v.fails = w.fails
              /\ \A q \in Procs :
                   /\ v.procs[q].state = IF q = p THEN "doomed" ELSE w.procs[q].state
                   /\ v.procs[q].stdin = IF q = p THEN <<>> ELSE w.procs[q].stdin
                   /\ v.procs[q].slot = w.procs[q].slot
<1> DEFINE x == [w.procs[p] EXCEPT !.state = "doomed", !.stdin = <<>>]
<1>1. w.procs[p] \in Processes /\ w.procs \in [Procs -> Processes]
  BY WorldTyped
<1>2. x \in Processes /\ x.state = "doomed" /\ x.stdin = <<>> /\ x.slot = w.procs[p].slot
  <2>1. <<>> \in Seq(Ids)
    OBVIOUS
  <2> QED
    BY <1>1, <2>1 DEF Processes, ProcStates
<1>3. Kill(w, p) = [w EXCEPT !.procs[p] = x]
  BY <1>1 DEF Kill, Worlds
<1> HIDE DEF x
<1> QED
  BY <1>2, <1>3, PutProc

\* A handler lets go of a slot: what it served is in the handler's hand, and
\* nobody may still answer it.  The slot's process may have ended before.
LEMMA LetGoFits ==
    ASSUME NEW w, NEW s \in Slots, Sound(w, None),
           \A t \in Slots \ {s} : ProcFits(w, t, None)
    PROVE  LET v == Detach(Vacate(w, s), s)
               h == w.pool.slots[s].current
           IN /\ FitsBut(v, h) /\ Unsent(v, h)
              /\ v.procs = w.procs /\ v.fails = w.fails
              /\ v.pool.queue = w.pool.queue /\ v.pool.closed = w.pool.closed
              /\ \A t \in Slots : /\ v.pool.slots[t].proc = IF t = s THEN None ELSE w.pool.slots[t].proc
                                  /\ v.pool.slots[t].current = IF t = s THEN None ELSE w.pool.slots[t].current
              /\ \A r \in Reqs : /\ v.reqs[r].bad = w.reqs[r].bad
                                 /\ v.reqs[r].attempts = w.reqs[r].attempts
<1> DEFINE h == w.pool.slots[s].current
           u == Vacate(w, s)
           v == Detach(u, s)
<1>1. w \in Worlds /\ h \in Reqs \cup {None}
  BY WorldTyped DEF Sound
<1>2. /\ u \in Worlds /\ u.procs = w.procs /\ u.fails = w.fails
      /\ u.pool.queue = w.pool.queue /\ u.pool.closed = w.pool.closed
      /\ \A t \in Slots :
           /\ u.pool.slots[t].proc = w.pool.slots[t].proc
           /\ u.pool.slots[t].buffer = w.pool.slots[t].buffer
           /\ u.pool.slots[t].settled = w.pool.slots[t].settled
           /\ u.pool.slots[t].current = IF t = s THEN None ELSE w.pool.slots[t].current
      /\ \A r \in Reqs :
           /\ u.reqs[r].timer = IF r = h THEN None ELSE w.reqs[r].timer
           /\ u.reqs[r].state = w.reqs[r].state
           /\ u.reqs[r].bad = w.reqs[r].bad
           /\ u.reqs[r].attempts = w.reqs[r].attempts
           /\ u.reqs[r].answerTo = w.reqs[r].answerTo
           /\ u.reqs[r].blamed = w.reqs[r].blamed
  BY <1>1, VacateDoes
<1> HIDE DEF u
<1>3. /\ v \in Worlds /\ v.reqs = u.reqs /\ v.procs = w.procs /\ v.fails = w.fails
      /\ v.pool.queue = w.pool.queue /\ v.pool.closed = w.pool.closed
      /\ \A t \in Slots :
           /\ v.pool.slots[t].proc = IF t = s THEN None ELSE u.pool.slots[t].proc
           /\ v.pool.slots[t].buffer = u.pool.slots[t].buffer
           /\ v.pool.slots[t].settled = u.pool.slots[t].settled
           /\ v.pool.slots[t].current = u.pool.slots[t].current
  BY <1>2, DetachDoes
<1> HIDE DEF v
<1>4. \A t \in Slots : /\ v.pool.slots[t].proc = IF t = s THEN None ELSE w.pool.slots[t].proc
                       /\ v.pool.slots[t].buffer = w.pool.slots[t].buffer
                       /\ v.pool.slots[t].settled = w.pool.slots[t].settled
                       /\ v.pool.slots[t].current = IF t = s THEN None ELSE w.pool.slots[t].current
  BY <1>2, <1>3
<1>5. \A r \in Reqs :
           /\ v.reqs[r].timer = IF r = h THEN None ELSE w.reqs[r].timer
           /\ v.reqs[r].state = w.reqs[r].state
           /\ v.reqs[r].bad = w.reqs[r].bad
           /\ v.reqs[r].attempts = w.reqs[r].attempts
           /\ v.reqs[r].answerTo = w.reqs[r].answerTo
           /\ v.reqs[r].blamed = w.reqs[r].blamed
  BY <1>2, <1>3
<1>6. w.pool.queue \in Seq(Reqs) /\ \A i \in DOMAIN w.pool.queue : w.pool.queue[i] \in Reqs
  BY <1>1, WorldTyped
<1>7. \A t \in Slots : w.pool.slots[t].current = h /\ h # None => t = s
  BY <1>1, NoneIsNothing DEF Sound, FlightFits
<1>8. QueueFits(v)
  <2>1. \A i \in DOMAIN w.pool.queue : w.pool.queue[i] # h
    BY <1>6, NoneIsNothing DEF Sound, QueueFits, InFlightIn, Serves
  <2> QED
    BY <1>3, <1>4, <1>5, <1>6, <2>1, NoneIsNothing DEF Sound, QueueFits, InFlightIn, Serves
<1>9. FlightFits(v)
  <2>1. ASSUME NEW t \in Slots, v.pool.slots[t].current # None
        PROVE  LET r == v.pool.slots[t].current IN
               /\ v.reqs[r].state = "open" /\ v.reqs[r].timer = t /\ ~v.reqs[r].bad
               /\ v.reqs[r].attempts >= 1
    <3> DEFINE r == w.pool.slots[t].current
    <3>1. t # s /\ v.pool.slots[t].current = r /\ r # None
      BY <2>1, <1>4
    <3>2. r \in Reqs
      BY <3>1, <1>1, WorldTyped
    <3>3. w.reqs[r].state = "open" /\ w.reqs[r].timer = t /\ ~w.reqs[r].bad /\ w.reqs[r].attempts >= 1
      BY <3>1 DEF Sound, FlightFits
    <3>4. r # h
      BY <1>7, <3>1
    <3> HIDE DEF r
    <3> QED
      BY <3>1, <3>2, <3>3, <3>4, <1>5
  <2>2. ASSUME NEW r \in Reqs, v.reqs[r].timer # None
        PROVE  Serves(v, v.reqs[r].timer, r)
    <3>1. r # h /\ v.reqs[r].timer = w.reqs[r].timer /\ w.reqs[r].timer \in Slots
      BY <2>2, <1>5, <1>1, WorldTyped
    <3>2. w.pool.slots[w.reqs[r].timer].current = r
      BY <3>1, <2>2 DEF Sound, FlightFits, Serves
    <3> QED
      BY <3>1, <3>2, <1>4 DEF Serves
  <2> QED
    BY <2>1, <2>2 DEF FlightFits
<1>10. OpenFits(v, h)
  <2> SUFFICES ASSUME NEW r \in Reqs, v.reqs[r].state = "open", r # h
               PROVE  Queued(v, r) \/ InFlightIn(v, r)
    BY DEF OpenFits
  <2>1. Queued(w, r) \/ InFlightIn(w, r)
    BY <1>5, NoneIsNothing DEF Sound, OpenFits
  <2>2. CASE Queued(w, r)
    BY <2>2, <1>3 DEF Queued
  <2>3. CASE InFlightIn(w, r)
    <3>1. PICK t \in Slots : w.pool.slots[t].current = r
      BY <2>3 DEF InFlightIn, Serves
    <3>2. v.pool.slots[t].current = r
      BY <3>1, <1>4
    <3> QED
      BY <3>2 DEF InFlightIn, Serves
  <2> QED
    BY <2>1, <2>2, <2>3
<1>11. HandFits(v, h)
  <2> SUFFICES ASSUME h # None
               PROVE  /\ h \in Reqs /\ v.reqs[h].state = "open" /\ v.reqs[h].timer = None
                      /\ ~Queued(v, h) /\ ~InFlightIn(v, h)
    BY DEF HandFits
  <2>1. h \in Reqs /\ w.reqs[h].state = "open"
    BY <1>1 DEF Sound, FlightFits
  <2>2. ~Queued(v, h)
    BY <1>3, <1>6 DEF Queued, Sound, QueueFits, InFlightIn, Serves
  <2>3. ~InFlightIn(v, h)
    BY <1>4, <1>7 DEF InFlightIn, Serves
  <2> QED
    BY <2>1, <2>2, <2>3, <1>5
<1>12. \A t \in Slots : SettledFits(v, t)
  BY <1>3, <1>4, ZenonT(60) DEF Sound, SettledFits
<1>13. ClosedFits(v)
  BY <1>3, <1>4 DEF Sound, ClosedFits
<1>14. RecordsFit(v)
  BY <1>5 DEF Sound, RecordsFit
<1>15. \A t \in Slots : ProcFits(v, t, h) /\
           (v.pool.slots[t].proc # None =>
              \A i \in DOMAIN v.procs[v.pool.slots[t].proc].stdin :
                 v.procs[v.pool.slots[t].proc].stdin[i].req # h)
  <2> SUFFICES ASSUME NEW t \in Slots, v.pool.slots[t].proc # None
               PROVE  /\ ProcFits(v, t, h)
                      /\ \A i \in DOMAIN v.procs[v.pool.slots[t].proc].stdin :
                            v.procs[v.pool.slots[t].proc].stdin[i].req # h
    BY DEF ProcFits
  <2> DEFINE p == w.pool.slots[t].proc
             ids == w.procs[p].stdin
  <2>1. t # s /\ v.pool.slots[t].proc = p /\ p # None /\ p \in Procs
    BY <1>4, <1>1, WorldTyped
  <2>2. /\ w.procs[p].state = "running" /\ w.procs[p].slot = t
        /\ w.pool.slots[t].buffer \in {None, p}
        /\ \A i \in DOMAIN ids : /\ w.reqs[ids[i].req].state # "unmade"
                                 /\ w.reqs[ids[i].req].state = "open" /\ ids[i].req # None
                                      => Serves(w, t, ids[i].req)
    BY <2>1 DEF ProcFits
  <2>3. \A i \in DOMAIN ids : ids[i].req \in Reqs
    <3>1. ids \in Seq(Ids)
      BY <2>1, <1>1, WorldTyped
    <3>2. \A i \in DOMAIN ids : ids[i] \in Ids
      BY <3>1
    <3> QED
      BY <3>2 DEF Ids
  <2> HIDE DEF ids, p
  <2>4. \A i \in DOMAIN ids : ids[i].req # h
    <3> SUFFICES ASSUME NEW i \in DOMAIN ids, ids[i].req = h
                 PROVE  FALSE
      OBVIOUS
    <3>1. h \in Reqs /\ h # None /\ w.reqs[h].state = "open"
      BY <2>3, NoneIsNothing, SMTT(40) DEF Sound, FlightFits
    <3>2. w.pool.slots[t].current = h
      BY <3>1, <2>2 DEF Serves
    <3> QED
      BY <3>1, <3>2, <1>7, <2>1
  <2>5. \A i \in DOMAIN ids : /\ v.reqs[ids[i].req].state # "unmade"
                              /\ v.reqs[ids[i].req].state = "open" => Serves(v, t, ids[i].req)
    BY <2>1, <2>2, <2>3, <1>4, <1>5, NoneIsNothing DEF Serves
  <2>6. ids = v.procs[p].stdin
    BY <1>3 DEF ids
  <2> QED
    BY <2>1, <2>2, <2>4, <2>5, <2>6, <1>3, <1>4 DEF ProcFits
<1> QED
  BY <1>3, <1>4, <1>5, <1>8, <1>9, <1>10, <1>11, <1>12, <1>13, <1>14, <1>15
     DEF FitsBut, Sound, Unsent, u, v

\* What is in flight is as it was when the slots, what they serve and what is
\* timed are.
LEMMA FlightAlike ==
    ASSUME NEW w, NEW v, FlightFits(w), v.pool.slots = w.pool.slots,
           \A s \in Slots : w.pool.slots[s].current # None =>
              v.reqs[w.pool.slots[s].current] = w.reqs[w.pool.slots[s].current],
           \A r \in Reqs : v.reqs[r].timer # None => v.reqs[r] = w.reqs[r]
    PROVE  FlightFits(v)
<1> DEFINE cur(s) == w.pool.slots[s].current
<1>0. \A s \in Slots : v.pool.slots[s].current = cur(s)
  OBVIOUS
<1>1. ASSUME NEW s \in Slots, cur(s) # None
      PROVE  /\ v.reqs[cur(s)].state = "open" /\ v.reqs[cur(s)].timer = s
             /\ ~v.reqs[cur(s)].bad /\ v.reqs[cur(s)].attempts >= 1
  <2>1. v.reqs[cur(s)] = w.reqs[cur(s)]
    BY <1>1
  <2>2. /\ w.reqs[cur(s)].state = "open" /\ w.reqs[cur(s)].timer = s
        /\ ~w.reqs[cur(s)].bad /\ w.reqs[cur(s)].attempts >= 1
    BY <1>1, Zenon DEF FlightFits
  <2> QED
    BY <2>1, <2>2, Zenon
<1>2. ASSUME NEW r \in Reqs, v.reqs[r].timer # None
      PROVE  Serves(v, v.reqs[r].timer, r)
  <2>1. v.reqs[r] = w.reqs[r]
    BY <1>2
  <2>2. w.reqs[r].timer # None
    BY <1>2, <2>1, Zenon
  <2>3. cur(w.reqs[r].timer) = r
    BY <2>2, Zenon DEF FlightFits, Serves
  <2> QED
    BY <2>1, <2>3, Zenon DEF Serves
<1> HIDE DEF cur
<1>3. ASSUME NEW s \in Slots, v.pool.slots[s].current # None
      PROVE  LET r == v.pool.slots[s].current IN
             /\ v.reqs[r].state = "open" /\ v.reqs[r].timer = s
             /\ ~v.reqs[r].bad /\ v.reqs[r].attempts >= 1
  <2>1. v.pool.slots[s].current = cur(s)
    BY <1>0
  <2> QED
    BY <1>1, <1>3, <2>1, Zenon
<1> QED
  BY <1>2, <1>3, Zenon DEF FlightFits

\* What a slot is settled with is as it was when its record and the processes are.
LEMMA SettledAlike ==
    ASSUME NEW w, NEW v, NEW s, SettledFits(w, s), v.procs = w.procs,
           v.pool.slots[s].settled = w.pool.slots[s].settled
    PROVE  SettledFits(v, s)
BY Zenon DEF SettledFits

\* A process that is no slot's may be killed.
LEMMA KillFits ==
    ASSUME NEW w, NEW h, FitsBut(w, h), NEW p \in Procs,
           \A s \in Slots : w.pool.slots[s].proc # p, w.procs[p].state # "none"
    PROVE  LET v == Kill(w, p)
           IN /\ FitsBut(v, h) /\ (Unsent(w, h) => Unsent(v, h))
              /\ v.pool = w.pool /\ v.reqs = w.reqs /\ v.fails = w.fails
              /\ Free(v) = Free(w)
<1> DEFINE v == Kill(w, p)
<1>1. w \in Worlds
  BY DEF FitsBut, Sound
<1>2. /\ v \in Worlds /\ v.pool = w.pool /\ v.reqs = w.reqs /\ v.fails = w.fails
      /\ \A q \in Procs : /\ v.procs[q].state = IF q = p THEN "doomed" ELSE w.procs[q].state
                          /\ v.procs[q].stdin = IF q = p THEN <<>> ELSE w.procs[q].stdin
                          /\ v.procs[q].slot = w.procs[q].slot
  BY <1>1, KillDoes
<1> HIDE DEF v
<1>3. \A s \in Slots : /\ w.pool.slots[s].proc \in Procs \cup {None}
                       /\ w.pool.slots[s].settled \in Procs \cup {None}
  BY <1>1, WorldTyped
<1>4. QueueFits(v) /\ FlightFits(v) /\ OpenFits(v, h) /\ HandFits(v, h) /\ RecordsFit(v)
  <2>1. QueueFits(w) /\ FlightFits(w) /\ OpenFits(w, h) /\ HandFits(w, h) /\ RecordsFit(w)
    BY DEF FitsBut, Sound
  <2>2. \A s \in Slots : \A r : Serves(v, s, r) <=> Serves(w, s, r)
    BY <1>2 DEF Serves
  <2>3. \A r : (InFlightIn(v, r) <=> InFlightIn(w, r)) /\ (Queued(v, r) <=> Queued(w, r))
    BY <1>2, <2>2 DEF InFlightIn, Queued
  <2>4. QueueFits(v)
    BY <1>2, <2>1, <2>3 DEF QueueFits
  <2>5. FlightFits(v)
    BY <1>2, <2>1, FlightAlike
  <2>6. OpenFits(v, h) /\ HandFits(v, h) /\ RecordsFit(v)
    BY <1>2, <2>1, <2>3 DEF OpenFits, HandFits, RecordsFit
  <2> QED
    BY <2>4, <2>5, <2>6
<1>5. ClosedFits(v)
  BY <1>2 DEF FitsBut, Sound, ClosedFits
<1>6. \A s \in Slots : SettledFits(v, s)
  BY <1>2, <1>3 DEF FitsBut, Sound, SettledFits
<1>7. \A s \in Slots : ProcFits(v, s, h)
  <2> SUFFICES ASSUME NEW s \in Slots, w.pool.slots[s].proc # None
               PROVE  ProcFits(v, s, h)
    BY <1>2, ZenonT(60) DEF ProcFits
  <2> DEFINE o == w.pool.slots[s].proc
  <2>1. o \in Procs /\ o # p
    BY <1>3
  <2>2. ProcFits(w, s, h)
    BY DEF FitsBut
  <2>3. /\ v.procs[o].state = w.procs[o].state /\ v.procs[o].slot = w.procs[o].slot
        /\ v.procs[o].stdin = w.procs[o].stdin
    BY <1>2, <2>1
  <2> HIDE DEF o
  <2>4. /\ v.procs[o].state = "running" /\ v.procs[o].slot = s /\ v.pool.slots[s].buffer \in {None, o}
    BY <1>2, <2>1, <2>2, <2>3 DEF ProcFits, o
  <2>5. \A i \in DOMAIN v.procs[o].stdin :
           LET r == v.procs[o].stdin[i].req IN
           /\ v.reqs[r].state # "unmade"
           /\ v.reqs[r].state = "open" /\ r # h => Serves(v, s, r)
    BY <1>2, <2>1, <2>2, <2>3, ZenonT(60) DEF ProcFits, o, Serves
  <2> QED
    BY <2>4, <2>5, <1>2 DEF ProcFits, o
<1>8. Unsent(w, h) => Unsent(v, h)
  <2> SUFFICES ASSUME Unsent(w, h), NEW s \in Slots, w.pool.slots[s].proc # None
               PROVE  \A i \in DOMAIN v.procs[w.pool.slots[s].proc].stdin :
                         v.procs[w.pool.slots[s].proc].stdin[i].req # h
    BY <1>2, Zenon DEF Unsent
  <2> DEFINE o == w.pool.slots[s].proc
  <2>1. o \in Procs /\ o # p
    BY <1>3
  <2>2. \A i \in DOMAIN w.procs[o].stdin : w.procs[o].stdin[i].req # h
    BY Zenon DEF Unsent
  <2> HIDE DEF o
  <2>3. v.procs[o].stdin = w.procs[o].stdin
    BY <1>2, <2>1
  <2> QED
    BY <2>2, <2>3, Zenon DEF o
<1>9. Free(v) = Free(w)
  BY <1>2 DEF Free
<1> QED
  BY <1>2, <1>4, <1>5, <1>6, <1>7, <1>8, <1>9 DEF FitsBut, Sound, v

WithReq(w, r, x) == [w EXCEPT !.reqs[r] = x]

\* What a handler holds may change, and with it may be settled.
LEMMA HandBecomes ==
    ASSUME NEW w, NEW h \in Reqs, FitsBut(w, h), NEW x \in Requests,
           x.timer = None, x.state # "unmade",
           x.state = "answer" => x.answerTo = h,
           x.state = "protocol" => x.blamed = "junk"
    PROVE  LET v == WithReq(w, h, x)
           IN /\ x.state = "open" => FitsBut(v, h)
              /\ x.state # "open" => Fits(v)
              /\ Unsent(w, h) => Unsent(v, h)
              /\ v.pool = w.pool /\ v.procs = w.procs /\ v.fails = w.fails
              /\ \A q \in Reqs : v.reqs[q] = IF q = h THEN x ELSE w.reqs[q]
<1> DEFINE v == WithReq(w, h, x)
<1>1. w \in Worlds /\ h # None
  BY NoneIsNothing DEF FitsBut, Sound
<1>2. /\ v \in Worlds /\ v.pool = w.pool /\ v.procs = w.procs /\ v.fails = w.fails
      /\ \A q \in Reqs : v.reqs[q] = IF q = h THEN x ELSE w.reqs[q]
  BY <1>1, PutReq DEF WithReq
<1> HIDE DEF v
<1>3. \A i \in DOMAIN w.pool.queue : w.pool.queue[i] \in Reqs /\ w.pool.queue[i] # h
  BY <1>1, WorldTyped DEF FitsBut, Sound, HandFits, Queued
<1>4. \A s \in Slots : w.pool.slots[s].current \in Reqs \cup {None} /\ w.pool.slots[s].current # h
  BY <1>1, WorldTyped DEF FitsBut, Sound, HandFits, InFlightIn, Serves
<1>5. QueueFits(v)
  BY <1>2, <1>3 DEF FitsBut, Sound, QueueFits, InFlightIn, Serves
<1>6. FlightFits(v)
  <2>1. FlightFits(w) /\ HandFits(w, h)
    BY DEF FitsBut, Sound
  <2>2. ASSUME NEW s \in Slots, w.pool.slots[s].current # None
        PROVE  v.reqs[w.pool.slots[s].current] = w.reqs[w.pool.slots[s].current]
    BY <1>2, <1>4, <2>2
  <2>3. ASSUME NEW r \in Reqs, v.reqs[r].timer # None
        PROVE  r # h /\ v.reqs[r] = w.reqs[r]
    BY <1>2, <2>3
  <2> QED
    BY <1>2, <2>1, <2>2, <2>3, FlightAlike
<1>7. OpenFits(v, h) /\ (x.state # "open" => OpenFits(v, None))
  BY <1>2, NoneIsNothing DEF FitsBut, Sound, OpenFits, Queued, InFlightIn, Serves
<1>8. HandFits(v, None) /\ (x.state = "open" => HandFits(v, h))
  BY <1>1, <1>2 DEF FitsBut, Sound, HandFits, Queued, InFlightIn, Serves
<1>9. ClosedFits(v) /\ \A s \in Slots : SettledFits(v, s)
  BY <1>2, ZenonT(60) DEF FitsBut, Sound, ClosedFits, SettledFits
<1>10. RecordsFit(v)
  BY <1>2 DEF FitsBut, Sound, RecordsFit
<1>11. ASSUME NEW s \in Slots, w.pool.slots[s].proc # None
       PROVE  \A i \in DOMAIN w.procs[w.pool.slots[s].proc].stdin :
                 w.procs[w.pool.slots[s].proc].stdin[i].req \in Reqs
  <2>1. w.pool.slots[s].proc \in Procs
    BY <1>1, <1>11, WorldTyped
  <2>2. w.procs[w.pool.slots[s].proc].stdin \in Seq(Ids)
    BY <1>1, <2>1, WorldTyped
  <2>3. \A i \in DOMAIN w.procs[w.pool.slots[s].proc].stdin :
           w.procs[w.pool.slots[s].proc].stdin[i] \in Ids
    BY <2>2
  <2> QED
    BY <2>3 DEF Ids
<1>12. \A s \in Slots : ProcFits(v, s, h) /\ (x.state # "open" => ProcFits(v, s, None))
  <2> SUFFICES ASSUME NEW s \in Slots, w.pool.slots[s].proc # None
               PROVE  ProcFits(v, s, h) /\ (x.state # "open" => ProcFits(v, s, None))
    BY <1>2, ZenonT(60) DEF ProcFits
  <2> DEFINE p == w.pool.slots[s].proc
             ids == w.procs[p].stdin
  <2>1. ProcFits(w, s, h)
    BY DEF FitsBut
  <2>2. \A i \in DOMAIN ids : ids[i].req \in Reqs
    BY <1>11
  <2> HIDE DEF ids, p
  <2>3. /\ w.procs[p].state = "running" /\ w.procs[p].slot = s
        /\ w.pool.slots[s].buffer \in {None, p}
        /\ \A i \in DOMAIN ids : /\ w.reqs[ids[i].req].state # "unmade"
                                 /\ w.reqs[ids[i].req].state = "open" /\ ids[i].req # h
                                      => Serves(w, s, ids[i].req)
    BY <2>1 DEF ProcFits, ids, p
  <2>4. \A i \in DOMAIN ids :
            /\ v.reqs[ids[i].req].state # "unmade"
            /\ v.reqs[ids[i].req].state = "open" /\ ids[i].req # h => Serves(v, s, ids[i].req)
            /\ x.state # "open" /\ v.reqs[ids[i].req].state = "open" => Serves(v, s, ids[i].req)
    BY <2>2, <2>3, <1>2 DEF Serves
  <2> QED
    BY <2>3, <2>4, <1>2 DEF ProcFits, ids, p
<1>13. Unsent(w, h) => Unsent(v, h)
  BY <1>2 DEF Unsent
<1> QED
  BY <1>2, <1>5, <1>6, <1>7, <1>8, <1>9, <1>10, <1>12, <1>13 DEF FitsBut, Fits, Sound, v

\* The states of a request that has ended.
Ends == ReqStates \ {"unmade", "open"}

\* A request that was not made has a request's type.
LEMMA NoReqTyped ==
    /\ NoReq \in Requests /\ NoReq.state = "unmade" /\ NoReq.timer = None
    /\ NoReq.attempts = 0 /\ ~NoReq.bad
BY DEF NoReq, Requests, ReqStates, MAX_ATTEMPTS

\* Failing the request in hand leaves nothing in hand.
LEMMA RejectFits ==
    ASSUME NEW w, NEW h \in Reqs, FitsBut(w, h), NEW how \in Ends \ {"answer", "protocol"}
    PROVE  LET v == Reject(w, h, how)
           IN /\ Fits(v) /\ v.pool = w.pool /\ v.procs = w.procs /\ v.fails = w.fails
              /\ \A q \in Reqs : q # h => v.reqs[q] = w.reqs[q]
<1> DEFINE x == [NoReq EXCEPT !.state = how]
           v == WithReq(w, h, x)
<1>1. x \in Requests /\ x.timer = None /\ x.state = how
  BY NoReqTyped DEF Requests, ReqStates, LineKinds, Ends
<1>2. Reject(w, h, how) = v
  BY DEF Reject, WithReq
<1> HIDE DEF x
<1>4. /\ Fits(v) /\ v.pool = w.pool /\ v.procs = w.procs /\ v.fails = w.fails
      /\ \A q \in Reqs : v.reqs[q] = IF q = h THEN x ELSE w.reqs[q]
  BY <1>1, HandBecomes DEF Ends
<1> HIDE DEF v
<1> QED
  BY <1>2, <1>4 DEF x

\* Resolving the request in hand with an answer to it leaves nothing in hand.
LEMMA AnsweredFits ==
    ASSUME NEW w, NEW h \in Reqs, FitsBut(w, h), NEW line, line.id.req = h
    PROVE  LET v == Answered(w, h, line)
           IN /\ Fits(v) /\ v.pool = w.pool /\ v.procs = w.procs /\ v.fails = w.fails
              /\ \A q \in Reqs : q # h => v.reqs[q] = w.reqs[q]
<1> DEFINE x == [NoReq EXCEPT !.state = "answer", !.answerTo = line.id.req]
           v == WithReq(w, h, x)
<1>1. x \in Requests /\ x.timer = None /\ x.state = "answer" /\ x.answerTo = h
  BY NoReqTyped DEF Requests, ReqStates, LineKinds, Ends
<1>2. Answered(w, h, line) = v
  BY DEF Answered, WithReq
<1> HIDE DEF x
<1>4. /\ Fits(v) /\ v.pool = w.pool /\ v.procs = w.procs /\ v.fails = w.fails
      /\ \A q \in Reqs : v.reqs[q] = IF q = h THEN x ELSE w.reqs[q]
  BY <1>1, HandBecomes
<1> HIDE DEF v
<1> QED
  BY <1>2, <1>4

\* Failing the request in hand for a line that is no answer leaves nothing in hand.
LEMMA BlamedFits ==
    ASSUME NEW w, NEW h \in Reqs, FitsBut(w, h), NEW line, line.kind = "junk"
    PROVE  LET v == Blamed(w, h, line)
           IN /\ Fits(v) /\ v.pool = w.pool /\ v.procs = w.procs /\ v.fails = w.fails
              /\ \A q \in Reqs : q # h => v.reqs[q] = w.reqs[q]
<1> DEFINE x == [NoReq EXCEPT !.state = "protocol", !.blamed = line.kind]
           v == WithReq(w, h, x)
<1>1. x \in Requests /\ x.timer = None /\ x.state = "protocol" /\ x.blamed = "junk"
  BY NoReqTyped DEF Requests, ReqStates, LineKinds, Ends
<1>2. Blamed(w, h, line) = v
  BY DEF Blamed, WithReq
<1> HIDE DEF x
<1>4. /\ Fits(v) /\ v.pool = w.pool /\ v.procs = w.procs /\ v.fails = w.fails
      /\ \A q \in Reqs : v.reqs[q] = IF q = h THEN x ELSE w.reqs[q]
  BY <1>1, HandBecomes
<1> HIDE DEF v
<1> QED
  BY <1>2, <1>4

-----------------------------------------------------------------------------
(* The least of what is at hand.                                           *)

\* Lowest picks a member: the first idle slot, the least free process id.
LEMMA LowestIsIn ==
    ASSUME NEW S \in SUBSET Nat, S # {}
    PROVE  Lowest(S) \in S
BY LeastNat DEF Lowest

-----------------------------------------------------------------------------
(* A pass of the pump: the head of the queue, a process, and the request   *)
(* on its way.                                                             *)

\* queue.shift() puts the head of the queue into the pump's hand.
LEMMA PopFits ==
    ASSUME NEW w, Fits(w), w.pool.queue # <<>>
    PROVE  LET h == Head(w.pool.queue)
               v == [w EXCEPT !.pool.queue = Tail(@)]
           IN /\ h \in Reqs /\ FitsBut(v, h) /\ Unsent(v, h)
              /\ v.reqs = w.reqs /\ v.procs = w.procs /\ v.fails = w.fails
              /\ v.pool.queue = Tail(w.pool.queue)
              /\ v.pool.closed = w.pool.closed /\ v.pool.slots = w.pool.slots
<1> DEFINE q == w.pool.queue
           h == Head(q)
           v == [w EXCEPT !.pool.queue = Tail(q)]
<1>1. w \in Worlds /\ q \in Seq(Reqs)
  BY WorldTyped DEF Fits, FitsBut, Sound
<1>2. h \in Reqs /\ Tail(q) \in Seq(Reqs) /\ Len(q) \in Nat \ {0} /\ Len(Tail(q)) = Len(q) - 1
      /\ h = q[1] /\ \A i \in 1..Len(Tail(q)) : Tail(q)[i] = q[i + 1]
  BY <1>1, HeadTailProperties, LenProperties, EmptySeq
<1>3. DOMAIN q = 1..Len(q) /\ DOMAIN Tail(q) = 1..Len(Tail(q))
  BY <1>1, <1>2, LenProperties
<1>4. [w EXCEPT !.pool.queue = Tail(@)] = v
  OBVIOUS
<1>5. /\ v \in Worlds /\ v.reqs = w.reqs /\ v.procs = w.procs /\ v.fails = w.fails
      /\ v.pool.queue = Tail(q) /\ v.pool.closed = w.pool.closed /\ v.pool.slots = w.pool.slots
  BY <1>1, <1>2, PutQueue
<1>6. QueueFits(w) /\ FlightFits(w) /\ OpenFits(w, None) /\ ClosedFits(w) /\ RecordsFit(w)
      /\ \A s \in Slots : SettledFits(w, s) /\ ProcFits(w, s, None)
  BY DEF Fits, FitsBut, Sound
<1> HIDE DEF v, h, q
<1>7. \A i \in 1..Len(Tail(q)) : i + 1 \in DOMAIN q /\ i + 1 # 1 /\ v.pool.queue[i] = q[i + 1]
  BY <1>2, <1>3, <1>5
<1>8. QueueFits(v)
  <2>1. \A i, j \in DOMAIN v.pool.queue : v.pool.queue[i] = v.pool.queue[j] => i = j
    <3> SUFFICES ASSUME NEW i \in 1..Len(Tail(q)), NEW j \in 1..Len(Tail(q)), q[i + 1] = q[j + 1]
                 PROVE  i = j
      BY <1>3, <1>5, <1>7
    <3>1. i + 1 = j + 1
      BY <1>6, <1>7 DEF QueueFits, q
    <3> QED
      BY <3>1, <1>2
  <2>2. \A i \in DOMAIN v.pool.queue : /\ v.reqs[v.pool.queue[i]].state = "open"
                                       /\ v.reqs[v.pool.queue[i]].timer = None
                                       /\ ~InFlightIn(v, v.pool.queue[i])
    BY <1>3, <1>5, <1>6, <1>7 DEF QueueFits, InFlightIn, Serves, q
  <2> QED
    BY <2>1, <2>2 DEF QueueFits
<1>9. FlightFits(v) /\ RecordsFit(v) /\ \A s \in Slots : SettledFits(v, s)
  BY <1>5, <1>6, ZenonT(60) DEF FlightFits, RecordsFit, SettledFits, Serves
<1>10. w.reqs[h].state = "open" /\ w.reqs[h].timer = None /\ ~InFlightIn(w, h)
  BY <1>2, <1>3, <1>6 DEF QueueFits, q
<1>11. HandFits(v, h)
  <2>1. ~Queued(v, h)
    <3> SUFFICES ASSUME NEW i \in 1..Len(Tail(q)), q[i + 1] = q[1]
                 PROVE  FALSE
      BY <1>2, <1>3, <1>5, <1>7 DEF Queued
    <3>1. 1 \in DOMAIN q
      BY <1>2, <1>3
    <3> QED
      BY <3>1, <1>6, <1>7 DEF QueueFits, q
  <2> QED
    BY <2>1, <1>2, <1>5, <1>10 DEF HandFits, InFlightIn, Serves
<1>12. OpenFits(v, h)
  <2> SUFFICES ASSUME NEW r \in Reqs, w.reqs[r].state = "open", r # h
               PROVE  Queued(v, r) \/ InFlightIn(v, r)
    BY <1>5 DEF OpenFits
  <2>1. CASE InFlightIn(w, r)
    BY <2>1, <1>5 DEF InFlightIn, Serves
  <2>2. CASE Queued(w, r)
    <3>1. PICK i \in DOMAIN q : q[i] = r
      BY <2>2 DEF Queued, q
    <3>2. i # 1 /\ i \in 1..Len(q)
      BY <3>1, <1>2, <1>3
    <3>3. i - 1 \in 1..Len(Tail(q)) /\ (i - 1) + 1 = i
      BY <3>2, <1>2
    <3>4. v.pool.queue[i - 1] = r
      BY <3>1, <3>3, <1>7
    <3> QED
      BY <3>3, <3>4, <1>3, <1>5 DEF Queued
  <2> QED
    BY <2>1, <2>2, <1>6, NoneIsNothing DEF OpenFits
<1>13. ClosedFits(v)
  <2>1. ~w.pool.closed
    BY <1>6 DEF ClosedFits
  <2> QED
    BY <2>1, <1>5, <1>6 DEF ClosedFits
<1>14. \A s \in Slots : ProcFits(v, s, h)
  <2> SUFFICES ASSUME NEW s \in Slots, w.pool.slots[s].proc # None
               PROVE  ProcFits(v, s, h)
    BY <1>5, ZenonT(60) DEF ProcFits
  <2>1. w.pool.slots[s].proc \in Procs
    BY <1>1, WorldTyped
  <2>3. \A i \in DOMAIN w.procs[w.pool.slots[s].proc].stdin :
            w.procs[w.pool.slots[s].proc].stdin[i].req # None
    BY <2>1, <1>1, StdinTyped
  <2>4. ProcFits(w, s, None)
    BY <1>6
  <2> QED
    BY <2>3, <2>4, <1>5 DEF ProcFits, Serves
<1>15. Unsent(v, h)
  <2> SUFFICES ASSUME NEW s \in Slots, w.pool.slots[s].proc # None,
                      NEW i \in DOMAIN w.procs[w.pool.slots[s].proc].stdin,
                      w.procs[w.pool.slots[s].proc].stdin[i].req = h
               PROVE  FALSE
    BY <1>5 DEF Unsent
  <2>1. ProcFits(w, s, None) /\ h # None
    BY <1>2, <1>6, NoneIsNothing
  <2>2. Serves(w, s, h)
    BY <2>1, <1>10 DEF ProcFits
  <2> QED
    BY <2>2, <1>10 DEF InFlightIn
<1> QED
  BY <1>2, <1>4, <1>5, <1>8, <1>9, <1>11, <1>12, <1>13, <1>14, <1>15
     DEF FitsBut, Sound, v, h, q

\* spawn() gives the slot a process nobody used, with nothing to read or to say.
LEMMA SpawnDoes ==
    ASSUME NEW w \in Worlds, NEW s \in Slots, Free(w) # {}
    PROVE  LET v == Spawn(w, s)
               p == v.pool.slots[s].proc
           IN /\ v \in Worlds /\ v.reqs = w.reqs /\ v.fails = w.fails
              /\ v.pool.queue = w.pool.queue /\ v.pool.closed = w.pool.closed
              /\ p \in Free(w) /\ p \in Procs /\ p # None
              /\ v.pool.slots[s].buffer = None /\ v.pool.slots[s].settled = p
              /\ v.pool.slots[s].current = w.pool.slots[s].current
              /\ \A t \in Slots : t # s => v.pool.slots[t] = w.pool.slots[t]
              /\ v.procs[p].state = "running" /\ v.procs[p].slot = s /\ v.procs[p].stdin = <<>>
              /\ \A q \in Procs : q # p => v.procs[q] = w.procs[q]
<1> DEFINE p == Lowest(Free(w))
           x == [NoProc EXCEPT !.state = "running", !.slot = s]
           y == [w.pool.slots[s] EXCEPT !.proc = p, !.buffer = None, !.settled = p]
           u == [w EXCEPT !.procs[p] = x]
           v == [u EXCEPT !.pool.slots[s] = y]
<1>1. p \in Free(w) /\ p \in Procs /\ p # None
  <2>1. Free(w) \in SUBSET Nat
    BY ProcsAssumption DEF Free
  <2>2. p \in Free(w)
    BY <2>1, LowestIsIn
  <2> QED
    BY <2>2, NoneIsNothing DEF Free
<1>2. w.pool.slots[s] \in SlotRecords /\ w.pool \in Pools /\ w.pool.slots \in [Slots -> SlotRecords]
      /\ w.procs \in [Procs -> Processes]
  BY WorldTyped
<1>3. x \in Processes /\ x.state = "running" /\ x.slot = s /\ x.stdin = <<>>
  <2>1. <<>> \in Seq(Ids) /\ <<>> \in Seq(Lines)
    OBVIOUS
  <2>2. 1 \in Slots
    BY PoolSizeAssumption DEF Slots
  <2>3. NoProc \in Processes /\ NoProc.stdin = <<>>
    BY <2>1, <2>2 DEF NoProc, Processes, ProcStates
  <2> QED
    BY <2>3 DEF Processes, ProcStates
<1>4. /\ y \in SlotRecords /\ y.proc = p /\ y.buffer = None /\ y.settled = p
      /\ y.current = w.pool.slots[s].current
  BY <1>1, <1>2 DEF SlotRecords
<1>5. Spawn(w, s) = v
  <2> HIDE DEF x, y, p
  <2>1. Spawn(w, s) = [w EXCEPT !.procs[p] = x, !.pool.slots[s] = y]
    BY DEF Spawn, Free, p, x, y
  <2> QED
    BY <2>1, <1>2 DEF Worlds, Pools
<1> HIDE DEF x, y, p
<1>6. /\ u \in Worlds /\ u.pool = w.pool /\ u.reqs = w.reqs /\ u.fails = w.fails
      /\ \A q \in Procs : u.procs[q] = IF q = p THEN x ELSE w.procs[q]
  BY <1>1, <1>3, PutProc
<1> HIDE DEF u
<1>7. /\ v \in Worlds /\ v.reqs = u.reqs /\ v.procs = u.procs /\ v.fails = u.fails
      /\ v.pool.queue = u.pool.queue /\ v.pool.closed = u.pool.closed
      /\ \A t \in Slots : v.pool.slots[t] = IF t = s THEN y ELSE u.pool.slots[t]
  BY <1>4, <1>6, PutSlot
<1> HIDE DEF v
<1>8. v.pool.slots[s].proc = p
  BY <1>4, <1>7
<1> QED
  BY <1>1, <1>3, <1>4, <1>5, <1>6, <1>7, <1>8

\* What slots serve, what waits and where requests stand decide these.
LEMMA SameRequests ==
    ASSUME NEW w \in Worlds, NEW v, NEW h, v.reqs = w.reqs, v.pool.queue = w.pool.queue,
           \A t \in Slots : v.pool.slots[t].current = w.pool.slots[t].current,
           QueueFits(w), FlightFits(w), OpenFits(w, h), HandFits(w, h), RecordsFit(w)
    PROVE  QueueFits(v) /\ FlightFits(v) /\ OpenFits(v, h) /\ HandFits(v, h) /\ RecordsFit(v)
<1>1. \A r : /\ InFlightIn(v, r) <=> InFlightIn(w, r)
             /\ Queued(v, r) <=> Queued(w, r)
  BY DEF InFlightIn, Serves, Queued
<1>2. QueueFits(v)
  BY <1>1 DEF QueueFits
<1>3. FlightFits(v)
  <2>1. \A r \in Reqs : w.reqs[r].timer \in Slots \cup {None}
    BY WorldTyped
  <2> QED
    BY <2>1, ZenonT(60) DEF FlightFits, Serves
<1>4. OpenFits(v, h) /\ HandFits(v, h)
  BY <1>1 DEF OpenFits, HandFits
<1> QED
  BY <1>2, <1>3, <1>4 DEF RecordsFit

\* spawn() leaves the request in hand where it is and uses up one process id.
LEMMA SpawnFits ==
    ASSUME NEW w, NEW h, FitsBut(w, h), Unsent(w, h), NEW s \in Slots,
           w.pool.slots[s].proc = None, Free(w) # {}, ~w.pool.closed
    PROVE  LET v == Spawn(w, s)
           IN /\ FitsBut(v, h) /\ Unsent(v, h)
              /\ v.reqs = w.reqs /\ v.fails = w.fails
              /\ v.pool.queue = w.pool.queue /\ v.pool.closed = w.pool.closed
              /\ v.pool.slots[s].proc # None
              /\ \A t \in Slots : v.pool.slots[t].current = w.pool.slots[t].current
              /\ v.pool.slots[s].proc \in Free(w)
              /\ Free(v) = Free(w) \ {v.pool.slots[s].proc}
<1> DEFINE v == Spawn(w, s)
           p == v.pool.slots[s].proc
<1>1. w \in Worlds
  BY DEF FitsBut, Sound
<1>2. /\ v \in Worlds /\ v.reqs = w.reqs /\ v.fails = w.fails
      /\ v.pool.queue = w.pool.queue /\ v.pool.closed = w.pool.closed
      /\ p \in Free(w) /\ p \in Procs /\ p # None
      /\ v.pool.slots[s].buffer = None /\ v.pool.slots[s].settled = p
      /\ v.pool.slots[s].current = w.pool.slots[s].current
      /\ \A t \in Slots : t # s => v.pool.slots[t] = w.pool.slots[t]
      /\ v.procs[p].state = "running" /\ v.procs[p].slot = s /\ v.procs[p].stdin = <<>>
      /\ \A q \in Procs : q # p => v.procs[q] = w.procs[q]
  BY <1>1, SpawnDoes
<1>3. v.pool.slots[s].proc = p
  OBVIOUS
<1> HIDE DEF v, p
<1>4. \A t \in Slots : v.pool.slots[t].current = w.pool.slots[t].current
  BY <1>2
<1>5. QueueFits(v) /\ FlightFits(v) /\ OpenFits(v, h) /\ HandFits(v, h) /\ RecordsFit(v)
  BY <1>1, <1>2, <1>4, SameRequests DEF FitsBut, Sound
<1>6. ClosedFits(v)
  BY <1>2 DEF FitsBut, Sound, ClosedFits
<1>7. \A t \in Slots : /\ w.pool.slots[t].proc \in Procs \cup {None}
                       /\ w.pool.slots[t].settled \in Procs \cup {None}
  BY <1>1, WorldTyped
<1>8. w.procs[p].state = "none"
  BY <1>2 DEF Free
<1>9. \A t \in Slots : SettledFits(v, t)
  <2> SUFFICES ASSUME NEW t \in Slots
               PROVE  SettledFits(v, t)
    OBVIOUS
  <2>1. CASE t = s
    BY <2>1, <1>2 DEF SettledFits
  <2>2. CASE t # s
    <3>1. SettledFits(w, t) /\ v.pool.slots[t] = w.pool.slots[t]
      BY <2>2, <1>2 DEF FitsBut, Sound
    <3>2. w.pool.slots[t].settled # p
      BY <3>1, <1>2, <1>8 DEF SettledFits
    <3> QED
      BY <3>1, <3>2, <1>2, <1>7 DEF SettledFits
  <2> QED
    BY <2>1, <2>2
<1>10. ASSUME NEW t \in Slots, v.pool.slots[t].proc # None
       PROVE  /\ ProcFits(v, t, h)
              /\ \A i \in DOMAIN v.procs[v.pool.slots[t].proc].stdin :
                    v.procs[v.pool.slots[t].proc].stdin[i].req # h
  <2>1. CASE t = s
    <3>1. DOMAIN <<>> = {}
      OBVIOUS
    <3> QED
      BY <2>1, <3>1, <1>2, <1>3 DEF ProcFits
  <2>2. CASE t # s
    <3>1. ProcFits(w, t, h) /\ v.pool.slots[t] = w.pool.slots[t]
      BY <2>2, <1>2 DEF FitsBut
    <3>2. w.pool.slots[t].proc # p
      BY <3>1, <1>2, <1>8 DEF ProcFits
    <3>3. v.procs[v.pool.slots[t].proc] = w.procs[w.pool.slots[t].proc]
      BY <3>1, <3>2, <1>2, <1>7, <1>10
    <3>4. ProcFits(v, t, h)
      <4>1. v.reqs = w.reqs
        BY <1>2
      <4> QED
        BY <3>1, <3>3, <4>1 DEF ProcFits, Serves
    <3> QED
      BY <3>1, <3>3, <3>4, <1>10 DEF Unsent
  <2> QED
    BY <2>1, <2>2
<1>11. \A t \in Slots : ProcFits(v, t, h)
  BY <1>10 DEF ProcFits
<1>12. Unsent(v, h)
  BY <1>10 DEF Unsent
<1>13. Free(v) = Free(w) \ {p}
  BY <1>2 DEF Free
<1> QED
  BY <1>2, <1>3, <1>4, <1>5, <1>6, <1>9, <1>11, <1>12, <1>13 DEF FitsBut, Sound, v

\* Taking a slot's process away leaves a world that fits.
LEMMA DetachFits ==
    ASSUME NEW w, NEW h, FitsBut(w, h), NEW s \in Slots
    PROVE  LET v == Detach(w, s)
           IN /\ FitsBut(v, h) /\ (Unsent(w, h) => Unsent(v, h))
              /\ v.reqs = w.reqs /\ v.procs = w.procs /\ v.fails = w.fails
              /\ v.pool.queue = w.pool.queue /\ v.pool.closed = w.pool.closed
              /\ \A t \in Slots : v.pool.slots[t].current = w.pool.slots[t].current
<1> DEFINE v == Detach(w, s)
<1>1. w \in Worlds
  BY DEF FitsBut, Sound
<1>2. /\ v \in Worlds /\ v.reqs = w.reqs /\ v.procs = w.procs /\ v.fails = w.fails
      /\ v.pool.queue = w.pool.queue /\ v.pool.closed = w.pool.closed
      /\ \A t \in Slots :
           /\ v.pool.slots[t].proc = IF t = s THEN None ELSE w.pool.slots[t].proc
           /\ v.pool.slots[t].buffer = w.pool.slots[t].buffer
           /\ v.pool.slots[t].settled = w.pool.slots[t].settled
           /\ v.pool.slots[t].current = w.pool.slots[t].current
  BY <1>1, DetachDoes
<1> HIDE DEF v
<1>3. QueueFits(v) /\ FlightFits(v) /\ OpenFits(v, h) /\ HandFits(v, h) /\ RecordsFit(v)
  BY <1>1, <1>2, SameRequests DEF FitsBut, Sound
<1>4. ClosedFits(v) /\ \A t \in Slots : SettledFits(v, t)
  BY <1>2, ZenonT(60) DEF FitsBut, Sound, ClosedFits, SettledFits
<1>5. \A t \in Slots : ProcFits(v, t, h)
  <2> SUFFICES ASSUME NEW t \in Slots, v.pool.slots[t].proc # None
               PROVE  ProcFits(v, t, h)
    BY DEF ProcFits
  <2>1. ProcFits(w, t, h) /\ v.pool.slots[t].proc = w.pool.slots[t].proc
    BY <1>2 DEF FitsBut
  <2> QED
    BY <2>1, <1>2, ZenonT(60) DEF ProcFits, Serves
<1>6. Unsent(w, h) => Unsent(v, h)
  BY <1>2, ZenonT(60) DEF Unsent
<1> QED
  BY <1>2, <1>3, <1>4, <1>5, <1>6 DEF FitsBut, Sound, v

\* send() of the request in hand: the slot serves it, or has failed it because it
\* could not be written.
LEMMA SendFits ==
    ASSUME NEW w, NEW s \in Slots, NEW h \in Reqs, FitsBut(w, h), Unsent(w, h),
           w.pool.slots[s].current = None, w.pool.slots[s].proc # None,
           w.reqs[h].attempts < MAX_ATTEMPTS, ~w.pool.closed
    PROVE  LET v == Send(w, s, h)
           IN /\ Fits(v) /\ v.fails = w.fails
              /\ v.pool.queue = w.pool.queue /\ v.pool.closed = w.pool.closed
              /\ \A r \in Reqs : r # h => v.reqs[r] = w.reqs[r]
              /\ \A t \in Slots : t # s => v.pool.slots[t].current = w.pool.slots[t].current
              /\ v.pool.slots[s].current = IF w.reqs[h].bad THEN None ELSE h
              /\ Free(v) = Free(w)
<1> DEFINE p == w.pool.slots[s].proc
           x == [w.reqs[h] EXCEPT !.attempts = @ + 1]
           sent == WithReq(w, h, x)
<1>1. /\ w \in Worlds /\ p \in Procs /\ w.reqs[h] \in Requests /\ w.procs[p] \in Processes
      /\ w.pool.slots[s] \in SlotRecords /\ w.procs[p].stdin \in Seq(Ids)
      /\ w.reqs[h].attempts \in 0..2
  BY WorldTyped DEF FitsBut, Sound
<1>2. /\ w.reqs[h].state = "open" /\ w.reqs[h].timer = None /\ h # None
      /\ ~Queued(w, h) /\ ~InFlightIn(w, h)
  BY NoneIsNothing DEF FitsBut, Sound, HandFits
<1>3. /\ x \in Requests /\ x.state = "open" /\ x.timer = None /\ x.bad = w.reqs[h].bad
      /\ x.attempts \in 1..2
  <2>1. w.reqs[h].attempts + 1 \in 0..MAX_ATTEMPTS /\ w.reqs[h].attempts + 1 \in 1..2
    BY <1>1 DEF MAX_ATTEMPTS
  <2> QED
    BY <2>1, <1>1, <1>2 DEF Requests
<1>4. sent = [w EXCEPT !.reqs[h].attempts = @ + 1]
  BY DEF WithReq
<1> HIDE DEF x
<1>5. /\ FitsBut(sent, h) /\ Unsent(sent, h)
      /\ sent.pool = w.pool /\ sent.procs = w.procs /\ sent.fails = w.fails
      /\ \A r \in Reqs : sent.reqs[r] = IF r = h THEN x ELSE w.reqs[r]
  BY <1>3, HandBecomes
<1>6. CASE w.reqs[h].bad
  <2> DEFINE d == Detach(sent, s)
             v == Reject(d, h, "crash")
  <2>1. Send(w, s, h) = v
    BY <1>4, <1>6 DEF Send
  <2> HIDE DEF sent
  <2>2. /\ FitsBut(d, h) /\ d.reqs = sent.reqs /\ d.procs = sent.procs /\ d.fails = sent.fails
        /\ d.pool.queue = sent.pool.queue /\ d.pool.closed = sent.pool.closed
        /\ \A t \in Slots : d.pool.slots[t].current = sent.pool.slots[t].current
    BY <1>5, DetachFits
  <2> HIDE DEF d
  <2>3. /\ Fits(v) /\ v.pool = d.pool /\ v.procs = d.procs /\ v.fails = d.fails
        /\ \A q \in Reqs : q # h => v.reqs[q] = d.reqs[q]
    <3> DEFINE how == "crash"
    <3>1. how \in Ends \ {"answer", "protocol"} /\ FitsBut(d, h)
      BY <2>2 DEF Ends, ReqStates
    <3> HIDE DEF how
    <3>2. v = Reject(d, h, how)
      BY DEF how
    <3> HIDE DEF v
    <3>3. LET u == Reject(d, h, how)
          IN  /\ Fits(u) /\ u.pool = d.pool /\ u.procs = d.procs /\ u.fails = d.fails
              /\ \A q \in Reqs : q # h => u.reqs[q] = d.reqs[q]
      BY <3>1, RejectFits
    <3> QED
      BY <3>2, <3>3
  <2> HIDE DEF v
  <2> QED
    BY <2>1, <2>2, <2>3, <1>5, <1>6 DEF Free
<1>7. CASE ~w.reqs[h].bad
  <2> DEFINE id == IdOf(sent, h)
             ids == Append(w.procs[p].stdin, id)
             y == [x EXCEPT !.timer = s]
             z == [w.procs[p] EXCEPT !.stdin = ids]
             o == [w.pool.slots[s] EXCEPT !.current = h]
             a == WithReq(w, h, y)
             b == [a EXCEPT !.procs[p] = z]
             v == [b EXCEPT !.pool.slots[s] = o]
  <2>1. Send(w, s, h) = v
    <3>1. Send(w, s, h) = [sent EXCEPT !.pool.slots[s].current = h, !.reqs[h].timer = s,
                                       !.procs[p].stdin = Append(@, id)]
      BY <1>4, <1>7 DEF Send
    <3> DEFINE a2 == [sent EXCEPT !.reqs[h] = y]
    <3>2. a2 = a
      BY <1>1 DEF WithReq, Worlds
    <3>3. sent \in Worlds /\ sent.reqs[h] = x /\ sent.procs = w.procs /\ sent.pool = w.pool
      BY <1>5 DEF FitsBut, Sound
    <3>4. /\ sent.pool \in Pools /\ sent.pool.slots \in [Slots -> SlotRecords]
          /\ sent.reqs \in [Reqs -> Requests] /\ sent.procs \in [Procs -> Processes]
      BY <3>3, WorldTyped
    <3> HIDE DEF id, sent, p
    <3>5. [sent EXCEPT !.pool.slots[s].current = h, !.reqs[h].timer = s, !.procs[p].stdin = Append(@, id)]
            = [[a2 EXCEPT !.procs[p] = z] EXCEPT !.pool.slots[s] = o]
      BY <3>3, <3>4, <1>1 DEF Worlds, Pools
    <3> QED
      BY <3>1, <3>2, <3>5
  <2>2. id \in Ids /\ id.req = h
    BY <1>3, <1>5 DEF IdOf, Ids, MAX_ATTEMPTS
  <2>3. ids \in Seq(Ids) /\ \A i \in DOMAIN ids : \/ i \in DOMAIN w.procs[p].stdin /\ ids[i] = w.procs[p].stdin[i]
                                                  \/ ids[i].req = h
    <3> DEFINE was == w.procs[p].stdin
    <3>1. was \in Seq(Ids)
      BY <1>1
    <3> HIDE DEF id, was
    <3>2. /\ Append(was, id) \in Seq(Ids) /\ Len(Append(was, id)) = Len(was) + 1
          /\ \A i \in 1..Len(was) : Append(was, id)[i] = was[i]
          /\ Append(was, id)[Len(was) + 1] = id
      BY <2>2, <3>1, AppendProperties
    <3>3. Len(was) \in Nat /\ DOMAIN was = 1..Len(was)
          /\ DOMAIN Append(was, id) = 1..(Len(was) + 1)
      BY <3>1, <3>2, LenProperties
    <3>4. \A i \in DOMAIN Append(was, id) : \/ i \in DOMAIN was /\ Append(was, id)[i] = was[i]
                                           \/ Append(was, id)[i].req = h
      BY <2>2, <3>2, <3>3
    <3> QED
      BY <3>2, <3>4 DEF was
  <2>4. /\ y \in Requests /\ y.timer = s /\ y.state = "open" /\ y.bad = w.reqs[h].bad
        /\ y.attempts = x.attempts
    BY <1>3 DEF Requests
  <2>5. z \in Processes /\ z.state = w.procs[p].state /\ z.slot = w.procs[p].slot /\ z.stdin = ids
    BY <1>1, <2>3 DEF Processes
  <2>6. /\ o \in SlotRecords /\ o.current = h /\ o.proc = p
        /\ o.buffer = w.pool.slots[s].buffer /\ o.settled = w.pool.slots[s].settled
    BY <1>1 DEF SlotRecords
  <2> HIDE DEF y, z, o, ids, sent
  <2>7. /\ a \in Worlds /\ a.pool = w.pool /\ a.procs = w.procs /\ a.fails = w.fails
        /\ \A r \in Reqs : a.reqs[r] = IF r = h THEN y ELSE w.reqs[r]
    BY <1>1, <2>4, PutReq DEF WithReq
  <2> HIDE DEF a
  <2>8. /\ b \in Worlds /\ b.pool = a.pool /\ b.reqs = a.reqs /\ b.fails = a.fails
        /\ \A q \in Procs : b.procs[q] = IF q = p THEN z ELSE a.procs[q]
    <3> HIDE DEF b
    <3>1. LET c == [a EXCEPT !.procs[p] = z] IN
          /\ c \in Worlds /\ c.pool = a.pool /\ c.reqs = a.reqs /\ c.fails = a.fails
          /\ \A q \in Procs : c.procs[q] = IF q = p THEN z ELSE a.procs[q]
      BY <2>5, <2>7, <1>1, PutProc, Zenon
    <3> QED
      BY <3>1, Zenon DEF b
  <2> HIDE DEF b
  <2>9. /\ v \in Worlds /\ v.reqs = b.reqs /\ v.procs = b.procs /\ v.fails = b.fails
        /\ v.pool.queue = b.pool.queue /\ v.pool.closed = b.pool.closed
        /\ \A t \in Slots : v.pool.slots[t] = IF t = s THEN o ELSE b.pool.slots[t]
    BY <2>6, <2>8, PutSlot
  <2> HIDE DEF v
  <2>10. /\ v \in Worlds /\ v.fails = w.fails
         /\ v.pool.queue = w.pool.queue /\ v.pool.closed = w.pool.closed
         /\ \A r \in Reqs : v.reqs[r] = IF r = h THEN y ELSE w.reqs[r]
         /\ \A q \in Procs : v.procs[q] = IF q = p THEN z ELSE w.procs[q]
         /\ \A t \in Slots : v.pool.slots[t] = IF t = s THEN o ELSE w.pool.slots[t]
    BY <2>7, <2>8, <2>9
  <2>11. \A i \in DOMAIN w.pool.queue : w.pool.queue[i] \in Reqs /\ w.pool.queue[i] # h
    BY <1>1, <1>2, WorldTyped DEF Queued
  <2>12. \A t \in Slots : w.pool.slots[t].current \in Reqs \cup {None} /\ w.pool.slots[t].current # h
    BY <1>1, <1>2, WorldTyped DEF InFlightIn, Serves
  <2>13. \A t \in Slots : v.pool.slots[t].current = IF t = s THEN h ELSE w.pool.slots[t].current
    BY <2>6, <2>10
  <2>14. QueueFits(v)
    BY <2>10, <2>11, <2>13 DEF FitsBut, Sound, QueueFits, InFlightIn, Serves
  <2>15. FlightFits(v)
    <3>1. ASSUME NEW t \in Slots, v.pool.slots[t].current # None
          PROVE  LET r == v.pool.slots[t].current IN
                 /\ v.reqs[r].state = "open" /\ v.reqs[r].timer = t
                 /\ ~v.reqs[r].bad /\ v.reqs[r].attempts >= 1
      <4>1. CASE t = s
        BY <4>1, <2>4, <2>10, <2>13, <1>3, <1>7
      <4>2. CASE t # s
        <5> DEFINE r == w.pool.slots[t].current
        <5>1. v.pool.slots[t].current = r /\ r # None /\ r \in Reqs /\ r # h
          BY <4>2, <3>1, <2>12, <2>13
        <5>2. /\ w.reqs[r].state = "open" /\ w.reqs[r].timer = t
              /\ ~w.reqs[r].bad /\ w.reqs[r].attempts >= 1
          BY <5>1 DEF FitsBut, Sound, FlightFits
        <5> HIDE DEF r
        <5> QED
          BY <5>1, <5>2, <2>10
      <4> QED
        BY <4>1, <4>2
    <3>2. ASSUME NEW r \in Reqs, v.reqs[r].timer # None
          PROVE  Serves(v, v.reqs[r].timer, r)
      <4>1. CASE r = h
        BY <4>1, <2>4, <2>10, <2>13 DEF Serves
      <4>2. CASE r # h
        <5>1. v.reqs[r] = w.reqs[r] /\ w.reqs[r].timer \in Slots
          BY <4>2, <3>2, <2>10, <1>1, WorldTyped
        <5>2. w.pool.slots[w.reqs[r].timer].current = r
          BY <5>1, <3>2 DEF FitsBut, Sound, FlightFits, Serves
        <5>3. w.reqs[r].timer # s
          BY <5>2, NoneIsNothing
        <5> QED
          BY <5>1, <5>2, <5>3, <2>13 DEF Serves
      <4> QED
        BY <4>1, <4>2
    <3> QED
      BY <3>1, <3>2 DEF FlightFits
  <2>16. OpenFits(v, None)
    <3> SUFFICES ASSUME NEW r \in Reqs, v.reqs[r].state = "open"
                 PROVE  Queued(v, r) \/ InFlightIn(v, r)
      BY DEF OpenFits
    <3>1. CASE r = h
      BY <3>1, <2>13 DEF InFlightIn, Serves
    <3>2. CASE r # h
      <4>1. Queued(w, r) \/ InFlightIn(w, r)
        BY <3>2, <2>10 DEF FitsBut, Sound, OpenFits
      <4>2. CASE Queued(w, r)
        BY <4>2, <2>10 DEF Queued
      <4>3. CASE InFlightIn(w, r)
        <5>1. PICK t \in Slots : w.pool.slots[t].current = r
          BY <4>3 DEF InFlightIn, Serves
        <5>2. t # s
          BY <5>1, NoneIsNothing
        <5> QED
          BY <5>1, <5>2, <2>13 DEF InFlightIn, Serves
      <4> QED
        BY <4>1, <4>2, <4>3
    <3> QED
      BY <3>1, <3>2
  <2>17. HandFits(v, None)
    BY DEF HandFits
  <2>18. \A t \in Slots : SettledFits(v, t)
    <3> SUFFICES ASSUME NEW t \in Slots, v.pool.slots[t].settled # None
                 PROVE  SettledFits(v, t)
      BY DEF SettledFits
    <3>1. v.pool.slots[t].settled = w.pool.slots[t].settled /\ w.pool.slots[t].settled \in Procs
      BY <2>6, <2>10, <1>1, WorldTyped
    <3>2. SettledFits(w, t)
      BY DEF FitsBut, Sound
    <3> QED
      BY <3>1, <3>2, <2>5, <2>10 DEF SettledFits
  <2>19. ClosedFits(v)
    BY <2>5, <2>10, ZenonT(60) DEF FitsBut, Sound, ClosedFits
  <2>20. RecordsFit(v)
    BY <2>4, <2>10 DEF FitsBut, Sound, RecordsFit
  <2>21. \A t \in Slots : ProcFits(v, t, None)
    <3> SUFFICES ASSUME NEW t \in Slots, v.pool.slots[t].proc # None
                 PROVE  ProcFits(v, t, None)
      BY DEF ProcFits
    <3> DEFINE e == w.pool.slots[t].proc
               was == w.procs[e].stdin
               now == v.procs[e].stdin
    <3>1. v.pool.slots[t].proc = e /\ e # None /\ v.pool.slots[t].buffer = w.pool.slots[t].buffer /\ e \in Procs
      BY <2>6, <2>10, <1>1, WorldTyped
    <3>2. /\ w.procs[e].state = "running" /\ w.procs[e].slot = t
          /\ w.pool.slots[t].buffer \in {None, e}
          /\ \A i \in DOMAIN was : /\ w.reqs[was[i].req].state # "unmade"
                                   /\ w.reqs[was[i].req].state = "open" /\ was[i].req # h
                                        => Serves(w, t, was[i].req)
      BY <3>1 DEF FitsBut, ProcFits
    <3>3. \A i \in DOMAIN was : was[i].req \in Reqs /\ was[i].req # h
      BY <3>1, <1>1, StdinTyped DEF Unsent
    <3>4. v.procs[e].state = "running" /\ v.procs[e].slot = t
      BY <3>1, <3>2, <2>5, <2>10
    <3> HIDE DEF e, was, now
    <3>5. \A i \in DOMAIN was : /\ v.reqs[was[i].req].state # "unmade"
                                /\ v.reqs[was[i].req].state = "open" => Serves(w, t, was[i].req)
      BY <3>2, <3>3, <2>10
    <3>6. CASE t = s
      <4>1. e = p /\ now = ids /\ was = w.procs[p].stdin
        BY <3>6, <3>1, <2>5, <2>10 DEF e, now, was
      <4>2. \A i \in DOMAIN was : v.reqs[was[i].req].state # "open"
        BY <3>3, <3>5, <3>6, NoneIsNothing DEF Serves
      <4>3. \A i \in DOMAIN now : /\ v.reqs[now[i].req].state # "unmade"
                                  /\ v.reqs[now[i].req].state = "open" => Serves(v, t, now[i].req)
        <5> SUFFICES ASSUME NEW i \in DOMAIN now
                     PROVE  /\ v.reqs[now[i].req].state # "unmade"
                            /\ v.reqs[now[i].req].state = "open" => Serves(v, t, now[i].req)
          OBVIOUS
        <5>1. \/ i \in DOMAIN was /\ now[i] = was[i]
              \/ now[i].req = h
          BY <4>1, <2>3
        <5>2. CASE i \in DOMAIN was /\ now[i] = was[i]
          BY <5>2, <4>2, <3>5
        <5>3. CASE now[i].req = h
          BY <5>3, <3>6, <2>4, <2>10, <2>13 DEF Serves
        <5> QED
          BY <5>1, <5>2, <5>3
      <4> QED
        BY <4>3, <3>1, <3>2, <3>4 DEF ProcFits, e, now
    <3>7. CASE t # s
      <4>1. e # p
        BY <3>2, <3>7, <1>1 DEF FitsBut, ProcFits
      <4>2. now = was
        BY <4>1, <3>1, <2>10 DEF now, was
      <4>3. \A i \in DOMAIN now : /\ v.reqs[now[i].req].state # "unmade"
                                  /\ v.reqs[now[i].req].state = "open" => Serves(v, t, now[i].req)
        BY <4>2, <3>5, <3>7, <2>13 DEF Serves
      <4> QED
        BY <4>3, <3>1, <3>2, <3>4 DEF ProcFits, e, now
    <3> QED
      BY <3>6, <3>7
  <2>22. Free(v) = Free(w)
    <3>1. \A q \in Procs : v.procs[q].state = w.procs[q].state
      BY <2>5, <2>10, <1>1
    <3> QED
      BY <3>1 DEF Free
  <2> QED
    BY <2>1, <2>10, <2>13, <2>14, <2>15, <2>16, <2>17, <2>18, <2>19, <2>20, <2>21, <2>22, <1>7
       DEF Fits, FitsBut, Sound
<1> QED
  BY <1>6, <1>7, <1>1, WorldTyped

\* What a pass leaves for the next: the head of the queue is gone, and the
\* slot it went to serves it, or idles because the request could not be sent.
LEMMA PassLeaves ==
    ASSUME NEW w, Ready(w), ~Quiet(w), NEW v, Fits(v), NEW s \in Idle(w),
           v.pool.queue = Tail(w.pool.queue),
           \A r \in Reqs : r # Head(w.pool.queue) => v.reqs[r] = w.reqs[r],
           \A t \in Slots : t # s => v.pool.slots[t].current = w.pool.slots[t].current,
           \/ v.pool.slots[s].current # None /\ Free(v) \subseteq Free(w)
           \/ Free(v) = Free(w)
           \/ w.reqs[Head(w.pool.queue)].bad /\ \E p \in Free(w) : Free(v) = Free(w) \ {p}
    PROVE  TurnsFit(v) /\ RoomFits(v) /\ Len(v.pool.queue) = Len(w.pool.queue) - 1
<1> DEFINE q == w.pool.queue
           h == Head(q)
           rest == Tail(q)
<1>1. w \in Worlds /\ q \in Seq(Reqs) /\ q # <<>>
  BY WorldTyped DEF Ready, Fits, FitsBut, Sound, Quiet
<1>2. /\ h \in Reqs /\ rest \in Seq(Reqs) /\ Len(q) \in Nat \ {0} /\ Len(rest) = Len(q) - 1
      /\ h = q[1] /\ \A i \in 1..Len(rest) : rest[i] = q[i + 1]
  BY <1>1, HeadTailProperties, LenProperties, EmptySeq
<1>3. DOMAIN q = 1..Len(q) /\ DOMAIN rest = 1..Len(rest)
  BY <1>1, <1>2, LenProperties
<1>4. \A i, j \in DOMAIN q : q[i] = q[j] => i = j
  BY DEF Ready, Fits, FitsBut, Sound, QueueFits
<1>5. \A i \in DOMAIN q : q[i] \in Reqs
  BY <1>1
<1> HIDE DEF h, rest, q
<1>6. \A i \in DOMAIN rest : i + 1 \in DOMAIN q /\ i + 1 # 1 /\ rest[i] = q[i + 1]
                             /\ rest[i] \in Reqs /\ rest[i] # h
  <2> SUFFICES ASSUME NEW i \in DOMAIN rest
               PROVE  i + 1 \in DOMAIN q /\ i + 1 # 1 /\ rest[i] = q[i + 1]
                      /\ rest[i] \in Reqs /\ rest[i] # h
    OBVIOUS
  <2>1. i + 1 \in DOMAIN q /\ i + 1 # 1 /\ rest[i] = q[i + 1] /\ 1 \in DOMAIN q
    BY <1>2, <1>3
  <2> QED
    BY <2>1, <1>2, <1>4, <1>5
<1>7. \A i \in DOMAIN rest : v.reqs[rest[i]] = w.reqs[rest[i]]
  BY <1>6 DEF h, q
<1>8. v.pool.queue = rest
  BY DEF rest, q
<1>9. Idle(v) \subseteq Idle(w)
  BY DEF Idle
<1>10. \A i \in DOMAIN rest : w.reqs[rest[i]].attempts = 0
  BY <1>6 DEF Ready, TurnsFit, q
<1>11. Len(rest) > 0 => Len(q) > 1 /\ \A a, b \in Idle(w) : a = b
  BY <1>2 DEF Ready, TurnsFit, q
<1>12. TurnsFit(v)
  <2>1. Len(rest) > 1 => \A a, b \in Idle(v) : a = b
    BY <1>2, <1>9, <1>11
  <2>2. \A i \in DOMAIN rest : v.reqs[rest[i]].attempts = 0
    BY <1>7, <1>10
  <2> QED
    BY <1>8, <2>1, <2>2 DEF TurnsFit
<1>13. ASSUME rest # <<>>, Idle(v) # {}
       PROVE  Free(v) # {} /\ Cardinality(Free(v)) > Cardinality(BadQueued(v))
  <2>1. Len(rest) > 0
    BY <1>13, <1>2, EmptySeq, LenProperties
  <2>2. s \in Idle(v) /\ v.pool.slots[s].current = None
    BY <2>1, <1>9, <1>11, <1>13 DEF Idle
  <2>3. Cardinality(Free(w)) > Cardinality(BadQueued(w))
    BY <2>1, <2>2, <1>9, <1>11, <1>1 DEF Ready, RoomFits, q
  <2>4. IsFiniteSet(Free(w)) /\ IsFiniteSet(BadQueued(w))
    <3>1. Free(w) \subseteq Procs /\ BadQueued(w) \subseteq Reqs
      BY <1>1, <1>5 DEF Free, BadQueued, ToSet, q
    <3> QED
      BY <3>1, FS_Subset, ProcsAssumption, ReqsAssumption
  <2>5. BadQueued(v) = BadQueued(w) \ {h}
    <3>1. ASSUME NEW r \in BadQueued(v)
          PROVE  r \in BadQueued(w) \ {h}
      <4>1. PICK i \in DOMAIN rest : r = rest[i]
        BY <1>8 DEF BadQueued, ToSet
      <4>2. w.reqs[r].bad /\ r = q[i + 1] /\ i + 1 \in DOMAIN q /\ r # h
        BY <4>1, <1>6, <1>7 DEF BadQueued
      <4> QED
        BY <4>2 DEF BadQueued, ToSet, q
    <3>2. ASSUME NEW r \in BadQueued(w) \ {h}
          PROVE  r \in BadQueued(v)
      <4>1. PICK i \in DOMAIN q : r = q[i]
        BY DEF BadQueued, ToSet, q
      <4>2. i # 1 /\ i \in 1..Len(q)
        BY <4>1, <1>2, <1>3
      <4>3. i - 1 \in DOMAIN rest /\ (i - 1) + 1 = i
        BY <4>2, <1>2, <1>3
      <4>4. rest[i - 1] = r
        BY <4>1, <4>3, <1>6
      <4>5. v.reqs[r].bad
        BY <4>3, <4>4, <1>7 DEF BadQueued
      <4> QED
        BY <4>3, <4>4, <4>5, <1>8 DEF BadQueued, ToSet
    <3> QED
      BY <3>1, <3>2
  <2>6. /\ Cardinality(Free(w)) \in Nat /\ Cardinality(BadQueued(w)) \in Nat
        /\ Cardinality(BadQueued(v)) = Cardinality(BadQueued(w)) - (IF h \in BadQueued(w) THEN 1 ELSE 0)
    BY <2>4, <2>5, FS_CardinalityType, FS_RemoveElement
  <2>7. Cardinality(Free(v)) > Cardinality(BadQueued(v))
    <3>1. CASE Free(v) = Free(w)
      BY <3>1, <2>3, <2>6
    <3>2. CASE w.reqs[h].bad /\ \E p \in Free(w) : Free(v) = Free(w) \ {p}
      <4>1. PICK p \in Free(w) : Free(v) = Free(w) \ {p}
        BY <3>2
      <4>2. Cardinality(Free(v)) = Cardinality(Free(w)) - 1
        BY <4>1, <2>4, FS_RemoveElement
      <4>3. h \in BadQueued(w)
        <5>1. 1 \in DOMAIN q
          BY <1>2, <1>3
        <5> QED
          BY <5>1, <3>2, <1>2 DEF BadQueued, ToSet, q
      <4> QED
        BY <4>2, <4>3, <2>3, <2>6
    <3> QED
      BY <3>1, <3>2, <2>2 DEF h, q
  <2>8. Free(v) # {}
    <3>1. Cardinality(BadQueued(v)) \in Nat
      BY <2>4, <2>5, FS_CardinalityType, FS_RemoveElement
    <3>2. Cardinality({}) = 0
      BY FS_EmptySet
    <3>3. Cardinality(Free(v)) # 0
      BY <3>1, <2>7
    <3> QED
      BY <3>2, <3>3
  <2> QED
    BY <2>7, <2>8
<1> QED
  BY <1>2, <1>8, <1>12, <1>13 DEF RoomFits, q

\* A pass of the pump that finds work takes one request off the queue and leaves a
\* world ready for the next pass.
LEMMA DispatchReady ==
    ASSUME NEW w, Ready(w), ~w.pool.closed, ~Quiet(w)
    PROVE  LET v == Dispatch(w)
           IN Ready(v) /\ ~v.pool.closed /\ Len(v.pool.queue) = Len(w.pool.queue) - 1
<1> DEFINE h == Head(w.pool.queue)
           s == Lowest(Idle(w))
           u == [w EXCEPT !.pool.queue = Tail(@)]
           x == IF u.pool.slots[s].proc # None THEN u ELSE Spawn(u, s)
           v == IF u.pool.slots[s].proc = None /\ w.fails THEN Reject(u, h, "spawn") ELSE Send(x, s, h)
<1>1. w \in Worlds /\ w.pool.queue # <<>> /\ Idle(w) # {}
  BY DEF Ready, Fits, FitsBut, Sound, Quiet
<1>2. s \in Idle(w) /\ s \in Slots /\ w.pool.slots[s].current = None
  <2>1. Idle(w) \in SUBSET Nat
    BY DEF Idle, Slots
  <2> QED
    BY <2>1, <1>1, LowestIsIn DEF Idle
<1>3. Dispatch(w) = v
  BY <1>1 DEF Dispatch
<1> HIDE DEF s
<1>4. /\ h \in Reqs /\ FitsBut(u, h) /\ Unsent(u, h)
      /\ u.reqs = w.reqs /\ u.procs = w.procs /\ u.fails = w.fails
      /\ u.pool.queue = Tail(w.pool.queue)
      /\ u.pool.closed = w.pool.closed /\ u.pool.slots = w.pool.slots
  BY <1>1, PopFits DEF Ready
<1>5. w.reqs[h].attempts < MAX_ATTEMPTS
  <2>1. 1 \in DOMAIN w.pool.queue /\ h = w.pool.queue[1]
    <3>1. w.pool.queue \in Seq(Reqs)
      BY <1>1, WorldTyped
    <3> QED
      BY <3>1, <1>1, HeadTailProperties, LenProperties, EmptySeq
  <2> QED
    BY <2>1 DEF Ready, TurnsFit, MAX_ATTEMPTS
<1>6. Free(w) # {} /\ Free(u) = Free(w)
  BY <1>1, <1>4 DEF Ready, RoomFits, Free
<1> HIDE DEF u, h
<1>7. CASE u.pool.slots[s].proc = None /\ w.fails
  <2> DEFINE how == "spawn"
             r == Reject(u, h, how)
  <2>1. v = r
    BY <1>7
  <2>2. how \in Ends \ {"answer", "protocol"}
    BY DEF Ends, ReqStates
  <2> HIDE DEF how, v
  <2>3. /\ Fits(r) /\ r.pool = u.pool /\ r.procs = u.procs
        /\ \A q \in Reqs : q # h => r.reqs[q] = u.reqs[q]
    BY <2>2, <1>4, RejectFits
  <2> HIDE DEF r
  <2>4. Free(r) = Free(w)
    BY <2>3, <1>6 DEF Free
  <2>5. TurnsFit(r) /\ RoomFits(r) /\ Len(r.pool.queue) = Len(w.pool.queue) - 1
    BY <2>3, <2>4, <1>2, <1>4, PassLeaves DEF h
  <2> QED
    BY <1>3, <2>1, <2>3, <2>5, <1>4 DEF Ready
<1>8. CASE ~(u.pool.slots[s].proc = None /\ w.fails)
  <2>1. /\ FitsBut(x, h) /\ Unsent(x, h) /\ x.reqs = u.reqs
        /\ x.pool.queue = u.pool.queue /\ x.pool.closed = u.pool.closed
        /\ x.pool.slots[s].proc # None
        /\ \A t \in Slots : x.pool.slots[t].current = u.pool.slots[t].current
        /\ \/ Free(x) = Free(w)
           \/ \E p \in Free(w) : Free(x) = Free(w) \ {p}
    <3>1. CASE u.pool.slots[s].proc # None
      BY <3>1, <1>4, <1>6
    <3>2. CASE u.pool.slots[s].proc = None
      <4> DEFINE y == Spawn(u, s)
      <4>1. /\ FitsBut(y, h) /\ Unsent(y, h) /\ y.reqs = u.reqs
            /\ y.pool.queue = u.pool.queue /\ y.pool.closed = u.pool.closed
            /\ y.pool.slots[s].proc # None
            /\ \A t \in Slots : y.pool.slots[t].current = u.pool.slots[t].current
            /\ y.pool.slots[s].proc \in Free(u)
            /\ Free(y) = Free(u) \ {y.pool.slots[s].proc}
        BY <3>2, <1>2, <1>4, <1>6, SpawnFits
      <4>2. x = y
        BY <3>2
      <4> HIDE DEF x, y
      <4> QED
        BY <4>1, <4>2, <1>6
    <3> QED
      BY <3>1, <3>2
  <2> HIDE DEF x
  <2> DEFINE y == Send(x, s, h)
  <2>2. v = y
    BY <1>8
  <2> HIDE DEF v
  <2>3. /\ Fits(y) /\ y.pool.queue = x.pool.queue /\ y.pool.closed = x.pool.closed
        /\ \A r \in Reqs : r # h => y.reqs[r] = x.reqs[r]
        /\ \A t \in Slots : t # s => y.pool.slots[t].current = x.pool.slots[t].current
        /\ y.pool.slots[s].current = IF x.reqs[h].bad THEN None ELSE h
        /\ Free(y) = Free(x)
    BY <2>1, <1>2, <1>4, <1>5, SendFits
  <2> HIDE DEF y
  <2>4. \/ y.pool.slots[s].current # None /\ Free(y) \subseteq Free(w)
        \/ Free(y) = Free(w)
        \/ w.reqs[h].bad /\ \E p \in Free(w) : Free(y) = Free(w) \ {p}
    BY <2>1, <2>3, <1>4, NoneIsNothing
  <2>5. TurnsFit(y) /\ RoomFits(y) /\ Len(y.pool.queue) = Len(w.pool.queue) - 1
    <3>1. /\ y.pool.queue = Tail(w.pool.queue)
          /\ \A r \in Reqs : r # h => y.reqs[r] = w.reqs[r]
          /\ \A t \in Slots : t # s => y.pool.slots[t].current = w.pool.slots[t].current
      BY <2>1, <2>3, <1>4
    <3> QED
      BY <3>1, <2>3, <2>4, <1>2, PassLeaves DEF h
  <2> QED
    BY <1>3, <2>1, <2>2, <2>3, <2>5, <1>4 DEF Ready
<1> QED
  BY <1>7, <1>8

\* A pass of the pump that finds no work does nothing.
LEMMA QuietStays ==
    ASSUME NEW w, Quiet(w)
    PROVE  Dispatch(w) = w
BY DEF Quiet, Dispatch

\* As many passes as there were requests: then the pool is quiet.
LEMMA PumpReady ==
    ASSUME NEW w, Ready(w), w.pool.closed => w.pool.queue = <<>>
    PROVE  LET v == Pump(w)
           IN Fits(v) /\ TurnsFit(v) /\ Quiet(v) /\ v.pool.closed = w.pool.closed
<1>1. w \in Worlds /\ w.pool.queue \in Seq(Reqs)
  BY WorldTyped DEF Ready, Fits, FitsBut, Sound
<1>2. CASE w.pool.closed
  BY <1>2 DEF Pump, Ready, Quiet
<1>3. CASE ~w.pool.closed
  <2> DEFINE N == Len(w.pool.queue)
             IsPass(f, m) == f = [n \in 0..m |-> IF n = 0 THEN w ELSE Dispatch(f[n - 1])]
             Reached == {m \in Nat : \E f : IsPass(f, m)}
  <2>1. N \in Nat
    BY <1>1, LenProperties
  <2>2. Reached = Nat
    <3>1. 0 \in Reached
      <4> DEFINE f == [n \in 0..0 |-> w]
      <4>1. IsPass(f, 0)
        OBVIOUS
      <4> QED
        BY <4>1
    <3>2. ASSUME NEW m \in Reached
          PROVE  m + 1 \in Reached
      <4>1. PICK f : IsPass(f, m)
        OBVIOUS
      <4> DEFINE g == [n \in 0..(m + 1) |-> IF n = m + 1 THEN Dispatch(f[m]) ELSE f[n]]
      <4>2. \A n \in 0..m : f[n] = IF n = 0 THEN w ELSE Dispatch(f[n - 1])
        BY <4>1
      <4>3. m \in Nat
        OBVIOUS
      <4>4. ASSUME NEW n \in 0..(m + 1)
            PROVE  g[n] = IF n = 0 THEN w ELSE Dispatch(g[n - 1])
        <5>1. CASE n = m + 1
          <6>1. g[n] = Dispatch(f[m]) /\ n # 0 /\ n - 1 = m /\ m \in 0..(m + 1) /\ m # m + 1
            BY <5>1, <4>3
          <6>2. g[m] = f[m]
            BY <6>1
          <6> QED
            BY <6>1, <6>2
        <5>2. CASE n # m + 1
          <6>1. n \in 0..m
            BY <5>2, <4>3
          <6>2. n # 0 => n - 1 \in 0..(m + 1) /\ n - 1 # m + 1
            BY <6>1, <4>3
          <6> QED
            BY <6>1, <6>2, <4>2, <5>2
        <5> QED
          BY <5>1, <5>2
      <4>5. g = [n \in 0..(m + 1) |-> IF n = 0 THEN w ELSE Dispatch(g[n - 1])]
        BY <4>4
      <4> HIDE DEF g
      <4>6. IsPass(g, m + 1)
        BY <4>5
      <4> HIDE DEF IsPass
      <4>7. \E e : IsPass(e, m + 1)
        BY <4>6
      <4> QED
        BY <4>3, <4>7
    <3> HIDE DEF Reached
    <3>3. Reached \in SUBSET Nat
      BY DEF Reached
    <3> QED
      BY <3>1, <3>2, <3>3, SetInduction
  <2> DEFINE passed == CHOOSE f : IsPass(f, N)
  <2>3. IsPass(passed, N)
    <3>1. \E f : IsPass(f, N)
      BY <2>1, <2>2
    <3> QED
      BY <3>1
  <2>4. Pump(w) = passed[N]
    BY <1>3 DEF Pump
  <2>5. \A n \in 0..N : passed[n] = IF n = 0 THEN w ELSE Dispatch(passed[n - 1])
    <3> HIDE DEF passed
    <3> QED
      BY <2>3
  <2> HIDE DEF passed, N
  <2> DEFINE Good(n) == /\ Ready(passed[n]) /\ ~passed[n].pool.closed
                        /\ Quiet(passed[n]) \/ Len(passed[n].pool.queue) + n <= N
             Goods == {n \in Nat : n <= N => Good(n)}
  <2>6. 0 \in Goods
    <3>1. passed[0] = w /\ Len(w.pool.queue) = N
      BY <2>1, <2>5 DEF N
    <3> QED
      BY <3>1, <2>1, <1>3
  <2>7. ASSUME NEW n \in Goods
        PROVE  n + 1 \in Goods
    <3> SUFFICES ASSUME n + 1 <= N
                 PROVE  Good(n + 1)
      OBVIOUS
    <3>1. n \in Nat /\ Good(n)
      BY <2>1
    <3>2. passed[n + 1] = Dispatch(passed[n])
      <4>1. n + 1 \in 0..N /\ n + 1 # 0 /\ (n + 1) - 1 = n
        BY <3>1, <2>1
      <4> QED
        BY <4>1, <2>5
    <3>3. CASE Quiet(passed[n])
      BY <3>1, <3>2, <3>3, QuietStays
    <3>4. CASE ~Quiet(passed[n])
      <4> DEFINE a == passed[n]
                 b == Dispatch(a)
      <4>1. Ready(a) /\ ~a.pool.closed /\ Len(a.pool.queue) + n <= N
        BY <3>1, <3>4
      <4>2. Ready(b) /\ ~b.pool.closed /\ Len(b.pool.queue) = Len(a.pool.queue) - 1
        BY <4>1, <3>4, DispatchReady
      <4>3. Len(a.pool.queue) \in Nat
        <5>1. a.pool.queue \in Seq(Reqs)
          BY <4>1, WorldTyped DEF Ready, Fits, FitsBut, Sound
        <5> QED
          BY <5>1, LenProperties
      <4> HIDE DEF a, b
      <4>4. Len(b.pool.queue) + (n + 1) <= N
        BY <4>1, <4>2, <4>3, <3>1, <2>1
      <4>5. passed[n + 1] = b
        BY <3>2 DEF a, b
      <4> QED
        BY <4>2, <4>4, <4>5
    <3> QED
      BY <3>3, <3>4
  <2>8. Goods = Nat
    <3> HIDE DEF Good
    <3>1. Goods \in SUBSET Nat
      OBVIOUS
    <3> HIDE DEF Goods
    <3> QED
      BY <2>6, <2>7, <3>1, SetInduction
  <2>9. Good(N)
    BY <2>1, <2>8
  <2>10. Quiet(passed[N])
    <3>1. CASE Len(passed[N].pool.queue) + N <= N
      <4>1. passed[N].pool.queue \in Seq(Reqs)
        BY <2>9, WorldTyped DEF Ready, Fits, FitsBut, Sound
      <4>2. Len(passed[N].pool.queue) = 0
        BY <4>1, <3>1, <2>1, LenProperties
      <4> QED
        BY <4>1, <4>2, EmptySeq DEF Quiet
    <3> QED
      BY <2>9, <3>1
  <2>11. passed[N].pool.closed \in BOOLEAN /\ w.pool.closed \in BOOLEAN
    BY <1>1, <2>9, WorldTyped DEF Ready, Fits, FitsBut, Sound
  <2>12. passed[N].pool.closed = w.pool.closed
    BY <1>3, <2>9, <2>11
  <2> QED
    BY <2>4, <2>9, <2>10, <2>12 DEF Ready
<1> QED
  BY <1>2, <1>3

-----------------------------------------------------------------------------
(* What surrounds the pump in the handlers.                                *)

\* What workers write, and what of it was read, decides nothing of this; of
\* what they still have to answer there may be less.
Heard(w, v) ==
    /\ v.reqs = w.reqs /\ v.pool.queue = w.pool.queue /\ v.pool.closed = w.pool.closed
    /\ \A t \in Slots : /\ v.pool.slots[t].proc = w.pool.slots[t].proc
                         /\ v.pool.slots[t].current = w.pool.slots[t].current
                         /\ v.pool.slots[t].settled = w.pool.slots[t].settled
                         /\ v.pool.slots[t].buffer
                              \in {None, w.pool.slots[t].buffer, w.pool.slots[t].proc}
    /\ \A p \in Procs : /\ v.procs[p].state = w.procs[p].state
                         /\ v.procs[p].slot = w.procs[p].slot
                         /\ \A i \in DOMAIN v.procs[p].stdin :
                               \E j \in DOMAIN w.procs[p].stdin : v.procs[p].stdin[i] = w.procs[p].stdin[j]

\* What a handler that only hears a worker out does keeps the invariant.
LEMMA HeardFits ==
    ASSUME NEW w, Fits(w), TurnsFit(w), NEW v \in Worlds, Heard(w, v)
    PROVE  /\ Fits(v) /\ TurnsFit(v) /\ (Quiet(w) => Quiet(v))
           /\ Idle(v) = Idle(w) /\ Free(v) = Free(w)
<1> USE DEF Heard
<1>1. w \in Worlds
  BY DEF Fits, FitsBut, Sound
<1>2. QueueFits(v) /\ FlightFits(v) /\ OpenFits(v, None) /\ HandFits(v, None) /\ RecordsFit(v)
  BY <1>1, SameRequests DEF Fits, FitsBut, Sound
<1>3. \A t \in Slots : SettledFits(v, t)
  <2> SUFFICES ASSUME NEW t \in Slots, v.pool.slots[t].settled # None
               PROVE  SettledFits(v, t)
    BY DEF SettledFits
  <2> DEFINE o == w.pool.slots[t].settled
  <2>1. v.pool.slots[t].settled = o /\ o # None /\ o \in Procs
    BY <1>1, WorldTyped
  <2>2. w.procs[o].state # "none" /\ w.procs[o].slot = t
    BY <2>1 DEF Fits, FitsBut, Sound, SettledFits
  <2> HIDE DEF o
  <2> QED
    BY <2>1, <2>2 DEF SettledFits
<1>4. ClosedFits(v)
  BY DEF Fits, FitsBut, Sound, ClosedFits
<1>5. \A t \in Slots : ProcFits(v, t, None)
  <2> SUFFICES ASSUME NEW t \in Slots, v.pool.slots[t].proc # None
               PROVE  ProcFits(v, t, None)
    BY DEF ProcFits
  <2> DEFINE p == w.pool.slots[t].proc
  <2>1. p \in Procs /\ p # None /\ v.pool.slots[t].proc = p
    BY <1>1, WorldTyped
  <2>2. ProcFits(w, t, None)
    BY DEF Fits, FitsBut
  <2>3. /\ v.procs[p].state = "running" /\ v.procs[p].slot = t
        /\ v.pool.slots[t].buffer \in {None, p}
    BY <2>1, <2>2 DEF ProcFits
  <2>4. ASSUME NEW i \in DOMAIN v.procs[p].stdin
        PROVE  LET r == v.procs[p].stdin[i].req IN
               /\ v.reqs[r].state # "unmade"
               /\ v.reqs[r].state = "open" /\ r # None => Serves(v, t, r)
    <3>1. PICK j \in DOMAIN w.procs[p].stdin : v.procs[p].stdin[i] = w.procs[p].stdin[j]
      BY <2>1
    <3> QED
      BY <2>1, <2>2, <3>1 DEF ProcFits, Serves
  <2> QED
    BY <2>1, <2>3, <2>4 DEF ProcFits
<1>6. Idle(v) = Idle(w) /\ Free(v) = Free(w)
  BY DEF Idle, Free
<1>7. TurnsFit(v) /\ (Quiet(w) => Quiet(v))
  BY <1>6 DEF TurnsFit, Quiet
<1> QED
  BY <1>2, <1>3, <1>4, <1>5, <1>6, <1>7 DEF Fits, FitsBut, Sound

\* A slot that keeps its process: what it served is in the handler's hand.
LEMMA VacateFits ==
    ASSUME NEW w, Fits(w), NEW s \in Slots
    PROVE  LET v == Vacate(w, s)
               h == w.pool.slots[s].current
           IN /\ FitsBut(v, h)
              /\ v.procs = w.procs /\ v.fails = w.fails
              /\ v.pool.queue = w.pool.queue /\ v.pool.closed = w.pool.closed
              /\ \A t \in Slots : /\ v.pool.slots[t].proc = w.pool.slots[t].proc
                                  /\ v.pool.slots[t].current = IF t = s THEN None ELSE w.pool.slots[t].current
              /\ \A r \in Reqs : /\ v.reqs[r].bad = w.reqs[r].bad
                                 /\ v.reqs[r].attempts = w.reqs[r].attempts
<1> DEFINE h == w.pool.slots[s].current
           v == Vacate(w, s)
           d == Detach(v, s)
<1>1. w \in Worlds /\ h \in Reqs \cup {None}
  BY WorldTyped DEF Fits, FitsBut, Sound
<1>2. /\ v \in Worlds /\ v.procs = w.procs /\ v.fails = w.fails
      /\ v.pool.queue = w.pool.queue /\ v.pool.closed = w.pool.closed
      /\ \A t \in Slots :
           /\ v.pool.slots[t].proc = w.pool.slots[t].proc
           /\ v.pool.slots[t].buffer = w.pool.slots[t].buffer
           /\ v.pool.slots[t].settled = w.pool.slots[t].settled
           /\ v.pool.slots[t].current = IF t = s THEN None ELSE w.pool.slots[t].current
      /\ \A r \in Reqs :
           /\ v.reqs[r].timer = IF r = h THEN None ELSE w.reqs[r].timer
           /\ v.reqs[r].state = w.reqs[r].state
           /\ v.reqs[r].bad = w.reqs[r].bad
           /\ v.reqs[r].attempts = w.reqs[r].attempts
           /\ v.reqs[r].answerTo = w.reqs[r].answerTo
           /\ v.reqs[r].blamed = w.reqs[r].blamed
  BY <1>1, VacateDoes
<1>3. FitsBut(d, h)
  BY LetGoFits DEF Fits, FitsBut
<1> HIDE DEF v
<1>4. /\ d \in Worlds /\ d.reqs = v.reqs /\ d.procs = v.procs
      /\ d.pool.queue = v.pool.queue /\ d.pool.closed = v.pool.closed
      /\ \A t \in Slots :
           /\ d.pool.slots[t].proc = IF t = s THEN None ELSE v.pool.slots[t].proc
           /\ d.pool.slots[t].buffer = v.pool.slots[t].buffer
           /\ d.pool.slots[t].settled = v.pool.slots[t].settled
           /\ d.pool.slots[t].current = v.pool.slots[t].current
  BY <1>2, DetachDoes
<1> HIDE DEF d
<1>5. QueueFits(v) /\ FlightFits(v) /\ OpenFits(v, h) /\ HandFits(v, h) /\ RecordsFit(v)
  BY <1>3, <1>4, SameRequests DEF FitsBut, Sound
<1>6. \A t \in Slots : SettledFits(v, t)
  <2>1. \A t \in Slots : SettledFits(d, t)
    BY <1>3 DEF FitsBut, Sound
  <2> QED
    BY <1>4, <2>1, SettledAlike
<1>7. ClosedFits(v)
  BY <1>2 DEF Fits, FitsBut, Sound, ClosedFits
<1>8. \A t \in Slots : ProcFits(v, t, h)
  <2> SUFFICES ASSUME NEW t \in Slots, v.pool.slots[t].proc # None
               PROVE  ProcFits(v, t, h)
    BY DEF ProcFits
  <2>1. CASE t # s
    <3>1. ProcFits(d, t, h) /\ d.pool.slots[t].proc = v.pool.slots[t].proc
      BY <2>1, <1>3, <1>4 DEF FitsBut
    <3> QED
      BY <3>1, <1>4, ZenonT(60) DEF ProcFits, Serves
  <2>2. CASE t = s
    <3> DEFINE p == w.pool.slots[t].proc
    <3>1. p \in Procs /\ p # None /\ v.pool.slots[t].proc = p
      BY <1>1, <1>2, WorldTyped
    <3>2. ProcFits(w, t, None)
      BY DEF Fits, FitsBut
    <3>3. \A i \in DOMAIN w.procs[p].stdin : /\ w.procs[p].stdin[i].req \in Reqs
                                             /\ w.procs[p].stdin[i].req # None
      BY <1>1, <3>1, StdinTyped
    <3>4. \A i \in DOMAIN w.procs[p].stdin :
             LET r == w.procs[p].stdin[i].req IN
             /\ w.reqs[r].state # "unmade"
             /\ w.reqs[r].state = "open" => r = h
      BY <2>2, <3>1, <3>2, <3>3 DEF ProcFits, Serves
    <3>5. /\ w.procs[p].state = "running" /\ w.procs[p].slot = t
          /\ w.pool.slots[t].buffer \in {None, p}
      BY <3>1, <3>2 DEF ProcFits
    <3> HIDE DEF p, h
    <3>6. \A i \in DOMAIN v.procs[p].stdin :
             LET r == v.procs[p].stdin[i].req IN
             /\ v.reqs[r].state # "unmade"
             /\ v.reqs[r].state = "open" /\ r # h => Serves(v, t, r)
      <4> SUFFICES ASSUME NEW i \in DOMAIN v.procs[p].stdin
                   PROVE  LET r == v.procs[p].stdin[i].req IN
                          /\ v.reqs[r].state # "unmade"
                          /\ v.reqs[r].state = "open" /\ r # h => Serves(v, t, r)
        OBVIOUS
      <4> DEFINE r == v.procs[p].stdin[i].req
      <4>0. v.procs = w.procs
        BY <1>2
      <4>1. i \in DOMAIN w.procs[p].stdin /\ r = w.procs[p].stdin[i].req /\ r \in Reqs
        BY <3>3, <4>0, Zenon
      <4>2. w.reqs[r].state # "unmade" /\ (w.reqs[r].state = "open" => r = h)
        BY <3>4, <4>1, Zenon
      <4> HIDE DEF r
      <4>3. v.reqs[r].state = w.reqs[r].state
        BY <1>2, <4>1, Zenon
      <4> QED
        BY <4>2, <4>3, Zenon DEF r
    <3> QED
      BY <1>2, <3>1, <3>5, <3>6 DEF ProcFits
  <2> QED
    BY <2>1, <2>2
<1> QED
  BY <1>2, <1>5, <1>6, <1>7, <1>8 DEF FitsBut, Sound, v

WithQueue(w, q) == [w EXCEPT !.pool.queue = q]

\* What a handler holds may wait, wherever in the queue.
LEMMA EnqueueFits ==
    ASSUME NEW w, NEW h \in Reqs, FitsBut(w, h), Unsent(w, h), ~w.pool.closed,
           NEW q \in Seq(Reqs),
           \A i, j \in DOMAIN q : q[i] = q[j] => i = j,
           \A i \in DOMAIN q : q[i] = h \/ Queued(w, q[i]),
           \E i \in DOMAIN q : q[i] = h,
           \A j \in DOMAIN w.pool.queue : \E i \in DOMAIN q : q[i] = w.pool.queue[j]
    PROVE  LET v == WithQueue(w, q)
           IN /\ Fits(v) /\ v.reqs = w.reqs /\ v.procs = w.procs /\ v.fails = w.fails
              /\ v.pool.queue = q /\ v.pool.closed = w.pool.closed /\ v.pool.slots = w.pool.slots
<1> DEFINE v == WithQueue(w, q)
<1>1. w \in Worlds /\ h # None
  BY NoneIsNothing DEF FitsBut, Sound
<1>2. /\ v \in Worlds /\ v.reqs = w.reqs /\ v.procs = w.procs /\ v.fails = w.fails
      /\ v.pool.queue = q /\ v.pool.closed = w.pool.closed /\ v.pool.slots = w.pool.slots
  BY <1>1, PutQueue DEF WithQueue
<1> HIDE DEF v
<1>3. \A r : InFlightIn(v, r) <=> InFlightIn(w, r)
  BY <1>2 DEF InFlightIn, Serves
<1>4. QueueFits(v)
  <2>1. ASSUME NEW i \in DOMAIN q
        PROVE  w.reqs[q[i]].state = "open" /\ w.reqs[q[i]].timer = None /\ ~InFlightIn(w, q[i])
    <3>1. CASE q[i] = h
      BY <3>1, <1>1 DEF FitsBut, Sound, HandFits
    <3>2. CASE Queued(w, q[i])
      BY <3>2 DEF FitsBut, Sound, QueueFits, Queued
    <3> QED
      BY <3>1, <3>2
  <2> QED
    BY <2>1, <1>2, <1>3 DEF QueueFits
<1>5. FlightFits(v) /\ RecordsFit(v) /\ \A s \in Slots : SettledFits(v, s)
  <2>1. FlightFits(w) /\ RecordsFit(w) /\ \A s \in Slots : SettledFits(w, s)
    BY DEF FitsBut, Sound
  <2>2. FlightFits(v)
    BY <1>2, <2>1, FlightAlike
  <2>3. RecordsFit(v)
    BY <1>2, <2>1 DEF RecordsFit
  <2>4. \A s \in Slots : SettledFits(v, s)
    BY <1>2, <2>1, SettledAlike
  <2> QED
    BY <2>2, <2>3, <2>4
<1>6. OpenFits(v, None)
  <2> SUFFICES ASSUME NEW r \in Reqs, w.reqs[r].state = "open"
               PROVE  Queued(v, r) \/ InFlightIn(v, r)
    BY <1>2 DEF OpenFits
  <2>1. r = h \/ Queued(w, r) \/ InFlightIn(w, r)
    BY DEF FitsBut, Sound, OpenFits
  <2>2. r = h \/ Queued(w, r) => Queued(v, r)
    BY <1>2 DEF Queued
  <2> QED
    BY <2>1, <2>2, <1>3
<1>7. HandFits(v, None) /\ ClosedFits(v)
  BY <1>2 DEF HandFits, FitsBut, Sound, ClosedFits
<1>8. \A s \in Slots : ProcFits(v, s, None)
  <2> SUFFICES ASSUME NEW s \in Slots, w.pool.slots[s].proc # None
               PROVE  ProcFits(v, s, None)
    BY <1>2, ZenonT(60) DEF ProcFits
  <2> DEFINE p == w.pool.slots[s].proc
  <2>1. /\ w.procs[p].state = "running" /\ w.procs[p].slot = s
        /\ w.pool.slots[s].buffer \in {None, p}
        /\ \A i \in DOMAIN w.procs[p].stdin :
             LET r == w.procs[p].stdin[i].req IN
             /\ w.reqs[r].state # "unmade"
             /\ w.reqs[r].state = "open" /\ r # h => Serves(w, s, r)
    BY DEF FitsBut, ProcFits
  <2>2. \A i \in DOMAIN w.procs[p].stdin : w.procs[p].stdin[i].req # h
    BY DEF Unsent
  <2>3. v.pool.slots[s].proc = p
    BY <1>2
  <2> HIDE DEF p
  <2>4. \A i \in DOMAIN w.procs[p].stdin :
             LET r == w.procs[p].stdin[i].req IN
             /\ w.reqs[r].state # "unmade"
             /\ w.reqs[r].state = "open" => Serves(v, s, r)
    BY <2>1, <2>2, <1>2, ZenonT(60) DEF Serves
  <2> QED
    BY <2>1, <2>3, <2>4, <1>2, ZenonT(60) DEF ProcFits
<1> QED
  BY <1>2, <1>4, <1>5, <1>6, <1>7, <1>8 DEF Fits, FitsBut, Sound, v

\* A process ends: whoever awaits its slot's "settled" knows, and all of the
\* invariant holds that is not about the slot it may have been in.
LEMMA GoneFits ==
    ASSUME NEW w, Fits(w), NEW p \in Procs, w.procs[p].state # "none"
    PROVE  LET v == Gone(w, p)
               s == w.procs[p].slot
           IN /\ Sound(v, None) /\ \A t \in Slots \ {s} : ProcFits(v, t, None)
              /\ w.pool.slots[s].proc # p => Fits(v)
              /\ v.reqs = w.reqs /\ v.fails = w.fails
              /\ v.pool.queue = w.pool.queue /\ v.pool.closed = w.pool.closed
              /\ \A t \in Slots : /\ v.pool.slots[t].proc = w.pool.slots[t].proc
                                  /\ v.pool.slots[t].current = w.pool.slots[t].current
              /\ \A q \in Procs : q # p => v.procs[q] = w.procs[q]
              /\ Free(v) = Free(w) \cup {p}
<1> DEFINE s == w.procs[p].slot
           x == [w.pool.slots[s] EXCEPT !.settled = IF @ = p THEN None ELSE @]
           u == [w EXCEPT !.procs[p] = NoProc]
           v == [u EXCEPT !.pool.slots[s] = x]
<1>1. /\ w \in Worlds /\ s \in Slots /\ w.pool.slots[s] \in SlotRecords
      /\ w.pool \in Pools /\ w.pool.slots \in [Slots -> SlotRecords] /\ w.procs \in [Procs -> Processes]
  BY WorldTyped DEF Fits, FitsBut, Sound
<1>2. NoProc \in Processes /\ NoProc.state = "none"
  <2>1. <<>> \in Seq(Ids) /\ <<>> \in Seq(Lines)
    OBVIOUS
  <2>2. 1 \in Slots
    BY PoolSizeAssumption DEF Slots
  <2> QED
    BY <2>1, <2>2 DEF NoProc, Processes, ProcStates
<1>3. /\ x \in SlotRecords /\ x.proc = w.pool.slots[s].proc /\ x.current = w.pool.slots[s].current
      /\ x.buffer = w.pool.slots[s].buffer
      /\ x.settled = IF w.pool.slots[s].settled = p THEN None ELSE w.pool.slots[s].settled
  BY <1>1 DEF SlotRecords
<1>4. Gone(w, p) = v
  <2> HIDE DEF s
  <2>1. Gone(w, p) = [w EXCEPT !.procs[p] = NoProc,
                               !.pool.slots[s].settled = IF @ = p THEN None ELSE @]
    BY DEF Gone, s
  <2> QED
    BY <2>1, <1>1, <1>2 DEF Worlds, Pools
<1> HIDE DEF x, s
<1>5. /\ u \in Worlds /\ u.pool = w.pool /\ u.reqs = w.reqs /\ u.fails = w.fails
      /\ \A q \in Procs : u.procs[q] = IF q = p THEN NoProc ELSE w.procs[q]
  BY <1>1, <1>2, PutProc
<1> HIDE DEF u
<1>6. /\ v \in Worlds /\ v.reqs = u.reqs /\ v.procs = u.procs /\ v.fails = u.fails
      /\ v.pool.queue = u.pool.queue /\ v.pool.closed = u.pool.closed
      /\ \A t \in Slots : v.pool.slots[t] = IF t = s THEN x ELSE u.pool.slots[t]
  BY <1>1, <1>3, <1>5, PutSlot
<1> HIDE DEF v
<1>7. /\ v \in Worlds /\ v.reqs = w.reqs /\ v.fails = w.fails
      /\ v.pool.queue = w.pool.queue /\ v.pool.closed = w.pool.closed
      /\ \A q \in Procs : v.procs[q] = IF q = p THEN NoProc ELSE w.procs[q]
      /\ \A t \in Slots :
           /\ v.pool.slots[t].proc = w.pool.slots[t].proc
           /\ v.pool.slots[t].current = w.pool.slots[t].current
           /\ v.pool.slots[t].buffer = w.pool.slots[t].buffer
           /\ v.pool.slots[t].settled = IF t = s /\ w.pool.slots[t].settled = p THEN None
                                        ELSE w.pool.slots[t].settled
  BY <1>3, <1>5, <1>6
<1>8. QueueFits(v) /\ FlightFits(v) /\ OpenFits(v, None) /\ HandFits(v, None) /\ RecordsFit(v)
  BY <1>1, <1>7, SameRequests DEF Fits, FitsBut, Sound
<1>9. \A t \in Slots : SettledFits(v, t)
  <2> SUFFICES ASSUME NEW t \in Slots, v.pool.slots[t].settled # None
               PROVE  SettledFits(v, t)
    BY DEF SettledFits
  <2> DEFINE o == w.pool.slots[t].settled
  <2>1. v.pool.slots[t].settled = o /\ o # None /\ o \in Procs
    BY <1>1, <1>7, WorldTyped
  <2>2. w.procs[o].state # "none" /\ w.procs[o].slot = t
    BY <2>1 DEF Fits, FitsBut, Sound, SettledFits
  <2>3. o # p
    BY <2>1, <2>2, <1>7 DEF s
  <2> HIDE DEF o
  <2> QED
    BY <2>1, <2>2, <2>3, <1>7 DEF SettledFits
<1>10. ClosedFits(v)
  BY <1>2, <1>7 DEF Fits, FitsBut, Sound, ClosedFits
<1>11. ASSUME NEW t \in Slots, t # s \/ w.pool.slots[s].proc # p
       PROVE  ProcFits(v, t, None)
  <2> SUFFICES ASSUME v.pool.slots[t].proc # None
               PROVE  ProcFits(v, t, None)
    BY DEF ProcFits
  <2> DEFINE o == w.pool.slots[t].proc
  <2>1. v.pool.slots[t].proc = o /\ o # None /\ o \in Procs /\ ProcFits(w, t, None)
    BY <1>1, <1>7, WorldTyped DEF Fits, FitsBut
  <2>2. o # p
    BY <2>1, <1>11 DEF ProcFits, s
  <2>3. v.procs[o] = w.procs[o]
    BY <2>1, <2>2, <1>7
  <2>4. /\ w.procs[o].state = "running" /\ w.procs[o].slot = t
        /\ w.pool.slots[t].buffer \in {None, o}
        /\ \A i \in DOMAIN w.procs[o].stdin :
             LET r == w.procs[o].stdin[i].req IN
             /\ w.reqs[r].state # "unmade"
             /\ w.reqs[r].state = "open" /\ r # None => Serves(v, t, r)
    BY <2>1, <1>7 DEF ProcFits, Serves
  <2> HIDE DEF o
  <2> QED
    BY <2>1, <2>3, <2>4, <1>7, ZenonT(60) DEF ProcFits
<1>12. Free(v) = Free(w) \cup {p}
  BY <1>2, <1>7 DEF Free
<1> QED
  BY <1>1, <1>4, <1>7, <1>8, <1>9, <1>10, <1>11, <1>12 DEF Fits, FitsBut, Sound, s

\* A handler that freed a slot at most, and left the queue to the pump: in a
\* quiet pool nothing waits, or nothing but that slot idles.
LEMMA FreedReady ==
    ASSUME NEW w, Fits(w), TurnsFit(w), Quiet(w), NEW v, Fits(v), NEW s \in Slots,
           v.pool.queue = w.pool.queue,
           \A t \in Slots : t # s => v.pool.slots[t].current = w.pool.slots[t].current,
           \A i \in DOMAIN w.pool.queue :
              /\ v.reqs[w.pool.queue[i]].attempts = w.reqs[w.pool.queue[i]].attempts
              /\ v.reqs[w.pool.queue[i]].bad = w.reqs[w.pool.queue[i]].bad,
           Cardinality(Free(v)) > Cardinality(BadQueued(w))
    PROVE  Ready(v)
<1> DEFINE q == w.pool.queue
<1>1. w \in Worlds /\ q \in Seq(Reqs) /\ \A i \in DOMAIN q : q[i] \in Reqs
  BY WorldTyped DEF Fits, FitsBut, Sound
<1>2. q # <<>> => Idle(w) = {}
  BY DEF Quiet
<1>3. q # <<>> => \A t \in Idle(v) : t = s
  BY <1>2 DEF Idle
<1>4. Len(q) > 1 => q # <<>>
  BY EmptySeq
<1>5. \A i \in DOMAIN q : q # <<>>
  BY <1>1, LenProperties, EmptySeq
<1>6. TurnsFit(v)
  <2>1. \A i \in DOMAIN q : w.reqs[q[i]].attempts = 0
    BY <1>2, <1>5 DEF TurnsFit
  <2>2. Len(q) > 1 => \A a, b \in Idle(v) : a = b
    BY <1>3, <1>4
  <2> QED
    BY <2>1, <2>2 DEF TurnsFit
<1>7. BadQueued(v) = BadQueued(w)
  BY DEF BadQueued, ToSet
<1>8. Free(v) # {}
  <2>1. BadQueued(w) \subseteq Reqs
    BY <1>1 DEF BadQueued, ToSet
  <2>2. Cardinality(BadQueued(w)) \in Nat
    BY <2>1, FS_Subset, FS_CardinalityType, ReqsAssumption
  <2>3. Cardinality({}) = 0
    BY FS_EmptySet
  <2>4. Cardinality(Free(v)) # 0
    BY <2>2
  <2> QED
    BY <2>3, <2>4
<1> QED
  BY <1>6, <1>7, <1>8 DEF Ready, RoomFits

\* A handler that puts what it holds ahead of the queue.
LEMMA RequeuedReady ==
    ASSUME NEW w, Fits(w), TurnsFit(w), Quiet(w), NEW s \in Slots,
           NEW h \in Reqs, NEW k, FitsBut(k, h), Unsent(k, h), ~k.pool.closed,
           k.pool.queue = w.pool.queue,
           \A t \in Slots : t # s => k.pool.slots[t].current = w.pool.slots[t].current,
           k.pool.slots[s].current = None,
           \A i \in DOMAIN w.pool.queue :
              /\ k.reqs[w.pool.queue[i]].attempts = w.reqs[w.pool.queue[i]].attempts
              /\ k.reqs[w.pool.queue[i]].bad = w.reqs[w.pool.queue[i]].bad,
           k.reqs[h].attempts \in 0..1, ~k.reqs[h].bad,
           Cardinality(Free(k)) > Cardinality(BadQueued(w))
    PROVE  LET v == WithQueue(k, <<h>> \o k.pool.queue)
           IN Ready(v) /\ v.pool.closed = k.pool.closed
<1> DEFINE q == w.pool.queue
           all == <<h>> \o q
           v == WithQueue(k, all)
<1>1. w \in Worlds /\ q \in Seq(Reqs) /\ \A i \in DOMAIN q : q[i] \in Reqs
  BY WorldTyped DEF Fits, FitsBut, Sound
<1>2. Len(q) \in Nat /\ DOMAIN q = 1..Len(q)
  BY <1>1, LenProperties
<1>3. <<h>> \in Seq(Reqs) /\ Len(<<h>>) = 1 /\ <<h>>[1] = h
  OBVIOUS
<1> HIDE DEF q
<1>4. all \in Seq(Reqs) /\ Len(all) = 1 + Len(q)
      /\ \A i \in 1..(1 + Len(q)) : all[i] = IF i <= 1 THEN <<h>>[i] ELSE q[i - 1]
  BY <1>1, <1>3, ConcatProperties
<1> HIDE DEF all
<1>5. DOMAIN all = 1..(1 + Len(q))
  BY <1>4, LenProperties
<1>6. 1 \in DOMAIN all /\ all[1] = h
  BY <1>2, <1>3, <1>4, <1>5
<1>7. \A i \in DOMAIN all : i # 1 => i - 1 \in DOMAIN q /\ all[i] = q[i - 1]
  BY <1>2, <1>4, <1>5
<1>8. \A i \in DOMAIN q : i + 1 \in DOMAIN all /\ all[i + 1] = q[i]
  <2> SUFFICES ASSUME NEW i \in DOMAIN q
               PROVE  i + 1 \in DOMAIN all /\ all[i + 1] = q[i]
    OBVIOUS
  <2>1. i \in 1..Len(q)
    BY <1>2
  <2>2. i + 1 \in 1..(1 + Len(q)) /\ ~(i + 1 <= 1) /\ (i + 1) - 1 = i
    BY <1>2, <2>1
  <2> QED
    BY <2>2, <1>4, <1>5
<1>9. \A i \in DOMAIN q : q[i] # h
  BY NoneIsNothing DEF FitsBut, Sound, HandFits, Queued, q
<1>10. \A i, j \in DOMAIN q : q[i] = q[j] => i = j
  BY DEF Fits, FitsBut, Sound, QueueFits, q
<1>11. \A i, j \in DOMAIN all : all[i] = all[j] => i = j
  <2> SUFFICES ASSUME NEW i \in DOMAIN all, NEW j \in DOMAIN all, all[i] = all[j]
               PROVE  i = j
    OBVIOUS
  <2>1. CASE i = 1 \/ j = 1
    BY <2>1, <1>6, <1>7, <1>9
  <2>2. CASE i # 1 /\ j # 1
    <3>1. i - 1 = j - 1
      BY <2>2, <1>7, <1>10
    <3> QED
      BY <3>1, <1>2, <1>5
  <2> QED
    BY <2>1, <2>2
<1>12. /\ Fits(v) /\ v.reqs = k.reqs /\ v.procs = k.procs
       /\ v.pool.queue = all /\ v.pool.closed = k.pool.closed /\ v.pool.slots = k.pool.slots
  <2>1. \A i \in DOMAIN all : all[i] = h \/ Queued(k, all[i])
    BY <1>6, <1>7 DEF Queued, q
  <2>2. \A j \in DOMAIN k.pool.queue : \E i \in DOMAIN all : all[i] = k.pool.queue[j]
    BY <1>8 DEF q
  <2>3. \E i \in DOMAIN all : all[i] = h
    BY <1>6
  <2>4. all \in Seq(Reqs)
    BY <1>4
  <2> QED
    BY <2>1, <2>2, <2>3, <2>4, <1>11, EnqueueFits
<1>13. WithQueue(k, <<h>> \o k.pool.queue) = v
  BY DEF all, q
<1> HIDE DEF v
<1>14. q # <<>> => Idle(w) = {}
  BY DEF Quiet, q
<1>15. s \in Idle(v) /\ (q # <<>> => \A t \in Idle(v) : t = s)
  BY <1>12, <1>14 DEF Idle
<1>16. \A i \in DOMAIN q : q # <<>>
  BY <1>1, LenProperties, EmptySeq
<1>17. \A i \in DOMAIN q : w.reqs[q[i]].attempts = 0
  BY <1>14, <1>16 DEF TurnsFit, q
<1>18. TurnsFit(v)
  <2>1. ASSUME NEW i \in DOMAIN all
        PROVE  \/ v.reqs[all[i]].attempts = 0
               \/ i = 1 /\ Idle(v) # {} /\ v.reqs[all[i]].attempts = 1
    <3>1. CASE i = 1
      BY <3>1, <1>6, <1>12, <1>15
    <3>2. CASE i # 1
      <4>1. i - 1 \in DOMAIN q /\ all[i] = q[i - 1]
        BY <3>2, <1>7
      <4>2. v.reqs[q[i - 1]].attempts = 0
        BY <4>1, <1>12, <1>17 DEF q
      <4> QED
        BY <4>1, <4>2
    <3> QED
      BY <3>1, <3>2
  <2>2. Len(all) > 1 => q # <<>>
    BY <1>1, <1>4, EmptySeq
  <2>3. Len(all) > 1 => \A a, b \in Idle(v) : a = b
    BY <2>2, <1>15
  <2> QED
    BY <2>1, <2>3, <1>12 DEF TurnsFit
<1>19. BadQueued(v) = BadQueued(w)
  <2>1. ASSUME NEW r \in BadQueued(v)
        PROVE  r \in BadQueued(w)
    <3>1. PICK i \in DOMAIN all : r = all[i]
      BY <1>12 DEF BadQueued, ToSet
    <3>2. k.reqs[r].bad
      BY <1>12 DEF BadQueued
    <3>3. i # 1
      BY <3>1, <3>2, <1>6
    <3>4. i - 1 \in DOMAIN q /\ r = q[i - 1]
      BY <3>1, <3>3, <1>7
    <3> QED
      BY <3>2, <3>4 DEF BadQueued, ToSet, q
  <2>2. ASSUME NEW r \in BadQueued(w)
        PROVE  r \in BadQueued(v)
    <3>1. PICK i \in DOMAIN q : r = q[i]
      BY DEF BadQueued, ToSet, q
    <3>2. w.reqs[r].bad
      BY DEF BadQueued
    <3>3. v.reqs[r].bad
      BY <3>1, <3>2, <1>12 DEF q
    <3> QED
      BY <3>1, <3>3, <1>8, <1>12 DEF BadQueued, ToSet
  <2> QED
    BY <2>1, <2>2
<1>20. Free(v) = Free(k)
  BY <1>12 DEF Free
<1>21. Free(k) # {}
  <2>1. BadQueued(w) \subseteq Reqs
    BY <1>1 DEF BadQueued, ToSet, q
  <2>2. Cardinality(BadQueued(w)) \in Nat
    BY <2>1, FS_Subset, FS_CardinalityType, ReqsAssumption
  <2>3. Cardinality({}) = 0
    BY FS_EmptySet
  <2>4. Cardinality(Free(k)) # 0
    BY <2>2
  <2> QED
    BY <2>3, <2>4
<1> QED
  BY <1>12, <1>13, <1>18, <1>19, <1>20, <1>21 DEF Ready, RoomFits

-----------------------------------------------------------------------------
(* Between the state and its World.                                        *)

\* The invariant of the state says of its World what the helpers need.
LEMMA WorldOfState ==
    ASSUME IInv, NEW fails \in BOOLEAN
    PROVE  LET w == World(fails)
           IN /\ Fits(w) /\ TurnsFit(w) /\ Quiet(w) /\ w \in Worlds
              /\ w.pool = pool /\ w.reqs = reqs /\ w.procs = procs
              /\ \A ending : IdsLeft(ending) <=>
                     Cardinality(Free(w) \cup ending) > Cardinality(BadQueued(w))
<1> DEFINE z == World(FALSE)
           w == World(fails)
<1>1. Fits(z) /\ TurnsFit(z) /\ Quiet(z) /\ z \in Worlds
  BY DEF IInv, Fits, FitsBut, Sound
<1>2. /\ z.pool = pool /\ z.reqs = reqs /\ z.procs = procs
      /\ w.pool = pool /\ w.reqs = reqs /\ w.procs = procs
  BY DEF World
<1>3. w \in Worlds
  BY <1>1 DEF World, Worlds
<1>4. \A ending : IdsLeft(ending) <=>
                     Cardinality(Free(w) \cup ending) > Cardinality(BadQueued(w))
  BY <1>2 DEF IdsLeft, Free, BadQueued
<1> HIDE DEF w, z
<1>5. Heard(z, w)
  BY <1>2 DEF Heard
<1>6. Fits(w) /\ TurnsFit(w) /\ Quiet(w)
  BY <1>1, <1>3, <1>5, HeardFits
<1> QED
  BY <1>2, <1>3, <1>4, <1>6 DEF w

\* The World a handler ends with is the World of the next state.
LEMMA Becomes ==
    ASSUME NEW v, Fits(v), TurnsFit(v), Quiet(v), Become(v)
    PROVE  Fits(World(FALSE)') /\ TurnsFit(World(FALSE)') /\ Quiet(World(FALSE)')
<1> DEFINE z == [pool |-> v.pool, reqs |-> v.reqs, procs |-> v.procs, fails |-> FALSE]
<1>1. v \in Worlds
  BY DEF Fits, FitsBut, Sound
<1>2. World(FALSE)' = z
  BY DEF World, Become
<1>3. z.pool = v.pool /\ z.reqs = v.reqs /\ z.procs = v.procs
  OBVIOUS
<1>4. z \in Worlds
  BY <1>1 DEF Worlds
<1> HIDE DEF z
<1>5. Heard(v, z)
  BY <1>3 DEF Heard
<1>6. Fits(z) /\ TurnsFit(z) /\ Quiet(z)
  BY <1>1, <1>4, <1>5, HeardFits
<1> QED
  BY <1>2, <1>6

\* A step that leaves close() alone, and the processes too once the pool is closed,
\* leaves what close() awaits there.
LEMMA ClosingStays ==
    ASSUME ClosingFits, closing' = closing, pool'.closed = pool.closed,
           ~pool.closed \/ \A p \in Procs : procs'[p].state = procs[p].state
    PROVE  ClosingFits'
<1>1. CASE ~pool.closed
  BY <1>1 DEF ClosingFits
<1>2. CASE \A p \in Procs : procs'[p].state = procs[p].state
  BY <1>2 DEF ClosingFits
<1> QED
  BY <1>1, <1>2

-----------------------------------------------------------------------------
(* The steps.                                                              *)

\* A request that was not made yet is nowhere: the handler may hold it.
LEMMA AskFits ==
    ASSUME NEW w, Fits(w), NEW r \in Reqs, w.reqs[r].state = "unmade",
           NEW x \in Requests, x.state = "open", x.timer = None
    PROVE  LET v == WithReq(w, r, x)
           IN /\ FitsBut(v, r) /\ Unsent(v, r)
              /\ v.pool = w.pool /\ v.procs = w.procs /\ v.fails = w.fails
              /\ \A q \in Reqs : v.reqs[q] = IF q = r THEN x ELSE w.reqs[q]
<1> DEFINE v == WithReq(w, r, x)
<1>1. w \in Worlds /\ r # None
  BY NoneIsNothing DEF Fits, FitsBut, Sound
<1>2. /\ v \in Worlds /\ v.pool = w.pool /\ v.procs = w.procs /\ v.fails = w.fails
      /\ \A q \in Reqs : v.reqs[q] = IF q = r THEN x ELSE w.reqs[q]
  BY <1>1, PutReq DEF WithReq
<1> HIDE DEF v
<1>3. \A i \in DOMAIN w.pool.queue : w.pool.queue[i] \in Reqs /\ w.pool.queue[i] # r
  BY <1>1, WorldTyped DEF Fits, FitsBut, Sound, QueueFits
<1>4. \A s \in Slots : w.pool.slots[s].current \in Reqs \cup {None} /\ w.pool.slots[s].current # r
  BY <1>1, WorldTyped DEF Fits, FitsBut, Sound, FlightFits
<1>5. QueueFits(v)
  BY <1>2, <1>3 DEF Fits, FitsBut, Sound, QueueFits, InFlightIn, Serves
<1>6. FlightFits(v)
  <2>1. FlightFits(w)
    BY DEF Fits, FitsBut, Sound
  <2>2. ASSUME NEW s \in Slots, w.pool.slots[s].current # None
        PROVE  v.reqs[w.pool.slots[s].current] = w.reqs[w.pool.slots[s].current]
    BY <1>2, <1>4, <2>2
  <2>3. ASSUME NEW q \in Reqs, v.reqs[q].timer # None
        PROVE  q # r /\ v.reqs[q] = w.reqs[q]
    BY <1>2, <2>3
  <2> QED
    BY <1>2, <2>1, <2>2, <2>3, FlightAlike
<1>7. OpenFits(v, r)
  BY <1>2, NoneIsNothing DEF Fits, FitsBut, Sound, OpenFits, Queued, InFlightIn, Serves
<1>8. HandFits(v, r)
  BY <1>2, <1>3, <1>4 DEF HandFits, Queued, InFlightIn, Serves
<1>9. ClosedFits(v) /\ \A s \in Slots : SettledFits(v, s)
  BY <1>2 DEF Fits, FitsBut, Sound, ClosedFits, SettledFits
<1>10. RecordsFit(v)
  BY <1>2 DEF Fits, FitsBut, Sound, RecordsFit
<1>11. ASSUME NEW s \in Slots, w.pool.slots[s].proc # None
       PROVE  /\ ProcFits(v, s, r)
              /\ \A i \in DOMAIN w.procs[w.pool.slots[s].proc].stdin :
                    w.procs[w.pool.slots[s].proc].stdin[i].req # r
  <2> DEFINE p == w.pool.slots[s].proc
             ids == w.procs[p].stdin
  <2>1. p \in Procs
    BY <1>1, <1>11, WorldTyped
  <2>2. \A i \in DOMAIN ids : ids[i].req \in Reqs /\ ids[i].req # None
    BY <2>1, <1>1, StdinTyped
  <2>3. ProcFits(w, s, None)
    BY DEF Fits, FitsBut
  <2>4. /\ w.procs[p].state = "running" /\ w.procs[p].slot = s
        /\ w.pool.slots[s].buffer \in {None, p}
        /\ \A i \in DOMAIN ids : /\ w.reqs[ids[i].req].state # "unmade"
                                 /\ w.reqs[ids[i].req].state = "open" => Serves(w, s, ids[i].req)
    BY <1>11, <2>2, <2>3 DEF ProcFits
  <2>5. v.pool.slots[s].proc = p /\ v.procs[p].stdin = ids /\ v.procs = w.procs
    BY <1>2
  <2> HIDE DEF ids, p
  <2>6. \A i \in DOMAIN ids : ids[i].req # r
    BY <2>4
  <2>7. \A i \in DOMAIN ids : /\ v.reqs[ids[i].req].state # "unmade"
                              /\ v.reqs[ids[i].req].state = "open" => Serves(v, s, ids[i].req)
    BY <2>2, <2>4, <2>6, <1>2 DEF Serves
  <2> QED
    BY <2>4, <2>5, <2>6, <2>7, <1>2 DEF ProcFits, ids, p
<1>12. \A s \in Slots : ProcFits(v, s, r)
  BY <1>2, <1>11, ZenonT(60) DEF ProcFits
<1>13. Unsent(v, r)
  BY <1>2, <1>11 DEF Unsent
<1> QED
  BY <1>2, <1>5, <1>6, <1>7, <1>8, <1>9, <1>10, <1>12, <1>13 DEF FitsBut, Sound, v

\* A request that request() appends to the queue leaves a world ready for the pump.
LEMMA NewcomerReady ==
    ASSUME NEW w, Fits(w), TurnsFit(w), Quiet(w), ~w.pool.closed, Free(w) # {},
           NEW r \in Reqs, NEW k, FitsBut(k, r), Unsent(k, r), k.pool = w.pool, k.procs = w.procs,
           \A q \in Reqs : q # r => k.reqs[q] = w.reqs[q], k.reqs[r].attempts = 0
    PROVE  LET v == WithQueue(k, Append(w.pool.queue, r))
           IN Ready(v) /\ v.pool.closed = w.pool.closed
<1> DEFINE q == w.pool.queue
           all == Append(q, r)
           v == WithQueue(k, all)
<1>1. w \in Worlds /\ q \in Seq(Reqs) /\ \A i \in DOMAIN q : q[i] \in Reqs
  BY WorldTyped DEF Fits, FitsBut, Sound
<1>2. Len(q) \in Nat /\ DOMAIN q = 1..Len(q)
  BY <1>1, LenProperties
<1> HIDE DEF q
<1>3. /\ all \in Seq(Reqs) /\ Len(all) = Len(q) + 1
      /\ \A i \in 1..Len(q) : all[i] = q[i]
      /\ all[Len(q) + 1] = r
  BY <1>1, AppendProperties
<1> HIDE DEF all
<1>4. DOMAIN all = 1..(Len(q) + 1)
  BY <1>3, LenProperties
<1>5. \A i \in DOMAIN all :
         \/ i \in DOMAIN q /\ all[i] = q[i]
         \/ i = Len(q) + 1 /\ all[i] = r
  BY <1>2, <1>3, <1>4
<1>6. \A i \in DOMAIN q : i \in DOMAIN all /\ all[i] = q[i]
  BY <1>2, <1>3, <1>4
<1>7. Len(q) + 1 \in DOMAIN all
  BY <1>2, <1>4
<1>8. \A i \in DOMAIN q : q[i] # r
  BY NoneIsNothing DEF FitsBut, Sound, HandFits, Queued, q
<1>9. \A i, j \in DOMAIN all : all[i] = all[j] => i = j
  <2>1. \A i, j \in DOMAIN q : q[i] = q[j] => i = j
    BY DEF Fits, FitsBut, Sound, QueueFits, q
  <2> QED
    BY <2>1, <1>5, <1>8
<1>10. /\ Fits(v) /\ v.reqs = k.reqs /\ v.procs = k.procs
       /\ v.pool.queue = all /\ v.pool.closed = k.pool.closed /\ v.pool.slots = k.pool.slots
  <2>1. \A i \in DOMAIN all : all[i] = r \/ Queued(k, all[i])
    BY <1>5 DEF Queued, q
  <2>2. \A j \in DOMAIN k.pool.queue : \E i \in DOMAIN all : all[i] = k.pool.queue[j]
    BY <1>6 DEF q
  <2>3. \E i \in DOMAIN all : all[i] = r
    BY <1>3, <1>7
  <2> QED
    BY <2>1, <2>2, <2>3, <1>3, <1>9, EnqueueFits
<1> HIDE DEF v
<1>11. Idle(v) = Idle(w) /\ Free(v) = Free(w)
  BY <1>10 DEF Idle, Free
<1>12. q # <<>> => Idle(w) = {}
  BY DEF Quiet, q
<1>13. \A i \in DOMAIN q : q # <<>>
  BY <1>1, LenProperties, EmptySeq
<1>14. \A i \in DOMAIN all : v.reqs[all[i]].attempts = 0
  <2>1. \A i \in DOMAIN q : w.reqs[q[i]].attempts = 0
    BY <1>12, <1>13 DEF TurnsFit, q
  <2> QED
    BY <2>1, <1>1, <1>5, <1>8, <1>10
<1>15. Len(all) > 1 => Idle(w) = {}
  <2>1. Len(all) > 1 => q # <<>>
    BY <1>2, <1>3, EmptySeq
  <2> QED
    BY <2>1, <1>12
<1>16. TurnsFit(v)
  BY <1>10, <1>11, <1>14, <1>15 DEF TurnsFit
<1>17. RoomFits(v)
  BY <1>10, <1>11, <1>15 DEF RoomFits
<1> QED
  BY <1>10, <1>16, <1>17 DEF Ready, v, all, q

\* A closed pool has no queue.
LEMMA ClosedIsQueueless ==
    ASSUME NEW w, NEW h, FitsBut(w, h), w.pool.closed
    PROVE  w.pool.queue = <<>>
BY DEF FitsBut, Sound, ClosedFits

\* request() keeps the invariant.
LEMMA RequestKeeps ==
    ASSUME IInv, NEW r \in Reqs, NEW bad \in BOOLEAN, NEW fails \in BOOLEAN,
           Request(r, bad, fails)
    PROVE  IInv'
<1> DEFINE w == World(fails)
           x == [w.reqs[r] EXCEPT !.state = "open", !.bad = bad]
           k == WithReq(w, r, x)
<1>1. /\ Fits(w) /\ TurnsFit(w) /\ Quiet(w) /\ w \in Worlds
      /\ w.pool = pool /\ w.reqs = reqs /\ w.procs = procs
      /\ \A ending : IdsLeft(ending) <=>
             Cardinality(Free(w) \cup ending) > Cardinality(BadQueued(w))
  BY WorldOfState
<1>2. /\ reqs[r].state = "unmade" /\ IdsLeft({}) /\ closing' = closing
      /\ Become(IF pool.closed THEN Reject(w, r, "closed")
                ELSE Pump([w EXCEPT !.reqs[r].state = "open", !.reqs[r].bad = bad,
                                    !.pool.queue = Append(@, r)]))
  BY DEF Request
<1> HIDE DEF w
<1>3. w.reqs[r] \in Requests /\ w.reqs[r].attempts = 0 /\ w.reqs[r].timer = None
  <2>1. w.reqs[r] \in Requests /\ w.reqs[r].timer \in Slots \cup {None}
    BY <1>1, WorldTyped
  <2>2. w.reqs[r].attempts = 0
    BY <1>1, <1>2 DEF Fits, FitsBut, Sound, RecordsFit
  <2>3. w.reqs[r].timer = None
    BY <1>1, <1>2, <2>1, NoneIsNothing DEF Fits, FitsBut, Sound, FlightFits, Serves
  <2> QED
    BY <2>1, <2>2, <2>3
<1>4. x \in Requests /\ x.state = "open" /\ x.timer = None /\ x.attempts = 0
  BY <1>3 DEF Requests, ReqStates
<1> HIDE DEF x
<1>5. /\ FitsBut(k, r) /\ Unsent(k, r) /\ k.pool = w.pool /\ k.procs = w.procs
      /\ \A q \in Reqs : k.reqs[q] = IF q = r THEN x ELSE w.reqs[q]
  BY <1>1, <1>2, <1>4, AskFits
<1>6. CASE pool.closed
  <2> DEFINE how == "closed"
             v == Reject(k, r, how)
  <2>1. how \in Ends \ {"answer", "protocol"}
    BY DEF Ends, ReqStates
  <2>2. Reject(w, r, how) = v
    BY <1>1 DEF Reject, WithReq, Worlds
  <2>3. Become(v)
    BY <1>2, <1>6, <2>2
  <2> HIDE DEF how, k
  <2>4. Fits(v) /\ v.pool = k.pool /\ v.procs = k.procs
    BY <1>5, <2>1, RejectFits
  <2> HIDE DEF v
  <2>5. TurnsFit(v) /\ Quiet(v)
    <3>1. v.pool.queue = <<>>
      BY <1>1, <1>5, <1>6, <2>4, ClosedIsQueueless DEF Fits
    <3> QED
      BY <3>1 DEF TurnsFit, Quiet
  <2>6. Fits(World(FALSE)') /\ TurnsFit(World(FALSE)') /\ Quiet(World(FALSE)')
    BY <2>3, <2>4, <2>5, Becomes
  <2>7. ClosingFits'
    BY <1>1, <1>2, <1>5, <2>3, <2>4, ClosingStays DEF IInv, Become
  <2> QED
    BY <2>6, <2>7 DEF IInv
<1>7. CASE ~pool.closed
  <2> DEFINE a == WithQueue(k, Append(w.pool.queue, r))
             v == Pump(a)
  <2>1. [w EXCEPT !.reqs[r].state = "open", !.reqs[r].bad = bad, !.pool.queue = Append(@, r)] = a
    <3>1. w.reqs \in [Reqs -> Requests] /\ w.pool \in Pools
      BY <1>1, WorldTyped
    <3> QED
      BY <3>1, <1>1 DEF WithReq, WithQueue, x, Worlds, Pools
  <2>2. Become(v)
    BY <1>2, <1>7, <2>1
  <2> HIDE DEF k
  <2>3. Free(w) # {}
    <3>1. Cardinality(Free(w)) > Cardinality(BadQueued(w))
      <4>1. Free(w) \cup {} = Free(w)
        OBVIOUS
      <4> QED
        BY <1>1, <1>2, <4>1
    <3>2. BadQueued(w) \subseteq Reqs
      <4>1. w.pool.queue \in Seq(Reqs)
        BY <1>1, WorldTyped
      <4> QED
        BY <4>1 DEF BadQueued, ToSet
    <3>3. Cardinality(BadQueued(w)) \in Nat
      BY <3>2, FS_Subset, FS_CardinalityType, ReqsAssumption
    <3>4. Cardinality({}) = 0
      BY FS_EmptySet
    <3>5. Cardinality(Free(w)) # 0
      BY <3>1, <3>3
    <3> QED
      BY <3>4, <3>5
  <2>4. Ready(a) /\ a.pool.closed = w.pool.closed
    BY <1>1, <1>4, <1>5, <1>7, <2>3, NewcomerReady
  <2> HIDE DEF a
  <2>5. Fits(v) /\ TurnsFit(v) /\ Quiet(v) /\ v.pool.closed = pool.closed
    BY <2>4, <1>1, <1>7, PumpReady
  <2> HIDE DEF v
  <2>6. Fits(World(FALSE)') /\ TurnsFit(World(FALSE)') /\ Quiet(World(FALSE)')
    BY <2>2, <2>5, Becomes
  <2>7. ClosingFits'
    BY <1>2, <1>7, <2>2, <2>5, ClosingStays DEF IInv, Become
  <2> QED
    BY <2>6, <2>7 DEF IInv
<1> QED
  BY <1>6, <1>7

\* failWorker() and onTimeout() fence the worker: let go, and killed.
LEMMA FenceFits ==
    ASSUME NEW w, Fits(w), NEW s \in Slots
    PROVE  LET p == w.pool.slots[s].proc
               h == w.pool.slots[s].current
               v == Detach(Vacate(w, s), s)
               k == IF p = None THEN v ELSE Kill(v, p)
           IN /\ FitsBut(k, h) /\ Unsent(k, h)
              /\ k.pool.queue = w.pool.queue /\ k.pool.closed = w.pool.closed
              /\ \A t \in Slots : k.pool.slots[t].current = IF t = s THEN None ELSE w.pool.slots[t].current
              /\ \A r \in Reqs : /\ k.reqs[r].bad = w.reqs[r].bad
                                 /\ k.reqs[r].attempts = w.reqs[r].attempts
              /\ Free(k) = Free(w)
<1> DEFINE p == w.pool.slots[s].proc
           h == w.pool.slots[s].current
           v == Detach(Vacate(w, s), s)
<1>1. /\ FitsBut(v, h) /\ Unsent(v, h) /\ v.procs = w.procs
      /\ v.pool.queue = w.pool.queue /\ v.pool.closed = w.pool.closed
      /\ \A t \in Slots : /\ v.pool.slots[t].proc = IF t = s THEN None ELSE w.pool.slots[t].proc
                          /\ v.pool.slots[t].current = IF t = s THEN None ELSE w.pool.slots[t].current
      /\ \A r \in Reqs : /\ v.reqs[r].bad = w.reqs[r].bad
                         /\ v.reqs[r].attempts = w.reqs[r].attempts
  BY LetGoFits DEF Fits, FitsBut
<1>2. Free(v) = Free(w)
  BY <1>1 DEF Free
<1> HIDE DEF v
<1>3. CASE p = None
  BY <1>1, <1>2, <1>3 DEF v
<1>4. CASE p # None
  <2> DEFINE k == Kill(v, p)
  <2>1. p \in Procs
    BY <1>4, WorldTyped DEF Fits, FitsBut, Sound
  <2>2. w.procs[p].state = "running" /\ w.procs[p].slot = s
    BY <1>4 DEF Fits, FitsBut, ProcFits
  <2>3. \A t \in Slots : v.pool.slots[t].proc # p
    <3> SUFFICES ASSUME NEW t \in Slots, v.pool.slots[t].proc = p
                 PROVE  FALSE
      OBVIOUS
    <3>1. t # s /\ w.pool.slots[t].proc = p
      BY <1>1, <1>4
    <3>2. w.procs[p].slot = t
      BY <3>1, <1>4 DEF Fits, FitsBut, ProcFits
    <3> QED
      BY <3>1, <3>2, <2>2
  <2>4. v.procs[p].state # "none"
    BY <1>1, <2>2
  <2> HIDE DEF p, h
  <2>5. FitsBut(k, h) /\ Unsent(k, h) /\ k.pool = v.pool /\ k.reqs = v.reqs /\ Free(k) = Free(v)
    BY <1>1, <2>1, <2>3, <2>4, KillFits
  <2> HIDE DEF k
  <2>6. /\ k.pool.queue = w.pool.queue /\ k.pool.closed = w.pool.closed
        /\ \A t \in Slots : k.pool.slots[t].current = IF t = s THEN None ELSE w.pool.slots[t].current
        /\ \A r \in Reqs : /\ k.reqs[r].bad = w.reqs[r].bad
                           /\ k.reqs[r].attempts = w.reqs[r].attempts
        /\ Free(k) = Free(w)
    BY <1>1, <1>2, <2>5
  <2> QED
    BY <1>4, <2>5, <2>6 DEF k, v, p, h
<1> QED
  BY <1>3, <1>4

\* What a slot served does not wait.
LEMMA ServedDoesNotWait ==
    ASSUME NEW w, Fits(w), NEW s \in Slots
    PROVE  \A i \in DOMAIN w.pool.queue : /\ w.pool.queue[i] \in Reqs
                                          /\ w.pool.queue[i] # w.pool.slots[s].current
<1>1. w \in Worlds
  BY DEF Fits, FitsBut, Sound
<1> QED
  BY <1>1, WorldTyped DEF Fits, FitsBut, Sound, QueueFits, InFlightIn, Serves

\* The end of a handler that pumps, in a pool that is not closed.
LEMMA PumpedKeeps ==
    ASSUME IInv, ~pool.closed, NEW x, Ready(x), ~x.pool.closed, Become(Pump(x)),
           closing' \in [pc : {"open", "grace", "awaiting", "returned"},
                         procs : SUBSET Procs, awaits : SUBSET Procs],
           closing'.pc = closing.pc
    PROVE  IInv'
<1> DEFINE v == Pump(x)
<1>1. Fits(v) /\ TurnsFit(v) /\ Quiet(v) /\ v.pool.closed = x.pool.closed
  BY PumpReady
<1>2. Become(v)
  OBVIOUS
<1> HIDE DEF v
<1>3. Fits(World(FALSE)') /\ TurnsFit(World(FALSE)') /\ Quiet(World(FALSE)')
  BY <1>1, <1>2, Becomes
<1>4. ~pool'.closed
  BY <1>1, <1>2 DEF Become
<1>5. pool'.closed \in BOOLEAN
  BY <1>1, <1>2, WorldTyped DEF Become, Fits, FitsBut, Sound
<1>6. ClosingFits'
  BY <1>4, <1>5 DEF IInv, ClosingFits
<1> QED
  BY <1>3, <1>6 DEF IInv

\* onTimeout() keeps the invariant.
LEMMA TimerKeeps ==
    ASSUME IInv, NEW r \in Reqs, NEW fails \in BOOLEAN, TimerFires(r, fails)
    PROVE  IInv'
<1> DEFINE w == World(fails)
           s == reqs[r].timer
           p == w.pool.slots[s].proc
           d == Detach(Vacate(w, s), s)
           k == IF p = None THEN d ELSE Kill(d, p)
           x == IF w.reqs[r].attempts < MAX_ATTEMPTS
                THEN [k EXCEPT !.pool.queue = <<r>> \o @] ELSE Reject(k, r, "timeout")
<1>1. /\ Fits(w) /\ TurnsFit(w) /\ Quiet(w) /\ w \in Worlds
      /\ w.pool = pool /\ w.reqs = reqs /\ w.procs = procs
      /\ \A ending : IdsLeft(ending) <=>
             Cardinality(Free(w) \cup ending) > Cardinality(BadQueued(w))
  BY WorldOfState
<1>2. /\ s # None /\ IdsLeft({}) /\ closing' = closing
      /\ Become(IF pool.slots[s].current = r THEN OnTimeout(w, s, r)
                ELSE [w EXCEPT !.reqs[r].timer = None])
  BY DEF TimerFires
<1>3. s \in Slots /\ w.pool.slots[s].current = r
  <2>1. s \in Slots
    BY <1>1, <1>2, WorldTyped
  <2> QED
    BY <2>1, <1>1, <1>2 DEF Fits, FitsBut, Sound, FlightFits, Serves
<1>4. Become(Pump(x))
  BY <1>1, <1>2, <1>3 DEF OnTimeout
<1>5. ~pool.closed /\ ~w.pool.closed
  BY <1>1, <1>3, NoneIsNothing DEF Fits, FitsBut, Sound, ClosedFits
<1>6. ~w.reqs[r].bad /\ w.reqs[r].attempts \in 1..2
  <2>1. w.reqs[r].attempts \in 0..2
    BY <1>1, WorldTyped
  <2> QED
    BY <2>1, <1>1, <1>3, NoneIsNothing DEF Fits, FitsBut, Sound, FlightFits
<1> HIDE DEF w, s
<1>7. /\ FitsBut(k, r) /\ Unsent(k, r)
      /\ k.pool.queue = w.pool.queue /\ k.pool.closed = w.pool.closed
      /\ \A t \in Slots : k.pool.slots[t].current = IF t = s THEN None ELSE w.pool.slots[t].current
      /\ \A q \in Reqs : /\ k.reqs[q].bad = w.reqs[q].bad
                         /\ k.reqs[q].attempts = w.reqs[q].attempts
      /\ Free(k) = Free(w)
  BY <1>1, <1>3, FenceFits, ZenonT(60)
<1> HIDE DEF k
<1>8. Cardinality(Free(w)) > Cardinality(BadQueued(w))
  <2>1. Free(w) \cup {} = Free(w)
    OBVIOUS
  <2> QED
    BY <2>1, <1>1, <1>2
<1>9. \A i \in DOMAIN w.pool.queue : w.pool.queue[i] \in Reqs /\ w.pool.queue[i] # r
  BY <1>1, <1>3, ServedDoesNotWait
<1>10. Ready(x) /\ ~x.pool.closed
  <2>1. CASE w.reqs[r].attempts < MAX_ATTEMPTS
    <3> DEFINE v == WithQueue(k, <<r>> \o k.pool.queue)
    <3>1. x = v
      BY <2>1 DEF WithQueue
    <3>2. k.reqs[r].attempts \in 0..1 /\ ~k.reqs[r].bad
      BY <2>1, <1>6, <1>7 DEF MAX_ATTEMPTS
    <3>3. k.pool.slots[s].current = None /\ ~k.pool.closed
          /\ \A t \in Slots : t # s => k.pool.slots[t].current = w.pool.slots[t].current
      BY <1>3, <1>5, <1>7
    <3>4. \A i \in DOMAIN w.pool.queue :
              /\ k.reqs[w.pool.queue[i]].attempts = w.reqs[w.pool.queue[i]].attempts
              /\ k.reqs[w.pool.queue[i]].bad = w.reqs[w.pool.queue[i]].bad
      BY <1>7, <1>9
    <3>5. Ready(v) /\ v.pool.closed = k.pool.closed
      BY <3>2, <3>3, <3>4, <1>1, <1>3, <1>7, <1>8, RequeuedReady, SMTT(40)
    <3> QED
      BY <3>1, <3>3, <3>5
  <2>2. CASE ~(w.reqs[r].attempts < MAX_ATTEMPTS)
    <3> DEFINE how == "timeout"
               v == Reject(k, r, how)
    <3>1. x = v
      BY <2>2
    <3>2. how \in Ends \ {"answer", "protocol"}
      BY DEF Ends, ReqStates
    <3> HIDE DEF how, x
    <3>3. /\ Fits(v) /\ v.pool = k.pool /\ v.procs = k.procs
          /\ \A q \in Reqs : q # r => v.reqs[q] = k.reqs[q]
      BY <3>2, <1>7, RejectFits
    <3> HIDE DEF v
    <3>4. Free(v) = Free(w) /\ v.pool.queue = w.pool.queue /\ ~v.pool.closed
          /\ \A t \in Slots : t # s => v.pool.slots[t].current = w.pool.slots[t].current
      BY <3>3, <1>5, <1>7 DEF Free
    <3>5. \A i \in DOMAIN w.pool.queue :
              /\ v.reqs[w.pool.queue[i]].attempts = w.reqs[w.pool.queue[i]].attempts
              /\ v.reqs[w.pool.queue[i]].bad = w.reqs[w.pool.queue[i]].bad
      BY <3>3, <1>7, <1>9
    <3>6. Ready(v)
      BY <3>3, <3>4, <3>5, <1>1, <1>3, <1>8, FreedReady
    <3> QED
      BY <3>1, <3>4, <3>6
  <2> QED
    BY <2>1, <2>2
<1> HIDE DEF x
<1> QED
  BY <1>2, <1>4, <1>5, <1>10, PumpedKeeps DEF IInv, ClosingFits

\* A handler that settled what a slot served, and pumps.
LEMMA SettledReady ==
    ASSUME NEW w, Fits(w), TurnsFit(w), Quiet(w), NEW s \in Slots, NEW h \in Reqs,
           w.pool.slots[s].current = h, NEW k, NEW v, Fits(v),
           k.pool.queue = w.pool.queue,
           \A t \in Slots : t # s => k.pool.slots[t].current = w.pool.slots[t].current,
           \A q \in Reqs : k.reqs[q].bad = w.reqs[q].bad /\ k.reqs[q].attempts = w.reqs[q].attempts,
           v.pool = k.pool, v.procs = k.procs,
           \A q \in Reqs : q # h => v.reqs[q] = k.reqs[q],
           Cardinality(Free(k)) > Cardinality(BadQueued(w))
    PROVE  Ready(v)
<1>1. \A i \in DOMAIN w.pool.queue : w.pool.queue[i] \in Reqs /\ w.pool.queue[i] # h
  BY ServedDoesNotWait
<1>2. \A i \in DOMAIN w.pool.queue :
          /\ v.reqs[w.pool.queue[i]].attempts = w.reqs[w.pool.queue[i]].attempts
          /\ v.reqs[w.pool.queue[i]].bad = w.reqs[w.pool.queue[i]].bad
  BY <1>1
<1>3. Free(v) = Free(k)
  BY DEF Free
<1> QED
  BY <1>2, <1>3, FreedReady

\* onLine() of what was read, the line being as the worker wrote it.
LEMMA OnLineDoes ==
    ASSUME NEW w, Fits(w), TurnsFit(w), Quiet(w), ~w.pool.closed, NEW s \in Slots,
           w.pool.slots[s].proc # None, NEW line \in Lines,
           Cardinality(Free(w)) > Cardinality(BadQueued(w))
    PROVE  \/ OnLine(w, s, line, TRUE) = w
           \/ \E x : OnLine(w, s, line, TRUE) = Pump(x) /\ Ready(x) /\ ~x.pool.closed
<1> DEFINE h == w.pool.slots[s].current
<1>1. w \in Worlds /\ h \in Reqs \cup {None}
  BY WorldTyped DEF Fits, FitsBut, Sound
<1>2. line.id \in Ids /\ line.kind \in LineKinds
  BY DEF Lines
<1>3. CASE h = None
  BY <1>3 DEF OnLine
<1>4. CASE h # None /\ line.kind = "junk"
  <2> DEFINE p == w.pool.slots[s].proc
             k == Kill(Detach(Vacate(w, s), s), p)
             x == Blamed(k, h, line)
  <2>1. OnLine(w, s, line, TRUE) = Pump(x)
    BY <1>4 DEF OnLine, FailWorker
  <2>2. /\ FitsBut(k, h)
        /\ k.pool.queue = w.pool.queue /\ k.pool.closed = w.pool.closed
        /\ \A t \in Slots : k.pool.slots[t].current = IF t = s THEN None ELSE w.pool.slots[t].current
        /\ \A r \in Reqs : /\ k.reqs[r].bad = w.reqs[r].bad
                           /\ k.reqs[r].attempts = w.reqs[r].attempts
        /\ Free(k) = Free(w)
    BY FenceFits, ZenonT(60)
  <2> HIDE DEF k, h
  <2>3. /\ Fits(x) /\ x.pool = k.pool /\ x.procs = k.procs
        /\ \A q \in Reqs : q # h => x.reqs[q] = k.reqs[q]
    BY <1>1, <1>4, <2>2, BlamedFits
  <2> HIDE DEF x
  <2>4. Ready(x)
    BY <1>1, <1>4, <2>2, <2>3, SettledReady DEF h
  <2>5. ~x.pool.closed
    BY <2>2, <2>3
  <2> QED
    BY <2>1, <2>4, <2>5
<1>5. CASE h # None /\ line.kind # "junk" /\ line.id # IdOf(w, h)
  BY <1>5 DEF OnLine
<1>6. CASE h # None /\ line.kind # "junk" /\ line.id = IdOf(w, h)
  <2> DEFINE k == Vacate(w, s)
             x == Answered(k, h, line)
  <2>1. OnLine(w, s, line, TRUE) = Pump(x)
    BY <1>6 DEF OnLine
  <2>2. /\ FitsBut(k, h) /\ k.procs = w.procs
        /\ k.pool.queue = w.pool.queue /\ k.pool.closed = w.pool.closed
        /\ \A t \in Slots : k.pool.slots[t].current = IF t = s THEN None ELSE w.pool.slots[t].current
        /\ \A r \in Reqs : /\ k.reqs[r].bad = w.reqs[r].bad
                           /\ k.reqs[r].attempts = w.reqs[r].attempts
    BY VacateFits
  <2> HIDE DEF k, h
  <2>3. line.id.req = h /\ h \in Reqs
    BY <1>1, <1>6 DEF IdOf
  <2>4. /\ Fits(x) /\ x.pool = k.pool /\ x.procs = k.procs
        /\ \A q \in Reqs : q # h => x.reqs[q] = k.reqs[q]
    BY <2>2, <2>3, AnsweredFits
  <2> HIDE DEF x
  <2>5. Free(k) = Free(w)
    BY <2>2 DEF Free
  <2>6. Ready(x)
    BY <2>2, <2>3, <2>4, <2>5, SettledReady DEF h
  <2>7. ~x.pool.closed
    BY <2>2, <2>4
  <2> QED
    BY <2>1, <2>6, <2>7
<1> QED
  BY <1>3, <1>4, <1>5, <1>6

\* A handler that changes nothing that matters here.
LEMMA HeardKeeps ==
    ASSUME IInv, NEW fails \in BOOLEAN, NEW v \in Worlds, Heard(World(fails), v),
           Become(v), closing' = closing
    PROVE  IInv'
<1> DEFINE w == World(fails)
<1>1. /\ Fits(w) /\ TurnsFit(w) /\ Quiet(w)
      /\ w.pool = pool /\ w.reqs = reqs /\ w.procs = procs
  BY WorldOfState
<1> HIDE DEF w
<1>2. Fits(v) /\ TurnsFit(v) /\ Quiet(v)
  BY <1>1, HeardFits DEF w
<1>3. Fits(World(FALSE)') /\ TurnsFit(World(FALSE)') /\ Quiet(World(FALSE)')
  BY <1>2, Becomes
<1>4. ClosingFits'
  BY <1>1, ClosingStays DEF IInv, Become, Heard, w
<1> QED
  BY <1>3, <1>4 DEF IInv

\* onLine() keeps the invariant.
LEMMA LineKeeps ==
    ASSUME IInv, NEW p \in Procs, NEW fails \in BOOLEAN, LineArrives(p, fails)
    PROVE  IInv'
<1> DEFINE w == World(fails)
           s == procs[p].slot
           x == [w.procs[p] EXCEPT !.out = Tail(@)]
           read == [w EXCEPT !.procs[p] = x]
           y == [read.pool.slots[s] EXCEPT !.buffer = None]
           g == [read EXCEPT !.pool.slots[s] = y]
           line == Head(procs[p].out)
           intact == pool.slots[s].buffer \in {p, None}
<1>1. /\ Fits(w) /\ TurnsFit(w) /\ Quiet(w) /\ w \in Worlds
      /\ w.pool = pool /\ w.reqs = reqs /\ w.procs = procs
      /\ \A ending : IdsLeft(ending) <=>
             Cardinality(Free(w) \cup ending) > Cardinality(BadQueued(w))
  BY WorldOfState
<1>2. /\ procs[p].out # <<>> /\ IdsLeft({}) /\ closing' = closing
      /\ Become(IF Attached(p)
                THEN OnLine([[w EXCEPT !.procs[p].out = Tail(@)] EXCEPT !.pool.slots[s].buffer = None],
                            s, line, intact)
                ELSE [w EXCEPT !.procs[p].out = Tail(@)])
  BY DEF LineArrives
<1> HIDE DEF w
<1>3. /\ w.procs[p] \in Processes /\ s \in Slots /\ procs[p].out \in Seq(Lines)
      /\ w.procs \in [Procs -> Processes]
  BY <1>1, WorldTyped
<1>4. line \in Lines /\ Tail(procs[p].out) \in Seq(Lines)
  BY <1>2, <1>3, HeadTailProperties
<1>5. /\ x \in Processes /\ x.state = procs[p].state /\ x.slot = s /\ x.stdin = procs[p].stdin
  BY <1>1, <1>3, <1>4 DEF Processes
<1>6. [w EXCEPT !.procs[p].out = Tail(@)] = read
  BY <1>1, <1>3 DEF Worlds
<1> HIDE DEF x, line
<1>7. /\ read \in Worlds /\ read.pool = pool /\ read.reqs = reqs
      /\ \A q \in Procs : read.procs[q] = IF q = p THEN x ELSE procs[q]
  BY <1>1, <1>5, PutProc
<1> HIDE DEF read
<1>8. /\ read.pool.slots[s] \in SlotRecords /\ read.pool \in Pools
      /\ read.pool.slots \in [Slots -> SlotRecords]
  BY <1>3, <1>7, WorldTyped
<1>9. /\ y \in SlotRecords /\ y.buffer = None /\ y.proc = pool.slots[s].proc
      /\ y.current = pool.slots[s].current /\ y.settled = pool.slots[s].settled
  BY <1>7, <1>8 DEF SlotRecords
<1>10. [read EXCEPT !.pool.slots[s].buffer = None] = g
  <2> HIDE DEF s
  <2> QED
    BY <1>7, <1>8 DEF Worlds, Pools
<1> HIDE DEF s, y, g
<1>11. /\ g \in Worlds /\ g.reqs = reqs /\ g.procs = read.procs
       /\ g.pool.queue = pool.queue /\ g.pool.closed = pool.closed
       /\ \A t \in Slots : g.pool.slots[t] = IF t = s THEN y ELSE pool.slots[t]
  <2>1. s \in Slots /\ y \in SlotRecords /\ read \in Worlds
    BY <1>3, <1>7, <1>9 DEF s
  <2>2. /\ g \in Worlds /\ g.reqs = read.reqs /\ g.procs = read.procs
        /\ g.pool.queue = read.pool.queue /\ g.pool.closed = read.pool.closed
        /\ \A t \in Slots : g.pool.slots[t] = IF t = s THEN y ELSE read.pool.slots[t]
    BY <2>1, PutSlot DEF g
  <2> QED
    BY <2>2, <1>7
<1>12. \A q \in Procs : /\ read.procs[q].state = procs[q].state
                        /\ read.procs[q].slot = procs[q].slot
                        /\ \A i \in DOMAIN read.procs[q].stdin :
                              \E j \in DOMAIN procs[q].stdin :
                                 read.procs[q].stdin[i] = procs[q].stdin[j]
  BY <1>5, <1>7 DEF s
<1>13. \A t \in Slots : /\ g.pool.slots[t].proc = pool.slots[t].proc
                        /\ g.pool.slots[t].current = pool.slots[t].current
                        /\ g.pool.slots[t].settled = pool.slots[t].settled
                        /\ g.pool.slots[t].buffer \in {None, pool.slots[t].buffer}
  BY <1>9, <1>11
<1>14. Heard(w, read) /\ Heard(w, g)
  BY <1>1, <1>7, <1>11, <1>12, <1>13 DEF Heard
<1>15. CASE ~Attached(p)
  <2>1. Become(read)
    BY <1>2, <1>6, <1>15
  <2> QED
    BY <2>1, <1>2, <1>7, <1>14, HeardKeeps DEF w
<1>16. CASE Attached(p)
  <2>1. pool.slots[s].proc = p /\ p # None
    BY <1>16, NoneIsNothing DEF Attached, s
  <2>2. intact = TRUE
    BY <2>1, <1>1, <1>3 DEF Fits, FitsBut, ProcFits
  <2>3. Become(OnLine(g, s, line, TRUE))
    BY <1>2, <1>6, <1>10, <1>16, <2>2
  <2>4. /\ Fits(g) /\ TurnsFit(g) /\ Quiet(g) /\ Free(g) = Free(w)
    BY <1>1, <1>11, <1>14, HeardFits
  <2>5. ~pool.closed
    BY <2>1, <1>1, <1>3 DEF Fits, FitsBut, Sound, ClosedFits
  <2>6. Cardinality(Free(g)) > Cardinality(BadQueued(g))
    <3>1. Free(w) \cup {} = Free(w) /\ BadQueued(g) = BadQueued(w)
      BY <1>1, <1>11 DEF BadQueued
    <3> QED
      BY <3>1, <2>4, <1>1, <1>2
  <2>7. \/ OnLine(g, s, line, TRUE) = g
        \/ \E z : OnLine(g, s, line, TRUE) = Pump(z) /\ Ready(z) /\ ~z.pool.closed
    BY <2>1, <2>4, <2>5, <2>6, <1>3, <1>4, <1>11, <1>13, OnLineDoes
  <2>8. CASE OnLine(g, s, line, TRUE) = g
    <3>1. Become(g)
      BY <2>3, <2>8
    <3> QED
      BY <3>1, <1>2, <1>11, <1>14, HeardKeeps DEF w
  <2>9. CASE \E z : OnLine(g, s, line, TRUE) = Pump(z) /\ Ready(z) /\ ~z.pool.closed
    <3>1. PICK z : OnLine(g, s, line, TRUE) = Pump(z) /\ Ready(z) /\ ~z.pool.closed
      BY <2>9
    <3>2. Become(Pump(z))
      BY <2>3, <3>1
    <3> QED
      BY <3>1, <3>2, <2>5, <1>2, PumpedKeeps DEF IInv, ClosingFits
  <2> QED
    BY <2>7, <2>8, <2>9
<1> QED
  BY <1>15, <1>16

\* A worker that answers keeps the invariant.
LEMMA AnswerKeeps ==
    ASSUME IInv, NEW p \in Procs, NEW kind \in LineKinds, NEW keep \in BOOLEAN, Answer(p, kind, keep)
    PROVE  IInv'
<1> DEFINE w == World(FALSE)
           ids == w.procs[p].stdin
           out == Append(w.procs[p].out, [id |-> Head(ids), kind |-> kind])
           x == [w.procs[p] EXCEPT !.stdin = IF keep THEN @ ELSE Tail(@), !.out = out]
           v == [w EXCEPT !.procs[p] = x]
<1>1. w \in Worlds /\ w.pool = pool /\ w.reqs = reqs /\ w.procs = procs
  BY WorldOfState
<1>2. /\ procs[p].stdin # <<>> /\ UNCHANGED <<pool, reqs, closing>>
      /\ procs' = [procs EXCEPT ![p].stdin = IF keep THEN @ ELSE Tail(@),
                                ![p].out = Append(@, [id |-> Head(procs[p].stdin), kind |-> kind])]
  BY DEF Answer
<1> HIDE DEF w
<1>3. w.procs[p] \in Processes /\ ids \in Seq(Ids) /\ w.procs[p].out \in Seq(Lines)
      /\ procs \in [Procs -> Processes]
  BY <1>1, WorldTyped
<1>4. procs' = [procs EXCEPT ![p] = x]
  BY <1>1, <1>2, <1>3 DEF Processes
<1> HIDE DEF ids
<1>5. Head(ids) \in Ids /\ Tail(ids) \in Seq(Ids) /\ DOMAIN ids = 1..Len(ids) /\ Len(ids) \in Nat
      /\ DOMAIN Tail(ids) = 1..(Len(ids) - 1)
      /\ \A i \in 1..(Len(ids) - 1) : Tail(ids)[i] = ids[i + 1]
  <2>1. ids # <<>>
    BY <1>1, <1>2 DEF ids
  <2>2. Head(ids) \in Ids /\ Tail(ids) \in Seq(Ids) /\ Len(Tail(ids)) = Len(ids) - 1
        /\ \A i \in 1..Len(Tail(ids)) : Tail(ids)[i] = ids[i + 1]
    BY <2>1, <1>3, HeadTailProperties
  <2> QED
    BY <2>2, <1>3, LenProperties
<1>6. out \in Seq(Lines)
  <2>1. [id |-> Head(ids), kind |-> kind] \in Lines
    BY <1>5 DEF Lines
  <2> QED
    BY <2>1, <1>3, AppendProperties
<1>7. /\ x \in Processes /\ x.state = w.procs[p].state /\ x.slot = w.procs[p].slot
      /\ x.stdin = IF keep THEN ids ELSE Tail(ids)
  <2>1. (IF keep THEN ids ELSE Tail(ids)) \in Seq(Ids)
    BY <1>3, <1>5
  <2> HIDE DEF out
  <2>2. x = [w.procs[p] EXCEPT !.stdin = IF keep THEN ids ELSE Tail(ids), !.out = out]
    BY DEF ids
  <2> QED
    BY <2>1, <2>2, <1>3, <1>6 DEF Processes
<1>8. \A i \in DOMAIN x.stdin : \E j \in DOMAIN ids : x.stdin[i] = ids[j]
  <2>1. \A i \in DOMAIN Tail(ids) : i + 1 \in DOMAIN ids /\ Tail(ids)[i] = ids[i + 1]
    BY <1>5
  <2> HIDE DEF x
  <2> QED
    BY <2>1, <1>7
<1> HIDE DEF x
<1>9. /\ v \in Worlds /\ v.pool = pool /\ v.reqs = reqs
      /\ v.procs = [procs EXCEPT ![p] = x]
      /\ \A q \in Procs : v.procs[q] = IF q = p THEN x ELSE procs[q]
  BY <1>1, <1>7, PutProc
<1> HIDE DEF v
<1>10. Heard(w, v)
  <2>1. \A q \in Procs : /\ v.procs[q].state = w.procs[q].state
                         /\ v.procs[q].slot = w.procs[q].slot
                         /\ \A i \in DOMAIN v.procs[q].stdin :
                               \E j \in DOMAIN w.procs[q].stdin :
                                  v.procs[q].stdin[i] = w.procs[q].stdin[j]
    <3> TAKE q \in Procs
    <3>1. CASE q = p
      <4>1. v.procs[q] = x /\ w.procs[q].stdin = ids
        BY <3>1, <1>9 DEF ids
      <4> QED
        BY <4>1, <3>1, <1>7, <1>8
    <3>2. CASE q # p
      <4>1. v.procs[q] = w.procs[q]
        BY <3>2, <1>1, <1>9
      <4> QED
        BY <4>1
    <3> QED
      BY <3>1, <3>2
  <2> QED
    BY <2>1, <1>1, <1>9 DEF Heard
<1>11. Become(v)
  BY <1>2, <1>4, <1>9 DEF Become
<1> QED
  BY <1>2, <1>9, <1>10, <1>11, HeardKeeps DEF w

\* Half a line that arrives keeps the invariant.
LEMMA PartKeeps ==
    ASSUME IInv, NEW p \in Procs, PartArrives(p)
    PROVE  IInv'
<1> DEFINE w == World(FALSE)
           s == procs[p].slot
           x == [w.pool.slots[s] EXCEPT !.buffer = p]
           v == [w EXCEPT !.pool.slots[s] = x]
<1>1. w \in Worlds /\ w.pool = pool /\ w.reqs = reqs /\ w.procs = procs
  BY WorldOfState
<1>2. pool.slots[s].proc = p /\ pool' = [pool EXCEPT !.slots[s].buffer = p]
      /\ UNCHANGED <<reqs, procs, closing>>
  BY DEF PartArrives, Attached
<1> HIDE DEF w
<1>3. s \in Slots /\ w.pool.slots[s] \in SlotRecords /\ w.pool \in Pools
      /\ w.pool.slots \in [Slots -> SlotRecords]
  BY <1>1, WorldTyped
<1> HIDE DEF s
<1>4. x \in SlotRecords /\ x.buffer = p /\ x.proc = w.pool.slots[s].proc
      /\ x.current = w.pool.slots[s].current /\ x.settled = w.pool.slots[s].settled
  BY <1>3 DEF SlotRecords
<1>5. /\ v \in Worlds /\ v.reqs = w.reqs /\ v.procs = w.procs
      /\ v.pool.queue = w.pool.queue /\ v.pool.closed = w.pool.closed
      /\ \A t \in Slots : v.pool.slots[t] = IF t = s THEN x ELSE w.pool.slots[t]
  BY <1>1, <1>3, <1>4, PutSlot, SMTT(40)
<1>6. v.pool = [pool EXCEPT !.slots[s].buffer = p]
  BY <1>1, <1>3 DEF Pools, Worlds
<1> HIDE DEF x, v
<1>7. Become(v)
  BY <1>1, <1>2, <1>5, <1>6 DEF Become
<1>8. Heard(w, v)
  BY <1>1, <1>2, <1>4, <1>5 DEF Heard
<1> QED
  BY <1>2, <1>5, <1>7, <1>8, HeardKeeps DEF w

\* A process's exit or error event keeps the invariant.
LEMMA EndKeeps ==
    ASSUME IInv, NEW p \in Procs, NEW fails \in BOOLEAN, ProcessEnds(p, fails)
    PROVE  IInv'
<1> DEFINE w == World(fails)
           s == procs[p].slot
           g == Gone(w, p)
           h == g.pool.slots[s].current
           k == Detach(Vacate(g, s), s)
           x == IF h = None THEN k ELSE Reject(k, h, "crash")
<1>1. /\ Fits(w) /\ TurnsFit(w) /\ Quiet(w) /\ w \in Worlds
      /\ w.pool = pool /\ w.reqs = reqs /\ w.procs = procs
      /\ \A ending : IdsLeft(ending) <=>
             Cardinality(Free(w) \cup ending) > Cardinality(BadQueued(w))
  BY WorldOfState
<1>2. /\ procs[p].state # "none" /\ (Attached(p) => IdsLeft({p}))
      /\ Become(IF Attached(p) THEN OnEnd(g, s) ELSE g)
      /\ closing' = [closing EXCEPT !.procs = @ \ {p}, !.awaits = @ \ {p}]
  BY DEF ProcessEnds
<1>3. s \in Slots
  BY <1>1, WorldTyped
<1> HIDE DEF w
<1>4. /\ Sound(g, None) /\ \A t \in Slots \ {s} : ProcFits(g, t, None)
      /\ w.pool.slots[s].proc # p => Fits(g)
      /\ g.reqs = w.reqs /\ g.pool.queue = w.pool.queue /\ g.pool.closed = w.pool.closed
      /\ \A t \in Slots : /\ g.pool.slots[t].proc = w.pool.slots[t].proc
                          /\ g.pool.slots[t].current = w.pool.slots[t].current
      /\ \A q \in Procs : q # p => g.procs[q] = w.procs[q]
      /\ Free(g) = Free(w) \cup {p}
  BY <1>1, <1>2, GoneFits
<1>5. /\ closing' \in [pc : {"open", "grace", "awaiting", "returned"},
                       procs : SUBSET Procs, awaits : SUBSET Procs]
      /\ closing'.pc = closing.pc /\ closing'.procs = closing.procs \ {p}
      /\ closing'.awaits = closing.awaits \ {p}
  BY <1>2 DEF IInv, ClosingFits
<1> HIDE DEF g
<1>6. CASE ~Attached(p)
  <2>1. Become(g) /\ w.pool.slots[s].proc # p
    BY <1>1, <1>2, <1>6 DEF Attached
  <2>2. Fits(g) /\ TurnsFit(g) /\ Quiet(g)
    <3>1. Idle(g) = Idle(w)
      BY <1>4 DEF Idle
    <3> QED
      BY <3>1, <1>1, <1>4, <2>1 DEF TurnsFit, Quiet
  <2>3. Fits(World(FALSE)') /\ TurnsFit(World(FALSE)') /\ Quiet(World(FALSE)')
    BY <2>1, <2>2, Becomes
  <2>4. pool'.closed = pool.closed /\ \A q \in Procs \ {p} : procs'[q] = procs[q]
    BY <1>1, <1>4, <2>1 DEF Become
  <2>5. ClosingFits'
    BY <1>5, <2>4 DEF IInv, ClosingFits
  <2> QED
    BY <2>3, <2>5 DEF IInv
<1>7. CASE Attached(p)
  <2>1. w.pool.slots[s].proc = p /\ p # None
    BY <1>1, <1>7, NoneIsNothing DEF Attached
  <2>2. ~pool.closed /\ ~w.pool.closed
    BY <2>1, <1>1, <1>3 DEF Fits, FitsBut, Sound, ClosedFits
  <2>3. Become(Pump(x))
    BY <1>2, <1>7 DEF OnEnd
  <2> HIDE DEF s
  <2>4. /\ FitsBut(k, h) /\ k.procs = g.procs
        /\ k.pool.queue = g.pool.queue /\ k.pool.closed = g.pool.closed
        /\ \A t \in Slots : k.pool.slots[t].current = IF t = s THEN None ELSE g.pool.slots[t].current
        /\ \A r \in Reqs : /\ k.reqs[r].bad = g.reqs[r].bad
                           /\ k.reqs[r].attempts = g.reqs[r].attempts
    BY <1>3, <1>4, LetGoFits
  <2>5. h = w.pool.slots[s].current /\ h \in Reqs \cup {None}
    BY <1>1, <1>3, <1>4, WorldTyped
  <2>6. Free(k) = Free(w) \cup {p} /\ Cardinality(Free(k)) > Cardinality(BadQueued(w))
    <3>1. Free(k) = Free(w) \cup {p}
      BY <1>4, <2>4 DEF Free
    <3> QED
      BY <3>1, <1>1, <1>2, <1>7
  <2> HIDE DEF k, h
  <2>7. \A i \in DOMAIN w.pool.queue : w.pool.queue[i] \in Reqs
    BY <1>1, WorldTyped
  <2>8. Ready(x) /\ ~x.pool.closed
    <3>1. CASE h = None
      <4>1. x = k /\ Fits(k)
        BY <2>4, <3>1 DEF Fits
      <4>2. /\ k.pool.queue = w.pool.queue /\ ~k.pool.closed
            /\ \A t \in Slots : t # s => k.pool.slots[t].current = w.pool.slots[t].current
            /\ \A i \in DOMAIN w.pool.queue :
                 /\ k.reqs[w.pool.queue[i]].attempts = w.reqs[w.pool.queue[i]].attempts
                 /\ k.reqs[w.pool.queue[i]].bad = w.reqs[w.pool.queue[i]].bad
        BY <1>4, <2>2, <2>4, <2>7
      <4>3. Ready(k)
        BY <4>1, <4>2, <1>1, <1>3, <2>6, FreedReady DEF s
      <4> QED
        BY <4>1, <4>2, <4>3
    <3>2. CASE h # None
      <4> DEFINE how == "crash"
                 v == Reject(k, h, how)
      <4>1. x = v /\ h \in Reqs
        BY <2>5, <3>2
      <4>2. how \in Ends \ {"answer", "protocol"}
        BY DEF Ends, ReqStates
      <4> HIDE DEF how, x
      <4>3. /\ Fits(v) /\ v.pool = k.pool /\ v.procs = k.procs
            /\ \A q \in Reqs : q # h => v.reqs[q] = k.reqs[q]
        BY <4>1, <4>2, <2>4, RejectFits
      <4> HIDE DEF v
      <4>4. /\ k.pool.queue = w.pool.queue /\ ~v.pool.closed
            /\ \A t \in Slots : t # s => k.pool.slots[t].current = w.pool.slots[t].current
            /\ \A q \in Reqs : k.reqs[q].bad = w.reqs[q].bad /\ k.reqs[q].attempts = w.reqs[q].attempts
        BY <1>4, <2>2, <2>4, <4>3
      <4>5. Ready(v)
        <5>1. s \in Slots /\ w.pool.slots[s].current = h /\ h \in Reqs
          BY <1>3, <2>5, <4>1 DEF s
        <5>2. Fits(w) /\ TurnsFit(w) /\ Quiet(w)
          BY <1>1
        <5>3. Cardinality(Free(k)) > Cardinality(BadQueued(w))
          BY <2>6
        <5> QED
          BY <5>1, <5>2, <5>3, <4>3, <4>4, SettledReady
      <4> QED
        BY <4>1, <4>4, <4>5
    <3> QED
      BY <3>1, <3>2
  <2> HIDE DEF x
  <2> QED
    BY <1>5, <2>2, <2>3, <2>8, PumpedKeeps
<1> QED
  BY <1>6, <1>7

\* doClose()'s first half keeps the invariant.
LEMMA CloseBeginsKeeps ==
    ASSUME IInv, CloseBegins
    PROVE  IInv'
<1> DEFINE w == World(FALSE)
           v == World(FALSE)'
           live == {pool.slots[s].proc : s \in Slots} \ {None}
           over == InFlight \cup ToSet(pool.queue)
<1>1. /\ Fits(w) /\ w \in Worlds /\ w.pool = pool /\ w.reqs = reqs /\ w.procs = procs
  BY WorldOfState
<1>2. /\ ~pool.closed
      /\ pool' = [pool EXCEPT !.closed = TRUE, !.queue = <<>>,
                              !.slots = [s \in Slots |-> [@[s] EXCEPT !.proc = None, !.current = None]]]
      /\ reqs' = [r \in Reqs |-> IF r \in over THEN [NoReq EXCEPT !.state = "closed"] ELSE reqs[r]]
      /\ procs' = [p \in Procs |-> IF p \in live /\ procs[p].state # "none"
                                   THEN [procs[p] EXCEPT !.state = "termed", !.stdin = <<>>]
                                   ELSE procs[p]]
      /\ closing' = [pc |-> "grace", procs |-> live,
                     awaits |-> {pool.slots[s].settled : s \in Slots} \ {None}]
  BY DEF CloseBegins
<1>3. /\ v.pool = pool' /\ v.reqs = reqs' /\ v.procs = procs'
      /\ v = [pool |-> pool', reqs |-> reqs', procs |-> procs', fails |-> FALSE]
  BY DEF World
<1> HIDE DEF w
<1>4. /\ pool \in Pools /\ pool.slots \in [Slots -> SlotRecords]
      /\ reqs \in [Reqs -> Requests] /\ procs \in [Procs -> Processes]
      /\ \A s \in Slots : /\ pool.slots[s] \in SlotRecords
                          /\ pool.slots[s].proc \in Procs \cup {None}
                          /\ pool.slots[s].current \in Reqs \cup {None}
                          /\ pool.slots[s].settled \in Procs \cup {None}
      /\ \A p \in Procs : procs[p].state \in ProcStates
      /\ \A r \in Reqs : reqs[r].timer \in Slots \cup {None}
      /\ \A i \in DOMAIN pool.queue : pool.queue[i] \in Reqs
  BY <1>1, WorldTyped
<1>5. /\ pool' \in Pools /\ pool'.queue = <<>> /\ pool'.closed
      /\ \A s \in Slots : /\ pool'.slots[s].proc = None /\ pool'.slots[s].current = None
                          /\ pool'.slots[s].settled = pool.slots[s].settled
  <2> DEFINE cleared == [s \in Slots |-> [pool.slots[s] EXCEPT !.proc = None, !.current = None]]
  <2>1. pool' = [pool EXCEPT !.closed = TRUE, !.queue = <<>>, !.slots = cleared]
    BY <1>2
  <2>2. \A s \in Slots : /\ cleared[s] \in SlotRecords
                         /\ cleared[s].proc = None /\ cleared[s].current = None
                         /\ cleared[s].settled = pool.slots[s].settled
    BY <1>4 DEF SlotRecords
  <2>3. cleared \in [Slots -> SlotRecords]
    BY <2>2
  <2>4. <<>> \in Seq(Reqs)
    OBVIOUS
  <2> HIDE DEF cleared
  <2> QED
    BY <2>1, <2>2, <2>3, <2>4, <1>4 DEF Pools
<1>6. reqs' \in [Reqs -> Requests]
      /\ \A r \in Reqs : IF r \in over THEN reqs'[r].state = "closed" /\ reqs'[r].timer = None
                         ELSE reqs'[r] = reqs[r]
  <2> DEFINE x == [NoReq EXCEPT !.state = "closed"]
  <2>1. x \in Requests /\ x.state = "closed" /\ x.timer = None
    BY NoReqTyped DEF Requests, ReqStates
  <2> HIDE DEF x, over
  <2>2. reqs' = [r \in Reqs |-> IF r \in over THEN x ELSE reqs[r]]
    BY <1>2 DEF x
  <2> QED
    BY <2>1, <2>2, <1>4
<1>7. procs' \in [Procs -> Processes]
      /\ \A p \in Procs : /\ procs'[p].slot = procs[p].slot
                          /\ procs'[p].state = IF p \in live /\ procs[p].state # "none"
                                               THEN "termed" ELSE procs[p].state
  <2> HIDE DEF live
  <2>1. <<>> \in Seq(Ids)
    OBVIOUS
  <2>2. \A p \in Procs : LET x == [procs[p] EXCEPT !.state = "termed", !.stdin = <<>>]
                         IN  x \in Processes /\ x.state = "termed" /\ x.slot = procs[p].slot
    BY <2>1, <1>4 DEF Processes, ProcStates
  <2> QED
    BY <2>2, <1>2, <1>4
<1> HIDE DEF v, over
<1>8. v \in Worlds
  BY <1>3, <1>5, <1>6, <1>7 DEF Worlds
<1>9. \A r \in Reqs : reqs[r].state = "open" => r \in over
  <2> SUFFICES ASSUME NEW r \in Reqs, reqs[r].state = "open"
               PROVE  r \in over
    OBVIOUS
  <2>1. Queued(w, r) \/ InFlightIn(w, r)
    BY <1>1, NoneIsNothing DEF Fits, FitsBut, Sound, OpenFits
  <2>2. CASE Queued(w, r)
    BY <2>2, <1>1 DEF Queued, ToSet, over
  <2>3. CASE InFlightIn(w, r)
    BY <2>3, <1>1, NoneIsNothing DEF InFlightIn, Serves, InFlight, over
  <2> QED
    BY <2>1, <2>2, <2>3
<1>10. \A r \in Reqs : reqs[r].timer # None => r \in over
  <2> SUFFICES ASSUME NEW r \in Reqs, reqs[r].timer # None
               PROVE  r \in over
    OBVIOUS
  <2>1. reqs[r].timer \in Slots /\ pool.slots[reqs[r].timer].current = r
    BY <1>1, <1>4 DEF Fits, FitsBut, Sound, FlightFits, Serves
  <2> QED
    BY <2>1, NoneIsNothing DEF InFlight, over
<1>11. DOMAIN <<>> = {}
  OBVIOUS
<1>12. QueueFits(v) /\ TurnsFit(v) /\ Quiet(v)
  <2>1. ~(Len(<<>>) > 1)
    OBVIOUS
  <2> QED
    BY <2>1, <1>3, <1>5, <1>11 DEF QueueFits, TurnsFit, Quiet
<1>13. FlightFits(v)
  BY <1>3, <1>5, <1>6, <1>10 DEF FlightFits
<1>14. OpenFits(v, None) /\ HandFits(v, None)
  BY <1>3, <1>6, <1>9 DEF OpenFits, HandFits
<1>15. ASSUME NEW s \in Slots
       PROVE  SettledFits(v, s) /\ ProcFits(v, s, None)
  <2> DEFINE p == pool.slots[s].settled
  <2>1. p # None => p \in Procs /\ procs[p].state # "none" /\ procs[p].slot = s
    BY <1>1, <1>4 DEF Fits, FitsBut, Sound, SettledFits
  <2>2. v.pool.slots[s].settled = p /\ v.pool.slots[s].proc = None
    BY <1>3, <1>5
  <2> HIDE DEF live, p
  <2>3. p # None => procs'[p].state # "none" /\ procs'[p].slot = s
    BY <2>1, <1>7
  <2> QED
    BY <2>2, <2>3, <1>3 DEF SettledFits, ProcFits
<1>16. ClosedFits(v)
  BY <1>3, <1>5 DEF ClosedFits
<1>17. RecordsFit(v)
  BY <1>1, <1>3, <1>6 DEF Fits, FitsBut, Sound, RecordsFit
<1>18. ClosingFits'
  <2>1. live \subseteq Procs /\ {pool.slots[s].settled : s \in Slots} \ {None} \subseteq Procs
    BY <1>4
  <2>2. /\ closing' \in [pc : {"open", "grace", "awaiting", "returned"},
                         procs : SUBSET Procs, awaits : SUBSET Procs]
        /\ closing'.pc = "grace" /\ closing'.procs = live
        /\ closing'.awaits = {pool.slots[s].settled : s \in Slots} \ {None}
    BY <1>2, <2>1
  <2>3. ASSUME NEW p \in closing'.awaits
        PROVE  \/ procs'[p].state \in {"doomed", "running"}
               \/ procs'[p].state = "termed" /\ p \in closing'.procs
    <3>1. p \in Procs /\ \E s \in Slots : p = pool.slots[s].settled /\ p # None
      BY <2>1, <2>2
    <3>2. procs[p].state # "none"
      BY <3>1, <1>1 DEF Fits, FitsBut, Sound, SettledFits
    <3>3. procs[p].state # "termed"
      BY <3>1, <1>1, <1>2 DEF Fits, FitsBut, Sound, ClosedFits
    <3>4. procs[p].state \in {"running", "doomed"}
      BY <3>1, <3>2, <3>3, <1>4 DEF ProcStates
    <3> HIDE DEF live
    <3> QED
      BY <3>1, <3>4, <2>2, <1>7
  <2> QED
    BY <2>2, <2>3, <1>5 DEF ClosingFits
<1>19. Fits(v)
  BY <1>8, <1>12, <1>13, <1>14, <1>15, <1>16, <1>17 DEF Fits, FitsBut, Sound
<1> QED
  BY <1>12, <1>18, <1>19 DEF IInv, v

\* The end of close()'s grace period keeps the invariant.
LEMMA GraceKeeps ==
    ASSUME IInv, GraceElapses
    PROVE  IInv'
<1> DEFINE w == World(FALSE)
           v == World(FALSE)'
<1>1. /\ Fits(w) /\ TurnsFit(w) /\ Quiet(w) /\ w \in Worlds
      /\ w.pool = pool /\ w.reqs = reqs /\ w.procs = procs
  BY WorldOfState
<1>2. /\ closing.pc = "grace" /\ UNCHANGED <<pool, reqs>>
      /\ procs' = [p \in Procs |-> IF p \in closing.procs /\ procs[p].state = "termed"
                                   THEN [procs[p] EXCEPT !.state = "doomed"] ELSE procs[p]]
      /\ closing' = [closing EXCEPT !.pc = "awaiting"]
  BY DEF GraceElapses
<1>3. /\ v.pool = pool /\ v.reqs = reqs /\ v.procs = procs'
      /\ v = [pool |-> pool, reqs |-> reqs, procs |-> procs', fails |-> FALSE]
  BY <1>2 DEF World
<1> HIDE DEF w, v
<1>4. procs \in [Procs -> Processes]
  BY <1>1, WorldTyped
<1>5. /\ procs' \in [Procs -> Processes]
      /\ \A p \in Procs : /\ procs'[p].slot = procs[p].slot
                          /\ procs'[p].state = IF p \in closing.procs /\ procs[p].state = "termed"
                                               THEN "doomed" ELSE procs[p].state
  <2>1. \A p \in Procs : LET x == [procs[p] EXCEPT !.state = "doomed"]
                         IN  x \in Processes /\ x.state = "doomed" /\ x.slot = procs[p].slot
    BY <1>4 DEF Processes, ProcStates
  <2> QED
    BY <2>1, <1>2, <1>4
<1>6. v \in Worlds
  BY <1>1, <1>3, <1>5 DEF Worlds
<1>7. pool.closed
  BY <1>2 DEF IInv, ClosingFits
<1>8. QueueFits(v) /\ FlightFits(v) /\ OpenFits(v, None) /\ HandFits(v, None) /\ RecordsFit(v)
  BY <1>1, <1>3, SameRequests DEF Fits, FitsBut, Sound
<1>9. \A s \in Slots : SettledFits(v, s)
  <2>1. \A s \in Slots : SettledFits(w, s) /\ pool.slots[s].settled \in Procs \cup {None}
    BY <1>1, WorldTyped DEF Fits, FitsBut, Sound
  <2> QED
    BY <2>1, <1>1, <1>3, <1>5 DEF SettledFits
<1>10. ClosedFits(v)
  BY <1>1, <1>3, <1>7 DEF Fits, FitsBut, Sound, ClosedFits
<1>11. \A s \in Slots : ProcFits(v, s, None)
  BY <1>3, <1>7, <1>10 DEF ClosedFits, ProcFits
<1>12. TurnsFit(v) /\ Quiet(v)
  BY <1>1, <1>3 DEF TurnsFit, Quiet, Idle
<1>13. ClosingFits'
  <2>1. closing \in [pc : {"open", "grace", "awaiting", "returned"},
                     procs : SUBSET Procs, awaits : SUBSET Procs]
    BY DEF IInv, ClosingFits
  <2>2. /\ closing' \in [pc : {"open", "grace", "awaiting", "returned"},
                         procs : SUBSET Procs, awaits : SUBSET Procs]
        /\ closing'.pc = "awaiting" /\ closing'.awaits = closing.awaits
    BY <2>1, <1>2
  <2>3. \A p \in closing.awaits : procs'[p].state \in {"doomed", "running"}
    BY <2>1, <1>2, <1>5 DEF IInv, ClosingFits
  <2> QED
    BY <2>2, <2>3, <1>2, <1>7 DEF ClosingFits
<1> QED
  BY <1>6, <1>8, <1>9, <1>10, <1>11, <1>12, <1>13 DEF IInv, Fits, FitsBut, Sound, v

\* Every step keeps the invariant.
LEMMA StepKeeps ==
    ASSUME IInv, [Next]_vars
    PROVE  IInv'
<1>1. ASSUME NEW r \in Reqs, NEW bad \in BOOLEAN, NEW fails \in BOOLEAN, Request(r, bad, fails)
      PROVE  IInv'
  BY <1>1, RequestKeeps
<1>2. ASSUME NEW p \in Procs, NEW kind \in LineKinds, NEW keep \in BOOLEAN, Answer(p, kind, keep)
      PROVE  IInv'
  BY <1>2, AnswerKeeps
<1>3. ASSUME NEW p \in Procs, PartArrives(p)
      PROVE  IInv'
  BY <1>3, PartKeeps
<1>4. ASSUME NEW p \in Procs, NEW fails \in BOOLEAN, LineArrives(p, fails)
      PROVE  IInv'
  BY <1>4, LineKeeps
<1>5. ASSUME NEW r \in Reqs, NEW fails \in BOOLEAN, TimerFires(r, fails)
      PROVE  IInv'
  BY <1>5, TimerKeeps
<1>6. ASSUME NEW p \in Procs, NEW fails \in BOOLEAN, ProcessEnds(p, fails)
      PROVE  IInv'
  BY <1>6, EndKeeps
<1>7. CASE CloseBegins
  BY <1>7, CloseBeginsKeeps
<1>8. CASE GraceElapses
  BY <1>8, GraceKeeps
<1>9. CASE CloseReturns
  <2>1. World(FALSE)' = World(FALSE)
    BY <1>9 DEF CloseReturns, World
  <2>2. ClosingFits'
    BY <1>9 DEF CloseReturns, IInv, ClosingFits
  <2> QED
    BY <2>1, <2>2 DEF IInv
<1>10. CASE UNCHANGED vars
  <2>1. World(FALSE)' = World(FALSE)
    BY <1>10 DEF vars, World
  <2>2. ClosingFits'
    BY <1>10 DEF vars, IInv, ClosingFits
  <2> QED
    BY <2>1, <2>2 DEF IInv
<1> QED
  BY <1>1, <1>2, <1>3, <1>4, <1>5, <1>6, <1>7, <1>8, <1>9, <1>10 DEF Next

\* The pool begins as the invariant says.
LEMMA BeginsFit ==
    ASSUME Init
    PROVE  IInv
<1> DEFINE w == World(FALSE)
<1>1. w.pool = pool /\ w.reqs = reqs /\ w.procs = procs
      /\ w = [pool |-> pool, reqs |-> reqs, procs |-> procs, fails |-> FALSE]
  BY DEF World
<1>2. pool.queue = <<>> /\ ~pool.closed /\ pool \in Pools
      /\ \A s \in Slots : /\ pool.slots[s].proc = s /\ pool.slots[s].current = None
                          /\ pool.slots[s].buffer = None /\ pool.slots[s].settled = s
  <2> DEFINE x == [s \in Slots |-> [proc |-> s, current |-> None, buffer |-> None, settled |-> s]]
  <2>1. x \in [Slots -> SlotRecords]
    BY NoneIsNothing DEF SlotRecords
  <2>2. <<>> \in Seq(Reqs)
    OBVIOUS
  <2>3. pool = [queue |-> <<>>, closed |-> FALSE, slots |-> x]
    BY DEF Init
  <2>4. \A s \in Slots : /\ x[s].proc = s /\ x[s].current = None
                         /\ x[s].buffer = None /\ x[s].settled = s
    OBVIOUS
  <2> HIDE DEF x
  <2> QED
    BY <2>1, <2>2, <2>3, <2>4 DEF Pools
<1>3. reqs \in [Reqs -> Requests] /\ \A r \in Reqs : reqs[r] = NoReq
  BY NoReqTyped DEF Init
<1>4. procs \in [Procs -> Processes]
      /\ \A p \in Procs : procs[p].stdin = <<>> /\ procs[p].state \in {"none", "running"}
      /\ \A s \in Slots : procs[s].state = "running" /\ procs[s].slot = s
  <2>1. <<>> \in Seq(Ids) /\ <<>> \in Seq(Lines)
    OBVIOUS
  <2>2. 1 \in Slots
    BY PoolSizeAssumption DEF Slots
  <2>3. NoProc \in Processes /\ NoProc.stdin = <<>> /\ NoProc.state = "none"
    BY <2>1, <2>2 DEF NoProc, Processes, ProcStates
  <2>4. \A s \in Slots : LET x == [NoProc EXCEPT !.state = "running", !.slot = s]
                         IN x \in Processes /\ x.state = "running" /\ x.slot = s /\ x.stdin = <<>>
    BY <2>3 DEF Processes, ProcStates
  <2> QED
    BY <2>3, <2>4, NoneIsNothing DEF Init
<1> HIDE DEF w
<1>5. w \in Worlds
  BY <1>1, <1>2, <1>3, <1>4 DEF Worlds
<1>6. DOMAIN <<>> = {} /\ ~(Len(<<>>) > 1)
  OBVIOUS
<1>7. QueueFits(w) /\ TurnsFit(w) /\ Quiet(w)
  BY <1>1, <1>2, <1>6 DEF QueueFits, TurnsFit, Quiet
<1>8. FlightFits(w) /\ OpenFits(w, None) /\ HandFits(w, None) /\ RecordsFit(w)
  BY <1>1, <1>2, <1>3, NoReqTyped DEF FlightFits, OpenFits, HandFits, RecordsFit
<1>9. ASSUME NEW s \in Slots
      PROVE  SettledFits(w, s) /\ ProcFits(w, s, None)
  <2>1. s \in Procs /\ procs[s].state = "running" /\ procs[s].slot = s /\ procs[s].stdin = <<>>
    BY <1>4, NoneIsNothing
  <2>2. /\ w.pool.slots[s].proc = s /\ w.pool.slots[s].settled = s /\ w.pool.slots[s].buffer = None
        /\ w.procs = procs
    BY <1>1, <1>2
  <2> QED
    BY <2>1, <2>2, <1>6 DEF SettledFits, ProcFits
<1>10. ClosedFits(w)
  BY <1>1, <1>2, <1>4 DEF ClosedFits
<1>11. ClosingFits
  BY <1>2 DEF Init, ClosingFits
<1> QED
  BY <1>5, <1>7, <1>8, <1>9, <1>10, <1>11 DEF IInv, Fits, FitsBut, Sound, w

-----------------------------------------------------------------------------
(* What follows.                                                           *)

\* The invariant holds of every reachable state.
LEMMA InvariantHolds == Spec => []IInv
<1>1. Init => IInv
  BY BeginsFit
<1>2. IInv /\ [Next]_vars => IInv'
  BY StepKeeps
<1> QED
  BY <1>1, <1>2, PTL DEF Spec

\* The invariant counts one place for each open request and none for the others.
LEMMA OnePlace ==
    ASSUME IInv
    PROVE  EachRequestHasOnePlace
<1> DEFINE w == World(FALSE)
           waits(r) == {i \in DOMAIN pool.queue : pool.queue[i] = r}
           serving(r) == {s \in Slots : pool.slots[s].current = r /\ reqs[r].timer = s}
<1>1. Fits(w) /\ w \in Worlds /\ w.pool = pool /\ w.reqs = reqs
  BY WorldOfState
<1> HIDE DEF w
<1>2. \A i, j \in DOMAIN pool.queue : pool.queue[i] = pool.queue[j] => i = j
  BY <1>1 DEF Fits, FitsBut, Sound, QueueFits
<1>3. \A i \in DOMAIN pool.queue :
         /\ reqs[pool.queue[i]].state = "open"
         /\ \A s \in Slots : pool.slots[s].current # pool.queue[i]
  BY <1>1 DEF Fits, FitsBut, Sound, QueueFits, InFlightIn, Serves
<1>4. \A s \in Slots : pool.slots[s].current # None =>
         /\ reqs[pool.slots[s].current].state = "open"
         /\ reqs[pool.slots[s].current].timer = s
  BY <1>1 DEF Fits, FitsBut, Sound, FlightFits
<1>5. \A x : Cardinality({x}) = 1
  BY FS_Singleton
<1>6. Cardinality({}) = 0
  BY FS_EmptySet
<1> SUFFICES ASSUME NEW r \in Reqs
             PROVE  /\ Places(r) = IF reqs[r].state = "open" THEN 1 ELSE 0
                    /\ r \in InFlight => reqs[r].timer # None
  BY DEF EachRequestHasOnePlace
<1>7. r # None
  BY NoneIsNothing
<1>8. Places(r) = Cardinality(waits(r)) + Cardinality(serving(r))
  BY DEF Places
<1>9. Places(r) = IF reqs[r].state = "open" THEN 1 ELSE 0
  <2>1. CASE \E i \in DOMAIN pool.queue : pool.queue[i] = r
    <3>1. PICK i \in DOMAIN pool.queue : pool.queue[i] = r
      BY <2>1
    <3>2. waits(r) = {i}
      BY <3>1, <1>2
    <3>3. serving(r) = {} /\ reqs[r].state = "open"
      BY <3>1, <1>3
    <3>4. Cardinality(waits(r)) = 1 /\ Cardinality(serving(r)) = 0
      BY <3>2, <3>3, <1>5, <1>6
    <3> HIDE DEF waits, serving
    <3> QED
      BY <3>3, <3>4, <1>8
  <2>2. CASE \E s \in Slots : pool.slots[s].current = r
    <3>1. PICK s \in Slots : pool.slots[s].current = r
      BY <2>2
    <3>2. reqs[r].state = "open" /\ reqs[r].timer = s
      BY <3>1, <1>4, <1>7
    <3>3. serving(r) = {s}
      BY <3>1, <3>2
    <3>4. waits(r) = {}
      BY <3>1, <1>3
    <3>5. Cardinality(waits(r)) = 0 /\ Cardinality(serving(r)) = 1
      BY <3>3, <3>4, <1>5, <1>6
    <3> HIDE DEF waits, serving
    <3> QED
      BY <3>2, <3>5, <1>8
  <2>3. CASE /\ ~ \E i \in DOMAIN pool.queue : pool.queue[i] = r
             /\ ~ \E s \in Slots : pool.slots[s].current = r
    <3>1. waits(r) = {} /\ serving(r) = {}
      BY <2>3
    <3>2. reqs[r].state # "open"
      BY <2>3, <1>1, <1>7 DEF Fits, FitsBut, Sound, OpenFits, Queued, InFlightIn, Serves
    <3> QED
      BY <3>1, <3>2, <1>6, <1>8
  <2> QED
    BY <2>1, <2>2, <2>3
<1>10. r \in InFlight => reqs[r].timer # None
  BY <1>4, <1>7, NoneIsNothing DEF InFlight
<1> QED
  BY <1>9, <1>10

\* The types.
THEOREM TypeCorrect == Spec => []TypeOK
<1>1. IInv => TypeOK
  <2> SUFFICES ASSUME IInv
               PROVE  TypeOK
    OBVIOUS
  <2>1. World(FALSE) \in Worlds /\ World(FALSE).pool = pool /\ World(FALSE).reqs = reqs
        /\ World(FALSE).procs = procs
    BY WorldOfState
  <2> QED
    BY <2>1, WorldTyped DEF TypeOK, IInv, ClosingFits, SlotRecords, Requests
<1> QED
  BY <1>1, InvariantHolds, PTL

\* No request is dropped or kept twice, whatever fails and in whatever order:
\* one that is open waits once or is served by one slot, with its timer armed,
\* and one that has ended is nowhere (request, pump, and every handler).
THEOREM RequestsHaveOnePlace == Spec => []EachRequestHasOnePlace
BY InvariantHolds, OnePlace, PTL

\* No slot idles while a request waits, and what waits was never tried: the
\* retry of a timed out request is taken in the step that queued it (pump,
\* onTimeout).
THEOREM RequestsAreServedInTurn == Spec => []ServedInTurn
<1>1. IInv => ServedInTurn
  <2> SUFFICES ASSUME IInv, pool.queue # <<>>
               PROVE  /\ \A s \in Slots : pool.slots[s].current # None
                      /\ \A i \in DOMAIN pool.queue : reqs[pool.queue[i]].attempts = 0
    BY DEF ServedInTurn
  <2> DEFINE w == World(FALSE)
  <2>1. TurnsFit(w) /\ Quiet(w) /\ w.pool = pool /\ w.reqs = reqs
    BY WorldOfState
  <2> HIDE DEF w
  <2>2. Idle(w) = {}
    BY <2>1 DEF Quiet
  <2> QED
    BY <2>1, <2>2 DEF TurnsFit, Idle
<1> QED
  BY <1>1, InvariantHolds, PTL

\* A request resolves with an answer to it, and is failed for a protocol
\* violation its worker committed, also when late and repeated answers and the
\* remains of a replaced process's output are about (onLine, onData, spawn).
THEOREM AnswersAreMatched == Spec => []AnswersMatch
<1>1. IInv => AnswersMatch
  <2> SUFFICES ASSUME IInv
               PROVE  AnswersMatch
    OBVIOUS
  <2> DEFINE w == World(FALSE)
  <2>1. Fits(w) /\ w.reqs = reqs
    BY WorldOfState
  <2> HIDE DEF w
  <2> QED
    BY <2>1 DEF Fits, FitsBut, Sound, RecordsFit, AnswersMatch
<1> QED
  BY <1>1, InvariantHolds, PTL

\* A slot's process was not told to end and may still answer no open request
\* but the one the slot serves; and close() awaits none that is alive but for
\* those no slot knew of (onTimeout, failWorker, dispatch, doClose).
THEOREM WorkersAreKnown == Spec => []WorkersAreAccountedFor
<1>1. IInv => WorkersAreAccountedFor
  <2> SUFFICES ASSUME IInv
               PROVE  WorkersAreAccountedFor
    OBVIOUS
  <2> DEFINE w == World(FALSE)
  <2>1. Fits(w) /\ w \in Worlds /\ w.pool = pool /\ w.reqs = reqs /\ w.procs = procs
    BY WorldOfState
  <2> HIDE DEF w
  <2>2. SlotsHoldLiveWorkers
    <3> SUFFICES ASSUME NEW s \in Slots, pool.slots[s].proc # None
                 PROVE  LET p == pool.slots[s].proc
                        IN  /\ procs[p].state \in {"running"}
                            /\ procs[p].slot = s
                            /\ \A i \in DOMAIN procs[p].stdin :
                                 reqs[procs[p].stdin[i].req].state = "open" =>
                                    procs[p].stdin[i].req = pool.slots[s].current
      BY DEF SlotsHoldLiveWorkers
    <3> DEFINE p == pool.slots[s].proc
    <3>1. p \in Procs
      BY <2>1, WorldTyped
    <3>2. \A i \in DOMAIN procs[p].stdin : procs[p].stdin[i].req # None
      BY <3>1, <2>1, StdinTyped
    <3>3. ProcFits(w, s, None)
      BY <2>1 DEF Fits, FitsBut
    <3> QED
      BY <3>2, <3>3, <2>1 DEF ProcFits, Serves
  <2>3. CloseWaitsForTheKilled
    <3> SUFFICES ASSUME closing.pc = "awaiting", NEW p \in closing.awaits
                 PROVE  procs[p].state = "doomed" \/ p \in Lost
      BY DEF CloseWaitsForTheKilled
    <3>1. pool.closed /\ p \in Procs /\ procs[p].state \in {"doomed", "running"}
      BY DEF IInv, ClosingFits
    <3>2. procs[p].slot \in Slots
      BY <3>1, <2>1, WorldTyped
    <3>3. pool.slots[procs[p].slot].proc = None
      BY <3>1, <3>2, <2>1 DEF Fits, FitsBut, Sound, ClosedFits
    <3> QED
      BY <3>1, <3>3, NoneIsNothing DEF Lost, Attached
  <2> QED
    BY <2>2, <2>3 DEF WorkersAreAccountedFor
<1> QED
  BY <1>1, InvariantHolds, PTL
=============================================================================
