------------------------- MODULE LeaseClaims_proofs -------------------------
(***************************************************************************)
(* Proofs about LeaseClaims, for every set of items, owners and daemons,   *)
(* every lease duration and every bound: a worker that believes in its     *)
(* lease has it, so no two workers ever work on one item.                  *)
(***************************************************************************)
EXTENDS LeaseClaims, SequenceTheorems, TLAPS

\* Times never run ahead of the clock, those that sweeps and claims took when
\* they were queued or begun included (isoNow()).
TimesArePast ==
    \A d \in Daemons : \A k \in 1..Len(Queue(d)) : Queue(d)[k].now <= clock

\* A worker whose release waits in its daemon has given the item up.
ReleasedIsGivenUp ==
    \A d \in Daemons : \A k \in 1..Len(Queue(d)) :
      LET op == Queue(d)[k] IN op.kind = "release" => told[op.owner][d][op.item] = -1

IInv == TypeOK /\ TimesArePast /\ ReleasedIsGivenUp /\ ActiveWorkerOwnsTheLease

DaemonRecords == [life : Lives, closed : BOOLEAN, timer : BOOLEAN, queue : Seq(Ops)]

-----------------------------------------------------------------------------
(* The operations that calls become.                                       *)

LEMMA AnyType == AnyItem \in Items /\ AnyOwner \in Owners /\ AnyTtl \in Ttls
  BY NonemptyAssumption DEF AnyItem, AnyOwner, AnyTtl

LEMMA OpType ==
    ASSUME NEW kind \in {"claim", "heartbeat", "release", "reap", "start"}, NEW i \in Items,
           NEW o \in Owners, NEW ttl \in Ttls, NEW now \in 0..MaxTime
    PROVE  Op(kind, i, o, ttl, now) \in Ops
  BY DEF Op, Ops, Steps

LEMMA SweepType ==
    ASSUME TypeOK, NEW kind \in {"reap", "start"}
    PROVE  /\ Sweep(kind) \in Ops
           /\ Sweep(kind).now = clock
           /\ Sweep(kind).kind = kind
  BY AnyType, OpType DEF Sweep, Op, TypeOK

\* The operation that is served.
LEMMA HeadType ==
    ASSUME TypeOK, NEW d \in Daemons, Queue(d) # <<>>
    PROVE  /\ Head(Queue(d)) \in Ops /\ Head(Queue(d)) = Queue(d)[1]
           /\ Len(Queue(d)) \in Nat /\ 1 <= Len(Queue(d)) /\ Queue(d) \in Seq(Ops)
<1>1. Queue(d) \in Seq(Ops)
  BY DEF TypeOK, Queue
<1>2. QED
  BY <1>1

-----------------------------------------------------------------------------
(* What happens to the queues.  Each lemma says that the operations of a    *)
(* later state stood in the queues before, or are the new one.             *)

\* Every operation that waits stood in the same queue before, with the same kind,
\* owner and item, and the time it had or the clock.
Stood(d, k) ==
    \E j \in 1..Len(Queue(d)) :
      /\ daemon'[d].queue[k].kind = Queue(d)[j].kind
      /\ daemon'[d].queue[k].owner = Queue(d)[j].owner
      /\ daemon'[d].queue[k].item = Queue(d)[j].item
      /\ daemon'[d].queue[k].now \in {Queue(d)[j].now, clock}
QueuesStood == \A d \in Daemons : \A k \in 1..Len(daemon'[d].queue) : Stood(d, k)

\* A call joins the queue of its daemon, whose life may change.
LEMMA Joined ==
    ASSUME TypeOK, NEW d \in Daemons, NEW op \in Ops,
           daemon' \in [Daemons -> DaemonRecords],
           daemon'[d].queue = Append(Queue(d), op),
           \A e \in Daemons \ {d} : daemon'[e] = daemon[e]
    PROVE  \A e \in Daemons : \A k \in 1..Len(daemon'[e].queue) :
             Stood(e, k) \/ (e = d /\ daemon'[e].queue[k] = op)
<1> SUFFICES ASSUME NEW e \in Daemons, NEW k \in 1..Len(daemon'[e].queue)
             PROVE  Stood(e, k) \/ (e = d /\ daemon'[e].queue[k] = op)
  OBVIOUS
<1>0. Queue(d) \in Seq(Ops) /\ Queue(e) \in Seq(Ops)
  BY DEF TypeOK, Queue
<1>1. CASE e # d
  <2>1. daemon'[e].queue = Queue(e)
    BY <1>1 DEF Queue
  <2>2. QED
    BY <2>1 DEF Stood
<1>2. CASE e = d /\ k = Len(Queue(d)) + 1
  BY <1>2, <1>0
<1>3. CASE e = d /\ k # Len(Queue(d)) + 1
  <2>1. k \in 1..Len(Queue(d)) /\ daemon'[d].queue[k] = Queue(d)[k]
    BY <1>3, <1>0
  <2>2. QED
    BY <2>1, <1>3 DEF Stood
<1>4. QED
  BY <1>1, <1>2, <1>3

\* An operation is done with: its daemon goes on to the next.
LEMMA Served ==
    ASSUME TypeOK, NEW d \in Daemons, Queue(d) # <<>>,
           daemon' \in [Daemons -> DaemonRecords],
           daemon'[d].queue = Tail(Queue(d)),
           \A e \in Daemons \ {d} : daemon'[e] = daemon[e]
    PROVE  /\ QueuesStood
           /\ \A k \in 1..Len(daemon'[d].queue) :
                k + 1 \in 2..Len(Queue(d)) /\ daemon'[d].queue[k] = Queue(d)[k + 1]
<1>0. Queue(d) \in Seq(Ops) /\ Len(Queue(d)) \in Nat /\ 1 <= Len(Queue(d))
  BY HeadType
<1>1. ASSUME NEW k \in 1..Len(daemon'[d].queue)
      PROVE  k + 1 \in 2..Len(Queue(d)) /\ daemon'[d].queue[k] = Queue(d)[k + 1]
  BY <1>0
<1>2. ASSUME NEW e \in Daemons, NEW k \in 1..Len(daemon'[e].queue)
      PROVE  Stood(e, k)
  <2>1. CASE e = d
    <3>1. k + 1 \in 1..Len(Queue(d)) /\ daemon'[d].queue[k] = Queue(d)[k + 1]
      BY <1>1, <1>2, <2>1, <1>0
    <3>2. QED
      BY <3>1, <2>1 DEF Stood
  <2>2. CASE e # d
    BY <2>2, <1>2 DEF Stood, Queue
  <2>3. QED
    BY <2>1, <2>2
<1>3. QED
  BY <1>1, <1>2 DEF QueuesStood

\* An operation goes to its next statement.
LEMMA Stepped ==
    ASSUME TypeOK, NEW d \in Daemons, Queue(d) # <<>>, NEW op \in Ops,
           op.kind = Head(Queue(d)).kind, op.owner = Head(Queue(d)).owner,
           op.item = Head(Queue(d)).item, op.now \in {Head(Queue(d)).now, clock},
           daemon' = GoTo(d, op)
    PROVE  daemon' \in [Daemons -> DaemonRecords] /\ QueuesStood
<1>0. /\ Queue(d) \in Seq(Ops) /\ Len(Queue(d)) \in Nat /\ 1 <= Len(Queue(d))
      /\ Head(Queue(d)) = Queue(d)[1] /\ daemon \in [Daemons -> DaemonRecords]
  BY HeadType DEF TypeOK, DaemonRecords
<1>a. daemon' = [daemon EXCEPT ![d].queue = [Queue(d) EXCEPT ![1] = op]]
  BY DEF GoTo, Queue
<1>1. [Queue(d) EXCEPT ![1] = op] \in Seq(Ops) /\ Len([Queue(d) EXCEPT ![1] = op]) = Len(Queue(d))
  BY <1>0
<1>2. daemon' \in [Daemons -> DaemonRecords]
  BY <1>a, <1>0, <1>1 DEF DaemonRecords
<1>3. daemon'[d].queue = [Queue(d) EXCEPT ![1] = op]
  BY <1>a, <1>0 DEF DaemonRecords
<1>4. ASSUME NEW e \in Daemons, NEW k \in 1..Len(daemon'[e].queue)
      PROVE  Stood(e, k)
  <2>1. CASE e = d /\ k = 1
    <3>1. daemon'[d].queue[1] = op /\ 1 \in 1..Len(Queue(d))
      BY <1>3, <1>0
    <3>2. QED
      BY <3>1, <2>1, <1>0 DEF Stood
  <2>2. CASE e = d /\ k # 1
    <3>a. k \in 1..Len(daemon'[d].queue)
      BY <1>4, <2>2
    <3>b. k \in 1..Len(Queue(d))
      BY <3>a, <1>3, <1>1
    <3>1. daemon'[d].queue[k] = Queue(d)[k]
      BY <3>b, <1>3, <1>0, <2>2
    <3>2. QED
      BY <3>b, <3>1, <2>2 DEF Stood
  <2>3. CASE e # d
    <3>1. daemon'[e].queue = Queue(e)
      BY <1>a, <2>3, <1>0 DEF Queue
    <3>2. QED
      BY <3>1, <1>4 DEF Stood
  <2>4. QED
    BY <2>1, <2>2, <2>3
<1>5. QED
  BY <1>2, <1>4 DEF QueuesStood

-----------------------------------------------------------------------------
(* The parts of the invariant that speak of queues.                        *)

LEMMA StoodArePast ==
    ASSUME TypeOK, TimesArePast, QueuesStood, clock' = clock,
           daemon' \in [Daemons -> DaemonRecords]
    PROVE  TimesArePast'
<1> SUFFICES ASSUME NEW d \in Daemons, NEW k \in 1..Len(daemon'[d].queue)
             PROVE  daemon'[d].queue[k].now <= clock
  BY DEF TimesArePast, Queue
<1>1. PICK j \in 1..Len(Queue(d)) : daemon'[d].queue[k].now \in {Queue(d)[j].now, clock}
  BY DEF QueuesStood, Stood
<1>2. Queue(d)[j].now <= clock /\ clock \in Nat
  BY DEF TimesArePast, TypeOK
<1>3. QED
  BY <1>1, <1>2

LEMMA StoodAreGivenUp ==
    ASSUME TypeOK, ReleasedIsGivenUp, QueuesStood, told' = told,
           daemon' \in [Daemons -> DaemonRecords]
    PROVE  ReleasedIsGivenUp'
<1> SUFFICES ASSUME NEW d \in Daemons, NEW k \in 1..Len(daemon'[d].queue),
                    daemon'[d].queue[k].kind = "release"
             PROVE  told'[daemon'[d].queue[k].owner][d][daemon'[d].queue[k].item] = -1
  BY DEF ReleasedIsGivenUp, Queue
<1>1. PICK j \in 1..Len(Queue(d)) :
        /\ daemon'[d].queue[k].kind = Queue(d)[j].kind
        /\ daemon'[d].queue[k].owner = Queue(d)[j].owner
        /\ daemon'[d].queue[k].item = Queue(d)[j].item
  BY DEF QueuesStood, Stood
<1>2. told[Queue(d)[j].owner][d][Queue(d)[j].item] = -1
  BY <1>1 DEF ReleasedIsGivenUp
<1>3. QED
  BY <1>1, <1>2

\* What Tell() changes: nothing for one that gives up, else one belief.
LEMMA TellType ==
    ASSUME TypeOK, NEW d \in Daemons, NEW op \in Ops, NEW until \in Nat \cup {-1},
           told' = Tell(d, op, until)
    PROVE  told' \in [Owners -> [Daemons -> [Items -> Nat \cup {-1}]]]
<1>1. told \in [Owners -> [Daemons -> [Items -> Nat \cup {-1}]]]
  BY DEF TypeOK
<1>2. QED
  BY <1>1 DEF Tell

LEMMA TellChanges ==
    ASSUME TypeOK, NEW d \in Daemons, NEW op \in Ops, NEW until \in Nat \cup {-1},
           told' = Tell(d, op, until)
    PROVE  /\ \A o \in Owners, e \in Daemons, i \in Items :
                told'[o][e][i] # told[o][e][i] =>
                  ~GivingUp(d, op) /\ o = op.owner /\ e = d /\ i = op.item /\ told'[o][e][i] = until
           /\ ~GivingUp(d, op) => told'[op.owner][d][op.item] = until
<1>1. op.owner \in Owners /\ op.item \in Items
  BY DEF Ops
<1>2. told \in [Owners -> [Daemons -> [Items -> Nat \cup {-1}]]]
  BY DEF TypeOK
<1>3. CASE GivingUp(d, op)
  BY <1>3 DEF Tell
<1>4. CASE ~GivingUp(d, op)
  <2>1. told' = [told EXCEPT ![op.owner][d][op.item] = until]
    BY <1>4 DEF Tell
  <2>2. \A o \in Owners, e \in Daemons, i \in Items :
          told'[o][e][i] = IF o = op.owner /\ e = d /\ i = op.item THEN until ELSE told[o][e][i]
    BY <2>1, <1>1, <1>2
  <2>3. told'[op.owner][d][op.item] = until
    BY <2>2, <1>1
  <2>4. ASSUME NEW o \in Owners, NEW e \in Daemons, NEW i \in Items,
               told'[o][e][i] # told[o][e][i]
        PROVE  o = op.owner /\ e = d /\ i = op.item
    BY <2>2, <2>4
  <2>5. QED
    BY <2>3, <2>4, <1>4
<1>5. QED
  BY <1>3, <1>4

LEMMA ToldAreGivenUp ==
    ASSUME TypeOK, ReleasedIsGivenUp, NEW d \in Daemons, Queue(d) # <<>>,
           daemon' \in [Daemons -> DaemonRecords],
           daemon'[d].queue = Tail(Queue(d)),
           \A e \in Daemons \ {d} : daemon'[e] = daemon[e],
           NEW until \in Nat \cup {-1}, told' = Tell(d, Head(Queue(d)), until)
    PROVE  ReleasedIsGivenUp'
<1> DEFINE op == Head(Queue(d))
<1> SUFFICES ASSUME NEW e \in Daemons, NEW k \in 1..Len(daemon'[e].queue),
                    daemon'[e].queue[k].kind = "release"
             PROVE  told'[daemon'[e].queue[k].owner][e][daemon'[e].queue[k].item] = -1
  BY DEF ReleasedIsGivenUp, Queue
<1> DEFINE later == daemon'[e].queue[k]
<1>0. op \in Ops
  BY HeadType
<1>1. later \in Ops
  <2>1. daemon'[e].queue \in Seq(Ops)
    BY DEF DaemonRecords
  <2>2. QED
    BY <2>1
<1>2. later.owner \in Owners /\ later.item \in Items
  BY <1>1 DEF Ops
<1>3. QueuesStood /\ \A n \in 1..Len(daemon'[d].queue) :
        n + 1 \in 2..Len(Queue(d)) /\ daemon'[d].queue[n] = Queue(d)[n + 1]
  BY Served
<1>4. told[later.owner][e][later.item] = -1
  <2>1. PICK j \in 1..Len(Queue(e)) :
          /\ later.kind = Queue(e)[j].kind
          /\ later.owner = Queue(e)[j].owner
          /\ later.item = Queue(e)[j].item
    BY <1>3 DEF QueuesStood, Stood
  <2>2. QED
    BY <2>1 DEF ReleasedIsGivenUp
<1>5. CASE told'[later.owner][e][later.item] # told[later.owner][e][later.item]
  <2>0. \A o \in Owners, c \in Daemons, i \in Items :
          told'[o][c][i] # told[o][c][i] => ~GivingUp(d, op) /\ o = op.owner /\ c = d /\ i = op.item
    BY <1>0, TellChanges
  <2>1. ~GivingUp(d, op) /\ later.owner = op.owner /\ e = d /\ later.item = op.item
    BY <1>5, <2>0, <1>2
  <2>2. k + 1 \in 2..Len(Queue(d)) /\ later = Queue(d)[k + 1]
    BY <1>3, <2>1
  <2>3. GivingUp(d, op)
    BY <2>1, <2>2 DEF GivingUp
  <2>4. QED
    BY <2>1, <2>3
<1>6. QED
  BY <1>4, <1>5

-----------------------------------------------------------------------------
(* The leases.                                                             *)

\* A row that is held is a row, and Free is none.
LEMMA RowType ==
    ASSUME TypeOK, NEW i \in Items
    PROVE  /\ Held(i) => claims[i] \in Rows
           /\ \A o \in Owners, d \in Daemons, t \in Nat :
                Row(o, d, t) \in Rows /\ Row(o, d, t) # Free
  BY FreeAssumption DEF TypeOK, Held, Row, Rows

\* A lease that is renewed is the caller's own: one that gives it up does not
\* believe in it, and the others never did (ClaimStore.claim and heartbeat).
LEMMA Renewed ==
    ASSUME TypeOK, ReleasedIsGivenUp, ActiveWorkerOwnsTheLease, clock' = clock,
           NEW d \in Daemons, NEW op \in Ops, NEW until \in Nat,
           HeldBy(op.item, op.owner, d),
           claims' = [claims EXCEPT ![op.item].expires = until],
           told' = Tell(d, op, until)
    PROVE  claims' \in [Items -> Rows \cup {Free}] /\ ActiveWorkerOwnsTheLease'
<1>0. op.owner \in Owners /\ op.item \in Items /\ clock \in Nat
  BY DEF Ops, TypeOK
<1>1. claims[op.item] \in Rows /\ claims \in [Items -> Rows \cup {Free}]
  BY <1>0, RowType DEF HeldBy, TypeOK
<1>2. claims'[op.item] = [claims[op.item] EXCEPT !.expires = until]
  BY <1>0, <1>1
<1>3. /\ claims'[op.item] \in Rows /\ claims'[op.item].owner = claims[op.item].owner
      /\ claims'[op.item].epoch = claims[op.item].epoch /\ claims'[op.item].expires = until
  BY <1>1, <1>2 DEF Rows
<1>4. \A i \in Items \ {op.item} : claims'[i] = claims[i]
  BY <1>1
<1>5. claims' \in [Items -> Rows \cup {Free}]
  <2>1. claims' = [i \in Items |-> claims'[i]]
    BY <1>1
  <2>2. QED
    BY <2>1, <1>1, <1>3, <1>4
<1>6. claims'[op.item] # Free
  BY <1>3, FreeAssumption DEF Rows
<1>7. ASSUME NEW o \in Owners, NEW e \in Daemons, NEW i \in Items, told'[o][e][i] >= clock
      PROVE  HeldBy(i, o, e)' /\ claims'[i].expires >= told'[o][e][i]
  <2>1. CASE i # op.item
    <3>1. told'[o][e][i] = told[o][e][i]
      BY <2>1, TellChanges
    <3>2. HeldBy(i, o, e) /\ claims[i].expires >= told[o][e][i]
      BY <3>1, <1>7 DEF ActiveWorkerOwnsTheLease
    <3>3. QED
      BY <3>1, <3>2, <2>1, <1>4 DEF HeldBy, Held
  <2>2. CASE i = op.item /\ told'[o][e][i] # told[o][e][i]
    <3>1. o = op.owner /\ e = d /\ told'[o][e][i] = until
      BY <2>2, TellChanges
    <3>2. QED
      BY <3>1, <2>2, <1>3, <1>6 DEF HeldBy, Held
  <2>3. CASE i = op.item /\ told'[o][e][i] = told[o][e][i]
    <3>1. HeldBy(i, o, e)
      BY <2>3, <1>7 DEF ActiveWorkerOwnsTheLease
    <3>2. o = op.owner /\ e = d
      BY <3>1, <2>3 DEF HeldBy
    <3>3. ~GivingUp(d, op)
      <4>1. SUFFICES ASSUME GivingUp(d, op) PROVE FALSE
        OBVIOUS
      <4>2. PICK k \in 2..Len(Queue(d)) : Queue(d)[k].kind = "release"
              /\ Queue(d)[k].owner = op.owner /\ Queue(d)[k].item = op.item
        BY <4>1 DEF GivingUp
      <4>3. Queue(d) \in Seq(Ops)
        BY DEF TypeOK, Queue
      <4>4. k \in 1..Len(Queue(d))
        BY <4>3
      <4>5. told[op.owner][d][op.item] = -1
        BY <4>2, <4>4 DEF ReleasedIsGivenUp
      <4>6. QED
        BY <4>5, <2>3, <3>2, <1>7, <1>0
    <3>4. told'[o][e][i] = until
      BY <3>3, <3>2, <2>3, TellChanges
    <3>5. QED
      BY <3>2, <3>4, <2>3, <1>3, <1>6 DEF HeldBy, Held
  <2>4. QED
    BY <2>1, <2>2, <2>3
<1>8. QED
  BY <1>5, <1>7 DEF ActiveWorkerOwnsTheLease

\* A caller that is refused stops believing; the table is as it was.
LEMMA Refused ==
    ASSUME TypeOK, ActiveWorkerOwnsTheLease, clock' = clock, claims' = claims,
           NEW d \in Daemons, NEW op \in Ops, told' = Tell(d, op, -1)
    PROVE  ActiveWorkerOwnsTheLease'
<1> SUFFICES ASSUME NEW o \in Owners, NEW e \in Daemons, NEW i \in Items, told'[o][e][i] >= clock
             PROVE  HeldBy(i, o, e)' /\ claims'[i].expires >= told'[o][e][i]
  BY DEF ActiveWorkerOwnsTheLease
<1>1. told'[o][e][i] = told[o][e][i] \/ told'[o][e][i] = -1
  BY TellChanges
<1>2. clock \in Nat
  BY DEF TypeOK
<1>3. told'[o][e][i] = told[o][e][i]
  BY <1>1, <1>2
<1>4. QED
  BY <1>3 DEF ActiveWorkerOwnsTheLease, HeldBy, Held

-----------------------------------------------------------------------------
(* Steps that touch neither the table nor a belief, but by lowering it.     *)

\* Whoever believes in a lease afterwards believed in it before; the table is
\* as it was, and time may have gone on.
LEMMA LoweredKeeps ==
    ASSUME TypeOK, ActiveWorkerOwnsTheLease, claims' = claims,
           clock' \in Nat, clock' >= clock,
           \A o \in Owners, e \in Daemons, i \in Items : told'[o][e][i] \in {told[o][e][i], -1}
    PROVE  ActiveWorkerOwnsTheLease'
<1> SUFFICES ASSUME NEW o \in Owners, NEW e \in Daemons, NEW i \in Items,
                    told'[o][e][i] >= clock'
             PROVE  HeldBy(i, o, e)' /\ claims'[i].expires >= told'[o][e][i]
  BY DEF ActiveWorkerOwnsTheLease
<1>1. clock \in Nat /\ told[o][e][i] \in Nat \cup {-1}
  BY DEF TypeOK
<1>2. told'[o][e][i] = told[o][e][i]
  BY <1>1
<1>3. told[o][e][i] >= clock
  BY <1>1, <1>2
<1>4. QED
  BY <1>2, <1>3 DEF ActiveWorkerOwnsTheLease, HeldBy, Held

\* An operation joins a queue, told at most the time it is now; a release
\* leaves its caller without a belief.
LEMMA JoinedIsSound ==
    ASSUME TypeOK, TimesArePast, ReleasedIsGivenUp, NEW d \in Daemons, NEW op \in Ops,
           op.now <= clock, clock' = clock,
           daemon' \in [Daemons -> DaemonRecords],
           daemon'[d].queue = Append(Queue(d), op),
           \A e \in Daemons \ {d} : daemon'[e] = daemon[e],
           \A o \in Owners, e \in Daemons, i \in Items : told'[o][e][i] \in {told[o][e][i], -1},
           op.kind = "release" => told'[op.owner][d][op.item] = -1
    PROVE  TimesArePast' /\ ReleasedIsGivenUp'
<1>1. \A e \in Daemons : \A k \in 1..Len(daemon'[e].queue) :
        Stood(e, k) \/ (e = d /\ daemon'[e].queue[k] = op)
  BY Joined
<1>2. ASSUME NEW e \in Daemons, NEW k \in 1..Len(daemon'[e].queue), Stood(e, k)
      PROVE  /\ daemon'[e].queue[k].now <= clock
             /\ daemon'[e].queue[k].kind = "release" =>
                  told'[daemon'[e].queue[k].owner][e][daemon'[e].queue[k].item] = -1
  <2>1. PICK j \in 1..Len(Queue(e)) :
          /\ daemon'[e].queue[k].kind = Queue(e)[j].kind
          /\ daemon'[e].queue[k].owner = Queue(e)[j].owner
          /\ daemon'[e].queue[k].item = Queue(e)[j].item
          /\ daemon'[e].queue[k].now \in {Queue(e)[j].now, clock}
    BY <1>2 DEF Stood
  <2>2. Queue(e)[j] \in Ops
    <3>1. Queue(e) \in Seq(Ops)
      BY DEF TypeOK, Queue
    <3>2. QED
      BY <3>1
  <2>3. Queue(e)[j].owner \in Owners /\ Queue(e)[j].item \in Items
    BY <2>2 DEF Ops
  <2>4. Queue(e)[j].now <= clock /\ clock \in Nat
    BY DEF TimesArePast, TypeOK
  <2>5. daemon'[e].queue[k].now <= clock
    BY <2>1, <2>4
  <2>6. ASSUME daemon'[e].queue[k].kind = "release"
        PROVE  told'[Queue(e)[j].owner][e][Queue(e)[j].item] = -1
    <3>1. told[Queue(e)[j].owner][e][Queue(e)[j].item] = -1
      BY <2>1, <2>6 DEF ReleasedIsGivenUp
    <3>2. QED
      BY <3>1, <2>3
  <2>7. QED
    BY <2>1, <2>5, <2>6
<1>3. TimesArePast'
  BY <1>1, <1>2 DEF TimesArePast, Queue
<1>4. ReleasedIsGivenUp'
  BY <1>1, <1>2 DEF ReleasedIsGivenUp, Queue
<1>5. QED
  BY <1>3, <1>4

\* What is typed but the queues and the beliefs.
LEMMA EnqueueType ==
    ASSUME TypeOK, NEW d \in Daemons, NEW op \in Ops, daemon' = Enqueue(d, op)
    PROVE  /\ daemon' \in [Daemons -> DaemonRecords]
           /\ daemon'[d].queue = Append(Queue(d), op)
           /\ \A e \in Daemons \ {d} : daemon'[e] = daemon[e]
<1>1. daemon \in [Daemons -> DaemonRecords]
  BY DEF TypeOK, DaemonRecords
<1>2. daemon[d].queue \in Seq(Ops)
  BY <1>1 DEF DaemonRecords
<1>3. Append(daemon[d].queue, op) \in Seq(Ops)
  BY <1>2
<1>4. daemon' = [daemon EXCEPT ![d].queue = Append(daemon[d].queue, op)]
  BY DEF Enqueue
<1>5. QED
  BY <1>1, <1>3, <1>4 DEF DaemonRecords, Queue

LEMMA CallKeeps ==
    ASSUME IInv, NEW d \in Daemons, NEW o \in Owners, NEW i \in Items, Call(d, o, i)
    PROVE  IInv'
<1>0. /\ TypeOK /\ TimesArePast /\ ReleasedIsGivenUp /\ ActiveWorkerOwnsTheLease
      /\ clock' = clock /\ claims' = claims /\ runs' = runs /\ calls' = calls + 1
      /\ clock \in Nat /\ 0 \in 0..MaxTime
  BY TimesAssumption DEF IInv, Call, TypeOK
<1>1. calls' \in 0..MaxCalls
  BY <1>0, BoundsAssumption DEF Call, TypeOK
<1>2. ASSUME NEW k \in {"claim", "heartbeat"}, NEW ttl \in Ttls,
             daemon' = Enqueue(d, Op(k, i, o, ttl, 0)), told' = told
      PROVE  IInv'
  <2>1. Op(k, i, o, ttl, 0) \in Ops /\ Op(k, i, o, ttl, 0).now = 0
        /\ Op(k, i, o, ttl, 0).kind # "release"
    BY <1>0, OpType DEF Op
  <2>2. /\ daemon' \in [Daemons -> DaemonRecords]
        /\ daemon'[d].queue = Append(Queue(d), Op(k, i, o, ttl, 0))
        /\ \A e \in Daemons \ {d} : daemon'[e] = daemon[e]
    BY <1>0, <1>2, <2>1, EnqueueType
  <2>3. TimesArePast' /\ ReleasedIsGivenUp'
    BY <1>0, <1>2, <2>1, <2>2, JoinedIsSound
  <2>4. ActiveWorkerOwnsTheLease'
    BY <1>0, <1>2, LoweredKeeps
  <2>5. TypeOK'
    BY <1>0, <1>1, <1>2, <2>2 DEF TypeOK, DaemonRecords
  <2>6. QED
    BY <2>3, <2>4, <2>5 DEF IInv
<1>3. ASSUME daemon' = Enqueue(d, Op("release", i, o, AnyTtl, 0)),
             told' = [told EXCEPT ![o][d][i] = -1]
      PROVE  IInv'
  <2> DEFINE op == Op("release", i, o, AnyTtl, 0)
  <2>1. op \in Ops /\ op.now = 0 /\ op.owner = o /\ op.item = i
    BY <1>0, OpType, AnyType DEF Op
  <2>a. told \in [Owners -> [Daemons -> [Items -> Nat \cup {-1}]]]
    BY <1>0 DEF TypeOK
  <2>b. /\ \A p \in Owners, e \in Daemons, j \in Items : told'[p][e][j] \in {told[p][e][j], -1}
        /\ told'[o][d][i] = -1
        /\ told' \in [Owners -> [Daemons -> [Items -> Nat \cup {-1}]]]
    BY <2>a, <1>3
  <2>2. /\ daemon' \in [Daemons -> DaemonRecords]
        /\ daemon'[d].queue = Append(Queue(d), op)
        /\ \A e \in Daemons \ {d} : daemon'[e] = daemon[e]
    BY <1>0, <1>3, <2>1, EnqueueType
  <2> HIDE DEF op
  <2>3. TimesArePast' /\ ReleasedIsGivenUp'
    BY <1>0, <2>1, <2>2, <2>b, JoinedIsSound
  <2>4. ActiveWorkerOwnsTheLease'
    BY <1>0, <2>b, LoweredKeeps
  <2>5. TypeOK'
    BY <1>0, <1>1, <2>2, <2>b DEF TypeOK, DaemonRecords
  <2>6. QED
    BY <2>3, <2>4, <2>5 DEF IInv
<1>4. QED
  BY <1>2, <1>3 DEF Call

\* A sweep joins a queue; its daemon may start thereby.
LEMMA SweepKeeps ==
    ASSUME IInv, NEW d \in Daemons, NEW kind \in {"reap", "start"},
           daemon' \in [Daemons -> DaemonRecords],
           daemon'[d].queue = Append(Queue(d), Sweep(kind)),
           \A e \in Daemons \ {d} : daemon'[e] = daemon[e],
           UNCHANGED <<clock, claims, runs, told, calls>>
    PROVE  IInv'
<1>0. /\ TypeOK /\ TimesArePast /\ ReleasedIsGivenUp /\ ActiveWorkerOwnsTheLease /\ clock \in Nat
  BY DEF IInv, TypeOK
<1>1. Sweep(kind) \in Ops /\ Sweep(kind).now = clock /\ Sweep(kind).kind # "release"
  BY <1>0, SweepType
<1>2. TimesArePast' /\ ReleasedIsGivenUp'
  BY <1>0, <1>1, JoinedIsSound
<1>3. ActiveWorkerOwnsTheLease'
  BY <1>0, LoweredKeeps
<1>4. TypeOK'
  BY <1>0 DEF TypeOK, DaemonRecords
<1>5. QED
  BY <1>2, <1>3, <1>4 DEF IInv

LEMMA CallReapKeeps ==
    ASSUME IInv, NEW d \in Daemons, CallReap(d) \/ TimerFires(d)
    PROVE  IInv'
<1>0. TypeOK /\ daemon' = Enqueue(d, Sweep("reap")) /\ UNCHANGED <<clock, claims, runs, told, calls>>
  BY DEF IInv, CallReap, TimerFires
<1>1. Sweep("reap") \in Ops
  BY <1>0, SweepType
<1>2. /\ daemon' \in [Daemons -> DaemonRecords]
      /\ daemon'[d].queue = Append(Queue(d), Sweep("reap"))
      /\ \A e \in Daemons \ {d} : daemon'[e] = daemon[e]
  BY <1>0, <1>1, EnqueueType
<1>3. QED
  BY <1>0, <1>2, SweepKeeps

LEMMA StartKeeps ==
    ASSUME IInv, NEW d \in Daemons, Start(d)
    PROVE  IInv'
<1>0. TypeOK /\ UNCHANGED <<clock, claims, runs, told, calls>>
  BY DEF IInv, Start
<1>1. Sweep("start") \in Ops
  BY <1>0, SweepType
<1>2. daemon \in [Daemons -> DaemonRecords] /\ Queue(d) \in Seq(Ops)
  BY <1>0 DEF TypeOK, DaemonRecords, Queue
<1>3. Append(Queue(d), Sweep("start")) \in Seq(Ops)
  BY <1>1, <1>2
<1>4. daemon' = [daemon EXCEPT ![d] = [daemon[d] EXCEPT !.life = "starting",
                                          !.queue = Append(Queue(d), Sweep("start"))]]
  BY <1>2 DEF Start, Queue
<1>5. [daemon[d] EXCEPT !.life = "starting", !.queue = Append(Queue(d), Sweep("start"))]
        \in DaemonRecords
  BY <1>2, <1>3 DEF DaemonRecords, Lives
<1>6. /\ daemon' \in [Daemons -> DaemonRecords]
      /\ daemon'[d].queue = Append(Queue(d), Sweep("start"))
      /\ \A e \in Daemons \ {d} : daemon'[e] = daemon[e]
  BY <1>2, <1>4, <1>5 DEF DaemonRecords
<1>7. QED
  BY <1>0, <1>6, SweepKeeps

\* No more calls: the queue is as it was.
LEMMA CloseKeeps ==
    ASSUME IInv, NEW d \in Daemons, Close(d)
    PROVE  IInv'
<1>0. /\ TypeOK /\ TimesArePast /\ ReleasedIsGivenUp /\ ActiveWorkerOwnsTheLease
      /\ UNCHANGED <<clock, claims, runs, told, calls>>
      /\ daemon \in [Daemons -> DaemonRecords] /\ clock \in Nat
  BY DEF IInv, Close, TypeOK, DaemonRecords
<1>1. daemon' = [daemon EXCEPT ![d] = [daemon[d] EXCEPT !.closed = TRUE, !.timer = FALSE]]
  BY <1>0 DEF Close
<1>2. [daemon[d] EXCEPT !.closed = TRUE, !.timer = FALSE] \in DaemonRecords
  BY <1>0 DEF DaemonRecords
<1>3. daemon' \in [Daemons -> DaemonRecords]
  BY <1>0, <1>1, <1>2
<1>4. \A e \in Daemons : daemon'[e].queue = daemon[e].queue
  BY <1>0, <1>1 DEF DaemonRecords
<1>5. QueuesStood
  <2>1. SUFFICES ASSUME NEW e \in Daemons, NEW k \in 1..Len(daemon'[e].queue)
                 PROVE  Stood(e, k)
    BY DEF QueuesStood
  <2>2. daemon'[e].queue = Queue(e)
    BY <1>4 DEF Queue
  <2>3. QED
    BY <2>1, <2>2 DEF Stood
<1>6. TimesArePast' /\ ReleasedIsGivenUp'
  BY <1>0, <1>3, <1>5, StoodArePast, StoodAreGivenUp
<1>7. ActiveWorkerOwnsTheLease'
  BY <1>0, LoweredKeeps
<1>8. TypeOK'
  BY <1>0, <1>3 DEF TypeOK, DaemonRecords
<1>9. QED
  BY <1>6, <1>7, <1>8 DEF IInv

\* Time goes on, and what was believed then is believed by fewer.
LEMMA TickKeeps ==
    ASSUME IInv, Tick
    PROVE  IInv'
<1>0. /\ TypeOK /\ TimesArePast /\ ReleasedIsGivenUp /\ ActiveWorkerOwnsTheLease
      /\ UNCHANGED <<claims, runs, daemon, told, calls>>
      /\ clock' = clock + 1 /\ clock < MaxTime /\ clock \in Nat
  BY DEF IInv, Tick, TypeOK
<1>1. clock' \in 0..MaxTime /\ clock' \in Nat /\ clock' >= clock
  BY <1>0, TimesAssumption
<1>2. TimesArePast'
  <2>1. SUFFICES ASSUME NEW e \in Daemons, NEW k \in 1..Len(Queue(e))
                 PROVE  Queue(e)[k].now <= clock'
    BY <1>0 DEF TimesArePast, Queue
  <2>2. Queue(e) \in Seq(Ops)
    BY <1>0 DEF TypeOK, Queue
  <2>3. Queue(e)[k] \in Ops
    BY <2>2
  <2>4. Queue(e)[k].now \in Int
    BY <2>3, TimesAssumption DEF Ops
  <2>5. Queue(e)[k].now <= clock
    BY <1>0 DEF TimesArePast
  <2>6. QED
    BY <2>4, <2>5, <1>0
<1>3. ReleasedIsGivenUp'
  BY <1>0 DEF ReleasedIsGivenUp, Queue
<1>4. ActiveWorkerOwnsTheLease'
  BY <1>0, <1>1, LoweredKeeps
<1>5. TypeOK'
  BY <1>0, <1>1 DEF TypeOK
<1>6. QED
  BY <1>2, <1>3, <1>4, <1>5 DEF IInv

\* A process ends: nobody under it believes in anything, its queue is gone.
LEMMA CrashKeeps ==
    ASSUME IInv, NEW d \in Daemons, Crash(d)
    PROVE  IInv'
<1>0. /\ TypeOK /\ TimesArePast /\ ReleasedIsGivenUp /\ ActiveWorkerOwnsTheLease
      /\ UNCHANGED <<clock, claims, runs, calls>>
      /\ daemon \in [Daemons -> DaemonRecords] /\ clock \in Nat
      /\ told \in [Owners -> [Daemons -> [Items -> Nat \cup {-1}]]]
  BY DEF IInv, Crash, TypeOK, DaemonRecords
<1> DEFINE ended == [life |-> "dead", closed |-> TRUE, timer |-> FALSE, queue |-> <<>>]
<1>1. daemon' = [daemon EXCEPT ![d] = ended]
  BY DEF Crash
<1>2. ended \in DaemonRecords
  <2>1. <<>> \in Seq(Ops)
    OBVIOUS
  <2>2. QED
    BY <2>1 DEF DaemonRecords, Lives
<1>3. daemon'[d].queue = <<>> /\ \A e \in Daemons \ {d} : daemon'[e] = daemon[e]
  BY <1>0, <1>1
<1>4. daemon' \in [Daemons -> DaemonRecords]
  BY <1>0, <1>1, <1>2
<1>5. \A o \in Owners, e \in Daemons, i \in Items :
        told'[o][e][i] = IF e = d THEN -1 ELSE told[o][e][i]
  <2>1. told' = [o \in Owners |-> [told[o] EXCEPT ![d] = [i \in Items |-> -1]]]
    BY DEF Crash
  <2>2. ASSUME NEW o \in Owners
        PROVE  \A e \in Daemons, i \in Items :
                 told'[o][e][i] = IF e = d THEN -1 ELSE told[o][e][i]
    <3>1. told'[o] = [told[o] EXCEPT ![d] = [i \in Items |-> -1]]
      BY <2>1
    <3>2. told[o] \in [Daemons -> [Items -> Nat \cup {-1}]]
      BY <1>0
    <3>3. QED
      BY <3>1, <3>2
  <2>3. QED
    BY <2>2
<1>6. told' \in [Owners -> [Daemons -> [Items -> Nat \cup {-1}]]]
  BY <1>0 DEF Crash
<1>7. ASSUME NEW e \in Daemons, NEW k \in 1..Len(daemon'[e].queue)
      PROVE  e # d /\ daemon'[e].queue = Queue(e) /\ k \in 1..Len(Queue(e))
  <2>1. e # d
    <3>1. SUFFICES ASSUME e = d PROVE FALSE
      OBVIOUS
    <3>2. Len(daemon'[e].queue) = 0
      BY <1>3, <3>1
    <3>3. QED
      BY <3>2, <1>7
  <2>2. QED
    BY <2>1, <1>3, <1>7 DEF Queue
<1>8. TimesArePast'
  BY <1>0, <1>7 DEF TimesArePast, Queue
<1>9. ReleasedIsGivenUp'
  <2>1. SUFFICES ASSUME NEW e \in Daemons, NEW k \in 1..Len(daemon'[e].queue),
                        daemon'[e].queue[k].kind = "release"
                 PROVE  told'[daemon'[e].queue[k].owner][e][daemon'[e].queue[k].item] = -1
    BY DEF ReleasedIsGivenUp, Queue
  <2>2. e # d /\ daemon'[e].queue = Queue(e) /\ k \in 1..Len(Queue(e))
    BY <1>7, <2>1
  <2>3. told[Queue(e)[k].owner][e][Queue(e)[k].item] = -1
    BY <1>0, <2>1, <2>2 DEF ReleasedIsGivenUp
  <2>4. Queue(e) \in Seq(Ops)
    BY <1>0 DEF TypeOK, Queue
  <2>5. Queue(e)[k] \in Ops
    BY <2>2, <2>4
  <2>6. Queue(e)[k].owner \in Owners /\ Queue(e)[k].item \in Items
    BY <2>5 DEF Ops
  <2>7. QED
    BY <2>2, <2>3, <2>6, <1>5
<1>10. ActiveWorkerOwnsTheLease'
  <2>1. \A o \in Owners, e \in Daemons, i \in Items : told'[o][e][i] \in {told[o][e][i], -1}
    BY <1>5
  <2>2. QED
    BY <2>1, <1>0, LoweredKeeps
<1>11. TypeOK'
  BY <1>0, <1>4, <1>6 DEF TypeOK, DaemonRecords
<1>12. QED
  BY <1>8, <1>9, <1>10, <1>11 DEF IInv

-----------------------------------------------------------------------------
(* The statements of the call that is served.                              *)

\* What an operation that is served asks for.
LEMMA ServedOp ==
    ASSUME IInv, NEW d \in Daemons, Queue(d) # <<>>
    PROVE  LET op == Head(Queue(d)) IN
           /\ op \in Ops /\ op.owner \in Owners /\ op.item \in Items
           /\ op.ttl \in Nat /\ op.now \in Nat /\ op.now <= clock
           /\ op.now + op.ttl \in Nat /\ clock + op.ttl \in Nat /\ clock \in Nat
<1> DEFINE op == Head(Queue(d))
<1>0. TypeOK /\ TimesArePast
  BY DEF IInv
<1>1. op \in Ops /\ op = Queue(d)[1] /\ 1 \in 1..Len(Queue(d))
  BY <1>0, HeadType
<1>2. op.now <= clock
  BY <1>0, <1>1 DEF TimesArePast
<1> HIDE DEF op
<1>a. op \in Ops
  BY <1>1
<1>b. op.owner \in Owners /\ op.item \in Items /\ op.ttl \in Ttls /\ op.now \in 0..MaxTime
  BY <1>a DEF Ops
<1>3. op.owner \in Owners /\ op.item \in Items /\ op.ttl \in Nat /\ op.now \in Nat
  <2>1. op.ttl \in Nat
    <3>1. \A t \in Ttls : t \in Nat
      BY TimesAssumption
    <3>2. QED
      BY <1>b, <3>1
  <2>2. op.now \in Nat
    BY <1>b, TimesAssumption
  <2>3. QED
    BY <1>b, <2>1, <2>2
<1>4. clock \in Nat
  BY <1>0 DEF TypeOK
<1>5. op.now + op.ttl \in Nat /\ clock + op.ttl \in Nat
  BY <1>3, <1>4
<1>6. QED
  BY <1>1, <1>2, <1>3, <1>4, <1>5 DEF op

LEMMA SettledType ==
    ASSUME TypeOK, NEW d \in Daemons, Queue(d) # <<>>, daemon' = Settled(d)
    PROVE  /\ daemon' \in [Daemons -> DaemonRecords]
           /\ daemon'[d].queue = Tail(Queue(d))
           /\ \A e \in Daemons \ {d} : daemon'[e] = daemon[e]
<1>1. daemon \in [Daemons -> DaemonRecords] /\ Queue(d) \in Seq(Ops)
  BY DEF TypeOK, DaemonRecords, Queue
<1>2. Tail(Queue(d)) \in Seq(Ops)
  BY <1>1
<1>3. daemon' = [daemon EXCEPT ![d].queue = Tail(daemon[d].queue)]
  BY DEF Settled
<1>4. QED
  BY <1>1, <1>2, <1>3 DEF DaemonRecords, Queue

\* A call that is through tells its caller and leaves the queue.
LEMMA SettledIsSound ==
    ASSUME IInv, NEW d \in Daemons, Queue(d) # <<>>, daemon' = Settled(d),
           NEW until \in Nat \cup {-1}, told' = Tell(d, Head(Queue(d)), until),
           UNCHANGED <<clock, runs, calls>>,
           claims' \in [Items -> Rows \cup {Free}]
    PROVE  TypeOK' /\ TimesArePast' /\ ReleasedIsGivenUp'
<1>0. TypeOK /\ TimesArePast /\ ReleasedIsGivenUp
  BY DEF IInv
<1>1. /\ daemon' \in [Daemons -> DaemonRecords]
      /\ daemon'[d].queue = Tail(Queue(d))
      /\ \A e \in Daemons \ {d} : daemon'[e] = daemon[e]
  BY <1>0, SettledType
<1>2. QueuesStood
  BY <1>0, <1>1, Served
<1>3. TimesArePast'
  BY <1>0, <1>1, <1>2, StoodArePast
<1>4. ReleasedIsGivenUp'
  BY <1>0, <1>1, ToldAreGivenUp
<1>5. told' \in [Owners -> [Daemons -> [Items -> Nat \cup {-1}]]]
  BY <1>0, HeadType, TellType
<1>6. TypeOK'
  BY <1>0, <1>1, <1>5 DEF TypeOK, DaemonRecords
<1>7. QED
  BY <1>3, <1>4, <1>6

\* A call that goes on to its next statement.
LEMMA SteppedKeeps ==
    ASSUME IInv, NEW d \in Daemons, Queue(d) # <<>>, NEW op \in Ops,
           op.kind = Head(Queue(d)).kind, op.owner = Head(Queue(d)).owner,
           op.item = Head(Queue(d)).item, op.now \in {Head(Queue(d)).now, clock},
           daemon' = GoTo(d, op), runs' \in SUBSET Owners,
           UNCHANGED <<clock, claims, told, calls>>
    PROVE  IInv'
<1>0. /\ TypeOK /\ TimesArePast /\ ReleasedIsGivenUp /\ ActiveWorkerOwnsTheLease /\ clock \in Nat
  BY DEF IInv, TypeOK
<1>1. daemon' \in [Daemons -> DaemonRecords] /\ QueuesStood
  BY <1>0, Stepped
<1>2. TimesArePast' /\ ReleasedIsGivenUp'
  BY <1>0, <1>1, StoodArePast, StoodAreGivenUp
<1>3. ActiveWorkerOwnsTheLease'
  BY <1>0, LoweredKeeps
<1>4. TypeOK'
  BY <1>0, <1>1 DEF TypeOK, DaemonRecords
<1>5. QED
  BY <1>2, <1>3, <1>4 DEF IInv

LEMMA BeginClaimKeeps ==
    ASSUME IInv, NEW d \in Daemons, BeginClaim(d)
    PROVE  IInv'
<1> DEFINE op == Head(Queue(d))
           next == [op EXCEPT !.step = "insert", !.now = clock]
<1>0. TypeOK /\ Queue(d) # <<>> /\ clock \in 0..MaxTime
  BY DEF IInv, BeginClaim, At, TypeOK
<1>1. op \in Ops /\ op.owner \in Owners
  BY <1>0, ServedOp
<1>2. daemon' = GoTo(d, next) /\ UNCHANGED <<clock, claims, told, calls>>
  BY DEF BeginClaim
<1>3. runs' \in SUBSET Owners
  BY <1>0, <1>1 DEF BeginClaim, TypeOK
<1> HIDE DEF op
<1>4. /\ next \in Ops /\ next.kind = op.kind /\ next.owner = op.owner /\ next.item = op.item
      /\ next.now = clock
  BY <1>0, <1>1 DEF Ops, Steps
<1> HIDE DEF next
<1>5. QED
  BY <1>0, <1>2, <1>3, <1>4, SteppedKeeps DEF op

\* The item was free: nobody believed in it, and its caller may now.
LEMMA InsertClaimKeeps ==
    ASSUME IInv, NEW d \in Daemons, InsertClaim(d)
    PROVE  IInv'
<1> DEFINE op == Head(Queue(d))
           until == op.now + op.ttl
<1>0. /\ TypeOK /\ ActiveWorkerOwnsTheLease /\ Queue(d) # <<>>
      /\ UNCHANGED <<clock, runs, calls>>
  BY DEF IInv, InsertClaim, At
<1>1. op \in Ops /\ op.owner \in Owners /\ op.item \in Items /\ until \in Nat /\ clock \in Nat
  BY <1>0, ServedOp
<1>2. CASE Held(op.item)
  <2> DEFINE next == [op EXCEPT !.step = "rearm"]
  <2>1. daemon' = GoTo(d, next) /\ UNCHANGED <<claims, told>>
    BY <1>2 DEF InsertClaim
  <2>2. runs' \in SUBSET Owners
    BY <1>0 DEF TypeOK
  <2> HIDE DEF op
  <2>3. /\ next \in Ops /\ next.kind = op.kind /\ next.owner = op.owner /\ next.item = op.item
        /\ next.now = op.now
    BY <1>1 DEF Ops, Steps
  <2> HIDE DEF next
  <2>4. QED
    BY <1>0, <2>1, <2>2, <2>3, SteppedKeeps DEF op
<1>3. CASE ~Held(op.item)
  <2>1. /\ claims' = [claims EXCEPT ![op.item] = Row(op.owner, d, until)]
        /\ told' = Tell(d, op, until)
        /\ daemon' = Settled(d)
    BY <1>3 DEF InsertClaim
  <2> HIDE DEF until
  <2>2. Row(op.owner, d, until) \in Rows /\ Row(op.owner, d, until) # Free
    BY <1>0, <1>1, RowType
  <2>3. claims \in [Items -> Rows \cup {Free}]
    BY <1>0 DEF TypeOK
  <2>4. claims' \in [Items -> Rows \cup {Free}]
    BY <2>1, <2>2, <2>3
  <2>5. TypeOK' /\ TimesArePast' /\ ReleasedIsGivenUp'
    BY <1>0, <1>1, <2>1, <2>4, SettledIsSound
  <2>6. ActiveWorkerOwnsTheLease'
    <3> SUFFICES ASSUME NEW o \in Owners, NEW e \in Daemons, NEW i \in Items, told'[o][e][i] >= clock
                 PROVE  HeldBy(i, o, e)' /\ claims'[i].expires >= told'[o][e][i]
      BY <1>0 DEF ActiveWorkerOwnsTheLease
    <3> HIDE DEF op
    <3>1. told'[o][e][i] # told[o][e][i] =>
            o = op.owner /\ e = d /\ i = op.item /\ told'[o][e][i] = until
      BY <1>0, <1>1, <2>1, TellChanges
    <3>2. CASE told'[o][e][i] = told[o][e][i]
      <4>1. HeldBy(i, o, e) /\ claims[i].expires >= told[o][e][i]
        BY <1>0, <3>2 DEF ActiveWorkerOwnsTheLease
      <4>2. i # op.item
        BY <4>1, <1>3 DEF HeldBy
      <4>3. claims'[i] = claims[i]
        BY <4>2, <2>1, <2>3
      <4>4. QED
        BY <3>2, <4>1, <4>3 DEF HeldBy, Held
    <3>3. CASE told'[o][e][i] # told[o][e][i]
      <4>1. claims'[i] = Row(o, d, until)
        BY <3>1, <3>3, <2>1, <2>3, <1>1
      <4>2. claims'[i].owner = o /\ claims'[i].epoch = e /\ claims'[i].expires = until
        BY <4>1, <3>1, <3>3 DEF Row
      <4>3. claims'[i] # Free
        BY <4>1, <2>2, <3>1, <3>3
      <4>4. QED
        BY <3>1, <3>3, <4>2, <4>3, <1>1 DEF HeldBy, Held
    <3>4. QED
      BY <3>2, <3>3
  <2>7. QED
    BY <2>5, <2>6 DEF IInv
<1>4. QED
  BY <1>2, <1>3

LEMMA RearmClaimKeeps ==
    ASSUME IInv, NEW d \in Daemons, RearmClaim(d)
    PROVE  IInv'
<1> DEFINE op == Head(Queue(d))
           until == op.now + op.ttl
<1>0. /\ TypeOK /\ ReleasedIsGivenUp /\ ActiveWorkerOwnsTheLease /\ Queue(d) # <<>>
      /\ UNCHANGED <<clock, runs, calls>>
  BY DEF IInv, RearmClaim, At
<1>1. op \in Ops /\ until \in Nat
  BY <1>0, ServedOp
<1>2. ASSUME Rearmable(d, op), claims' = [claims EXCEPT ![op.item].expires = until],
             told' = Tell(d, op, until), daemon' = Settled(d)
      PROVE  IInv'
  <2>1. HeldBy(op.item, op.owner, d)
    BY <1>2 DEF Rearmable
  <2> HIDE DEF op, until
  <2>2. claims' \in [Items -> Rows \cup {Free}] /\ ActiveWorkerOwnsTheLease'
    BY <1>0, <1>1, <1>2, <2>1, Renewed
  <2>3. TypeOK' /\ TimesArePast' /\ ReleasedIsGivenUp'
    BY <1>0, <1>1, <1>2, <2>2, SettledIsSound DEF op
  <2>4. QED
    BY <2>2, <2>3 DEF IInv
<1>3. ASSUME op.tries < 2, daemon' = GoTo(d, [op EXCEPT !.step = "insert", !.tries = @ + 1]),
             UNCHANGED <<claims, told>>
      PROVE  IInv'
  <2> DEFINE next == [op EXCEPT !.step = "insert", !.tries = op.tries + 1]
  <2>1. daemon' = GoTo(d, next)
    BY <1>3
  <2>2. runs' \in SUBSET Owners
    BY <1>0 DEF TypeOK
  <2> HIDE DEF op
  <2>3. op.tries + 1 \in 0..3
    BY <1>1, <1>3 DEF Ops
  <2>4. /\ next \in Ops /\ next.kind = op.kind /\ next.owner = op.owner /\ next.item = op.item
        /\ next.now = op.now
    BY <1>1, <2>3 DEF Ops, Steps
  <2> HIDE DEF next
  <2>5. QED
    BY <1>0, <1>3, <2>1, <2>2, <2>4, SteppedKeeps DEF op
<1>4. ASSUME told' = Tell(d, op, -1), daemon' = Settled(d), UNCHANGED claims
      PROVE  IInv'
  <2>1. claims' \in [Items -> Rows \cup {Free}]
    BY <1>0, <1>4 DEF TypeOK
  <2>2. TypeOK' /\ TimesArePast' /\ ReleasedIsGivenUp'
    BY <1>0, <1>4, <2>1, SettledIsSound
  <2> HIDE DEF op
  <2>3. ActiveWorkerOwnsTheLease'
    BY <1>0, <1>1, <1>4, Refused
  <2>4. QED
    BY <2>2, <2>3 DEF IInv
<1>5. QED
  BY <1>2, <1>3, <1>4 DEF RearmClaim

LEMMA HeartbeatKeeps ==
    ASSUME IInv, NEW d \in Daemons, Heartbeat(d)
    PROVE  IInv'
<1> DEFINE op == Head(Queue(d))
           until == clock + op.ttl
<1>0. /\ TypeOK /\ ReleasedIsGivenUp /\ ActiveWorkerOwnsTheLease /\ Queue(d) # <<>>
      /\ UNCHANGED <<clock, runs, calls>> /\ daemon' = Settled(d)
  BY DEF IInv, Heartbeat, At
<1>1. op \in Ops /\ until \in Nat
  BY <1>0, ServedOp
<1>2. CASE HeldBy(op.item, op.owner, d)
  <2>1. claims' = [claims EXCEPT ![op.item].expires = until] /\ told' = Tell(d, op, until)
    BY <1>2 DEF Heartbeat
  <2> HIDE DEF op, until
  <2>2. claims' \in [Items -> Rows \cup {Free}] /\ ActiveWorkerOwnsTheLease'
    BY <1>0, <1>1, <1>2, <2>1, Renewed
  <2>3. TypeOK' /\ TimesArePast' /\ ReleasedIsGivenUp'
    BY <1>0, <1>1, <2>1, <2>2, SettledIsSound DEF op
  <2>4. QED
    BY <2>2, <2>3 DEF IInv
<1>3. CASE ~HeldBy(op.item, op.owner, d)
  <2>1. claims' = claims /\ told' = Tell(d, op, -1)
    BY <1>3 DEF Heartbeat
  <2>2. claims' \in [Items -> Rows \cup {Free}]
    BY <1>0, <2>1 DEF TypeOK
  <2>3. TypeOK' /\ TimesArePast' /\ ReleasedIsGivenUp'
    BY <1>0, <2>1, <2>2, SettledIsSound
  <2> HIDE DEF op
  <2>4. ActiveWorkerOwnsTheLease'
    BY <1>0, <1>1, <2>1, Refused
  <2>5. QED
    BY <2>3, <2>4 DEF IInv
<1>4. QED
  BY <1>2, <1>3

\* The row that is deleted is that of a worker that gave its lease up.
LEMMA ReleaseKeeps ==
    ASSUME IInv, NEW d \in Daemons, Release(d)
    PROVE  IInv'
<1> DEFINE op == Head(Queue(d))
<1>0. /\ TypeOK /\ TimesArePast /\ ReleasedIsGivenUp /\ ActiveWorkerOwnsTheLease /\ Queue(d) # <<>>
      /\ UNCHANGED <<clock, runs, told, calls>> /\ daemon' = Settled(d) /\ op.kind = "release"
      /\ claims' = IF Releasable(d, op) THEN [claims EXCEPT ![op.item] = Free] ELSE claims
  BY DEF IInv, Release, At
<1>1. op \in Ops /\ op.owner \in Owners /\ op.item \in Items /\ clock \in Nat
  BY <1>0, ServedOp
<1>2. told[op.owner][d][op.item] = -1
  <2>1. op = Queue(d)[1] /\ 1 \in 1..Len(Queue(d))
    BY <1>0, HeadType
  <2>2. QED
    BY <1>0, <2>1 DEF ReleasedIsGivenUp
<1>3. claims \in [Items -> Rows \cup {Free}]
  BY <1>0 DEF TypeOK
<1>4. /\ daemon' \in [Daemons -> DaemonRecords]
      /\ daemon'[d].queue = Tail(Queue(d))
      /\ \A e \in Daemons \ {d} : daemon'[e] = daemon[e]
  BY <1>0, SettledType
<1>5. QueuesStood
  BY <1>0, <1>4, Served
<1>6. TimesArePast' /\ ReleasedIsGivenUp'
  BY <1>0, <1>4, <1>5, StoodArePast, StoodAreGivenUp
<1> HIDE DEF op
<1>7. claims' \in [Items -> Rows \cup {Free}]
  BY <1>0, <1>3
<1>8. TypeOK'
  BY <1>0, <1>4, <1>7 DEF TypeOK, DaemonRecords
<1>9. ActiveWorkerOwnsTheLease'
  <2> SUFFICES ASSUME NEW o \in Owners, NEW e \in Daemons, NEW i \in Items, told[o][e][i] >= clock
               PROVE  HeldBy(i, o, e)' /\ claims'[i].expires >= told[o][e][i]
    BY <1>0 DEF ActiveWorkerOwnsTheLease
  <2>1. HeldBy(i, o, e) /\ claims[i].expires >= told[o][e][i]
    BY <1>0 DEF ActiveWorkerOwnsTheLease
  <2>2. ~(Releasable(d, op) /\ i = op.item)
    <3>1. SUFFICES ASSUME Releasable(d, op), i = op.item PROVE FALSE
      OBVIOUS
    <3>2. o = op.owner /\ e = d
      BY <2>1, <3>1 DEF Releasable, HeldBy
    <3>3. QED
      BY <3>1, <3>2, <1>1, <1>2
  <2>3. claims'[i] = claims[i]
    BY <2>2, <1>0, <1>3
  <2>4. QED
    BY <2>1, <2>3 DEF HeldBy, Held
<1>10. QED
  BY <1>6, <1>8, <1>9 DEF IInv

\* A sweep's time is past, so it finds nothing that somebody believes in.
LEMMA ReapKeeps ==
    ASSUME IInv, NEW d \in Daemons, Reap(d)
    PROVE  IInv'
<1> DEFINE op == Head(Queue(d))
<1>0. /\ TypeOK /\ TimesArePast /\ ReleasedIsGivenUp /\ ActiveWorkerOwnsTheLease /\ Queue(d) # <<>>
      /\ UNCHANGED <<clock, runs, told, calls>> /\ daemon' = AfterSweep(d, op)
      /\ claims' = [i \in Items |-> IF Expired(i, op.now) THEN Free ELSE claims[i]]
  BY DEF IInv, Reap, At
<1>1. op.now \in Nat /\ op.now <= clock /\ clock \in Nat
  BY <1>0, ServedOp
<1>2. claims \in [Items -> Rows \cup {Free}] /\ daemon \in [Daemons -> DaemonRecords]
      /\ Queue(d) \in Seq(Ops)
  BY <1>0 DEF TypeOK, DaemonRecords, Queue
<1> HIDE DEF op
<1>3. Tail(Queue(d)) \in Seq(Ops)
  BY <1>0, <1>2
<1> DEFINE after == [daemon[d] EXCEPT !.queue = Tail(Queue(d)),
                                      !.life = IF op.kind = "start" THEN "up" ELSE daemon[d].life,
                                      !.timer = daemon[d].timer \/ op.kind = "start"]
<1>a. daemon[d] \in DaemonRecords /\ daemon[d].life \in Lives /\ "up" \in Lives
  BY <1>2 DEF DaemonRecords, Lives
<1>b. (daemon[d].timer \/ op.kind = "start") \in BOOLEAN
  OBVIOUS
<1>c. (IF op.kind = "start" THEN "up" ELSE daemon[d].life) \in Lives
  BY <1>a
<1>d. after \in DaemonRecords /\ after.queue = Tail(Queue(d))
  BY <1>a, <1>b, <1>c, <1>3 DEF DaemonRecords
<1>e. daemon' = [daemon EXCEPT ![d] = after]
  BY <1>0, <1>2 DEF AfterSweep, Queue
<1> HIDE DEF after
<1>4. /\ daemon' \in [Daemons -> DaemonRecords]
      /\ daemon'[d].queue = Tail(Queue(d))
      /\ \A e \in Daemons \ {d} : daemon'[e] = daemon[e]
  BY <1>2, <1>d, <1>e
<1>5. QueuesStood
  BY <1>0, <1>4, Served
<1>6. TimesArePast' /\ ReleasedIsGivenUp'
  BY <1>0, <1>4, <1>5, StoodArePast, StoodAreGivenUp
<1>7. claims' \in [Items -> Rows \cup {Free}]
  BY <1>0, <1>2
<1>8. TypeOK'
  BY <1>0, <1>4, <1>7 DEF TypeOK, DaemonRecords
<1>9. ActiveWorkerOwnsTheLease'
  <2> SUFFICES ASSUME NEW o \in Owners, NEW e \in Daemons, NEW i \in Items, told[o][e][i] >= clock
               PROVE  HeldBy(i, o, e)' /\ claims'[i].expires >= told[o][e][i]
    BY <1>0 DEF ActiveWorkerOwnsTheLease
  <2>1. HeldBy(i, o, e) /\ claims[i].expires >= told[o][e][i]
    BY <1>0 DEF ActiveWorkerOwnsTheLease
  <2>2. claims[i].expires \in Nat /\ told[o][e][i] \in Nat \cup {-1}
    <3>1. claims[i] \in Rows
      BY <1>0, <2>1, RowType DEF HeldBy
    <3>2. QED
      BY <3>1, <1>0 DEF Rows, TypeOK
  <2>3. ~Expired(i, op.now)
    BY <1>1, <2>1, <2>2 DEF Expired
  <2>4. claims'[i] = claims[i]
    BY <2>3, <1>0
  <2>5. QED
    BY <2>1, <2>4 DEF HeldBy, Held
<1>10. QED
  BY <1>6, <1>8, <1>9 DEF IInv

-----------------------------------------------------------------------------
(* The invariant, and what it says.                                        *)

LEMMA InitIInv == Init => IInv
<1> SUFFICES ASSUME Init PROVE IInv
  OBVIOUS
<1>1. /\ clock = 0 /\ claims = [i \in Items |-> Free] /\ runs = {} /\ calls = 0
      /\ told = [o \in Owners |-> [d \in Daemons |-> [i \in Items |-> -1]]]
  BY DEF Init
<1>2. daemon \in [Daemons -> DaemonRecords] /\ \A d \in Daemons : Queue(d) = <<>>
  <2>1. <<>> \in Seq(Ops)
    OBVIOUS
  <2>2. QED
    BY <2>1 DEF Init, DaemonRecords, Lives, Queue
<1>3. TypeOK
  BY <1>1, <1>2, TimesAssumption, BoundsAssumption DEF TypeOK, DaemonRecords
<1>4. \A d \in Daemons : Len(Queue(d)) = 0
  BY <1>2
<1>5. TimesArePast /\ ReleasedIsGivenUp
  BY <1>4 DEF TimesArePast, ReleasedIsGivenUp
<1>6. ActiveWorkerOwnsTheLease
  BY <1>1 DEF ActiveWorkerOwnsTheLease
<1>7. QED
  BY <1>3, <1>5, <1>6 DEF IInv

LEMMA NextIInv == IInv /\ [Next]_vars => IInv'
<1> SUFFICES ASSUME IInv, [Next]_vars PROVE IInv'
  OBVIOUS
<1>1. ASSUME NEW d \in Daemons, NEW o \in Owners, NEW i \in Items, Call(d, o, i)
      PROVE  IInv'
  BY <1>1, CallKeeps
<1>2. ASSUME NEW d \in Daemons, Start(d) \/ CallReap(d) \/ TimerFires(d) \/ Close(d)
      PROVE  IInv'
  BY <1>2, StartKeeps, CallReapKeeps, CloseKeeps
<1>3. ASSUME NEW d \in Daemons, Serve(d)
      PROVE  IInv'
  BY <1>3, BeginClaimKeeps, InsertClaimKeeps, RearmClaimKeeps, HeartbeatKeeps, ReleaseKeeps,
     ReapKeeps DEF Serve
<1>4. ASSUME NEW d \in Daemons, Crash(d)
      PROVE  IInv'
  BY <1>4, CrashKeeps
<1>5. CASE Tick
  BY <1>5, TickKeeps
<1>6. CASE UNCHANGED vars
  <2>1. /\ clock' = clock /\ claims' = claims /\ runs' = runs
        /\ daemon' = daemon /\ told' = told /\ calls' = calls
    BY <1>6 DEF vars
  <2>2. TypeOK'
    BY <2>1, Zenon DEF IInv, TypeOK
  <2>3. TimesArePast'
    BY <2>1, Zenon DEF IInv, TimesArePast, Queue
  <2>4. ReleasedIsGivenUp'
    BY <2>1, Zenon DEF IInv, ReleasedIsGivenUp, Queue
  <2>5. ActiveWorkerOwnsTheLease'
    BY <2>1 DEF IInv, ActiveWorkerOwnsTheLease, HeldBy, Held
  <2> QED
    BY <2>2, <2>3, <2>4, <2>5 DEF IInv
<1>7. QED
  BY <1>1, <1>2, <1>3, <1>4, <1>5, <1>6 DEF Next

\* The invariant of the leases: types, times that are past, releases whose
\* callers gave up, and owners that are right (claim.ts, daemon.ts).
THEOREM LeaseInvariant == Spec => []IInv
<1>1. Spec => Init /\ [][Next]_vars
  BY DEF Spec
<1>2. QED
  BY <1>1, InitIInv, NextIInv, PTL

\* Rows, queues and beliefs stay of their types (claim.ts, daemon.ts).
THEOREM TypeCorrect == Spec => []TypeOK
<1>1. IInv => TypeOK
  BY DEF IInv
<1>2. QED
  BY <1>1, LeaseInvariant, PTL

\* A worker that believes in its lease has it in the table, for at least as long
\* as it believes (claim.ts:150-156).
THEOREM LeaseIsOwned == Spec => []ActiveWorkerOwnsTheLease
<1>1. IInv => ActiveWorkerOwnsTheLease
  BY DEF IInv
<1>2. QED
  BY <1>1, LeaseInvariant, PTL

\* No two workers ever work on one item, under one daemon or two
\* (claim.ts:150-156, the two-active-workers guard).
THEOREM WorkersExclude == Spec => []OneActiveWorker
<1>1. IInv => OneActiveWorker
  BY DEF IInv, ActiveWorkerOwnsTheLease, OneActiveWorker, HeldBy
<1>2. QED
  BY <1>1, LeaseInvariant, PTL
=============================================================================
