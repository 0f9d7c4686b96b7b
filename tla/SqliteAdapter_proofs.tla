------------------------ MODULE SqliteAdapter_proofs ------------------------
(***************************************************************************)
(* What TLAPS checks of the transactions of sqlite.ts, for every set of    *)
(* calls and every nesting of them, as long as a callback awaits a nested  *)
(* call before it goes on: rollbacks undo exactly their region; and, while *)
(* plain statements keep out of open transactions, the adapter implements  *)
(* the atomic store.                                                       *)
(***************************************************************************)
EXTENDS SqliteAdapter, TLAPS

-----------------------------------------------------------------------------
(* The nesting of the calls.                                               *)

Calls == Txns \cup Nests \cup Plains

\* Sets of nested calls that hold with each the nested call it is inside.
Closed == {S \in SUBSET Nests : \A k \in S : Parent[k] \in Nests => Parent[k] \in S}

\* A nested call and those it is inside, at any depth.
Under(n) == {a \in Nests : \A S \in Closed : n \in S => a \in S}

\* One that failed, or is inside one that failed.
Fails(n) == \E a \in Under(n) : pc[a] = "failed"

\* Whose transaction a write belongs to; a plain one is on its own.
Owner(c) == IF c \in Nests THEN Root[c] ELSE c

-----------------------------------------------------------------------------
(* The inductive invariant.                                                *)

\* The transactions that wait are in the chain, and the one that runs is its head.
ChainFits ==
    /\ \A t \in Txns : pc[t] \in {"queued", "open", "wrote"} => \E i \in DOMAIN chain : chain[i] = t
    /\ \A t \in Txns : InProgress(t) => db.inTx /\ chain # <<>> /\ t = Head(chain)
    /\ db.inTx => chain # <<>> /\ InProgress(Head(chain))

\* How many savepoints are below what a call in progress does.
Level(c) == IF c \in Nests THEN savepoint[c] ELSE 0

\* The savepoints are those of the nested calls in progress, each on top of that
\* of the call it is inside, and are named after their place.
StackFits ==
    /\ ~db.inTx => db.saves = <<>>
    /\ db.inTx => txDepth = Len(db.saves) + 1
    /\ \A i \in DOMAIN db.saves :
         /\ db.saves[i].name = i
         /\ \E n \in Nests : InProgress(n) /\ savepoint[n] = i
    /\ \A n \in Nests : InProgress(n) =>
         /\ savepoint[n] \in DOMAIN db.saves
         /\ savepoint[n] = Level(Parent[n]) + 1
         /\ \A m \in Nests : InProgress(m) /\ savepoint[n] <= savepoint[m] => n \in Under(m)
    /\ \A n, m \in Nests : InProgress(n) /\ InProgress(m) /\ savepoint[n] = savepoint[m] => n = m

\* A nested call begins after the call it is inside, and ends before it.
CallsFit ==
    \A n \in Nests :
      /\ pc[n] # "idle" => /\ pc[Parent[n]] # "idle"
                           /\ pc[Root[n]] \notin {"idle", "queued"}
      /\ InProgress(n) => InProgress(Parent[n]) /\ InProgress(Root[n])
      /\ pc[n] # "queued"

\* The calls whose write is to be in the database.
Lasts(c) ==
    /\ pc[c] \in {"wrote", "done"}
    /\ c \in Nests => ~Fails(c) /\ pc[Root[c]] # "failed"

\* Statements on the adapter itself are accounted for where they wait.
Watched == IF PlainsWait THEN Calls ELSE Txns \cup Nests

\* The rows are the writes that last.
RowsFit == \A c \in Watched : c \in db.rows <=> Lasts(c)

\* What a rollback would restore is all but what it is to undo.
UndoFits ==
    /\ \A n \in Nests : InProgress(n) =>
         \A c \in Watched :
           c \in db.saves[savepoint[n]].rows <=> Lasts(c) /\ ~(c \in Nests /\ n \in Under(c))
    /\ db.inTx => \A c \in Watched : c \in db.begun <=> Lasts(c) /\ Owner(c) # Head(chain)

IInv == TypeOK /\ ChainFits /\ StackFits /\ CallsFit /\ RowsFit /\ UndoFits

-----------------------------------------------------------------------------
(* Lemmas about the nesting.                                               *)

LEMMA UnderSelf ==
    ASSUME NEW n \in Nests
    PROVE  n \in Under(n)
BY DEF Under

\* What a nested call is inside, those inside it are inside as well.
LEMMA UnderTrans ==
    ASSUME NEW n \in Nests, NEW m \in Under(n)
    PROVE  m \in Nests /\ Under(m) \subseteq Under(n)
BY DEF Under

LEMMA UnderParent ==
    ASSUME NEW n \in Nests, Parent[n] \in Nests
    PROVE  Parent[n] \in Under(n) /\ Under(Parent[n]) \subseteq Under(n)
<1>1. Parent[n] \in Under(n)
  BY DEF Under, Closed
<1> QED
  BY <1>1, UnderTrans

\* A closed set that holds a nested call holds what it is inside.
LEMMA UnderLeast ==
    ASSUME NEW n \in Nests, NEW S \in SUBSET Nests, n \in S,
           \A k \in S : Parent[k] \in Nests => Parent[k] \in S
    PROVE  Under(n) \subseteq S
BY DEF Under, Closed

\* Besides itself that is what the call around it is inside.
LEMMA UnderUnfold ==
    ASSUME NEW n \in Nests
    PROVE  /\ Parent[n] \in Nests => Under(n) = {n} \cup Under(Parent[n])
           /\ Parent[n] \notin Nests => Under(n) = {n}
<1>1. CASE Parent[n] \in Nests
  <2> DEFINE S == {n} \cup Under(Parent[n])
  <2>1. S \subseteq Nests /\ n \in S /\ Parent[n] \in S
    BY <1>1, UnderSelf DEF Under
  <2>2. ASSUME NEW k \in S, Parent[k] \in Nests
        PROVE  Parent[k] \in S
    <3>1. CASE k = n
      BY <3>1, <2>1
    <3>2. CASE k \in Under(Parent[n])
      <4>1. k \in Nests /\ Under(k) \subseteq Under(Parent[n])
        BY <3>2, <1>1, UnderTrans
      <4> QED
        BY <4>1, <2>2, UnderParent
    <3> QED
      BY <2>2, <3>1, <3>2
  <2>3. Under(n) \subseteq S
    <3> HIDE DEF S
    <3> QED
      BY <2>1, <2>2, UnderLeast
  <2> QED
    BY <2>3, <1>1, UnderParent, UnderSelf
<1>2. CASE Parent[n] \notin Nests
  <2>1. Under(n) \subseteq {n}
    BY <1>2, UnderLeast
  <2> QED
    BY <2>1, <1>2, UnderSelf
<1> QED
  BY <1>1, <1>2

\* The outermost transaction of a nested call is that of the call around it.
LEMMA RootUnfold ==
    ASSUME NEW n \in Nests
    PROVE  Root[n] = IF Parent[n] \in Nests THEN Root[Parent[n]] ELSE Parent[n]
<1> DEFINE Tops(k) == {Parent[a] : a \in {b \in Under(k) : Parent[b] \notin Nests}}
           r == [k \in Nests |-> CHOOSE t : t \in Tops(k)]
           Def(f) == [k \in Nests |-> IF Parent[k] \in Nests THEN f[Parent[k]] ELSE Parent[k]]
<1>1. ASSUME NEW k \in Nests
      PROVE  r[k] = IF Parent[k] \in Nests THEN r[Parent[k]] ELSE Parent[k]
  <2>1. CASE Parent[k] \in Nests
    <3>1. Tops(k) = Tops(Parent[k])
      BY <2>1, UnderUnfold
    <3>2. r[k] = (CHOOSE t : t \in Tops(k)) /\ r[Parent[k]] = CHOOSE t : t \in Tops(Parent[k])
      BY <2>1
    <3> HIDE DEF Tops, r
    <3> QED
      BY <2>1, <3>1, <3>2
  <2>2. CASE Parent[k] \notin Nests
    <3>1. Tops(k) = {Parent[k]}
      BY <2>2, UnderUnfold
    <3>2. r[k] = CHOOSE t : t \in Tops(k)
      OBVIOUS
    <3> HIDE DEF Tops, r
    <3> QED
      BY <2>2, <3>1, <3>2
  <2> QED
    BY <2>1, <2>2
<1>2. r = Def(r)
  <2> HIDE DEF Tops
  <2>1. \A k \in Nests : r[k] = Def(r)[k]
    <3> HIDE DEF r
    <3> QED
      BY <1>1
  <2> QED
    BY <2>1
<1>3. Root = CHOOSE f : f = Def(f)
  BY DEF Root
<1> HIDE DEF r, Def
<1>4. Root = Def(Root)
  BY <1>2, <1>3
<1> QED
  BY <1>4 DEF Def

\* Nesting is well founded: it ends in an outermost transaction.
LEMMA RootIsTxn ==
    ASSUME NEW n \in Nests
    PROVE  Root[n] \in Txns
<1> DEFINE S == {k \in Nests : Root[k] \notin Txns}
<1>1. ASSUME S # {}
      PROVE  FALSE
  <2>1. PICK k \in S : Parent[k] \notin S
    BY <1>1, CallsAssumption
  <2> QED
    BY <2>1, RootUnfold, CallsAssumption
<1> QED
  BY <1>1

\* Calls inside one another are of one transaction.
LEMMA RootUnder ==
    ASSUME NEW n \in Nests, NEW m \in Under(n)
    PROVE  Root[m] = Root[n]
<1> DEFINE S == {k \in Nests : Root[k] = Root[n]}
<1>1. \A k \in S : Parent[k] \in Nests => Parent[k] \in S
  BY RootUnfold
<1>2. Under(n) \subseteq S
  <2>1. S \subseteq Nests /\ n \in S
    OBVIOUS
  <2> HIDE DEF S
  <2> QED
    BY <1>1, <2>1, UnderLeast
<1> QED
  BY <1>2

\* `Undone' looks at each call on the way up.
LEMMA UndoneUnfold ==
    ASSUME NEW n \in Nests
    PROVE  Undone[n] <=> pc[n] = "failed" \/ (Parent[n] \in Nests /\ Undone[Parent[n]])
<1> DEFINE u == [k \in Nests |-> Fails(k)]
           Def(f) == [k \in Nests |-> pc[k] = "failed" \/ (Parent[k] \in Nests /\ f[Parent[k]])]
<1>1. ASSUME NEW k \in Nests
      PROVE  Fails(k) = (pc[k] = "failed" \/ (Parent[k] \in Nests /\ Fails(Parent[k])))
  <2>1. Fails(k) <=> pc[k] = "failed" \/ (Parent[k] \in Nests /\ Fails(Parent[k]))
    BY UnderUnfold DEF Fails
  <2>2. Fails(k) \in BOOLEAN
    BY DEF Fails
  <2> QED
    BY <2>1, <2>2, Zenon
<1>2. u = Def(u)
  <2>1. \A k \in Nests : Parent[k] \in Nests => u[Parent[k]] = Fails(Parent[k])
    OBVIOUS
  <2>2. \A k \in Nests : u[k] = Def(u)[k]
    BY <1>1, <2>1, Zenon
  <2> QED
    BY <2>2
<1>3. Undone = CHOOSE f : f = Def(f)
  BY DEF Undone
<1> HIDE DEF u, Def
<1>4. Undone = Def(Undone)
  BY <1>2, <1>3
<1> QED
  BY <1>4 DEF Def

LEMMA UndoneIsFails ==
    ASSUME NEW n \in Nests
    PROVE  Undone[n] <=> Fails(n)
<1> DEFINE S == {k \in Nests : ~(Undone[k] <=> Fails(k))}
<1>1. ASSUME S # {}
      PROVE  FALSE
  <2>1. PICK k \in S : Parent[k] \notin S
    BY <1>1, CallsAssumption
  <2>2. Fails(k) <=> pc[k] = "failed" \/ (Parent[k] \in Nests /\ Fails(Parent[k]))
    BY UnderUnfold DEF Fails
  <2>3. Undone[k] <=> pc[k] = "failed" \/ (Parent[k] \in Nests /\ Undone[Parent[k]])
    BY UndoneUnfold
  <2> QED
    BY <2>1, <2>2, <2>3
<1> QED
  BY <1>1

-----------------------------------------------------------------------------
(* Lemmas about a state that fits.                                         *)

LEMMA OwnerOfNest ==
    ASSUME NEW n \in Nests
    PROVE  n \in Calls /\ n \notin Txns /\ n \notin Plains
           /\ Owner(n) = Root[n] /\ Root[n] \in Txns /\ Root[n] \in Calls /\ Root[n] \notin Nests
BY RootIsTxn, CallsAssumption DEF Owner, Calls

LEMMA OwnerOfTxn ==
    ASSUME NEW t \in Txns
    PROVE  t \in Calls /\ t \notin Nests /\ t \notin Plains /\ Owner(t) = t
BY CallsAssumption DEF Owner, Calls

\* Whatever a nested call is inside began before it, and goes on while it does.
LEMMA UnderStarted ==
    ASSUME CallsFit, NEW n \in Nests, pc[n] # "idle", NEW m \in Under(n)
    PROVE  pc[m] # "idle"
<1> DEFINE S == {k \in Nests : pc[k] # "idle"}
<1>1. \A k \in S : Parent[k] \in Nests => Parent[k] \in S
  BY DEF CallsFit
<1>2. S \subseteq Nests /\ n \in S
  OBVIOUS
<1> HIDE DEF S
<1>3. Under(n) \subseteq S
  BY <1>1, <1>2, UnderLeast
<1> QED
  BY <1>3 DEF S

LEMMA UnderInProgress ==
    ASSUME CallsFit, NEW n \in Nests, InProgress(n), NEW m \in Under(n)
    PROVE  InProgress(m)
<1> DEFINE S == {k \in Nests : InProgress(k)}
<1>1. \A k \in S : Parent[k] \in Nests => Parent[k] \in S
  BY DEF CallsFit
<1>2. S \subseteq Nests /\ n \in S
  OBVIOUS
<1> HIDE DEF S
<1>3. Under(n) \subseteq S
  BY <1>1, <1>2, UnderLeast
<1> QED
  BY <1>3 DEF S

LEMMA NoFailureAround ==
    ASSUME CallsFit, NEW n \in Nests, InProgress(n)
    PROVE  ~Fails(n)
BY UnderInProgress DEF Fails, InProgress

\* A callback runs in the transaction at the head of the chain.
LEMMA InTheOpenTransaction ==
    ASSUME ChainFits, CallsFit, NEW c \in Txns \cup Nests, InProgress(c)
    PROVE  db.inTx /\ chain # <<>> /\ Owner(c) = Head(chain) /\ InProgress(Owner(c))
<1>1. CASE c \in Txns
  BY <1>1, OwnerOfTxn DEF ChainFits
<1>2. CASE c \in Nests
  <2>1. InProgress(Root[c]) /\ Root[c] \in Txns /\ Owner(c) = Root[c]
    BY <1>2, OwnerOfNest DEF CallsFit
  <2> QED
    BY <2>1 DEF ChainFits
<1> QED
  BY <1>1, <1>2

\* Only one transaction is in progress.
LEMMA OneTransaction ==
    ASSUME ChainFits, NEW t \in Txns, NEW u \in Txns, InProgress(t), InProgress(u)
    PROVE  t = u
BY DEF ChainFits

\* A call with nothing in progress inside it works on top of the savepoints.
LEMMA OnTop ==
    ASSUME TypeOK, ChainFits, StackFits, CallsFit,
           NEW c \in Txns \cup Nests, InProgress(c), AllSettled(c)
    PROVE  Level(c) = Len(db.saves)
<1>1. Len(db.saves) \in Nat /\ DOMAIN db.saves = 1..Len(db.saves)
  BY DEF TypeOK
<1>2. Level(c) \in 0..Len(db.saves)
  BY <1>1, CallsAssumption DEF StackFits, Level
<1>3. ASSUME Level(c) # Len(db.saves)
      PROVE  FALSE
  <2>1. Level(c) + 1 \in DOMAIN db.saves
    BY <1>1, <1>2, <1>3
  <2>2. PICK n \in Nests : InProgress(n) /\ savepoint[n] = Level(c) + 1
    BY <2>1 DEF StackFits
  <2>3. savepoint[n] = Level(Parent[n]) + 1 /\ InProgress(Parent[n])
    BY <2>2 DEF StackFits, CallsFit
  <2>4. Parent[n] \in Txns \cup Nests
    BY CallsAssumption
  <2>5. Level(Parent[n]) \in Nat
    BY <2>4, CallsAssumption DEF TypeOK, Level
  <2>6. Level(Parent[n]) = Level(c)
    BY <1>2, <2>2, <2>3, <2>5
  <2>7. Parent[n] # c
    BY <2>2 DEF AllSettled, Within
  <2>8. \A m \in Nests : InProgress(m) => Level(m) # 0
    BY <1>1 DEF StackFits, Level
  <2>9. CASE c \in Nests
    <3>1. Parent[n] \in Nests
      BY <2>4, <2>6, <2>8, <2>9, CallsAssumption DEF Level
    <3> QED
      BY <3>1, <2>3, <2>6, <2>7, <2>9 DEF StackFits, Level
  <2>10. CASE c \in Txns
    <3>1. Parent[n] \in Txns
      BY <2>3, <2>4, <2>6, <2>8, <2>10, CallsAssumption DEF Level
    <3> QED
      BY <3>1, <2>3, <2>7, <2>10, OneTransaction
  <2> QED
    BY <2>9, <2>10
<1> QED
  BY <1>3

\* The innermost savepoint of a name is the one in its place.
LEMMA InnermostIsInPlace ==
    ASSUME TypeOK, StackFits, NEW i \in DOMAIN db.saves
    PROVE  Innermost(db, i) = i
<1>1. {j \in DOMAIN db.saves : db.saves[j].name = i} = {i}
  BY DEF StackFits
<1>2. \A j \in {i} : j <= i
  BY DEF TypeOK
<1> QED
  BY <1>1, <1>2 DEF Innermost

-----------------------------------------------------------------------------
(* What a call's step means for the writes that are to last.               *)

LEMMA FailsKept ==
    ASSUME TypeOK, NEW x \in Calls, NEW v \in CallStates, pc' = [pc EXCEPT ![x] = v],
           (x \in Nests => pc[x] # "failed" /\ v # "failed"), NEW n \in Nests
    PROVE  Fails(n)' <=> Fails(n)
<1>1. \A a \in Under(n) : pc'[a] = "failed" <=> pc[a] = "failed"
  BY DEF TypeOK, Calls, Under
<1> QED
  BY <1>1 DEF Fails

LEMMA LastsKept ==
    ASSUME TypeOK, NEW x \in Calls, NEW v \in CallStates, pc' = [pc EXCEPT ![x] = v],
           pc[x] # "failed", v # "failed", NEW c \in Calls, c # x
    PROVE  Lasts(c)' <=> Lasts(c)
<1>1. pc'[c] = pc[c]
  BY DEF TypeOK, Calls
<1>2. ASSUME c \in Nests
      PROVE  /\ Fails(c)' <=> Fails(c)
             /\ pc'[Root[c]] = "failed" <=> pc[Root[c]] = "failed"
  BY <1>2, FailsKept, OwnerOfNest DEF TypeOK, Calls
<1> QED
  BY <1>1, <1>2 DEF Lasts

\* A nested call that fails takes what is inside it along.
LEMMA LastsAfterNestFails ==
    ASSUME TypeOK, NEW x \in Nests, pc' = [pc EXCEPT ![x] = "failed"], NEW c \in Calls
    PROVE  Lasts(c)' <=> Lasts(c) /\ ~(c \in Nests /\ x \in Under(c))
<1>1. CASE c \in Nests
  <2>1. pc'[Root[c]] = pc[Root[c]]
    BY <1>1, OwnerOfNest DEF TypeOK, Calls
  <2>2. \A a \in Under(c) : pc'[a] = IF a = x THEN "failed" ELSE pc[a]
    BY <1>1 DEF TypeOK, Under
  <2>3. Fails(c)' <=> Fails(c) \/ x \in Under(c)
    BY <2>2 DEF Fails
  <2>4. c \in Under(c) /\ c \in DOMAIN pc
    BY <1>1, UnderSelf DEF TypeOK
  <2>5. pc'[c] = IF c = x THEN "failed" ELSE pc[c]
    BY <2>2, <2>4
  <2> QED
    BY <1>1, <2>1, <2>3, <2>4, <2>5 DEF Lasts
<1>2. CASE c \notin Nests
  <2>1. pc'[c] = pc[c]
    BY <1>2 DEF TypeOK, Calls
  <2> QED
    BY <1>2, <2>1 DEF Lasts
<1> QED
  BY <1>1, <1>2

\* An outermost one takes all it owns along.
LEMMA LastsAfterTxnFails ==
    ASSUME TypeOK, NEW x \in Txns, pc' = [pc EXCEPT ![x] = "failed"], NEW c \in Calls
    PROVE  Lasts(c)' <=> Lasts(c) /\ Owner(c) # x
<1>1. CASE c \in Nests
  <2>1. Fails(c)' <=> Fails(c)
    BY <1>1, FailsKept, OwnerOfTxn DEF CallStates
  <2>2. pc'[c] = pc[c] /\ pc'[Root[c]] = IF Root[c] = x THEN "failed" ELSE pc[Root[c]]
    BY <1>1, OwnerOfNest, OwnerOfTxn DEF TypeOK, Calls
  <2> QED
    BY <1>1, <2>1, <2>2, OwnerOfNest DEF Lasts
<1>2. CASE c \notin Nests
  <2>1. pc'[c] = (IF c = x THEN "failed" ELSE pc[c]) /\ Owner(c) = c
    BY <1>2 DEF TypeOK, Calls, Owner
  <2> QED
    BY <1>2, <2>1 DEF Lasts
<1> QED
  BY <1>1, <1>2

-----------------------------------------------------------------------------
(* Each action keeps the invariant.                                        *)

\* What the step of one call leaves of the others.
LEMMA OthersStay ==
    ASSUME TypeOK, NEW x \in Calls, NEW v \in CallStates, pc' = [pc EXCEPT ![x] = v]
    PROVE  /\ pc' \in [Calls -> CallStates]
           /\ pc'[x] = v
           /\ \A c \in Calls : c # x => pc'[c] = pc[c]
BY DEF TypeOK, Calls

\* A step that leaves the savepoints and the nested calls alone.
LEMMA StackKept ==
    ASSUME StackFits, db'.saves = db.saves, UNCHANGED savepoint,
           db'.inTx \/ db.saves = <<>>, db'.inTx => txDepth' = Len(db.saves) + 1,
           \A n \in Nests : InProgress(n)' <=> InProgress(n)
    PROVE  StackFits'
<1>1. \A c : Level(c)' = Level(c)
  BY DEF Level
<1>2. ~db'.inTx => db'.saves = <<>>
  OBVIOUS
<1>3. db'.inTx => txDepth' = Len(db'.saves) + 1
  OBVIOUS
<1>4. ASSUME NEW i \in DOMAIN db'.saves
      PROVE  /\ db'.saves[i].name = i
             /\ \E n \in Nests : InProgress(n)' /\ savepoint'[n] = i
  BY <1>4 DEF StackFits
<1>5. ASSUME NEW n \in Nests, InProgress(n)'
      PROVE  /\ savepoint'[n] \in DOMAIN db'.saves
             /\ savepoint'[n] = Level(Parent[n])' + 1
             /\ \A m \in Nests : InProgress(m)' /\ savepoint'[n] <= savepoint'[m] => n \in Under(m)
  BY <1>1, <1>5 DEF StackFits
<1>6. \A n, m \in Nests : InProgress(n)' /\ InProgress(m)' /\ savepoint'[n] = savepoint'[m] => n = m
  BY DEF StackFits
<1> QED
  BY <1>2, <1>3, <1>4, <1>5, <1>6 DEF StackFits

\* A nested call that goes on, or an outermost one that does not end.
LEMMA CallsKept ==
    ASSUME TypeOK, CallsFit, NEW x \in Calls, NEW v \in CallStates \ {"idle"},
           pc' = [pc EXCEPT ![x] = v], x \in Nests => v # "queued",
           pc[x] \notin {"idle", "queued"} => v # "queued",
           InProgress(x) /\ v \notin {"open", "wrote"} => AllSettled(x),
           InProgress(x) /\ v \notin {"open", "wrote"} =>
             \A n \in Nests : InProgress(n) => Root[n] # x,
           x \in Nests /\ pc[x] = "idle" => InProgress(Parent[x]),
           x \in Nests /\ v \in {"open", "wrote"} => InProgress(Parent[x])
    PROVE  CallsFit'
<1>1. /\ pc'[x] = v
      /\ \A c \in Calls : c # x => pc'[c] = pc[c]
  BY OthersStay
<1>2. ASSUME NEW n \in Nests
      PROVE  Parent[n] \in Calls /\ Parent[n] # n /\ n \in Calls /\ Root[n] \in Calls \ Nests
  <2>1. Parent[n] # n
    <3>1. {n} \in SUBSET Nests
      OBVIOUS
    <3> QED
      BY <3>1, CallsAssumption
  <2> QED
    BY <2>1, CallsAssumption, OwnerOfNest DEF Calls
<1>3. \A n \in Nests : InProgress(Parent[n]) =>
        InProgress(Root[n]) /\ pc[Root[n]] \notin {"idle", "queued"}
  BY RootUnfold, CallsAssumption DEF CallsFit, InProgress
<1>4. ASSUME NEW n \in Nests, pc'[n] # "idle"
      PROVE  pc'[Parent[n]] # "idle" /\ pc'[Root[n]] \notin {"idle", "queued"}
  <2>1. CASE n = x /\ pc[n] = "idle"
    BY <1>1, <1>2, <1>3, <2>1 DEF InProgress
  <2>2. CASE pc[n] # "idle"
    BY <1>1, <1>2, <2>2 DEF CallsFit
  <2> QED
    BY <1>1, <1>2, <1>4, <2>1, <2>2
<1>5. ASSUME NEW n \in Nests, pc'[n] \in {"open", "wrote"}
      PROVE  pc'[Parent[n]] \in {"open", "wrote"} /\ pc'[Root[n]] \in {"open", "wrote"}
  <2>1. CASE n = x
    BY <1>1, <1>2, <1>3, <1>5, <2>1 DEF InProgress
  <2>2. CASE n # x
    <3>1. InProgress(n) /\ InProgress(Parent[n]) /\ InProgress(Root[n])
      BY <1>1, <1>2, <1>5, <2>2 DEF CallsFit, InProgress
    <3>2. Parent[n] = x => v \in {"open", "wrote"}
      BY <3>1 DEF AllSettled, Within
    <3>3. Root[n] = x => v \in {"open", "wrote"}
      BY <3>1
    <3> QED
      BY <1>1, <1>2, <3>1, <3>2, <3>3 DEF InProgress
  <2> QED
    BY <2>1, <2>2
<1>6. ASSUME NEW n \in Nests
      PROVE  pc'[n] # "queued"
  BY <1>1, <1>2 DEF CallsFit
<1> QED
  BY <1>4, <1>5, <1>6 DEF CallsFit, InProgress

LEMMA CallTransactionKeeps ==
    ASSUME IInv, NEW t \in Txns, CallTransaction(t)
    PROVE  IInv'
<1> USE DEF IInv
<1>1. t \in Calls /\ t \notin Nests /\ pc[t] = "idle" /\ UNCHANGED <<db, txDepth, savepoint>>
  BY OwnerOfTxn DEF CallTransaction
<1>2. chain' = Append(chain, t) /\ pc' = [pc EXCEPT ![t] = "queued"]
  BY DEF CallTransaction
<1>3. /\ pc' \in [Calls -> CallStates]
      /\ pc'[t] = "queued"
      /\ \A c \in Calls : c # t => pc'[c] = pc[c]
  BY <1>1, <1>2, OthersStay DEF CallStates
<1>4. chain \in Seq(Txns)
  BY DEF TypeOK
<1>5. TypeOK'
  <2>1. chain' \in Seq(Txns)
    BY <1>2, <1>4
  <2> QED
    BY <1>1, <1>3, <2>1 DEF TypeOK, Calls, Savepoints
<1>6. chain # <<>> => chain' # <<>> /\ Head(chain') = Head(chain)
  BY <1>2, <1>4
<1>7. \A c \in Calls : InProgress(c)' <=> InProgress(c)
  BY <1>1, <1>3 DEF InProgress
<1>8. ChainFits'
  <2>1. ASSUME NEW u \in Txns, pc'[u] \in {"queued", "open", "wrote"}
        PROVE  \E i \in DOMAIN chain' : chain'[i] = u
    <3>1. CASE u = t
      <4>1. Len(chain) + 1 \in DOMAIN chain' /\ chain'[Len(chain) + 1] = t
        BY <1>2, <1>4
      <4> QED
        BY <3>1, <4>1
    <3>2. CASE u # t
      <4>1. PICK i \in DOMAIN chain : chain[i] = u
        BY <1>3, <2>1, <3>2, OwnerOfTxn DEF ChainFits
      <4>2. i \in DOMAIN chain' /\ chain'[i] = u
        BY <1>2, <1>4, <4>1
      <4> QED
        BY <4>2
    <3> QED
      BY <3>1, <3>2
  <2>2. ASSUME NEW u \in Txns, InProgress(u)'
        PROVE  db'.inTx /\ chain' # <<>> /\ u = Head(chain')
    BY <1>1, <1>6, <1>7, <2>2, OwnerOfTxn DEF ChainFits
  <2>3. ASSUME db'.inTx
        PROVE  chain' # <<>> /\ pc'[Head(chain')] \in {"open", "wrote"}
    <3>1. db.inTx /\ chain # <<>> /\ Head(chain) \in Txns /\ InProgress(Head(chain))
      BY <1>1, <1>4, <2>3 DEF ChainFits
    <3> QED
      BY <1>6, <1>7, <3>1, OwnerOfTxn DEF InProgress
  <2> QED
    BY <2>1, <2>2, <2>3 DEF ChainFits, InProgress
<1>9. StackFits'
  <2>1. \A n \in Nests : InProgress(n)' <=> InProgress(n)
    BY <1>7, OwnerOfNest
  <2>2. db'.inTx \/ db.saves = <<>>
    BY <1>1 DEF StackFits
  <2>3. db'.inTx => txDepth' = Len(db.saves) + 1
    BY <1>1 DEF StackFits
  <2> QED
    BY <1>1, <2>1, <2>2, <2>3, StackKept
<1>10. CallsFit'
  BY <1>1, <1>2, CallsKept DEF CallStates, InProgress
<1>11. \A c \in Calls : Lasts(c)' <=> Lasts(c)
  <2>1. \A c \in Calls : c # t => (Lasts(c)' <=> Lasts(c))
    BY <1>1, <1>2, LastsKept DEF CallStates
  <2>2. ~Lasts(t)' /\ ~Lasts(t)
    BY <1>1, <1>3 DEF Lasts
  <2> QED
    BY <2>1, <2>2
<1>12. Watched \subseteq Calls
  BY DEF Watched, Calls
<1>13. RowsFit'
  BY <1>1, <1>11, <1>12 DEF RowsFit
<1>14. UndoFits'
  <2>1. ASSUME NEW n \in Nests, InProgress(n)', NEW c \in Watched
        PROVE  c \in db'.saves[savepoint'[n]].rows <=> Lasts(c)' /\ ~(c \in Nests /\ n \in Under(c))
    BY <1>1, <1>7, <1>11, <1>12, <2>1, OwnerOfNest DEF UndoFits
  <2>2. ASSUME db'.inTx, NEW c \in Watched
        PROVE  c \in db'.begun <=> Lasts(c)' /\ Owner(c) # Head(chain')
    BY <1>1, <1>6, <1>11, <1>12, <2>2 DEF UndoFits, ChainFits
  <2> QED
    BY <2>1, <2>2 DEF UndoFits
<1> QED
  BY <1>5, <1>8, <1>9, <1>10, <1>13, <1>14

LEMMA WatchedAreCalls == Watched \subseteq Calls /\ Txns \cup Nests \subseteq Watched
BY DEF Watched, Calls

\* runOuterTransaction() begins with nothing else open: who is in progress is the
\* head of the chain, which is this transaction.
LEMMA BeginKeeps ==
    ASSUME IInv, NEW t \in Txns, Begin(t)
    PROVE  IInv'
<1> USE DEF IInv
<1>1. t \in Calls /\ t \notin Nests /\ pc[t] = "queued" /\ Owner(t) = t
  BY OwnerOfTxn DEF Begin
<1>2. UNCHANGED <<chain, savepoint>> /\ pc' = [pc EXCEPT ![t] = "open"] /\ txDepth' = 1
      /\ Head(chain) = t
  BY DEF Begin
<1>3. /\ pc' \in [Calls -> CallStates]
      /\ pc'[t] = "open"
      /\ \A c \in Calls : c # t => pc'[c] = pc[c]
  BY <1>1, <1>2, OthersStay DEF CallStates
<1>4. ~db.inTx /\ db.saves = <<>>
  <2>1. ~InProgress(t)
    BY <1>1 DEF InProgress
  <2> QED
    BY <1>2, <2>1 DEF ChainFits, StackFits
<1>5. /\ db' \in [rows : SUBSET Calls, begun : SUBSET Calls, inTx : BOOLEAN, saves : Seq(Savepoints)]
      /\ db'.rows = db.rows /\ db'.begun = db.rows /\ db'.inTx /\ db'.saves = db.saves
  BY DEF Begin, TypeOK, Calls
<1>6. TypeOK'
  BY <1>2, <1>3, <1>5 DEF TypeOK, Calls, Savepoints
<1>7. \A n \in Nests : InProgress(n)' <=> InProgress(n)
  BY <1>1, <1>3, OwnerOfNest DEF InProgress
<1>8. chain \in Seq(Txns) /\ chain # <<>>
  BY <1>1 DEF TypeOK, ChainFits
<1>9. ChainFits'
  <2>1. ASSUME NEW u \in Txns, pc'[u] \in {"queued", "open", "wrote"}
        PROVE  \E i \in DOMAIN chain' : chain'[i] = u
    <3>1. pc[u] \in {"queued", "open", "wrote"}
      BY <1>1, <1>3, <2>1, OwnerOfTxn
    <3> QED
      BY <1>2, <3>1 DEF ChainFits
  <2>2. ASSUME NEW u \in Txns, InProgress(u)'
        PROVE  u = t
    BY <1>3, <1>4, <2>2, OwnerOfTxn DEF ChainFits, InProgress
  <2>3. db'.inTx /\ chain' # <<>> /\ t = Head(chain') /\ InProgress(t)'
    BY <1>2, <1>3, <1>5, <1>8 DEF InProgress
  <2>4. \A u \in Txns : InProgress(u)' => db'.inTx /\ chain' # <<>> /\ u = Head(chain')
    BY <2>2, <2>3
  <2>5. InProgress(Head(chain))'
    BY <1>2, <1>3 DEF InProgress
  <2> QED
    BY <1>2, <2>1, <2>3, <2>4, <2>5 DEF ChainFits, InProgress
<1>10. StackFits'
  <2>1. Len(db.saves) = 0 /\ txDepth' = Len(db.saves) + 1
    BY <1>2, <1>4
  <2> QED
    BY <1>2, <1>5, <1>7, <2>1, StackKept
<1>11. CallsFit'
  BY <1>1, <1>2, CallsKept DEF CallStates, InProgress
<1>12. \A c \in Calls : Lasts(c)' <=> Lasts(c)
  <2>1. \A c \in Calls : c # t => (Lasts(c)' <=> Lasts(c))
    BY <1>1, <1>2, LastsKept DEF CallStates
  <2>2. ~Lasts(t)' /\ ~Lasts(t)
    BY <1>1, <1>3 DEF Lasts
  <2> QED
    BY <2>1, <2>2
<1>13. RowsFit'
  BY <1>5, <1>12, WatchedAreCalls DEF RowsFit
<1>14. UndoFits'
  <2>1. \A n \in Nests : ~InProgress(n)'
    BY <1>4, <1>7, InTheOpenTransaction
  <2>2. ASSUME NEW c \in Watched, Lasts(c)
        PROVE  Owner(c) # t
    <3>1. CASE c \in Nests
      <4>1. pc[Root[c]] # "queued" /\ Owner(c) = Root[c]
        BY <2>2, <3>1, OwnerOfNest DEF Lasts, CallsFit
      <4> QED
        BY <1>1, <4>1
    <3>2. CASE c \notin Nests
      BY <1>1, <2>2, <3>2 DEF Owner, Lasts
    <3> QED
      BY <3>1, <3>2
  <2>3. \A c \in Watched : c \in db'.begun <=> Lasts(c)' /\ Owner(c) # Head(chain')
    BY <1>2, <1>5, <1>12, <2>2, WatchedAreCalls DEF RowsFit
  <2> QED
    BY <2>1, <2>3 DEF UndoFits
<1> QED
  BY <1>6, <1>9, <1>10, <1>11, <1>13, <1>14

\* A callback writes where its own rollback reaches: on top of the savepoints.
LEMMA WriteKeeps ==
    ASSUME IInv, NestsInTurn, NEW c \in Txns \cup Nests, Write(c)
    PROVE  IInv'
<1> USE DEF IInv
<1>1. c \in Calls /\ pc[c] = "open" /\ InProgress(c) /\ AllSettled(c)
  BY DEF Write, Calls, InProgress
<1>2. UNCHANGED <<chain, txDepth, savepoint>> /\ pc' = [pc EXCEPT ![c] = "wrote"]
  BY DEF Write
<1>3. /\ pc' \in [Calls -> CallStates]
      /\ pc'[c] = "wrote"
      /\ \A d \in Calls : d # c => pc'[d] = pc[d]
  BY <1>1, <1>2, OthersStay DEF CallStates
<1>4. db.inTx /\ chain # <<>> /\ Owner(c) = Head(chain) /\ InProgress(Owner(c))
  BY <1>1, InTheOpenTransaction
<1>5. /\ db' \in [rows : SUBSET Calls, begun : SUBSET Calls, inTx : BOOLEAN, saves : Seq(Savepoints)]
      /\ db'.rows = db.rows \cup {c} /\ db'.begun = db.begun /\ db'.inTx /\ db'.saves = db.saves
  BY <1>1, <1>4 DEF Write, Writes, TypeOK, Calls
<1>6. TypeOK'
  BY <1>2, <1>3, <1>5 DEF TypeOK, Calls, Savepoints
<1>7. \A d \in Calls : InProgress(d)' <=> InProgress(d)
  BY <1>1, <1>3 DEF InProgress
<1>8. Head(chain) \in Txns
  BY <1>4 DEF TypeOK
<1>9. ChainFits'
  <2>1. \A u \in Txns : pc'[u] \in {"queued", "open", "wrote"} => pc[u] \in {"queued", "open", "wrote"}
    BY <1>1, <1>3, OwnerOfTxn
  <2>2. \A u \in Txns : InProgress(u)' => InProgress(u)
    BY <1>7, OwnerOfTxn
  <2>3. ChainFits /\ chain' = chain /\ db'.inTx /\ db.inTx
    BY <1>2, <1>4, <1>5
  <2>4. pc'[Head(chain)] \in {"open", "wrote"}
    BY <1>7, <1>8, <2>3, OwnerOfTxn DEF ChainFits, InProgress
  <2> QED
    BY <2>1, <2>2, <2>3, <2>4 DEF ChainFits, InProgress
<1>10. StackFits'
  <2>1. \A n \in Nests : InProgress(n)' <=> InProgress(n)
    BY <1>7, OwnerOfNest
  <2>2. txDepth' = Len(db.saves) + 1
    BY <1>2, <1>4 DEF StackFits
  <2> QED
    BY <1>2, <1>5, <2>1, <2>2, StackKept
<1>11. CallsFit'
  <2>1. c \in Nests => InProgress(Parent[c])
    BY <1>1 DEF CallsFit
  <2> QED
    BY <1>1, <1>2, <2>1, CallsKept DEF CallStates
<1>12. \A d \in Calls : d # c => (Lasts(d)' <=> Lasts(d))
  BY <1>1, <1>2, LastsKept DEF CallStates
<1>13. Lasts(c)' /\ ~Lasts(c)
  <2>1. ~Lasts(c)
    BY <1>1 DEF Lasts
  <2>2. ASSUME c \in Nests
        PROVE  ~Fails(c)' /\ pc'[Root[c]] # "failed"
    <3>1. ~Fails(c)
      BY <1>1, <2>2, NoFailureAround
    <3>2. ~Fails(c)'
      BY <1>1, <1>2, <2>2, <3>1, FailsKept DEF CallStates
    <3>3. InProgress(Root[c])' /\ Root[c] \in Calls
      BY <1>4, <1>7, <2>2, OwnerOfNest
    <3> QED
      BY <3>2, <3>3 DEF InProgress
  <2> QED
    BY <1>3, <2>1, <2>2 DEF Lasts
<1>14. RowsFit'
  BY <1>5, <1>12, <1>13, WatchedAreCalls DEF RowsFit
<1>15. UndoFits'
  <2>1. ASSUME NEW n \in Nests, InProgress(n)
        PROVE  c \in Nests /\ n \in Under(c)
    <3>1. Level(c) = Len(db.saves) /\ savepoint[n] \in 1..Len(db.saves)
      BY <1>1, <2>1, OnTop DEF StackFits, TypeOK
    <3>2. Level(c) # 0
      BY <3>1 DEF TypeOK
    <3>3. c \in Nests /\ savepoint[n] <= savepoint[c]
      BY <3>1, <3>2 DEF Level
    <3> QED
      BY <1>1, <2>1, <3>3 DEF StackFits
  <2>2. ASSUME NEW n \in Nests, InProgress(n)', NEW d \in Watched
        PROVE  d \in db'.saves[savepoint'[n]].rows <=> Lasts(d)' /\ ~(d \in Nests /\ n \in Under(d))
    <3>1. InProgress(n)
      BY <1>7, <2>2, OwnerOfNest
    <3>2. db'.saves[savepoint'[n]].rows = db.saves[savepoint[n]].rows
      BY <1>2, <1>5
    <3>3. d \in db.saves[savepoint[n]].rows <=> Lasts(d) /\ ~(d \in Nests /\ n \in Under(d))
      BY <3>1 DEF UndoFits
    <3> QED
      BY <1>12, <1>13, <2>1, <3>1, <3>2, <3>3, WatchedAreCalls
  <2>3. \A d \in Watched : d \in db'.begun <=> Lasts(d)' /\ Owner(d) # Head(chain')
    BY <1>2, <1>4, <1>5, <1>12, <1>13, WatchedAreCalls DEF UndoFits
  <2> QED
    BY <2>2, <2>3 DEF UndoFits
<1> QED
  BY <1>6, <1>9, <1>10, <1>11, <1>14, <1>15

\* A transaction whose callback is through has nothing in progress inside it.
LEMMA NothingInside ==
    ASSUME TypeOK, ChainFits, StackFits, CallsFit, NEW t \in Txns, InProgress(t), AllSettled(t)
    PROVE  db.saves = <<>> /\ \A n \in Nests : ~InProgress(n)
<1>1. Len(db.saves) = 0
  BY OnTop, OwnerOfTxn DEF Level
<1>2. db.saves = <<>>
  BY <1>1 DEF TypeOK
<1> QED
  BY <1>2 DEF StackFits

\* The end of an outermost transaction, however it ends, lets the next one begin.
LEMMA EndsInOrder ==
    ASSUME IInv, NEW t \in Txns, InProgress(t), AllSettled(t),
           NEW v \in {"done", "failed"}, pc' = [pc EXCEPT ![t] = v],
           ~db'.inTx, db'.saves = <<>>, chain' = Tail(chain), UNCHANGED savepoint
    PROVE  /\ chain' \in Seq(Txns) /\ pc' \in [Calls -> CallStates]
           /\ ChainFits' /\ StackFits' /\ CallsFit'
<1> USE DEF IInv
<1>1. t \in Calls /\ t \notin Nests
  BY OwnerOfTxn
<1>2. /\ pc' \in [Calls -> CallStates]
      /\ pc'[t] = v
      /\ \A c \in Calls : c # t => pc'[c] = pc[c]
  BY <1>1, OthersStay DEF CallStates
<1>3. chain \in Seq(Txns) /\ chain # <<>> /\ Head(chain) = t
  BY DEF TypeOK, ChainFits
<1>4. db.saves = <<>> /\ \A n \in Nests : ~InProgress(n)
  BY NothingInside
<1>5. chain' \in Seq(Txns)
  BY <1>3
<1>6. ChainFits'
  <2>1. ASSUME NEW u \in Txns, pc'[u] \in {"queued", "open", "wrote"}
        PROVE  \E i \in DOMAIN chain' : chain'[i] = u
    <3>1. u # t /\ pc[u] \in {"queued", "open", "wrote"}
      BY <1>2, <2>1, OwnerOfTxn
    <3>2. PICK i \in DOMAIN chain : chain[i] = u
      BY <3>1 DEF ChainFits
    <3>3. i # 1
      BY <1>3, <3>1, <3>2
    <3>4. i - 1 \in DOMAIN chain' /\ chain'[i - 1] = chain[i]
      BY <1>3, <3>2, <3>3
    <3> QED
      BY <3>2, <3>4
  <2>2. \A u \in Txns : ~InProgress(u)'
    BY <1>2, OneTransaction, OwnerOfTxn DEF InProgress
  <2> QED
    BY <2>1, <2>2 DEF ChainFits
<1>7. \A n \in Nests : InProgress(n)' <=> InProgress(n)
  BY <1>1, <1>2, OwnerOfNest DEF InProgress
<1>8. StackFits'
  BY <1>4, <1>7, StackKept
<1>9. CallsFit'
  BY <1>1, <1>4, CallsKept DEF CallStates
<1> QED
  BY <1>2, <1>5, <1>6, <1>8, <1>9

LEMMA ReturnKeeps ==
    ASSUME IInv, NEW t \in Txns, Return(t)
    PROVE  IInv'
<1> USE DEF IInv
<1>1. t \in Calls /\ pc[t] = "wrote" /\ InProgress(t) /\ AllSettled(t)
  BY OwnerOfTxn DEF Return, InProgress
<1>2. UNCHANGED savepoint /\ txDepth' = 0 /\ chain' = Tail(chain) /\ pc' = [pc EXCEPT ![t] = "done"]
  BY DEF Return
<1>3. /\ db' \in [rows : SUBSET Calls, begun : SUBSET Calls, inTx : BOOLEAN, saves : Seq(Savepoints)]
      /\ db'.rows = db.rows /\ ~db'.inTx /\ db'.saves = <<>>
  <2>1. <<>> \in Seq(Savepoints)
    OBVIOUS
  <2> QED
    BY <2>1 DEF Return, TypeOK, Calls
<1>4. /\ chain' \in Seq(Txns) /\ pc' \in [Calls -> CallStates]
      /\ ChainFits' /\ StackFits' /\ CallsFit'
  BY <1>1, <1>2, <1>3, EndsInOrder
<1>5. TypeOK'
  BY <1>2, <1>3, <1>4 DEF TypeOK, Calls, Savepoints
<1>6. \A c \in Calls : Lasts(c)' <=> Lasts(c)
  <2>1. \A c \in Calls : c # t => (Lasts(c)' <=> Lasts(c))
    BY <1>1, <1>2, LastsKept DEF CallStates
  <2>2. Lasts(t)' /\ Lasts(t)
    BY <1>1, <1>2, OwnerOfTxn, OthersStay DEF Lasts, CallStates
  <2> QED
    BY <2>1, <2>2
<1>7. RowsFit'
  BY <1>3, <1>6, WatchedAreCalls DEF RowsFit
<1>8. UndoFits'
  <2>1. \A n \in Nests : ~InProgress(n)'
    BY <1>3, <1>4, <1>5 DEF StackFits
  <2> QED
    BY <1>3, <2>1 DEF UndoFits
<1> QED
  BY <1>4, <1>5, <1>7, <1>8

\* ROLLBACK: what BEGIN found is all but what the transaction owns.
LEMMA ThrowKeeps ==
    ASSUME IInv, NEW t \in Txns, Throw(t)
    PROVE  IInv'
<1> USE DEF IInv
<1>1. t \in Calls /\ InProgress(t) /\ AllSettled(t)
  BY OwnerOfTxn DEF Throw
<1>2. UNCHANGED savepoint /\ txDepth' = 0 /\ chain' = Tail(chain) /\ pc' = [pc EXCEPT ![t] = "failed"]
  BY DEF Throw
<1>3. /\ db' \in [rows : SUBSET Calls, begun : SUBSET Calls, inTx : BOOLEAN, saves : Seq(Savepoints)]
      /\ db'.rows = db.begun /\ ~db'.inTx /\ db'.saves = <<>>
  <2>1. <<>> \in Seq(Savepoints)
    OBVIOUS
  <2> QED
    BY <2>1 DEF Throw, TypeOK, Calls
<1>4. /\ chain' \in Seq(Txns) /\ pc' \in [Calls -> CallStates]
      /\ ChainFits' /\ StackFits' /\ CallsFit'
  BY <1>1, <1>2, <1>3, EndsInOrder
<1>5. TypeOK'
  BY <1>2, <1>3, <1>4 DEF TypeOK, Calls, Savepoints
<1>6. db.inTx /\ Head(chain) = t
  BY <1>1 DEF ChainFits
<1>7. \A c \in Calls : Lasts(c)' <=> Lasts(c) /\ Owner(c) # t
  BY <1>2, LastsAfterTxnFails
<1>8. RowsFit'
  BY <1>3, <1>6, <1>7, WatchedAreCalls DEF RowsFit, UndoFits
<1>9. UndoFits'
  <2>1. \A n \in Nests : ~InProgress(n)'
    BY <1>3, <1>4, <1>5 DEF StackFits
  <2> QED
    BY <1>3, <2>1 DEF UndoFits
<1> QED
  BY <1>4, <1>5, <1>8, <1>9

\* A statement on the adapter itself: it waits, or nobody accounts for it.
LEMMA ExecuteKeeps ==
    ASSUME IInv, NEW p \in Plains, Execute(p)
    PROVE  IInv'
<1> USE DEF IInv
<1>1. p \in Calls /\ p \notin Txns /\ p \notin Nests /\ pc[p] = "idle"
  BY CallsAssumption DEF Execute, Calls
<1>2. UNCHANGED <<chain, txDepth, savepoint>> /\ pc' = [pc EXCEPT ![p] = "done"]
      /\ (PlainsWait => ~db.inTx)
  BY DEF Execute
<1>3. /\ pc' \in [Calls -> CallStates]
      /\ pc'[p] = "done"
      /\ \A c \in Calls : c # p => pc'[c] = pc[c]
  BY <1>1, <1>2, OthersStay DEF CallStates
<1>4. /\ db' \in [rows : SUBSET Calls, begun : SUBSET Calls, inTx : BOOLEAN, saves : Seq(Savepoints)]
      /\ db'.rows = db.rows \cup {p} /\ db'.begun = db.begun /\ db'.inTx = db.inTx
      /\ db'.saves = db.saves
  BY <1>1 DEF Execute, Writes, TypeOK, Calls
<1>5. TypeOK'
  BY <1>2, <1>3, <1>4 DEF TypeOK, Calls, Savepoints
<1>6. \A c \in Txns \cup Nests : pc'[c] = pc[c] /\ (InProgress(c)' <=> InProgress(c))
  BY <1>1, <1>3 DEF InProgress, Calls
<1>7. ChainFits'
  <2>1. db.inTx => Head(chain) \in Txns
    BY DEF ChainFits, TypeOK
  <2>2. chain' = chain /\ db'.inTx = db.inTx
    BY <1>2, <1>4
  <2>3. db.inTx => (InProgress(Head(chain))' <=> InProgress(Head(chain)))
    BY <1>2, <1>6, <2>1 DEF InProgress
  <2> QED
    BY <1>6, <2>2, <2>3 DEF ChainFits, InProgress
<1>8. StackFits'
  <2>1. db'.inTx \/ db.saves = <<>>
    BY <1>4 DEF StackFits
  <2>2. db'.inTx => txDepth' = Len(db.saves) + 1
    BY <1>2, <1>4 DEF StackFits
  <2> QED
    BY <1>2, <1>4, <1>6, <2>1, <2>2, StackKept
<1>9. CallsFit'
  BY <1>1, <1>2, CallsKept DEF CallStates, InProgress
<1>10. \A c \in Calls : c # p => (Lasts(c)' <=> Lasts(c))
  BY <1>1, <1>2, LastsKept DEF CallStates
<1>11. Lasts(p)'
  BY <1>1, <1>3 DEF Lasts
<1>12. RowsFit'
  BY <1>4, <1>10, <1>11, WatchedAreCalls DEF RowsFit
<1>13. UndoFits'
  <2>1. CASE PlainsWait
    <3>1. \A n \in Nests : ~InProgress(n)'
      BY <1>2, <1>6, <2>1, InTheOpenTransaction
    <3> QED
      BY <1>2, <1>4, <2>1, <3>1 DEF UndoFits
  <2>2. CASE ~PlainsWait
    <3>1. \A c \in Watched : c # p /\ c \in Calls
      BY <1>1, <2>2 DEF Watched, Calls
    <3>2. ASSUME NEW n \in Nests, InProgress(n)', NEW c \in Watched
          PROVE  c \in db'.saves[savepoint'[n]].rows <=> Lasts(c)' /\ ~(c \in Nests /\ n \in Under(c))
      BY <1>2, <1>4, <1>6, <1>10, <3>1, <3>2 DEF UndoFits
    <3>3. ASSUME db'.inTx, NEW c \in Watched
          PROVE  c \in db'.begun <=> Lasts(c)' /\ Owner(c) # Head(chain')
      BY <1>2, <1>4, <1>10, <3>1, <3>3 DEF UndoFits
    <3> QED
      BY <3>2, <3>3 DEF UndoFits
  <2> QED
    BY <2>1, <2>2
<1> QED
  BY <1>5, <1>7, <1>8, <1>9, <1>12, <1>13

\* A nested call opens its savepoint on top of those of the calls it is inside.
LEMMA CallNestedKeeps ==
    ASSUME IInv, NestsInTurn, NEW x \in Nests, CallNested(x)
    PROVE  IInv'
<1> USE DEF IInv
<1>1. x \in Calls /\ pc[x] = "idle" /\ InProgress(Parent[x]) /\ AllSettled(Parent[x])
      /\ Parent[x] \in Txns \cup Nests /\ ~InProgress(x)
  BY CallsAssumption DEF CallNested, Calls, InProgress
<1>2. UNCHANGED chain /\ txDepth' = txDepth + 1 /\ pc' = [pc EXCEPT ![x] = "open"]
      /\ savepoint' = [savepoint EXCEPT ![x] = txDepth]
  BY DEF CallNested
<1>3. /\ pc' \in [Calls -> CallStates]
      /\ pc'[x] = "open"
      /\ \A c \in Calls : c # x => pc'[c] = pc[c]
  BY <1>1, <1>2, OthersStay DEF CallStates
<1>4. db.inTx /\ chain # <<>> /\ Owner(Parent[x]) = Head(chain)
  BY <1>1, InTheOpenTransaction
<1> DEFINE k == Len(db.saves)
           sp == [name |-> txDepth, rows |-> db.rows]
<1>5. k \in Nat /\ DOMAIN db.saves = 1..k /\ txDepth = k + 1 /\ Level(Parent[x]) = k
  BY <1>1, <1>4, OnTop DEF StackFits, TypeOK
<1>6. sp \in Savepoints
  BY DEF Savepoints, TypeOK
<1>7. /\ db' \in [rows : SUBSET Calls, begun : SUBSET Calls, inTx : BOOLEAN, saves : Seq(Savepoints)]
      /\ db'.rows = db.rows /\ db'.begun = db.begun /\ db'.inTx /\ db'.saves = Append(db.saves, sp)
  <2>1. Append(db.saves, sp) \in Seq(Savepoints)
    BY <1>6 DEF TypeOK
  <2> HIDE DEF sp
  <2>2. db' = [db EXCEPT !.saves = Append(db.saves, sp)]
    BY DEF CallNested, sp
  <2> QED
    BY <1>4, <2>1, <2>2 DEF TypeOK, Calls
<1>8. /\ DOMAIN db'.saves = 1..(k + 1) /\ Len(db'.saves) = k + 1
      /\ \A i \in 1..k : db'.saves[i] = db.saves[i]
      /\ db'.saves[k + 1] = sp
  BY <1>5, <1>7 DEF TypeOK
<1>9. /\ savepoint' \in [Nests -> Nat] /\ savepoint'[x] = k + 1
      /\ \A n \in Nests : n # x => savepoint'[n] = savepoint[n]
  BY <1>2, <1>5 DEF TypeOK
<1>10. TypeOK'
  BY <1>2, <1>3, <1>5, <1>7, <1>9 DEF TypeOK, Calls, Savepoints
<1>11. \A n \in Nests : InProgress(n)' <=> InProgress(n) \/ n = x
  BY <1>1, <1>3, OwnerOfNest DEF InProgress
<1>12. \A u \in Txns : pc'[u] = pc[u]
  BY <1>1, <1>3, OwnerOfTxn, OwnerOfNest
<1>13. ChainFits'
  <2>1. Head(chain) \in Txns
    BY <1>4 DEF TypeOK
  <2>2. chain' = chain /\ db'.inTx
    BY <1>2, <1>7
  <2>3. InProgress(Head(chain))' <=> InProgress(Head(chain))
    BY <1>2, <1>12, <2>1 DEF InProgress
  <2>4. \A u \in Txns : InProgress(u)' <=> InProgress(u)
    BY <1>12 DEF InProgress
  <2> QED
    BY <1>4, <1>12, <2>2, <2>3, <2>4 DEF ChainFits, InProgress
<1> HIDE DEF k, sp
<1>14. \A n \in Nests : InProgress(n) => savepoint[n] \in 1..k /\ savepoint'[n] = savepoint[n]
  BY <1>1, <1>5, <1>9 DEF StackFits
<1>15. StackFits'
  <2>1. txDepth' = Len(db'.saves) + 1
    BY <1>2, <1>5, <1>8
  <2>2. ASSUME NEW i \in DOMAIN db'.saves
        PROVE  db'.saves[i].name = i /\ \E n \in Nests : InProgress(n)' /\ savepoint'[n] = i
    <3>1. CASE i = k + 1
      <4>1. sp.name = k + 1
        BY <1>5 DEF sp
      <4> QED
        BY <1>8, <1>9, <1>11, <3>1, <4>1
    <3>2. CASE i # k + 1
      <4>1. i \in 1..k
        BY <1>5, <1>8, <3>2
      <4>2. db.saves[i].name = i
        BY <1>5, <4>1 DEF StackFits
      <4>3. PICK n \in Nests : InProgress(n) /\ savepoint[n] = i
        BY <1>5, <4>1 DEF StackFits
      <4> QED
        BY <1>8, <1>11, <1>14, <4>1, <4>2, <4>3
    <3> QED
      BY <3>1, <3>2
  <2>3. \A n \in Nests : InProgress(n) /\ n # x => Level(Parent[n])' = Level(Parent[n])
    <3> SUFFICES ASSUME NEW n \in Nests, InProgress(n)
                 PROVE  Level(Parent[n])' = Level(Parent[n])
      OBVIOUS
    <3>1. Parent[n] # x
      BY <1>1 DEF CallsFit
    <3> QED
      BY <1>9, <3>1 DEF Level
  <2>4. Level(Parent[x])' = k
    <3>1. Parent[x] # x
      BY <1>1
    <3> QED
      BY <1>5, <1>9, <3>1 DEF Level
  <2>5. ASSUME NEW n \in Nests, InProgress(n)'
        PROVE  /\ savepoint'[n] \in DOMAIN db'.saves
               /\ savepoint'[n] = Level(Parent[n])' + 1
    <3>1. CASE n = x
      BY <1>5, <1>8, <1>9, <2>4, <3>1
    <3>2. CASE n # x
      <4>1. InProgress(n)
        BY <1>11, <2>5, <3>2
      <4>2. savepoint[n] = Level(Parent[n]) + 1
        BY <4>1 DEF StackFits
      <4> QED
        BY <1>5, <1>8, <1>14, <2>3, <3>2, <4>1, <4>2
    <3> QED
      BY <3>1, <3>2
  <2>6. ASSUME NEW n \in Nests, InProgress(n)', NEW m \in Nests, InProgress(m)',
               savepoint'[n] <= savepoint'[m]
        PROVE  n \in Under(m)
    <3>1. CASE m = x
      <4>1. CASE n = x
        BY <3>1, <4>1, UnderSelf
      <4>2. CASE n # x
        <5>1. InProgress(n) /\ savepoint[n] \in 1..k
          BY <1>11, <1>14, <2>6, <4>2
        <5>2. Parent[x] \in Nests
          <6>1. k # 0
            BY <1>5, <5>1
          <6> QED
            BY <1>1, <1>5, <6>1 DEF Level
        <5>3. savepoint[n] <= savepoint[Parent[x]]
          BY <1>5, <5>1, <5>2 DEF Level
        <5>4. n \in Under(Parent[x])
          BY <1>1, <5>1, <5>2, <5>3 DEF StackFits
        <5> QED
          BY <3>1, <5>2, <5>4, UnderParent
      <4> QED
        BY <4>1, <4>2
    <3>2. CASE m # x
      <4>1. InProgress(m) /\ savepoint[m] \in 1..k /\ savepoint'[m] = savepoint[m]
        BY <1>11, <1>14, <2>6, <3>2
      <4>2. n # x
        BY <1>5, <1>9, <2>6, <4>1
      <4>3. InProgress(n) /\ savepoint'[n] = savepoint[n]
        BY <1>11, <1>14, <2>6, <4>2
      <4> QED
        BY <2>6, <4>1, <4>3 DEF StackFits
    <3> QED
      BY <3>1, <3>2
  <2>7. ASSUME NEW n \in Nests, InProgress(n)', NEW m \in Nests, InProgress(m)',
               savepoint'[n] = savepoint'[m]
        PROVE  n = m
    <3>1. \A j \in Nests : InProgress(j)' /\ j # x => InProgress(j) /\ savepoint'[j] = savepoint[j]
                                                      /\ savepoint[j] \in 1..k
      BY <1>11, <1>14
    <3>2. savepoint'[x] \notin 1..k
      BY <1>5, <1>9
    <3>3. CASE n # x /\ m # x
      BY <2>7, <3>1, <3>3 DEF StackFits
    <3> QED
      BY <2>7, <3>1, <3>2, <3>3
  <2> QED
    BY <1>7, <2>1, <2>2, <2>5, <2>6, <2>7 DEF StackFits
<1>16. CallsFit'
  BY <1>1, <1>2, CallsKept DEF CallStates, InProgress
<1>17. \A c \in Calls : Lasts(c)' <=> Lasts(c)
  <2>1. \A c \in Calls : c # x => (Lasts(c)' <=> Lasts(c))
    BY <1>1, <1>2, LastsKept DEF CallStates
  <2>2. ~Lasts(x)' /\ ~Lasts(x)
    BY <1>1, <1>3 DEF Lasts
  <2> QED
    BY <2>1, <2>2
<1>18. RowsFit'
  BY <1>7, <1>17, WatchedAreCalls DEF RowsFit
<1>19. UndoFits'
  <2>1. ASSUME NEW n \in Nests, InProgress(n)', NEW c \in Watched
        PROVE  c \in db'.saves[savepoint'[n]].rows <=> Lasts(c)' /\ ~(c \in Nests /\ n \in Under(c))
    <3>1. CASE n = x
      <4>1. db'.saves[savepoint'[n]].rows = db.rows
        BY <1>8, <1>9, <3>1 DEF sp
      <4>2. c \in Nests /\ x \in Under(c) => ~Lasts(c)
        BY <1>1, UnderStarted DEF Lasts
      <4> QED
        BY <1>17, <3>1, <4>1, <4>2, WatchedAreCalls DEF RowsFit
    <3>2. CASE n # x
      <4>1. InProgress(n) /\ savepoint[n] \in 1..k /\ savepoint'[n] = savepoint[n]
        BY <1>11, <1>14, <2>1, <3>2
      <4>2. db'.saves[savepoint'[n]] = db.saves[savepoint[n]]
        BY <1>8, <4>1
      <4> QED
        BY <1>17, <4>1, <4>2, WatchedAreCalls DEF UndoFits
    <3> QED
      BY <3>1, <3>2
  <2>2. \A c \in Watched : c \in db'.begun <=> Lasts(c)' /\ Owner(c) # Head(chain')
    BY <1>2, <1>4, <1>7, <1>17, WatchedAreCalls DEF UndoFits
  <2> QED
    BY <2>1, <2>2 DEF UndoFits
<1> QED
  BY <1>10, <1>13, <1>15, <1>16, <1>18, <1>19

\* A nested call that ends, however it ends, has the topmost savepoint, which is
\* forgotten; those below it are left as they are.
LEMMA NestEndsInOrder ==
    ASSUME IInv, NEW x \in Nests, InProgress(x), AllSettled(x),
           NEW v \in {"done", "failed"}, pc' = [pc EXCEPT ![x] = v],
           db'.inTx = db.inTx, db'.begun = db.begun,
           db'.saves = SubSeq(db.saves, 1, savepoint[x] - 1),
           txDepth' = txDepth - 1, UNCHANGED <<chain, savepoint>>
    PROVE  /\ db'.saves \in Seq(Savepoints) /\ txDepth' \in Nat /\ pc' \in [Calls -> CallStates]
           /\ ChainFits' /\ StackFits' /\ CallsFit'
           /\ \A n \in Nests : InProgress(n)' =>
                InProgress(n) /\ db'.saves[savepoint[n]] = db.saves[savepoint[n]]
<1> USE DEF IInv
<1>1. x \in Calls /\ x \notin Txns
  BY OwnerOfNest
<1>2. /\ pc' \in [Calls -> CallStates]
      /\ pc'[x] = v
      /\ \A c \in Calls : c # x => pc'[c] = pc[c]
  BY <1>1, OthersStay DEF CallStates
<1> DEFINE k == Len(db.saves)
<1>3. k \in Nat \ {0} /\ DOMAIN db.saves = 1..k /\ savepoint[x] = k
  <2>1. Level(x) = Len(db.saves)
    BY OnTop
  <2> QED
    BY <2>1 DEF StackFits, TypeOK, Level
<1>4. db.inTx /\ txDepth = k + 1
  BY InTheOpenTransaction DEF StackFits
<1>5. /\ db'.saves \in Seq(Savepoints) /\ Len(db'.saves) = k - 1 /\ DOMAIN db'.saves = 1..(k - 1)
      /\ \A i \in 1..(k - 1) : db'.saves[i] = db.saves[i]
  <2>1. db.saves \in Seq(Savepoints)
    BY DEF TypeOK
  <2>2. db'.saves = SubSeq(db.saves, 1, k - 1)
    BY <1>3
  <2> QED
    BY <1>3, <2>1, <2>2
<1>6. txDepth' = Len(db'.saves) + 1 /\ txDepth' \in Nat
  BY <1>3, <1>4, <1>5
<1> HIDE DEF k
<1>7. ASSUME NEW n \in Nests
      PROVE  InProgress(n)' <=> InProgress(n) /\ n # x
  BY <1>1, <1>2, OwnerOfNest DEF InProgress
<1>8. ASSUME NEW n \in Nests, InProgress(n), n # x
      PROVE  savepoint[n] \in 1..(k - 1)
  <2>1. savepoint[n] \in 1..k
    BY <1>3, <1>8 DEF StackFits
  <2>2. savepoint[n] # savepoint[x]
    BY <1>8 DEF StackFits
  <2> QED
    BY <1>3, <2>1, <2>2
<1>9. \A u \in Txns : pc'[u] = pc[u]
  BY <1>1, <1>2, OwnerOfTxn
<1>10. ChainFits'
  <2>1. Head(chain) \in Txns
    BY <1>4 DEF TypeOK, ChainFits
  <2>2. chain' = chain /\ db'.inTx
    BY <1>4
  <2>3. InProgress(Head(chain))' <=> InProgress(Head(chain))
    BY <1>9, <2>1 DEF InProgress
  <2>4. \A u \in Txns : InProgress(u)' <=> InProgress(u)
    BY <1>9 DEF InProgress
  <2> QED
    BY <1>4, <1>9, <2>2, <2>3, <2>4 DEF ChainFits, InProgress
<1>11. StackFits'
  <2>1. \A c : Level(c)' = Level(c)
    BY DEF Level
  <2>2. ASSUME NEW i \in DOMAIN db'.saves
        PROVE  db'.saves[i].name = i /\ \E n \in Nests : InProgress(n)' /\ savepoint'[n] = i
    <3>1. i \in 1..(k - 1) /\ i \in DOMAIN db.saves /\ i # k
      BY <1>3, <1>5
    <3>2. db.saves[i].name = i
      BY <3>1 DEF StackFits
    <3>3. PICK n \in Nests : InProgress(n) /\ savepoint[n] = i
      BY <3>1 DEF StackFits
    <3> QED
      BY <1>3, <1>5, <1>7, <3>1, <3>2, <3>3
  <2>3. ASSUME NEW n \in Nests, InProgress(n)'
        PROVE  /\ savepoint'[n] \in DOMAIN db'.saves
               /\ savepoint'[n] = Level(Parent[n])' + 1
               /\ \A m \in Nests : InProgress(m)' /\ savepoint'[n] <= savepoint'[m] => n \in Under(m)
    <3>1. InProgress(n) /\ n # x
      BY <1>7, <2>3
    <3>2. savepoint[n] \in DOMAIN db'.saves
      BY <1>5, <1>8, <3>1
    <3> QED
      BY <1>7, <2>1, <3>1, <3>2 DEF StackFits
  <2>4. \A n, m \in Nests : InProgress(n)' /\ InProgress(m)' /\ savepoint'[n] = savepoint'[m] => n = m
    BY <1>7 DEF StackFits
  <2> QED
    BY <1>4, <1>6, <2>2, <2>3, <2>4 DEF StackFits
<1>12. CallsFit'
  <2>1. \A n \in Nests : Root[n] # x
    BY OwnerOfNest
  <2> QED
    BY <1>1, <2>1, CallsKept DEF CallStates, InProgress
<1> QED
  BY <1>2, <1>5, <1>6, <1>7, <1>8, <1>10, <1>11, <1>12

\* RELEASE sp_N finds the savepoint: a nested call is done when it returns.
LEMMA ReturnNestedKeeps ==
    ASSUME IInv, NEW x \in Nests, ReturnNested(x)
    PROVE  IInv'
<1> USE DEF IInv
<1>1. x \in Calls /\ pc[x] = "wrote" /\ InProgress(x) /\ AllSettled(x)
  BY OwnerOfNest DEF ReturnNested, InProgress
<1>2. savepoint[x] \in DOMAIN db.saves /\ savepoint[x] # 0 /\ Innermost(db, savepoint[x]) = savepoint[x]
  <2>1. savepoint[x] \in DOMAIN db.saves
    BY <1>1 DEF StackFits
  <2> QED
    BY <2>1, InnermostIsInPlace DEF TypeOK
<1>3. UNCHANGED <<chain, savepoint>> /\ txDepth' = txDepth - 1 /\ pc' = [pc EXCEPT ![x] = "done"]
  BY <1>2 DEF ReturnNested
<1>4. db' = [db EXCEPT !.saves = SubSeq(@, 1, savepoint[x] - 1)]
  BY <1>2 DEF ReturnNested, ReleaseSavepoint
<1>5. /\ db'.rows = db.rows /\ db'.begun = db.begun /\ db'.inTx = db.inTx
      /\ db'.saves = SubSeq(db.saves, 1, savepoint[x] - 1)
  BY <1>4 DEF TypeOK
<1>6. /\ db'.saves \in Seq(Savepoints) /\ txDepth' \in Nat /\ pc' \in [Calls -> CallStates]
      /\ ChainFits' /\ StackFits' /\ CallsFit'
      /\ \A n \in Nests : InProgress(n)' =>
           InProgress(n) /\ db'.saves[savepoint[n]] = db.saves[savepoint[n]]
  BY <1>1, <1>3, <1>5, NestEndsInOrder
<1>7. TypeOK'
  <2>1. db' \in [rows : SUBSET Calls, begun : SUBSET Calls, inTx : BOOLEAN, saves : Seq(Savepoints)]
    <3> DEFINE s == SubSeq(db.saves, 1, savepoint[x] - 1)
    <3>1. s \in Seq(Savepoints) /\ db' = [db EXCEPT !.saves = s]
      BY <1>4, <1>5, <1>6
    <3> HIDE DEF s
    <3> QED
      BY <3>1 DEF TypeOK, Calls
  <2> QED
    BY <1>3, <1>6, <2>1 DEF TypeOK, Calls, Savepoints
<1>8. \A c \in Calls : Lasts(c)' <=> Lasts(c)
  <2>1. \A c \in Calls : c # x => (Lasts(c)' <=> Lasts(c))
    BY <1>1, <1>3, LastsKept DEF CallStates
  <2>2. Lasts(x)' <=> Lasts(x)
    <3>1. Fails(x)' <=> Fails(x)
      BY <1>1, <1>3, FailsKept DEF CallStates
    <3>2. pc'[x] = "done" /\ pc'[Root[x]] = pc[Root[x]]
      BY <1>1, <1>3, OthersStay, OwnerOfNest, ZenonT(60) DEF CallStates
    <3> QED
      BY <1>1, <3>1, <3>2 DEF Lasts
  <2> QED
    BY <2>1, <2>2
<1>9. RowsFit'
  BY <1>5, <1>8, WatchedAreCalls DEF RowsFit
<1>10. UndoFits'
  BY <1>3, <1>5, <1>6, <1>8, WatchedAreCalls DEF UndoFits
<1> QED
  BY <1>6, <1>7, <1>9, <1>10

\* ROLLBACK TO sp_N undoes what the nested call wrote and what is inside it.
LEMMA ThrowNestedKeeps ==
    ASSUME IInv, NEW x \in Nests, ThrowNested(x)
    PROVE  IInv'
<1> USE DEF IInv
<1>1. x \in Calls /\ InProgress(x) /\ AllSettled(x)
  BY OwnerOfNest DEF ThrowNested
<1>2. savepoint[x] \in DOMAIN db.saves /\ savepoint[x] # 0 /\ Innermost(db, savepoint[x]) = savepoint[x]
  <2>1. savepoint[x] \in DOMAIN db.saves
    BY <1>1 DEF StackFits
  <2> QED
    BY <2>1, InnermostIsInPlace DEF TypeOK
<1>3. UNCHANGED <<chain, savepoint>> /\ txDepth' = txDepth - 1 /\ pc' = [pc EXCEPT ![x] = "failed"]
  BY <1>2 DEF ThrowNested
<1> DEFINE r == db.saves[savepoint[x]].rows
           back == [db EXCEPT !.rows = r]
<1>4. db.saves[savepoint[x]] \in Savepoints /\ r \subseteq Calls
  <2>1. db.saves[savepoint[x]] \in Savepoints
    BY <1>2 DEF TypeOK
  <2> QED
    BY <2>1 DEF Savepoints, Calls
<1>5. RollbackTo(db, savepoint[x]) = back
  BY <1>2 DEF RollbackTo
<1> HIDE DEF r
<1>6. /\ back \in [rows : SUBSET Calls, begun : SUBSET Calls, inTx : BOOLEAN, saves : Seq(Savepoints)]
      /\ back.rows = r /\ back.begun = db.begun /\ back.inTx = db.inTx /\ back.saves = db.saves
  BY <1>4 DEF TypeOK, Calls
<1>7. Innermost(back, savepoint[x]) = savepoint[x]
  BY <1>2, <1>6 DEF Innermost
<1> HIDE DEF back
<1> DEFINE s == SubSeq(back.saves, 1, savepoint[x] - 1)
<1>8. db' = [back EXCEPT !.saves = s]
  BY <1>2, <1>5, <1>7 DEF ThrowNested, ReleaseSavepoint
<1>9. s = SubSeq(db.saves, 1, savepoint[x] - 1)
  BY <1>6
<1> HIDE DEF s
<1>10. /\ db'.rows = r /\ db'.begun = db.begun /\ db'.inTx = db.inTx
       /\ db'.saves = SubSeq(db.saves, 1, savepoint[x] - 1)
  BY <1>6, <1>8, <1>9
<1>11. /\ db'.saves \in Seq(Savepoints) /\ txDepth' \in Nat /\ pc' \in [Calls -> CallStates]
       /\ ChainFits' /\ StackFits' /\ CallsFit'
       /\ \A n \in Nests : InProgress(n)' =>
            InProgress(n) /\ db'.saves[savepoint[n]] = db.saves[savepoint[n]]
  BY <1>1, <1>3, <1>10, NestEndsInOrder
<1>12. TypeOK'
  <2>1. db' \in [rows : SUBSET Calls, begun : SUBSET Calls, inTx : BOOLEAN, saves : Seq(Savepoints)]
    BY <1>6, <1>8, <1>9, <1>10, <1>11
  <2> QED
    BY <1>3, <1>11, <2>1 DEF TypeOK, Calls, Savepoints
<1>13. \A c \in Calls : Lasts(c)' <=> Lasts(c) /\ ~(c \in Nests /\ x \in Under(c))
  BY <1>3, LastsAfterNestFails
<1>14. RowsFit'
  BY <1>1, <1>10, <1>13, WatchedAreCalls DEF RowsFit, UndoFits, r
<1>15. UndoFits'
  <2>1. ASSUME NEW n \in Nests, InProgress(n)', NEW c \in Watched
        PROVE  c \in db'.saves[savepoint'[n]].rows <=> Lasts(c)' /\ ~(c \in Nests /\ n \in Under(c))
    <3>1. InProgress(n) /\ db'.saves[savepoint'[n]] = db.saves[savepoint[n]]
      BY <1>3, <1>11, <2>1
    <3>2. n \in Under(x)
      <4>1. savepoint[n] <= savepoint[x]
        <5>1. Level(x) = Len(db.saves) /\ savepoint[n] \in DOMAIN db.saves
          BY <1>1, <3>1, OnTop DEF StackFits
        <5> QED
          BY <5>1 DEF Level, TypeOK
      <4> QED
        BY <1>1, <3>1, <4>1 DEF StackFits
    <3>3. c \in Nests /\ x \in Under(c) => n \in Under(c)
      BY <3>2, UnderTrans
    <3> QED
      BY <1>13, <3>1, <3>3, WatchedAreCalls DEF UndoFits
  <2>2. ASSUME db'.inTx, NEW c \in Watched
        PROVE  c \in db'.begun <=> Lasts(c)' /\ Owner(c) # Head(chain')
    <3>1. c \in Nests /\ x \in Under(c) => Owner(c) = Head(chain)
      <4> SUFFICES ASSUME c \in Nests, x \in Under(c)
                   PROVE  Owner(c) = Head(chain)
        OBVIOUS
      <4>1. Root[c] = Root[x]
        BY RootUnder
      <4> QED
        BY <1>1, <4>1, OwnerOfNest, InTheOpenTransaction
    <3> QED
      BY <1>3, <1>10, <1>13, <2>2, <3>1, WatchedAreCalls DEF UndoFits
  <2> QED
    BY <2>1, <2>2 DEF UndoFits
<1> QED
  BY <1>11, <1>12, <1>14, <1>15

-----------------------------------------------------------------------------
(* The invariant and what follows from it.                                 *)

LEMMA InitFits == Init => IInv
<1> SUFFICES ASSUME Init
             PROVE  IInv
  OBVIOUS
<1>1. \A c \in Calls : pc[c] = "idle" /\ ~InProgress(c) /\ ~Lasts(c)
  BY DEF Init, Calls, InProgress, Lasts
<1>2. \A c \in Txns \cup Nests : c \in Calls
  BY DEF Calls
<1>3. TypeOK
  <2>1. db = [rows |-> {}, begun |-> {}, inTx |-> FALSE, saves |-> <<>>]
    BY DEF Init
  <2>2. <<>> \in Seq(Savepoints) /\ chain \in Seq(Txns)
    BY DEF Init
  <2>3. db \in [rows : SUBSET Calls, begun : SUBSET Calls, inTx : BOOLEAN, saves : Seq(Savepoints)]
    BY <2>1, <2>2
  <2> QED
    BY <2>2, <2>3 DEF TypeOK, Init, Calls, CallStates
<1>4. ~db.inTx /\ db.saves = <<>> /\ db.rows = {}
  BY DEF Init
<1>5. ChainFits
  BY <1>1, <1>2, <1>4 DEF ChainFits
<1>6. StackFits
  BY <1>1, <1>2, <1>4 DEF StackFits
<1>7. CallsFit
  BY <1>1, <1>2 DEF CallsFit
<1>8. RowsFit /\ UndoFits
  BY <1>1, <1>2, <1>4, WatchedAreCalls DEF RowsFit, UndoFits
<1> QED
  BY <1>3, <1>5, <1>6, <1>7, <1>8 DEF IInv

LEMMA StutterKeeps == IInv /\ UNCHANGED vars => IInv'
<1> SUFFICES ASSUME IInv, UNCHANGED vars
             PROVE  IInv'
  OBVIOUS
<1> USE DEF vars
<1>1. TypeOK'
  BY DEF IInv, TypeOK, Savepoints
<1>2. (\A c : InProgress(c)' <=> InProgress(c)) /\ (\A c : Level(c)' = Level(c))
  BY DEF InProgress, Level
<1>3. \A c : Lasts(c)' <=> Lasts(c)
  BY DEF Lasts, Fails
<1>4. ChainFits'
  BY <1>2 DEF IInv, ChainFits, InProgress
<1>5. StackFits'
  BY <1>2 DEF IInv, StackFits
<1>6. CallsFit'
  BY <1>2 DEF IInv, CallsFit
<1>7. RowsFit' /\ UndoFits'
  BY <1>2, <1>3 DEF IInv, RowsFit, UndoFits
<1> QED
  BY <1>1, <1>4, <1>5, <1>6, <1>7 DEF IInv

LEMMA StepKeeps ==
    ASSUME NestsInTurn, IInv, [Next]_vars
    PROVE  IInv'
<1>1. CASE UNCHANGED vars
  BY <1>1, StutterKeeps
<1>2. ASSUME NEW t \in Txns, CallTransaction(t) \/ Step(t)
      PROVE  IInv'
  BY <1>2, CallTransactionKeeps, BeginKeeps, WriteKeeps, ReturnKeeps, ThrowKeeps DEF Step
<1>3. ASSUME NEW n \in Nests, CallNested(n) \/ StepNested(n)
      PROVE  IInv'
  BY <1>3, CallNestedKeeps, WriteKeeps, ReturnNestedKeeps, ThrowNestedKeeps DEF StepNested
<1>4. ASSUME NEW p \in Plains, Execute(p)
      PROVE  IInv'
  BY <1>4, ExecuteKeeps
<1> QED
  BY <1>1, <1>2, <1>3, <1>4 DEF Next

\* The inductive invariant, of callbacks that await their nested calls.
THEOREM AdapterInvariant == NestsInTurn /\ Spec => []IInv
<1> SUFFICES ASSUME NestsInTurn
             PROVE  Spec => []IInv
  OBVIOUS
<1>1. Init => IInv
  BY InitFits
<1>2. IInv /\ [Next]_vars => IInv'
  BY StepKeeps
<1> QED
  BY <1>1, <1>2, PTL DEF Spec

\* The connection and the adapter stay well typed, the depth above all: it is
\* counted up and down by every nested call (nestedTransaction).
THEOREM TypeCorrect == NestsInTurn /\ Spec => []TypeOK
<1>1. IInv => TypeOK
  BY DEF IInv
<1> QED
  BY <1>1, AdapterInvariant, PTL

LEMMA InvariantIsExact ==
    ASSUME IInv
    PROVE  RollbacksAreExact
<1> USE DEF IInv
<1>1. \A c \in Txns \cup Nests : c \in Watched
  BY WatchedAreCalls
<1>2. ASSUME NEW n \in Nests
      PROVE  Lasts(n) <=> /\ pc[n] \in {"wrote", "done"} /\ ~Undone[n]
                          /\ pc[Root[n]] # "failed"
  BY UndoneIsFails DEF Lasts
<1>3. InnerRollbackUndoesInner
  <2>1. \A t \in Txns : pc[t] = "wrote" => t \in db.rows
    BY <1>1, OwnerOfTxn DEF RowsFit, Lasts
  <2>2. ASSUME NEW n \in Nests, InProgress(Root[n])
        PROVE  n \in db.rows <=> pc[n] \in {"wrote", "done"} /\ ~Undone[n]
    BY <1>1, <1>2, <2>2 DEF RowsFit, InProgress
  <2> QED
    BY <2>1, <2>2 DEF InnerRollbackUndoesInner
\* Of a transaction that is not in progress, what lasts is durable.
<1>4. ASSUME NEW c \in Txns \cup Nests, Owner(c) \in Txns, ~InProgress(Owner(c))
      PROVE  c \in Durable <=> Lasts(c)
  <2>1. CASE db.inTx
    <3>1. Owner(c) # Head(chain)
      BY <1>4, <2>1 DEF ChainFits
    <3> QED
      BY <1>1, <2>1, <3>1 DEF UndoFits, Durable
  <2>2. CASE ~db.inTx
    BY <1>1, <2>2 DEF RowsFit, Durable
  <2> QED
    BY <2>1, <2>2
<1>5. ASSUME NEW t \in Txns, pc[t] \in {"done", "failed"}
      PROVE  /\ t \in Durable <=> Lasts(t)
             /\ \A n \in Nests : Root[n] = t => (n \in Durable <=> Lasts(n))
  <2>1. ~InProgress(t) /\ Owner(t) = t
    BY <1>5, OwnerOfTxn DEF InProgress
  <2>2. \A n \in Nests : Owner(n) = Root[n]
    BY OwnerOfNest
  <2> QED
    BY <1>4, <2>1, <2>2
<1>6. AllOrNothing
  <2>1. ASSUME NEW t \in Txns, pc[t] = "done"
        PROVE  /\ t \in Durable
               /\ \A n \in Nests : Root[n] = t => (n \in Durable <=> pc[n] = "done" /\ ~Undone[n])
    <3>1. t \in Durable
      BY <1>5, <2>1, OwnerOfTxn DEF Lasts
    <3>2. ASSUME NEW n \in Nests, Root[n] = t
          PROVE  n \in Durable <=> pc[n] = "done" /\ ~Undone[n]
      <4>1. pc[n] # "wrote"
        BY <2>1, <3>2 DEF CallsFit, InProgress
      <4> QED
        BY <1>2, <1>5, <2>1, <3>2, <4>1
    <3> QED
      BY <3>1, <3>2
  <2>2. ASSUME NEW t \in Txns, pc[t] = "failed"
        PROVE  ({t} \cup {n \in Nests : Root[n] = t}) \cap Durable = {}
    <3>1. t \notin Durable
      BY <1>5, <2>2 DEF Lasts
    <3>2. \A n \in Nests : Root[n] = t => n \notin Durable
      BY <1>2, <1>5, <2>2
    <3> QED
      BY <3>1, <3>2
  <2> QED
    BY <2>1, <2>2 DEF AllOrNothing
<1> QED
  BY <1>3, <1>6 DEF RollbacksAreExact

\* "An inner rollback only undoes the inner region and never the outer work", and
\* once a transaction is over all or nothing of it is durable, whatever fails at
\* whatever depth and whoever else writes meanwhile (sqlite.ts, nestedTransaction,
\* runOuterTransaction).
THEOREM RollbacksStayExact == NestsInTurn /\ Spec => []RollbacksAreExact
<1>1. IInv => RollbacksAreExact
  BY InvariantIsExact
<1> QED
  BY <1>1, AdapterInvariant, PTL

\* "A caller's committed work can never be wiped by another caller's rollback":
\* true of plain statements too, if they wait while a transaction is open.
THEOREM ExecutedIsKept == PlainsWait /\ NestsInTurn /\ Spec => []ExecutedStays
<1> SUFFICES ASSUME PlainsWait
             PROVE  NestsInTurn /\ Spec => []ExecutedStays
  OBVIOUS
<1>1. IInv => ExecutedStays
  <2> SUFFICES ASSUME IInv, NEW p \in Plains, pc[p] = "done"
               PROVE  p \in db.rows
    BY DEF ExecutedStays
  <2>1. p \in Watched /\ p \notin Nests
    BY CallsAssumption DEF Watched, Calls
  <2> QED
    BY <2>1 DEF IInv, RowsFit, Lasts
<1> QED
  BY <1>1, AdapterInvariant, PTL

-----------------------------------------------------------------------------
(* The refinement of the atomic store.                                     *)

\* While plain statements wait, a step that neither ends a call nor begins a
\* transaction changes nothing durable, and nobody is told anything.
LEMMA NothingEnds ==
    ASSUME TypeOK, NEW x \in Calls, NEW v \in CallStates \ {"done", "failed"},
           pc' = [pc EXCEPT ![x] = v], pc[x] \notin {"done", "failed"}
    PROVE  Settled' = Settled
<1>1. \A c \in Calls : pc'[c] \in {"done", "failed"} <=> pc[c] \in {"done", "failed"}
  BY OthersStay
<1> QED
  BY <1>1 DEF Settled, Calls

LEMMA NestEnds ==
    ASSUME TypeOK, NEW x \in Nests, NEW v \in CallStates, pc' = [pc EXCEPT ![x] = v]
    PROVE  Settled' = Settled
<1>1. \A c \in Txns \cup Plains : c \in Calls /\ c # x
  BY CallsAssumption DEF Calls
<1>2. \A c \in Txns \cup Plains : pc'[c] = pc[c]
  BY <1>1, OthersStay, OwnerOfNest
<1> QED
  BY <1>2 DEF Settled

LEMMA CallerIsTold ==
    ASSUME TypeOK, NEW x \in Txns \cup Plains, NEW v \in {"done", "failed"},
           pc' = [pc EXCEPT ![x] = v], pc[x] \notin {"done", "failed"}
    PROVE  x \notin Settled /\ Settled' = Settled \cup {x}
<1>1. pc'[x] = v /\ \A c \in Calls : c # x => pc'[c] = pc[c]
  BY OthersStay DEF Calls, CallStates
<1> QED
  BY <1>1 DEF Settled, Calls

\* COMMIT makes durable what the transaction owns and is to last, and nothing else.
LEMMA ReturnIsCommit ==
    ASSUME PlainsWait, IInv, NEW t \in Txns, Return(t)
    PROVE  \E kept \in SUBSET Nests : Atomic!Commit(t, kept)
<1> DEFINE kept == {n \in Nests : n \in db.rows /\ Root[n] = t}
<1>1. InProgress(t) /\ pc[t] = "wrote" /\ db.inTx /\ Head(chain) = t
  BY DEF Return, IInv, ChainFits, InProgress
<1>2. Durable = db.begun /\ Durable' = db.rows
  BY <1>1 DEF Return, Durable, IInv, TypeOK
<1>3. \A c \in Calls : c \in db.begun <=> c \in db.rows /\ Owner(c) # t
  BY <1>1 DEF IInv, UndoFits, RowsFit, Watched
<1>4. t \in db.rows
  BY <1>1, OwnerOfTxn DEF IInv, RowsFit, Watched, Lasts
<1>5. db.rows \subseteq Calls /\ db.begun \subseteq Calls
  BY DEF IInv, TypeOK, Calls
<1>6. ASSUME NEW c \in Calls
      PROVE  /\ c \in Nests => Owner(c) = Root[c]
             /\ c \notin Nests => Owner(c) = c
  BY DEF Owner
<1>7. db.rows = db.begun \cup {t} \cup kept
  BY <1>3, <1>4, <1>5, <1>6
<1>8. kept \cap db.begun = {}
  BY <1>3, <1>6, OwnerOfNest
<1>9. t \notin Settled /\ Settled' = Settled \cup {t}
  BY <1>1, CallerIsTold DEF Return, IInv
<1> QED
  BY <1>2, <1>7, <1>8, <1>9 DEF Atomic!Commit

\* ROLLBACK leaves what was durable when the transaction began.
LEMMA ThrowIsFail ==
    ASSUME IInv, NEW t \in Txns, Throw(t)
    PROVE  Atomic!Fail(t)
<1>1. InProgress(t) /\ db.inTx
  BY DEF Throw, IInv, ChainFits
<1>2. Durable = db.begun /\ Durable' = db.begun
  BY <1>1 DEF Throw, Durable, IInv, TypeOK
<1>3. t \notin Settled /\ Settled' = Settled \cup {t}
  BY <1>1, CallerIsTold DEF Throw, IInv, InProgress
<1> QED
  BY <1>2, <1>3 DEF Atomic!Fail

\* A plain statement outside transactions is durable when it returns.
LEMMA ExecuteIsPut ==
    ASSUME PlainsWait, IInv, NEW p \in Plains, Execute(p)
    PROVE  Atomic!Put(p)
<1>1. ~db.inTx
  BY DEF Execute
<1>2. Durable = db.rows /\ Durable' = db.rows \cup {p}
  BY <1>1 DEF Execute, Writes, Durable, IInv, TypeOK
<1>3. p \notin Settled /\ Settled' = Settled \cup {p}
  BY CallerIsTold DEF Execute, IInv
<1> QED
  BY <1>2, <1>3 DEF Atomic!Put

\* What callbacks do inside a transaction is not durable yet.
LEMMA InsideIsNotDurable ==
    ASSUME IInv, NEW c \in Txns \cup Nests, InProgress(c),
           db'.inTx = db.inTx, db'.begun = db.begun
    PROVE  Durable' = Durable
BY InTheOpenTransaction DEF IInv, Durable

\* The adapter implements the atomic store: a transaction's writes, less those
\* of the nested calls that failed, become durable all at once, and nothing
\* durable is taken back, as long as plain statements wait (sqlite.ts:203-227).
THEOREM AdapterImplementsAtomicStore ==
    PlainsWait /\ NestsInTurn /\ Spec => ImplementsAtomicStore
<1> SUFFICES ASSUME PlainsWait, NestsInTurn
             PROVE  Spec => Atomic!Spec
  BY DEF ImplementsAtomicStore
<1>1. Init => Atomic!Init
  <2> SUFFICES ASSUME Init
               PROVE  Durable = {} /\ Settled = {}
    BY DEF Atomic!Init
  <2>1. Settled = {}
    BY DEF Init, Settled
  <2> QED
    BY <2>1 DEF Init, Durable
<1>2. IInv /\ [Next]_vars => [Atomic!Next]_(Atomic!vars)
  <2> SUFFICES ASSUME IInv, [Next]_vars
               PROVE  Atomic!Next \/ (Durable' = Durable /\ Settled' = Settled)
    BY DEF Atomic!vars
  <2> USE DEF IInv
  <2>1. CASE UNCHANGED vars
    BY <2>1 DEF vars, Durable, Settled
  <2>2. ASSUME NEW t \in Txns, CallTransaction(t)
        PROVE  Durable' = Durable /\ Settled' = Settled
    BY <2>2, NothingEnds, OwnerOfTxn DEF CallTransaction, Durable, CallStates
  <2>3. ASSUME NEW t \in Txns, Begin(t)
        PROVE  Durable' = Durable /\ Settled' = Settled
    <3>1. ~db.inTx
      BY <2>3 DEF Begin, ChainFits, InProgress
    <3>2. Durable' = Durable
      BY <2>3, <3>1 DEF Begin, Durable, TypeOK
    <3>3. Settled' = Settled
      BY <2>3, NothingEnds, OwnerOfTxn DEF Begin, CallStates
    <3> QED
      BY <3>2, <3>3
  <2>4. ASSUME NEW c \in Txns \cup Nests, Write(c)
        PROVE  Durable' = Durable /\ Settled' = Settled
    <3>1. InProgress(c) /\ c \in Calls /\ db'.inTx = db.inTx /\ db'.begun = db.begun
      BY <2>4 DEF Write, Writes, InProgress, Calls, TypeOK
    <3>2. Settled' = Settled
      BY <2>4, <3>1, NothingEnds DEF Write, CallStates
    <3> QED
      BY <3>1, <3>2, InsideIsNotDurable
  <2>5. ASSUME NEW n \in Nests, CallNested(n)
        PROVE  Durable' = Durable /\ Settled' = Settled
    <3>1. /\ InProgress(Parent[n]) /\ Parent[n] \in Txns \cup Nests
          /\ db'.inTx = db.inTx /\ db'.begun = db.begun
      BY <2>5, CallsAssumption DEF CallNested, TypeOK
    <3>2. Settled' = Settled
      BY <2>5, NestEnds DEF CallNested, CallStates
    <3> QED
      BY <3>1, <3>2, InsideIsNotDurable
  <2>6. ASSUME NEW n \in Nests, ReturnNested(n) \/ ThrowNested(n)
        PROVE  Durable' = Durable /\ Settled' = Settled
    <3>1. InProgress(n)
      BY <2>6 DEF ReturnNested, ThrowNested, InProgress
    <3>2. db'.inTx = db.inTx /\ db'.begun = db.begun
      BY <2>6 DEF ReturnNested, ThrowNested, ReleaseSavepoint, RollbackTo, TypeOK
    <3>3. Settled' = Settled
      BY <2>6, NestEnds DEF ReturnNested, ThrowNested, CallStates
    <3> QED
      BY <3>1, <3>2, <3>3, InsideIsNotDurable
  <2>7. ASSUME NEW t \in Txns, Return(t) \/ Throw(t)
        PROVE  Atomic!Next
    BY <2>7, ReturnIsCommit, ThrowIsFail DEF Atomic!Next
  <2>8. ASSUME NEW p \in Plains, Execute(p)
        PROVE  Atomic!Next
    BY <2>8, ExecuteIsPut DEF Atomic!Next
  <2> QED
    BY <2>1, <2>2, <2>3, <2>4, <2>5, <2>6, <2>7, <2>8 DEF Next, Step, StepNested
<1> QED
  BY <1>1, <1>2, AdapterInvariant, PTL DEF Spec, Atomic!Spec
=============================================================================
