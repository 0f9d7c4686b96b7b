--------------------------- MODULE SqliteAdapter ---------------------------
(***************************************************************************)
(* The transactions of src/core/store/sqlite.ts: one connection, outermost *)
(* transactions serialized on a promise chain, nested ones as savepoints   *)
(* named after a shared depth, and statements outside any transaction.     *)
(*                                                                         *)
(* node:sqlite is synchronous, so each SQL statement is a step; between    *)
(* two statements of a callback every other caller may run.  The contents  *)
(* of the database are the set of callers whose write it holds.            *)
(*                                                                         *)
(* Callers: the callback of a transaction, outermost or nested, writes,    *)
(* makes nested calls, awaits them, and returns or throws; a plain caller  *)
(* executes one statement on the adapter itself,                           *)
(* as RunScheduler and WorkflowStatusStore do beside the daemon's          *)
(* transactions (src/server/serve.ts gives them one adapter).              *)
(*                                                                         *)
(* An operator named X_Bug is X with a plausible programming error; it is  *)
(* used only to confirm that the properties below notice the error.        *)
(***************************************************************************)
EXTENDS Naturals, Sequences, FiniteSets

CONSTANTS
    Txns,          \* outermost transaction() calls
    Nests,         \* nested transaction() calls
    Parent,        \* the call whose callback makes each nested call
    Plains,        \* execute() calls on the adapter itself
    PlainsWait,    \* TRUE: no plain caller runs while a transaction is open
    NestsInTurn    \* TRUE: a callback awaits a nested call before it goes on

\* A callback is part of one call, and no call is inside itself.
ASSUME CallsAssumption ==
    /\ Parent \in [Nests -> Txns \cup Nests]
    /\ \A S \in SUBSET Nests : S # {} => \E n \in S : Parent[n] \notin S
    /\ Txns \cap Nests = {} /\ Txns \cap Plains = {} /\ Nests \cap Plains = {}

ASSUME DisciplineAssumption == PlainsWait \in BOOLEAN /\ NestsInTurn \in BOOLEAN

VARIABLES
    db,        \* the connection: its rows, the rows BEGIN found, its savepoints
    chain,     \* txTail: the transactions that wait, the one that runs first
    txDepth,   \* the field of that name
    pc,        \* where each call stands
    savepoint  \* the name each nested call gave its savepoint, as a depth

vars == <<db, chain, txDepth, pc, savepoint>>

CallStates == {"idle", "queued", "open", "wrote", "done", "failed"}

-----------------------------------------------------------------------------
(* SQLite.                                                                 *)

Writes(conn, c) == [conn EXCEPT !.rows = @ \cup {c}]

\* The innermost savepoint of this name, or 0.
Innermost(conn, name) ==
    LET named == {i \in DOMAIN conn.saves : conn.saves[i].name = name}
    IN  IF named = {} THEN 0 ELSE CHOOSE i \in named : \A j \in named : j <= i

\* RELEASE name: it and those inside it are forgotten, their work stays.
ReleaseSavepoint(conn, name) ==
    [conn EXCEPT !.saves = SubSeq(@, 1, Innermost(conn, name) - 1)]

\* ROLLBACK TO name: what was done since it is undone.
RollbackTo(conn, name) ==
    [conn EXCEPT !.rows = conn.saves[Innermost(conn, name)].rows]

-----------------------------------------------------------------------------
Init ==
    /\ db = [rows |-> {}, begun |-> {}, inTx |-> FALSE, saves |-> <<>>]
    /\ chain = <<>>
    /\ txDepth = 0
    /\ pc = [c \in Txns \cup Nests \cup Plains |-> "idle"]
    /\ savepoint = [n \in Nests |-> 0]

\* transaction(): wait for the transactions called before.
CallTransaction(t) ==
    /\ pc[t] = "idle"
    /\ chain' = Append(chain, t)
    /\ pc' = [pc EXCEPT ![t] = "queued"]
    /\ UNCHANGED <<db, txDepth, savepoint>>

Begin_NotSerialized(t) ==
    /\ pc[t] = "queued"
    /\ db' = [db EXCEPT !.begun = IF db.inTx THEN @ ELSE db.rows, !.inTx = TRUE]
    /\ txDepth' = 1
    /\ pc' = [pc EXCEPT ![t] = "open"]
    /\ UNCHANGED <<chain, savepoint>>

\* runOuterTransaction(): BEGIN.
Begin(t) ==
    /\ pc[t] = "queued"
    /\ Head(chain) = t
    /\ db' = [db EXCEPT !.begun = db.rows, !.inTx = TRUE]
    /\ txDepth' = 1
    /\ pc' = [pc EXCEPT ![t] = "open"]
    /\ UNCHANGED <<chain, savepoint>>

InProgress(c) == pc[c] \in {"open", "wrote"}
Within(c) == {n \in Nests : Parent[n] = c}
AllSettled(c) == \A n \in Within(c) : ~InProgress(n)

\* A callback writes, once, through the tx handle.
Write(c) ==
    /\ pc[c] = "open"
    /\ NestsInTurn => AllSettled(c)
    /\ db' = Writes(db, c)
    /\ pc' = [pc EXCEPT ![c] = "wrote"]
    /\ UNCHANGED <<chain, txDepth, savepoint>>

Return_NoChain(t) ==
    /\ pc[t] = "wrote"
    /\ db' = [db EXCEPT !.inTx = FALSE, !.saves = <<>>]
    /\ txDepth' = 0
    /\ pc' = [pc EXCEPT ![t] = "done"]
    /\ UNCHANGED <<chain, savepoint>>

\* The callback is through, its nested calls settled: COMMIT.
Return(t) ==
    /\ pc[t] = "wrote"
    /\ AllSettled(t)
    /\ db' = [db EXCEPT !.inTx = FALSE, !.saves = <<>>]
    /\ txDepth' = 0
    /\ chain' = Tail(chain)
    /\ pc' = [pc EXCEPT ![t] = "done"]
    /\ UNCHANGED savepoint

Throw_NoRollback(t) ==
    /\ InProgress(t)
    /\ AllSettled(t)
    /\ db' = [db EXCEPT !.inTx = FALSE, !.saves = <<>>]
    /\ txDepth' = 0
    /\ chain' = Tail(chain)
    /\ pc' = [pc EXCEPT ![t] = "failed"]
    /\ UNCHANGED savepoint

\* The callback throws: ROLLBACK.
Throw(t) ==
    /\ InProgress(t)
    /\ AllSettled(t)
    /\ db' = [db EXCEPT !.rows = db.begun, !.inTx = FALSE, !.saves = <<>>]
    /\ txDepth' = 0
    /\ chain' = Tail(chain)
    /\ pc' = [pc EXCEPT ![t] = "failed"]
    /\ UNCHANGED savepoint

-----------------------------------------------------------------------------
(* nestedTransaction(), made by the callback of a transaction in progress.  *)

CallNested(n) ==
    /\ pc[n] = "idle"
    /\ InProgress(Parent[n])
    /\ NestsInTurn => AllSettled(Parent[n])
    /\ db' = [db EXCEPT !.saves = Append(@, [name |-> txDepth, rows |-> db.rows])]
    /\ savepoint' = [savepoint EXCEPT ![n] = txDepth]
    /\ txDepth' = txDepth + 1
    /\ pc' = [pc EXCEPT ![n] = "open"]
    /\ UNCHANGED chain

\* RELEASE sp_N.  If the savepoint is gone the call fails, having undone nothing.
ReturnNested(n) ==
    /\ pc[n] = "wrote"
    /\ AllSettled(n)
    /\ IF Innermost(db, savepoint[n]) = 0
       THEN pc' = [pc EXCEPT ![n] = "failed"] /\ UNCHANGED db
       ELSE pc' = [pc EXCEPT ![n] = "done"] /\ db' = ReleaseSavepoint(db, savepoint[n])
    /\ txDepth' = txDepth - 1
    /\ UNCHANGED <<chain, savepoint>>

ThrowNested_ReleaseOnly(n) ==
    /\ InProgress(n)
    /\ AllSettled(n)
    /\ db' = IF Innermost(db, savepoint[n]) = 0 THEN db
             ELSE ReleaseSavepoint(db, savepoint[n])
    /\ txDepth' = txDepth - 1
    /\ pc' = [pc EXCEPT ![n] = "failed"]
    /\ UNCHANGED <<chain, savepoint>>

\* ROLLBACK TO sp_N, RELEASE sp_N.
ThrowNested(n) ==
    /\ InProgress(n)
    /\ AllSettled(n)
    /\ db' = IF Innermost(db, savepoint[n]) = 0 THEN db
             ELSE ReleaseSavepoint(RollbackTo(db, savepoint[n]), savepoint[n])
    /\ txDepth' = txDepth - 1
    /\ pc' = [pc EXCEPT ![n] = "failed"]
    /\ UNCHANGED <<chain, savepoint>>

-----------------------------------------------------------------------------
\* execute() on the adapter: it joins whatever transaction is open.
Execute(p) ==
    /\ pc[p] = "idle"
    /\ PlainsWait => ~db.inTx
    /\ db' = Writes(db, p)
    /\ pc' = [pc EXCEPT ![p] = "done"]
    /\ UNCHANGED <<chain, txDepth, savepoint>>

Step(t) ==
    \/ Begin(t)
    \/ Write(t)
    \/ Return(t)
    \/ Throw(t)

StepNested(n) ==
    \/ Write(n)
    \/ ReturnNested(n)
    \/ ThrowNested(n)

Next ==
    \/ \E t \in Txns : CallTransaction(t) \/ Step(t)
    \/ \E n \in Nests : CallNested(n) \/ StepNested(n)
    \/ \E p \in Plains : Execute(p)

Spec == Init /\ [][Next]_vars

\* Callbacks of transactions come to an end.
Fairness ==
    /\ \A t \in Txns : WF_vars(Step(t))
    /\ \A n \in Nests : WF_vars(StepNested(n))

FairSpec == Spec /\ Fairness

-----------------------------------------------------------------------------
(* Properties.                                                             *)

Savepoints == [name : Nat, rows : SUBSET (Txns \cup Nests \cup Plains)]

\* The connection and the adapter have these types.
TypeOK ==
    /\ db \in [rows : SUBSET (Txns \cup Nests \cup Plains),
               begun : SUBSET (Txns \cup Nests \cup Plains),
               inTx : BOOLEAN, saves : Seq(Savepoints)]
    /\ chain \in Seq(Txns)
    /\ txDepth \in Nat
    /\ pc \in [Txns \cup Nests \cup Plains -> CallStates]
    /\ savepoint \in [Nests -> Nat]

\* What a crash at this moment would leave.
Durable == IF db.inTx THEN db.begun ELSE db.rows

\* The outermost transaction of a nested call.
Root[n \in Nests] == IF Parent[n] \in Nests THEN Root[Parent[n]] ELSE Parent[n]

\* A nested call that failed, or is part of one that did.
Undone[n \in Nests] == pc[n] = "failed" \/ (Parent[n] \in Nests /\ Undone[Parent[n]])

\* "An inner rollback only undoes the inner region and never the outer work"
\* (header, nestedTransaction): while a transaction is in progress its own
\* write and those of its nested calls are in place, except those of the calls
\* that failed and of the calls inside them.
InnerRollbackUndoesInner ==
    /\ \A t \in Txns : pc[t] = "wrote" => t \in db.rows
    /\ \A n \in Nests : InProgress(Root[n]) =>
        (n \in db.rows <=> pc[n] \in {"wrote", "done"} /\ ~Undone[n])

\* The same when it is over (runOuterTransaction): once a transaction returned,
\* its write and those of its nested calls, less the failed ones, are durable;
\* once it threw, nothing of it is.
AllOrNothing ==
    \A t \in Txns : LET inside == {n \in Nests : Root[n] = t} IN
        /\ pc[t] = "done" => /\ t \in Durable
                             /\ \A n \in inside : n \in Durable <=> pc[n] = "done" /\ ~Undone[n]
        /\ pc[t] = "failed" => ({t} \cup inside) \cap Durable = {}

\* Rollbacks undo exactly their region, while a transaction is in progress and
\* once it is over (runOuterTransaction, nestedTransaction).
RollbacksAreExact == InnerRollbackUndoesInner /\ AllOrNothing

\* The callers that were told how their call ended.
Settled == {c \in Txns \cup Plains : pc[c] \in {"done", "failed"}}

\* The adapter implements the atomic store: nothing of a transaction is durable
\* before it ends, and nothing durable is ever taken back (sqlite.ts:203-227).
Atomic == INSTANCE AtomicStore WITH durable <- Durable, settled <- Settled
ImplementsAtomicStore == Atomic!Spec

\* transaction() settles for every caller, those that wait behind a failure
\* included, as txTail is kept alive.
EveryCallSettles == \A t \in Txns : pc[t] = "queued" ~> pc[t] \in {"done", "failed"}

\* "A caller's committed work can therefore never be wiped by another caller's
\* rollback" (header): a statement that execute() reported done stays done.
ExecutedStays == \A p \in Plains : pc[p] = "done" => p \in db.rows
=============================================================================
