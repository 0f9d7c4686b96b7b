------------------------------- MODULE Startup -------------------------------
(***************************************************************************)
(* How a serving process comes up and goes down: src/server/serve.ts, with *)
(* the schema migrations of src/core/store/migrations.ts and the signals   *)
(* of src/cli/index.ts.  Several processes may be started on one database  *)
(* file and one port, after each other or at once, and each may crash.     *)
(*                                                                         *)
(* A transaction is deferred: it takes SQLite's write lock with its first  *)
(* write, and fails when another process committed after its first read.   *)
(* Of the schema the base tables and the workflow table are kept; of the   *)
(* tokens, whether the one that serve issues is there.                     *)
(*                                                                         *)
(* An operator named X_Bug is X with a plausible programming error; it is  *)
(* used only to confirm that the properties below notice the error.        *)
(***************************************************************************)
EXTENDS Integers, FiniteSets

CONSTANTS
    Processes,
    None,        \* nobody holds the lock, or the port
    MaxStarts,   \* bound: how often each process is started
    MaxCrashes,  \* bound: crashes
    MaxFaults    \* bound: steps of a start that fail for reasons of their own

VARIABLES
    db,       \* what is committed
    lock,     \* who holds the write lock
    port,     \* who listens
    proc,     \* the state of each process
    starts, crashes, faults

vars == <<db, lock, port, proc, starts, crashes, faults>>

\* base: the tables of schema.sql; workflow: which table holds the statuses;
\* rows: the statuses of a database from before the ladder are still there.
Fresh == [base |-> FALSE, workflow |-> "none", rows |-> FALSE, versions |-> {}, token |-> FALSE]
FromV0 == [base |-> TRUE, workflow |-> "completions", rows |-> TRUE, versions |-> {0},
           token |-> FALSE]

\* parts: what the process has open, in the order it came up.
Off == [pc |-> "off", applied |-> {}, seen |-> None, draft |-> None, parts |-> {},
        closed |-> FALSE, rushed |-> FALSE]

Init ==
    /\ db \in {Fresh, FromV0}
    /\ lock = None /\ port = None
    /\ proc = [p \in Processes |-> Off]
    /\ starts = [p \in Processes |-> 0]
    /\ crashes = 0 /\ faults = 0

At(p, pc) == proc[p].pc = pc
Goto(p, pc) == proc' = [proc EXCEPT ![p].pc = pc]
Unlock(p) == lock' = IF lock = p THEN None ELSE lock

-----------------------------------------------------------------------------
(* Migrations.                                                             *)

\* new SqliteAdapter(), then the CREATE TABLE IF NOT EXISTS of the versions.
Open(p) ==
    /\ At(p, "off") /\ starts[p] < MaxStarts
    /\ starts' = [starts EXCEPT ![p] = @ + 1]
    /\ proc' = [proc EXCEPT ![p] = [Off EXCEPT !.pc = "versions", !.parts = {"store"}]]
    /\ UNCHANGED <<db, lock, port, crashes, faults>>

\* The versions that are applied are read once, outside of a transaction.
ReadVersions(p) ==
    /\ At(p, "versions")
    /\ proc' = [proc EXCEPT ![p].applied = db.versions, ![p].pc = "base"]
    /\ UNCHANGED <<db, lock, port, starts, crashes, faults>>

\* The teardown of a start that failed.
Fail(p) ==
    /\ proc' = [proc EXCEPT ![p].pc = "close api", ![p].seen = None,
                            ![p].draft = None]
    /\ Unlock(p)

SkipBase(p) ==
    /\ At(p, "base") /\ 0 \in proc[p].applied
    /\ Goto(p, "v1")
    /\ UNCHANGED <<db, lock, port, starts, crashes, faults>>

\* The first statement writes: it waits for the lock, and fails when another
\* process created the tables meanwhile.
ApplyBase(p) ==
    /\ At(p, "base") /\ 0 \notin proc[p].applied
    /\ lock = None
    /\ \/ /\ db.base /\ Fail(p)
       \/ /\ ~db.base
          /\ lock' = p
          /\ proc' = [proc EXCEPT ![p].pc = "commit base",
                        ![p].draft = [db EXCEPT !.base = TRUE, !.workflow = "status",
                                                !.versions = @ \cup {0}]]
    /\ UNCHANGED <<db, port, starts, crashes, faults>>

Commit(p, next) ==
    /\ db' = proc[p].draft
    /\ Unlock(p)
    /\ proc' = [proc EXCEPT ![p].pc = next, ![p].seen = None, ![p].draft = None]

CommitBase(p) ==
    /\ At(p, "commit base")
    /\ Commit(p, "v1")
    /\ UNCHANGED <<port, starts, crashes, faults>>

SkipV1(p) ==
    /\ At(p, "v1") /\ 1 \in proc[p].applied
    /\ Goto(p, "daemon")
    /\ UNCHANGED <<db, lock, port, starts, crashes, faults>>

\* migrationV1 begins with a read of the table names.
LookAtTables(p) ==
    /\ At(p, "v1") /\ 1 \notin proc[p].applied
    /\ proc' = [proc EXCEPT ![p].seen = db, ![p].pc = "write v1"]
    /\ UNCHANGED <<db, lock, port, starts, crashes, faults>>

MayWrite_Stale(p) == TRUE

\* A deferred transaction may only write on the state it read.
MayWrite(p) == proc[p].seen = db

MigrateV1_NoRename(d) == [d EXCEPT !.versions = @ \cup {1}]

\* Rename and backfill, or create, or nothing; the version is recorded with it.
MigrateV1(d) == [d EXCEPT !.workflow = "status", !.versions = @ \cup {1}]

ApplyV1(p) ==
    /\ At(p, "write v1") /\ lock = None
    /\ \/ /\ ~MayWrite(p) /\ Fail(p)
       \/ /\ MayWrite(p)
          /\ lock' = p
          /\ proc' = [proc EXCEPT ![p].pc = "commit v1",
                                  ![p].draft = MigrateV1(proc[p].seen)]
    /\ UNCHANGED <<db, port, starts, crashes, faults>>

CommitV1(p) ==
    /\ At(p, "commit v1")
    /\ Commit(p, "daemon")
    /\ UNCHANGED <<port, starts, crashes, faults>>

-----------------------------------------------------------------------------
(* The parts of the server.                                                *)

\* daemon.start() arms the reap timer; the scheduler is constructed with it.
StartDaemon(p) ==
    /\ At(p, "daemon")
    /\ proc' = [proc EXCEPT ![p].parts = @ \cup {"daemon", "scheduler"}, ![p].pc = "token"]
    /\ UNCHANGED <<db, lock, port, starts, crashes, faults>>

IssueToken_Retries(p) ==
    /\ At(p, "token") /\ lock = None /\ ~db.token
    /\ db' = [db EXCEPT !.token = TRUE]
    /\ proc' = [proc EXCEPT ![p].parts = @ \cup {"api"}, ![p].pc = "listen"]
    /\ UNCHANGED <<lock, port, starts, crashes, faults>>

\* AuthTokenProvider.issue() inserts the row; a second row of one id is refused.
IssueToken(p) ==
    /\ At(p, "token") /\ lock = None
    /\ \/ /\ db.token /\ Fail(p) /\ UNCHANGED db
       \/ /\ ~db.token
          /\ db' = [db EXCEPT !.token = TRUE]
          /\ proc' = [proc EXCEPT ![p].parts = @ \cup {"api"}, ![p].pc = "listen"]
          /\ UNCHANGED lock
    /\ UNCHANGED <<port, starts, crashes, faults>>

\* listen(): refused while another process has the port.
Listen(p) ==
    /\ At(p, "listen")
    /\ \/ port # None /\ Fail(p) /\ UNCHANGED port
       \/ port = None /\ port' = p /\ Goto(p, "up") /\ UNCHANGED lock
    /\ UNCHANGED <<db, starts, crashes, faults>>

\* A step of the start throws: a full disk, a file that is missing.
Fault(p) ==
    /\ proc[p].pc \in {"versions", "base", "v1", "write v1", "commit base", "commit v1",
                       "daemon", "token", "listen"}
    /\ faults < MaxFaults
    /\ faults' = faults + 1
    /\ Fail(p)
    /\ UNCHANGED <<db, port, starts, crashes>>

-----------------------------------------------------------------------------
(* Going down.                                                             *)

\* SIGINT, SIGTERM or a caller of close(): only the first has an effect.
CallClose(p) ==
    /\ At(p, "up") /\ ~proc[p].closed
    /\ proc' = [proc EXCEPT ![p].closed = TRUE, ![p].pc = "close api"]
    /\ UNCHANGED <<db, lock, port, starts, crashes, faults>>

\* A later call resolves at once, and the signal handler exits the process.
CallCloseAgain(p) ==
    /\ proc[p].closed /\ proc[p].pc \in {"close api", "close scheduler", "close daemon",
                                         "close store"}
    /\ proc' = [proc EXCEPT ![p].pc = "exit", ![p].rushed = TRUE]
    /\ UNCHANGED <<db, lock, port, starts, crashes, faults>>

Close(p, pc, part, next) ==
    /\ At(p, pc)
    /\ proc' = [proc EXCEPT ![p].parts = @ \ {part}, ![p].pc = next]

CloseApi(p) ==
    /\ Close(p, "close api", "api", "close scheduler")
    /\ port' = IF port = p THEN None ELSE port
    /\ UNCHANGED <<db, lock, starts, crashes, faults>>

CloseScheduler_KeepsDaemon(p) ==
    /\ Close(p, "close scheduler", "scheduler", "close store")
    /\ UNCHANGED <<db, lock, port, starts, crashes, faults>>

CloseScheduler(p) ==
    /\ Close(p, "close scheduler", "scheduler", "close daemon")
    /\ UNCHANGED <<db, lock, port, starts, crashes, faults>>

CloseDaemon(p) ==
    /\ Close(p, "close daemon", "daemon", "close store")
    /\ UNCHANGED <<db, lock, port, starts, crashes, faults>>

CloseStore(p) ==
    /\ Close(p, "close store", "store", "exit")
    /\ UNCHANGED <<db, lock, port, starts, crashes, faults>>

\* The process is gone, and with it all it had; it may be started again.
Exit(p) ==
    /\ At(p, "exit")
    /\ proc' = [proc EXCEPT ![p] = Off]
    /\ port' = IF port = p THEN None ELSE port
    /\ Unlock(p)
    /\ UNCHANGED <<db, starts, crashes, faults>>

Crash(p) ==
    /\ ~At(p, "off") /\ crashes < MaxCrashes
    /\ crashes' = crashes + 1
    /\ proc' = [proc EXCEPT ![p] = Off]
    /\ port' = IF port = p THEN None ELSE port
    /\ Unlock(p)
    /\ UNCHANGED <<db, starts, faults>>

ComesUp(p) ==
    \/ ReadVersions(p) \/ SkipBase(p) \/ ApplyBase(p) \/ CommitBase(p)
    \/ SkipV1(p) \/ LookAtTables(p) \/ ApplyV1(p) \/ CommitV1(p)
    \/ StartDaemon(p) \/ IssueToken(p) \/ Listen(p)

GoesDown(p) ==
    CloseApi(p) \/ CloseScheduler(p) \/ CloseDaemon(p) \/ CloseStore(p) \/ Exit(p)

Next ==
    \E p \in Processes :
      \/ Open(p) \/ ComesUp(p) \/ GoesDown(p)
      \/ Fault(p) \/ CallClose(p) \/ CallCloseAgain(p) \/ Crash(p)

\* Steps that are enabled are taken; nobody must start, stop or crash.
Fairness == \A p \in Processes : WF_vars(ComesUp(p)) /\ WF_vars(GoesDown(p))

Spec == Init /\ [][Next]_vars /\ Fairness

-----------------------------------------------------------------------------
\* Whatever processes migrate at once, and wherever one crashes, the tables are
\* those that schema_migrations names, and the statuses of an old database
\* survive (migrations.ts:40-56).
VersionsTellTheTruth ==
    /\ db.base <=> 0 \in db.versions
    /\ 1 \in db.versions => db.workflow = "status"
    /\ db.workflow = "completions" => db.rows

\* A migration is not applied on tables that another process changed since.
OneMigratesAtATime ==
    \A p \in Processes : proc[p].draft # None => lock = p /\ proc[p].seen \in {None, db}

\* "A partial startup never leaks a listener, timer, or open store handle"
\* (serve.ts:239): a process that ends its teardown has nothing open, and
\* nothing is used after what it depends on was closed.
NothingLeaks ==
    \A p \in Processes :
      /\ proc[p].pc = "exit" /\ ~proc[p].rushed => proc[p].parts = {}
      /\ "store" \in proc[p].parts \/ proc[p].parts = {}

\* "Idempotent; resolves once everything has settled" (serve.ts:106).
CloseSettles == \A p \in Processes : proc[p].pc = "exit" => proc[p].parts = {}

\* A start comes up or is torn down, whoever else starts at the same time.
StartEnds ==
    \A p \in Processes : At(p, "versions") ~> (At(p, "up") \/ At(p, "off"))
=============================================================================
