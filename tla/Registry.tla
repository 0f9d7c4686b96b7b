------------------------------- MODULE Registry -------------------------------
(***************************************************************************)
(* The registry of work items, their dependencies and capabilities, and    *)
(* the commands that fill, dump and restore it: `import', `export',        *)
(* --fixture and the live wiring of `run' (cli/index.ts, cli/live.ts) over *)
(* target/registry.ts, work-item.ts, deps.ts and adapter/fixture.ts, while *)
(* a server claims and finalizes items of the same database.               *)
(*                                                                         *)
(* Commands are processes of their own: they interleave between their      *)
(* statements.  A transaction is one action (SqliteAdapter models what     *)
(* makes it one); any transaction may fail for the lock another process    *)
(* holds.  Of an item's columns those are kept that its path through a     *)
(* snapshot can lose or that queries group by.                             *)
(*                                                                         *)
(* An operator named X_Bug is X with a plausible programming error; it is  *)
(* used only to confirm that the properties below notice the error.        *)
(***************************************************************************)
EXTENDS Integers, Sequences, FiniteSets, Functions, SequencesExt, FiniteSetsExt

CONSTANTS
    Ids,              \* target ids
    LIFECYCLE_VOCAB,
    TERMINAL_STATUSES,
    Fixtures,         \* what --fixture files hold: sequences of items
    Targets,          \* what the adapter reads from targets.json: items
    Snapshots,        \* snapshot files written by hand
    Commands,         \* processes
    None,
    MaxCommands       \* bound: commands started, and steps of the server

VARIABLES
    db,      \* items: row by id; deps, capabilities, claims
    file,    \* the snapshot file, or None
    command, \* what each process does
    started

vars == <<db, file, command, started>>

\* An item as the code hands it around has an id; its row is stored under it.
RowOf(item) == [unit |-> item.unit, lifecycle |-> item.lifecycle, status |-> item.status, meta |-> item.meta]

ItemOf_NoMeta(id, row) ==
    [id |-> id, unit |-> row.unit, lifecycle |-> row.lifecycle, status |-> row.status, meta |-> "{}"]

\* rowToWorkItem()
ItemOf(id, row) ==
    [id |-> id, unit |-> row.unit, lifecycle |-> row.lifecycle, status |-> row.status, meta |-> row.meta]

Empty == [items |-> << >>, deps |-> {}, capabilities |-> {}, claims |-> {}]

\* WorkItemRepo.insert() of each: a taken id is an error.
Insertable(table, items) ==
    /\ \A i \in DOMAIN items : items[i].id \notin DOMAIN table
    /\ \A i, j \in DOMAIN items : items[i].id = items[j].id => i = j

Inserted(table, items) ==
    [id \in DOMAIN table \cup {items[i].id : i \in DOMAIN items} |->
       IF id \in DOMAIN table THEN table[id]
       ELSE RowOf(items[CHOOSE i \in DOMAIN items : items[i].id = id])]

IdsOf(items) == {items[i].id : i \in DOMAIN items}

Valid_NoReferences(s) == \A i \in DOMAIN s.items : s.items[i].lifecycle \in LIFECYCLE_VOCAB

\* validateRegistrySnapshot(): a known lifecycle, and edges between items of the
\* same snapshot; an absent lifecycle was given its default.
Valid(s) ==
    /\ \A i \in DOMAIN s.items : s.items[i].lifecycle \in LIFECYCLE_VOCAB
    /\ \A d \in s.deps : d.from \in IdsOf(s.items) /\ d.to \in IdsOf(s.items)
    /\ \A c \in s.capabilities : c.item \in IdsOf(s.items)

-----------------------------------------------------------------------------
Init ==
    /\ db = Empty
    /\ file = None
    /\ command = [c \in Commands |-> [name |-> "none"]]
    /\ started = 0

Is(c, name, step) == command[c].name = name /\ command[c].step = step
Become(c, s) == command' = [command EXCEPT ![c] = s]
Exit(c) == Become(c, [name |-> "none"])
Counted == started < MaxCommands /\ started' = started + 1

\* openAndImport(), or the live wiring of `run', which takes no fixture.
Start(c, name, fixture) ==
    /\ command[c].name = "none"
    /\ name = "run" => fixture = <<>>
    /\ Counted
    /\ Become(c, [name |-> name, step |-> IF fixture = <<>> THEN "work" ELSE "fixture",
                  fixture |-> fixture])
    /\ UNCHANGED <<db, file>>

\* FixtureAdapter.importWorkItems(): its own transaction, no lifecycle check.
\* When it fails the command closes the store and ends.
ImportFixture(c) ==
    /\ command[c].name # "none" /\ command[c].step = "fixture"
    /\ IF Insertable(db.items, command[c].fixture)
       THEN /\ db' = [db EXCEPT !.items = Inserted(@, command[c].fixture)]
            /\ Become(c, [command[c] EXCEPT !.step = "work"])
       ELSE UNCHANGED db /\ Exit(c)
    /\ UNCHANGED <<file, started>>

\* exportRegistry(): three statements, outside a transaction; `origin' is the
\* registry they found, as long as nobody changed it between them.
ReadItems(c) ==
    /\ Is(c, "export", "work")
    /\ LET ids == SetToSortSeq(DOMAIN db.items, <) IN
       Become(c, [name |-> "export", step |-> "deps", origin |-> db,
                  items |-> [i \in DOMAIN ids |-> ItemOf(ids[i], db.items[ids[i]])]])
    /\ UNCHANGED <<db, file, started>>

ReadDeps(c) ==
    /\ Is(c, "export", "deps")
    /\ Become(c, [name |-> "export", step |-> "capabilities", items |-> command[c].items,
                  origin |-> IF command[c].origin = db THEN db ELSE None, deps |-> db.deps])
    /\ UNCHANGED <<db, file, started>>

\* The last statement, and the file is written.
WriteSnapshot(c) ==
    /\ Is(c, "export", "capabilities")
    /\ file' = [items |-> command[c].items, deps |-> command[c].deps,
                capabilities |-> db.capabilities,
                origin |-> IF command[c].origin = db THEN db ELSE None]
    /\ Exit(c)
    /\ UNCHANGED <<db, started>>

\* importRegistry(): all or nothing; an edge that is there is no error.
ImportRegistry(c) ==
    /\ Is(c, "import", "work")
    /\ IF file # None /\ Valid(file) /\ Insertable(db.items, file.items)
       THEN db' = [db EXCEPT !.items = Inserted(@, file.items),
                             !.deps = @ \cup file.deps,
                             !.capabilities = @ \cup file.capabilities]
       ELSE UNCHANGED db
    /\ Exit(c)
    /\ UNCHANGED <<file, started>>

\* What the wiring deletes.
Emptied == [db EXCEPT !.items = << >>, !.deps = {}, !.capabilities = {}]

\* configureLiveDecompi(): the registry is rebuilt from targets.json in one
\* transaction, which the foreign key of a claim makes fail.
RebuildFromTargets(c) ==
    /\ Is(c, "run", "work")
    /\ IF db.claims = {} THEN db' = [Emptied EXCEPT !.items = Inserted(<< >>, Targets)]
       ELSE UNCHANGED db
    /\ Exit(c)
    /\ UNCHANGED <<file, started>>

\* A transaction loses its wait for the write lock.
Busy(c) ==
    /\ command[c].name # "none"
    /\ command[c].step = "fixture" \/ command[c].name \in {"import", "run"}
    /\ Exit(c)
    /\ UNCHANGED <<db, file, started>>

-----------------------------------------------------------------------------
(* The server on the same database, and hands on the files.                *)

\* finalizeWorkflowItem() accepts an item.
Finalize(id) ==
    /\ Counted /\ id \in DOMAIN db.items
    /\ db' = [db EXCEPT !.items[id].lifecycle = "accepted", !.items[id].status = "FULL_MATCH"]
    /\ UNCHANGED <<file, command>>

Claim(id) ==
    /\ Counted
    /\ id \in DOMAIN db.items \ db.claims
    /\ db' = [db EXCEPT !.claims = @ \cup {id}]
    /\ UNCHANGED <<file, command>>

Release(id) ==
    /\ id \in db.claims
    /\ db' = [db EXCEPT !.claims = @ \ {id}]
    /\ UNCHANGED <<file, command, started>>

WriteByHand(s) ==
    /\ Counted
    /\ file' = [items |-> s.items, deps |-> s.deps, capabilities |-> s.capabilities, origin |-> None]
    /\ UNCHANGED <<db, command>>

\* Commands go on with a new database file.
NewDatabase ==
    /\ Counted /\ db # Empty
    /\ \A c \in Commands : command[c].name = "none"
    /\ db' = Empty
    /\ UNCHANGED <<file, command>>

Next ==
    \/ \E c \in Commands :
         \/ \E n \in {"import", "export", "run"}, f \in Fixtures \cup {<<>>} : Start(c, n, f)
         \/ ImportFixture(c) \/ ReadItems(c) \/ ReadDeps(c) \/ WriteSnapshot(c)
         \/ ImportRegistry(c) \/ RebuildFromTargets(c) \/ Busy(c)
    \/ \E id \in Ids : Finalize(id) \/ Claim(id) \/ Release(id)
    \/ \E s \in Snapshots : WriteByHand(s)
    \/ NewDatabase

Spec == Init /\ [][Next]_vars

-----------------------------------------------------------------------------
(* `status' and `report --completeness': the rows by unit and status.      *)

Groups == {<<db.items[id].unit, db.items[id].status>> : id \in DOMAIN db.items}
SizeOf(g) == Cardinality({id \in DOMAIN db.items : <<db.items[id].unit, db.items[id].status>> = g})

\* summarizeUnits()
Total(u) == FoldSet(LAMBDA g, n : n + SizeOf(g), 0, {g \in Groups : g[1] = u})
Remaining(u) == FoldSet(LAMBDA g, n : n + SizeOf(g), 0,
                        {g \in Groups : g[1] = u /\ g[2] \notin TERMINAL_STATUSES})

\* runCompleteness()
ACCEPTED_STATUSES == {"FULL_MATCH", "EQUIVALENT_MATCH"}

Complete(u) ==
    FoldSet(LAMBDA g, n : n + SizeOf(g), 0, {g \in Groups : g[1] = u /\ g[2] \in ACCEPTED_STATUSES}) = Total(u)

-----------------------------------------------------------------------------
\* Every dependency, capability and claim is of items that are there, whatever
\* commands, torn snapshots and claims come between each other: "dangling deps
\* would break the call-graph wave" (registry.ts:181-185).
EdgesNameItems ==
    /\ \A d \in db.deps : {d.from, d.to} \subseteq DOMAIN db.items
    /\ \A c \in db.capabilities : c.item \in DOMAIN db.items
    /\ db.claims \subseteq DOMAIN db.items

\* "A snapshot is byte-stable for git round-trips" (registry.ts:9-13): a snapshot
\* nobody wrote into, of items with lifecycles the core knows, restores in a new
\* database the registry it was taken from, claims aside.
RestoresOrigin ==
    \A c \in Commands :
      (ImportRegistry(c) /\ db = Empty /\ file # None /\ file.origin # None
         /\ \A id \in DOMAIN file.origin.items : file.origin.items[id].lifecycle \in LIFECYCLE_VOCAB)
      => db' = [file.origin EXCEPT !.claims = {}]

RoundTrips == [][RestoresOrigin]_vars

\* The tables of `status' and of `report --completeness' count each item in one
\* unit, and agree: of a unit that is complete nothing remains.
CountsAgree ==
    LET units == {g[1] : g \in Groups} IN
    /\ FoldSet(LAMBDA u, n : n + Total(u), 0, units) = Cardinality(DOMAIN db.items)
    /\ \A u \in units : Complete(u) => Remaining(u) = 0
=============================================================================
