---------------------------- MODULE WorkflowStatus ----------------------------
(***************************************************************************)
(* The status of targets in one workflow: the rows of src/workflow/        *)
(* status.ts and those who write and read them over the one connection of  *)
(* a server: finalizeWorkflowItem of the daemon (core/daemon.ts), in a     *)
(* transaction; the status routes of the REST API (server/api.ts), outside *)
(* any; and isDone of a compiled plan (workflow/compile.ts).               *)
(*                                                                         *)
(* One action is one SQL statement.  Statements of the API that come       *)
(* between those of a transaction join it, and its rollback undoes them    *)
(* too (SqliteAdapter).  Actors, reasons and times are left out.           *)
(*                                                                         *)
(* An operator named X_Bug is X with a plausible programming error; it is  *)
(* used only to confirm that the properties below notice the error.        *)
(***************************************************************************)
EXTENDS Integers, Sequences

CONSTANTS
    Targets,      \* work items
    Unit,         \* the unit of each, All for one that has none
    Statuses,     \* the ladder
    Done,         \* the status of a finalization that names none
    All,          \* the empty unit or target of a scoped row
    None,
    MaxWrites,    \* bound: calls of the status routes
    Actions,      \* what completion deciders answer
    MaxFinals,    \* bound: finalizations
    MaxReads      \* bound: isDone calls

VARIABLES
    rows,         \* workflow_status, by unit and target; None: no row
    items,        \* lifecycle and status of the work items
    events,       \* the target-status events
    tx,           \* the finalization under way, or None
    call,         \* the setStatus call of the API under way, or None
    read,         \* the resolveStatus call of a plan under way, or None
    touched,      \* targets whose status the API ever wrote
    done          \* calls so far, of each kind

vars == <<rows, items, events, tx, call, read, touched, done>>

Units == {Unit[t] : t \in Targets}
Keys == (Units \cup {All}) \X (Targets \cup {All})

Precise(t) == <<Unit[t], t>>

Probes_ScopedFirst(t) == << <<Unit[t], All>>, <<All, t>>, Precise(t) >>

\* The three rows that may carry a target's status, the most specific first.
Probes(t) == << Precise(t), <<All, t>>, <<Unit[t], All>> >>

\* resolveStatus(), had it read all rows at once.
Resolved(table, t) ==
    LET hits == SelectSeq(Probes(t), LAMBDA k : table[k] # None)
    IN  IF hits = <<>> THEN None ELSE table[Head(hits)]

Init ==
    /\ rows = [k \in Keys |-> None]
    /\ items = [t \in Targets |-> [accepted |-> FALSE, status |-> None]]
    /\ events = <<>>
    /\ tx = None /\ call = None /\ read = None
    /\ touched = {}
    /\ done = [writes |-> 0, finals |-> 0, reads |-> 0]

Count(kind) == done' = [done EXCEPT ![kind] = @ + 1]

\* A statement changes the rows, under the eyes of a reader.
Write(table) ==
    /\ rows' = table
    /\ read' = IF read = None THEN None
               ELSE [read EXCEPT !.own = @ \cup {table[Precise(read.target)]}]

-----------------------------------------------------------------------------
(* finalizeWorkflowItem(): one transaction.                                *)

\* A completion action promotes or not, and may name a status.
Finalize(t, action) ==
    /\ tx = None /\ done.finals < MaxFinals
    /\ tx' = [target |-> t, promote |-> action.promote, given |-> action.status,
              status |-> IF action.status = None THEN Done ELSE action.status,
              step |-> "probe", probe |-> 1, previous |-> None,
              saved |-> <<rows, items, events>>]
    /\ Count("finals")
    /\ UNCHANGED <<rows, items, events, call, read, touched>>

In(step) == tx # None /\ tx.step = step

\* resolveStatus() inside the transaction, one probe.
ProbePrevious ==
    /\ In("probe")
    /\ LET hit == rows[Probes(tx.target)[tx.probe]] IN
       tx' = IF hit # None \/ tx.probe = 3
             THEN [tx EXCEPT !.previous = hit, !.step = "insert"]
             ELSE [tx EXCEPT !.probe = @ + 1]
    /\ UNCHANGED <<rows, items, events, call, read, touched, done>>

\* setStatus(): the row is inserted, or, where one is, updated.
InsertStatus ==
    /\ In("insert")
    /\ LET key == Precise(tx.target) IN
       IF rows[key] = None
       THEN Write([rows EXCEPT ![key] = tx.status]) /\ tx' = [tx EXCEPT !.step = "item"]
       ELSE UNCHANGED <<rows, read>> /\ tx' = [tx EXCEPT !.step = "update"]
    /\ UNCHANGED <<items, events, call, touched, done>>

\* The update of a row that was reset meanwhile matches nothing.
Updated(key, status) ==
    IF rows[key] = None THEN rows ELSE [rows EXCEPT ![key] = status]

UpdateStatus ==
    /\ In("update")
    /\ Write(Updated(Precise(tx.target), tx.status))
    /\ tx' = [tx EXCEPT !.step = "item"]
    /\ UNCHANGED <<items, events, call, touched, done>>

\* What the completion action does to the work item.
WriteItem ==
    /\ In("item")
    /\ items' = [items EXCEPT ![tx.target] =
                   [accepted |-> @.accepted \/ tx.promote,
                    status |-> IF tx.given = None THEN @.status ELSE tx.given]]
    /\ tx' = [tx EXCEPT !.step = "event"]
    /\ UNCHANGED <<rows, events, call, read, touched, done>>

Changed == tx.previous # tx.status

\* The target-status event, only when the status changed.
AppendEvent ==
    /\ In("event")
    /\ events' = IF Changed
                 THEN Append(events, [target |-> tx.target, from |-> tx.previous,
                                      to |-> tx.status])
                 ELSE events
    /\ tx' = [tx EXCEPT !.step = "commit"]
    /\ UNCHANGED <<rows, items, call, read, touched, done>>

Commit ==
    /\ In("commit")
    /\ tx' = None
    /\ UNCHANGED <<rows, items, events, call, read, touched, done>>

Undone_RowOnly == <<tx.saved[1], items, events>>

Undone == tx.saved

\* A statement fails, or the evidence cannot be serialized: all is undone.
RollBack ==
    /\ tx # None
    /\ Write(Undone[1])
    /\ items' = Undone[2] /\ events' = Undone[3]
    /\ tx' = None
    /\ UNCHANGED <<call, touched, done>>

Finalizing ==
    \/ ProbePrevious \/ InsertStatus \/ UpdateStatus \/ WriteItem \/ AppendEvent
    \/ Commit \/ RollBack

-----------------------------------------------------------------------------
(* The status routes of the API.                                           *)

Scopes == {<<All, t>> : t \in Targets} \cup {<<u, All>> : u \in Units \ {All}}
          \cup {<<u, t>> : u \in Units \ {All}, t \in Targets}

\* The targets a row speaks of.
About(key) == {t \in Targets : key \in {Precise(t), <<All, t>>, <<Unit[t], All>>}}

CallSet(key, status) ==
    /\ call = None /\ done.writes < MaxWrites
    /\ call' = [key |-> key, status |-> status, step |-> "insert"]
    /\ touched' = touched \cup About(key)
    /\ Count("writes")
    /\ UNCHANGED <<rows, items, events, tx, read>>

CallInserts ==
    /\ call # None /\ call.step = "insert"
    /\ IF rows[call.key] = None
       THEN Write([rows EXCEPT ![call.key] = call.status]) /\ call' = None
       ELSE UNCHANGED <<rows, read>> /\ call' = [call EXCEPT !.step = "update"]
    /\ UNCHANGED <<items, events, tx, touched, done>>

CallUpdates ==
    /\ call # None /\ call.step = "update"
    /\ Write(Updated(call.key, call.status))
    /\ call' = None
    /\ UNCHANGED <<items, events, tx, touched, done>>

\* unsetStatus(): by target whatever the unit, by unit whatever the target, all.
Removed(scope) ==
    IF scope[2] # All THEN {k \in Keys : k[2] = scope[2]}
    ELSE IF scope[1] # All THEN {k \in Keys : k[1] = scope[1]}
    ELSE Keys

Reset(scope) ==
    /\ done.writes < MaxWrites
    /\ Write([k \in Keys |-> IF k \in Removed(scope) THEN None ELSE rows[k]])
    /\ touched' = touched \cup UNION {About(k) : k \in Removed(scope)}
    /\ Count("writes")
    /\ UNCHANGED <<items, events, tx, call>>

-----------------------------------------------------------------------------
(* resolveStatus() of a plan's isDone(), one probe at a time.              *)

\* own: what the target's precise row was at the moments of the read.
StartRead(t) ==
    /\ read = None /\ done.reads < MaxReads
    /\ read' = [target |-> t, probe |-> 1, own |-> {rows[Precise(t)]}, found |-> None, over |-> FALSE]
    /\ Count("reads")
    /\ UNCHANGED <<rows, items, events, tx, call, touched>>

ProbeRead ==
    /\ read # None /\ ~read.over
    /\ LET hit == rows[Probes(read.target)[read.probe]] IN
       read' = IF hit # None \/ read.probe = 3
               THEN [read EXCEPT !.found = hit, !.over = TRUE]
               ELSE [read EXCEPT !.probe = @ + 1]
    /\ UNCHANGED <<rows, items, events, tx, call, touched, done>>

EndRead ==
    /\ read # None /\ read.over
    /\ read' = None
    /\ UNCHANGED <<rows, items, events, tx, call, touched, done>>

Next ==
    \/ \E t \in Targets : StartRead(t) \/ \E a \in Actions : Finalize(t, a)
    \/ Finalizing
    \/ \E k \in Scopes, s \in Statuses : CallSet(k, s)
    \/ \E k \in Scopes \cup {<<All, All>>} : Reset(k)
    \/ CallInserts \/ CallUpdates
    \/ ProbeRead \/ EndRead

Spec == Init /\ [][Next]_vars

-----------------------------------------------------------------------------
\* A scoped row "can never hide a re-broken target" (status.ts:14-16): while a
\* target has a precise row, resolveStatus() finds one of its values, although
\* finalizations, settings, resets and rollbacks come between its probes.
PreciseRowDecides ==
    (read # None /\ read.over /\ None \notin read.own) => read.found \in read.own

EventsOf(t) == SelectSeq(events, LAMBDA e : e.target = t)

\* The row, the item write and the event "commit or roll back together", and an
\* event is there for every change of status and for no other (daemon.ts:197-201):
\* of a target only finalizations wrote, the events lead from no status to the
\* one it resolves to, each starting where the last ended, and an accepted item
\* has a status.
RowItemAndEventAgree ==
    tx = None =>
      \A t \in Targets \ touched :
        LET told == EventsOf(t)
            status == Resolved(rows, t)
        IN  /\ status = IF told = <<>> THEN None ELSE told[Len(told)].to
            /\ \A n \in DOMAIN told :
                 /\ told[n].from = IF n = 1 THEN None ELSE told[n - 1].to
                 /\ told[n].from # told[n].to
            /\ items[t].accepted => status # None
=============================================================================
