------------------------------ MODULE Dashboard ------------------------------
(***************************************************************************)
(* The event view of the dashboard, web/app.js: selecting a run loads its  *)
(* whole history page by page (loadEvents), and a timer polls for what is  *)
(* new (pollEvents).  Requests overlap: a page may answer after a poll     *)
(* that was sent later, and the operator may select a run again.           *)
(*                                                                         *)
(* Of GET /api/events (src/server/api.ts) only the rows are kept: those of *)
(* one run beyond a cursor, ascending, up to a limit.                      *)
(*                                                                         *)
(* An operator named X_Bug is X with a plausible programming error; it is  *)
(* used only to confirm that the properties below notice the error.        *)
(***************************************************************************)
EXTENDS Integers, Sequences, SequencesExt

CONSTANTS
    Runs,        \* runs the operator may select
    None,        \* nothing is selected
    EventLimit,  \* rows per page
    MaxEvents,   \* bound: events of all runs
    MaxSelects,  \* bound: how often a run is selected
    MaxFailures  \* bound: requests that fail

VARIABLES
    events,      \* the events table: the run of each event, by seq
    selected,    \* state.selectedId
    cursor,      \* state.cursors, 0 for a run that was never selected
    list,        \* state.events: the seqs shown for each run
    loads,       \* loadEvents() calls under way, oldest first
    poll,        \* pollEvents() under way, or None
    selects, failures

vars == <<events, selected, cursor, list, loads, poll, selects, failures>>

Init ==
    /\ events = <<>>
    /\ selected = None
    /\ cursor = [r \in Runs |-> 0]
    /\ list = [r \in Runs |-> <<>>]
    /\ loads = <<>> /\ poll = None
    /\ selects = 0 /\ failures = 0

\* A request carries the rows it will be answered with, once the server read them.
Request(r, after) == [run |-> r, after |-> after, read |-> FALSE, rows |-> <<>>]

Beyond_OffByOne(n, after) == n > after + 1
Beyond(n, after) == n > after

\* readEvents() of api.ts.
Page(r, after) ==
    LET of == SelectSeq([n \in DOMAIN events |-> n],
                        LAMBDA n : events[n] = r /\ Beyond(n, after))
    IN  SubSeq(of, 1, IF Len(of) < EventLimit THEN Len(of) ELSE EventLimit)

Answered(request) == [request EXCEPT !.read = TRUE, !.rows = Page(request.run, request.after)]

EmitEvent(r) ==
    /\ Len(events) < MaxEvents
    /\ events' = Append(events, r)
    /\ UNCHANGED <<selected, cursor, list, loads, poll, selects, failures>>

From_Cursor(r) == cursor[r]

\* loadEvents() starts over, from before the first event.
From(r) == 0

\* selectRun() and the first page of its loadEvents(), which empties the list.
SelectRun(r) ==
    /\ selects < MaxSelects
    /\ selects' = selects + 1
    /\ selected' = r
    /\ list' = [list EXCEPT ![r] = <<>>]
    /\ loads' = Append(loads, Request(r, From(r)))
    /\ UNCHANGED <<events, cursor, poll, failures>>

\* The server reads the rows of a request.
ReadForLoad ==
    /\ \E k \in DOMAIN loads :
         ~loads[k].read /\ loads' = [loads EXCEPT ![k] = Answered(@)]
    /\ UNCHANGED <<events, selected, cursor, list, poll, selects, failures>>

ReadForPoll ==
    /\ poll # None /\ ~poll.read
    /\ poll' = Answered(poll)
    /\ UNCHANGED <<events, selected, cursor, list, loads, selects, failures>>

\* A page of loadEvents() arrives: the next one is asked for while pages are
\* full, and the cursor is set after the last.
LoadArrives(k) ==
    /\ loads[k].read
    /\ LET page == loads[k]
           after == IF page.rows = <<>> THEN page.after ELSE Last(page.rows)
       IN /\ list' = [list EXCEPT ![page.run] = @ \o page.rows]
          /\ IF Len(page.rows) = EventLimit
             THEN loads' = [loads EXCEPT ![k] = Request(page.run, after)] /\ UNCHANGED cursor
             ELSE loads' = RemoveAt(loads, k) /\ cursor' = [cursor EXCEPT ![page.run] = after]
    /\ UNCHANGED <<events, selected, poll, selects, failures>>

\* pollEvents(): nothing while one is under way or no run is selected.
PollTick ==
    /\ selected # None /\ poll = None
    /\ poll' = Request(selected, cursor[selected])
    /\ UNCHANGED <<events, selected, cursor, list, loads, selects, failures>>

\* The answer is dropped when another run was selected meanwhile.
PollArrives ==
    /\ poll # None /\ poll.read
    /\ IF selected = poll.run /\ poll.rows # <<>>
       THEN /\ list' = [list EXCEPT ![poll.run] = @ \o poll.rows]
            /\ cursor' = [cursor EXCEPT ![poll.run] = Last(poll.rows)]
       ELSE UNCHANGED <<list, cursor>>
    /\ poll' = None
    /\ UNCHANGED <<events, selected, loads, selects, failures>>

\* A request fails: the load, or the poll, is given up.
RequestFails ==
    /\ failures < MaxFailures
    /\ failures' = failures + 1
    /\ \/ /\ \E k \in DOMAIN loads : loads' = RemoveAt(loads, k)
          /\ UNCHANGED poll
       \/ poll # None /\ poll' = None /\ UNCHANGED loads
    /\ UNCHANGED <<events, selected, cursor, list, selects>>

Next ==
    \/ \E r \in Runs : EmitEvent(r) \/ SelectRun(r)
    \/ ReadForLoad \/ ReadForPoll
    \/ \E k \in DOMAIN loads : LoadArrives(k)
    \/ PollTick \/ PollArrives
    \/ RequestFails

Spec == Init /\ [][Next]_vars

-----------------------------------------------------------------------------
Loading(r) == \E k \in DOMAIN loads : loads[k].run = r
Shown(r) == ToSet(list[r])

\* When no load is under way, what the cursor has passed is in the list: polls
\* and pages that overtake each other, and switching between runs, lose no
\* event of a run as long as its loads succeed (web/app.js:249-309).
NothingBelowTheCursorIsLost ==
    failures = 0 =>
      \A r \in Runs : ~Loading(r) =>
        {n \in DOMAIN events : events[n] = r /\ n <= cursor[r]} \subseteq Shown(r)

\* state.cursors holds the "last seq consumed from /api/events"
\* (web/app.js:60), so that the next poll brings only what is new.
CursorIsLastConsumed ==
    \A r \in Runs : ~Loading(r) => \A n \in Shown(r) : n <= cursor[r]
=============================================================================
