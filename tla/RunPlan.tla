------------------------------- MODULE RunPlan -------------------------------
(***************************************************************************)
(* How a run of a compiled workflow chooses its targets: the plan of       *)
(* src/workflow/compile.ts asks the store, through the run's scope         *)
(* (workflow/scope.ts, server/scheduler.ts), for the work items of its     *)
(* selector (target/selector.ts), and leaves out those that are done.      *)
(*                                                                         *)
(* The store answers a selector with a filter on `meta' and a limit page   *)
(* by page; other runs change the rows between two pages.  A row keeps the *)
(* columns that filters and orders differ in: of the eight lists of a      *)
(* filter the ids, the kind, the unit and the status, of the ranges that   *)
(* of attempts, and one predicate for `meta'.                              *)
(*                                                                         *)
(* An operator named X_Bug is X with a plausible programming error; it is  *)
(* used only to confirm that the properties below notice the error.        *)
(***************************************************************************)
EXTENDS WorkflowCompile, SequencesExt

CONSTANTS
    Ids,               \* work items, numbered in the order of their ids
    Units,
    Kinds,
    Statuses,          \* work_items.status
    MaxAttempts,       \* bound: attempts of an item
    Tables,            \* the tables a run may meet
    Workflows,         \* definitions that may be planned
    Scopes,            \* scopes of runs: target ids and units, each may be absent
    OVER_FETCH_FACTOR, \* pages are this much larger than the limit
    MaxRecorded,       \* bound: targets with a status of their own at the start
    MaxChanges         \* bound: rows that change while a plan is made

VARIABLES
    rows,      \* work_items: unit, kind, status, attempts, meta (does it satisfy the predicate)
    recorded,  \* the resolved status of each target in the workflow, None without one
    workflow,  \* the definition whose plan is made
    scope,     \* the scope of the run
    phase,     \* "page", "subtract" or "planned"
    offset,    \* of the next page
    found,     \* collected rows, then the plan
    checked,   \* how many of them were compared with their status
    before,    \* rows and statuses when the selection began
    changes

vars == <<rows, recorded, workflow, scope, phase, offset, found, checked, before, changes>>

Row == [unit : Units \cup {None}, kind : Kinds, status : Statuses, attempts : 0..MaxAttempts,
        meta : BOOLEAN]

asked == PlanSelector(workflow)
OwnLadder == ResolveLadder(workflow)

-----------------------------------------------------------------------------
(* Scope and selector.                                                     *)

\* intersect(): an absent list does not restrict.
Intersect(existing, allowed) ==
    IF existing = None THEN allowed ELSE existing \cap allowed

\* applyScope(): target ids join filter.ids, units join filter.unit.
ApplyScope(f, s) ==
    [f EXCEPT !.ids = IF s.targets = None THEN @ ELSE Intersect(@, s.targets),
              !.unit = IF s.units = None THEN @ ELSE Intersect(@, s.units)]

\* inClause(): a list that is absent, or empty, gives no clause.
InClause(value, list) == list = None \/ list = {} \/ value \in list

RangeClause(value, range) == value >= range.min /\ value <= range.max

\* The WHERE of buildSelectorSql().
Where(i, f) ==
    /\ InClause(i, f.ids)
    /\ InClause(rows[i].kind, f.kind)
    /\ InClause(rows[i].unit, f.unit)
    /\ InClause(rows[i].status, f.status)
    /\ RangeClause(rows[i].attempts, f.attempts)

Before(i, j, sort) ==
    IF sort = "attempts" /\ rows[i].attempts # rows[j].attempts
    THEN rows[i].attempts < rows[j].attempts
    ELSE i < j

\* The ORDER BY: the sort field, ties by id.
Ordered(S, sort) == SetToSortSeq(S, LAMBDA i, j : Before(i, j, sort))

\* The rows of a statement with LIMIT and OFFSET.
Statement(f, sort, limit, from) ==
    LET all == Ordered({i \in Ids : Where(i, f)}, sort)
    IN  SubSeq(all, from + 1, IF limit = None \/ from + limit > Len(all) THEN Len(all)
                              ELSE from + limit)

\* applyMetaFilters(): the predicates SQL does not know.
MetaFiltered(items, f) ==
    IF f.meta THEN SelectSeq(items, LAMBDA i : rows[i].meta) ELSE items

AtMost(items, limit) ==
    IF limit = None \/ Len(items) <= limit THEN items ELSE SubSeq(items, 1, limit)

\* The engine does not hand the scope to plans: nothing is filtered out again.
Unscoped(items) ==
    SelectSeq(items, LAMBDA i : ApplyScopeSelector([id |-> i, unit |-> rows[i].unit], None))

Effective == ApplyScope(asked.filter, scope)
Paged == asked.filter.meta /\ asked.limit # None

-----------------------------------------------------------------------------
\* A run is created with a scope, and its plan asks for its selector.
Init ==
    /\ rows \in Tables
    /\ workflow \in Workflows
    /\ recorded \in {f \in [Ids -> {None} \cup ToSet(OwnLadder.statuses)] :
                      Cardinality({i \in Ids : f[i] # None}) <= MaxRecorded}
    /\ scope \in Scopes
    /\ phase = "page"
    /\ offset = 0 /\ found = <<>> /\ checked = 0
    /\ before = [rows |-> rows, recorded |-> recorded]
    /\ changes = 0

\* A selection without both `meta' and limit: one statement.
SelectAtOnce ==
    /\ phase = "page" /\ ~Paged
    /\ found' = Unscoped(AtMost(MetaFiltered(Statement(Effective, asked.sort, asked.limit, 0),
                                             Effective), asked.limit))
    /\ phase' = "subtract"
    /\ UNCHANGED <<rows, recorded, workflow, scope, offset, checked, before, changes>>

NextOffset_ByLimit == offset + asked.limit

NextOffset == offset + asked.limit * OVER_FETCH_FACTOR

\* One page; the pages end with an empty one, or when enough was collected.
SelectPage ==
    /\ phase = "page" /\ Paged
    /\ LET page == Statement(Effective, asked.sort, asked.limit * OVER_FETCH_FACTOR, offset)
           all == found \o MetaFiltered(page, Effective)
       IN  IF page = <<>> \/ Len(all) >= asked.limit
           THEN found' = Unscoped(AtMost(all, asked.limit)) /\ phase' = "subtract" /\ UNCHANGED offset
           ELSE found' = all /\ offset' = NextOffset /\ UNCHANGED phase
    /\ UNCHANGED <<rows, recorded, workflow, scope, checked, before, changes>>

DoneSubtracted_Any(i) == recorded[i] # None

DoneSubtracted(i) == recorded[i] \in OwnLadder.done

\* plan(): isDone() of one item after the other.
Subtract ==
    /\ phase = "subtract"
    /\ IF checked = Len(found)
       THEN phase' = "planned" /\ UNCHANGED <<found, checked>>
       ELSE /\ IF DoneSubtracted(found[checked + 1])
               THEN found' = RemoveAt(found, checked + 1) /\ UNCHANGED checked
               ELSE checked' = checked + 1 /\ UNCHANGED found
            /\ UNCHANGED phase
    /\ UNCHANGED <<rows, recorded, workflow, scope, offset, before, changes>>

\* Another run of the workflow finalizes a target, or raises its attempts.
OtherRun(i) ==
    /\ changes < MaxChanges /\ phase # "planned"
    /\ changes' = changes + 1
    /\ \/ \E status \in ToSet(OwnLadder.statuses) \cup {OwnLadder.completion} :
            /\ recorded' = [recorded EXCEPT ![i] = status]
            /\ rows' = [rows EXCEPT ![i].status = status]
       \/ /\ rows[i].attempts < MaxAttempts
          /\ rows' = [rows EXCEPT ![i].attempts = @ + 1]
          /\ UNCHANGED recorded
    /\ UNCHANGED <<workflow, scope, phase, offset, found, checked, before>>

Next == SelectAtOnce \/ SelectPage \/ Subtract \/ \E i \in Ids : OtherRun(i)

Spec == Init /\ [][Next]_vars

-----------------------------------------------------------------------------
Matches(i) == Where(i, Effective) /\ (Effective.meta => rows[i].meta)
Same(i) == rows[i] = before.rows[i] /\ recorded[i] = before.recorded[i]
Done(i) == recorded[i] \in OwnLadder.done

\* Paging is exact: when no row changes meanwhile, a selection finds the first
\* `limit' of all rows that match, in order, each once; a page short of matches
\* neither drops nor repeats one ("a matching item is never silently dropped
\* below `limit`", selector.ts:12-15).
SelectionIsExact ==
    (phase = "subtract" /\ checked = 0 /\ changes = 0) =>
      LET all == AtMost(Ordered({i \in Ids : Matches(i)}, asked.sort), asked.limit)
      IN  SelectSeq(all, LAMBDA i : ~Done(i)) = SelectSeq(found, LAMBDA i : ~Done(i))

\* Without a limit a plan holds every target that its selector and scope ask for
\* and that is not done, whatever other runs do to other rows between its
\* statements; an item's own status does not decide (compile.ts:350-369).  With
\* a limit or without, a target whose workflow leaves its ladder to the defaults
\* and that was completed before is not planned again.
OpenTargetsArePlanned ==
    phase = "planned" =>
      \A i \in Ids : Same(i) =>
        /\ asked.limit = None /\ Matches(i) /\ ~Done(i) => i \in ToSet(found)
        /\ /\ workflow.doneStatuses = None /\ workflow.completionStatus = None
           /\ recorded[i] = Last(Otherwise(workflow.statuses, DEFAULT_STATUSES))
           => i \notin ToSet(found)

\* "The result matches the selector's filters and the scope" (scope.ts:22-25):
\* an item of the plan is in the scope of the run, and one the selector names.
Lists(list, value) == list = None \/ value \in list
ScopeIsRespected ==
    phase = "planned" =>
      \A i \in ToSet(found) :
        /\ Lists(asked.filter.ids, i)
        /\ Lists(scope.targets, i) \/ scope.targets = {}
        /\ Lists(asked.filter.unit, before.rows[i].unit)
        /\ Lists(scope.units, before.rows[i].unit) \/ scope.units = {}
=============================================================================
