------------------------------- MODULE RestApi -------------------------------
(***************************************************************************)
(* The REST endpoints of src/server/api.ts: authentication, the spend and  *)
(* pipeline gates of POST /api/runs, the actions on runs, the status       *)
(* endpoints, POST /api/analyze and the audit log they all write.          *)
(*                                                                         *)
(* Requests interleave at their awaits, with each other and with the       *)
(* scheduler, whose runs settle and add what they really cost to the log.  *)
(* The scheduler and the status store are kept to what the endpoints tell  *)
(* apart here (RunScheduler and WorkflowStatus have their details).        *)
(*                                                                         *)
(* An operator named X_Bug is X with a plausible programming error; it is  *)
(* used only to confirm that the properties below notice the error.        *)
(***************************************************************************)
EXTENDS Integers, Sequences, FiniteSets, SequencesExt, FiniteSetsExt

CONSTANTS
    Requests,   \* the requests of an execution; one that creates a run names it
    Tokens,     \* tokens with a row of auth_tokens
    Cap,        \* spend_cap_micro_usd of each token, or None
    Allowed,    \* pipeline_allowlist of each token; empty allows all
    Pipelines,
    Budgets,    \* budgets a request may name; None: no budget
    GlobalCap,  \* globalSpendCapMicroUsd, or None for Infinity
    Actuals,    \* what a run may really cost
    None,
    MaxFaults   \* bound: statements that fail

VARIABLES
    req,      \* the state of each request
    audit,    \* the audit log
    revoked,  \* tokens whose revoked_at is set
    runs,     \* the runs table, by the request that created the run
    status,   \* who wrote the status row last, None when there is none
    open,     \* the scheduler takes new runs
    faults

vars == <<req, audit, revoked, runs, status, open, faults>>

Kinds == {"read", "create", "action", "analyze", "getStatus", "setStatus", "resetStatus"}

\* could: the token was valid when the request came, and might create a run.
NewRequest == [pc |-> "new", kind |-> None, token |-> None, pipeline |-> None, budget |-> None,
               run |-> None, exhausted |-> FALSE, answer |-> 0, valid |-> FALSE, could |-> FALSE]

Init ==
    /\ req = [q \in Requests |-> NewRequest]
    /\ audit = <<>>
    /\ revoked = {}
    /\ runs = [q \in Requests |-> None]
    /\ status = None
    /\ open = TRUE
    /\ faults = 0

At(q, pc) == req[q].pc = pc
Becomes(q, r) == req' = [req EXCEPT ![q] = r]
Goto(q, pc) == Becomes(q, [req[q] EXCEPT !.pc = pc])
Answer(q, code) == Becomes(q, [req[q] EXCEPT !.pc = "done", !.answer = code])

Row(actor, action, run, cost) == [actor |-> actor, action |-> action, run |-> run, cost |-> cost]

\* AuthTokenProvider.spend(): SUM skips rows without a cost.
Spend(actor) ==
    FoldSeq(LAMBDA row, sum : IF row.cost # None /\ actor \in {None, row.actor}
                              THEN sum + row.cost ELSE sum, 0, audit)

Exceeds(spend, cap) == cap # None /\ spend > cap

-----------------------------------------------------------------------------
(* Arrival and authentication.                                             *)

Arrive(q) ==
    /\ At(q, "new")
    /\ \E t \in Tokens \cup {None}, k \in Kinds, p \in Pipelines, b \in Budgets :
         /\ k # "create" => p = CHOOSE x \in Pipelines : TRUE
         /\ k # "create" => b = CHOOSE x \in Budgets : TRUE
         /\ Becomes(q, [req[q] EXCEPT
                !.pc = "authenticate", !.kind = k, !.token = t, !.pipeline = p, !.budget = b,
                !.valid = t # None /\ t \notin revoked,
                !.could = t # None /\ t \notin revoked /\ ~Exceeds(Spend(None), GlobalCap)
                          /\ ~Exceeds(Spend(t), Cap[t])])
    /\ UNCHANGED <<audit, revoked, runs, status, open, faults>>

Rejects_UnknownOnly(q) == req[q].token = None
Rejects(q) == req[q].token = None \/ req[q].token \in revoked

\* validate(): the row of the token; no row and a revoked one are refused.
Authenticate(q) ==
    /\ At(q, "authenticate")
    /\ IF Rejects(q) THEN Answer(q, 401)
       ELSE Goto(q, IF Cap[req[q].token] = None THEN "route" ELSE "measure")
    /\ UNCHANGED <<audit, revoked, runs, status, open, faults>>

\* validate(): a token beyond its cap is marked, not refused.
Measure(q) ==
    /\ At(q, "measure")
    /\ Becomes(q, [req[q] EXCEPT !.pc = "route",
                     !.exhausted = Exceeds(Spend(req[q].token), Cap[req[q].token])])
    /\ UNCHANGED <<audit, revoked, runs, status, open, faults>>

\* route(): the body, where there is one, is read and checked.
Route(q) ==
    /\ At(q, "route")
    /\ \/ req[q].kind # "read" /\ \E code \in {400, 413} : Answer(q, code)
       \/ Goto(q, req[q].kind)
    /\ UNCHANGED <<audit, revoked, runs, status, open, faults>>

-----------------------------------------------------------------------------
(* The handlers.                                                           *)

\* Endpoints that only read: health, metrics, runs, work items, events.
HandleRead(q) ==
    /\ At(q, "read")
    /\ \E code \in {200, 404} : Answer(q, code)
    /\ UNCHANGED <<audit, revoked, runs, status, open, faults>>

Listed(q) ==
    LET allowlist == Allowed[req[q].token]
    IN  allowlist # {} => req[q].pipeline \in allowlist

Gate_NoTokenCap(q) == Listed(q)

\* What the identity allows, before anything is read again.
Gate(q) == Listed(q) /\ ~req[q].exhausted

CheckIdentity(q) ==
    /\ At(q, "create")
    /\ IF Gate(q) THEN Goto(q, "spend") ELSE Answer(q, 403)
    /\ UNCHANGED <<audit, revoked, runs, status, open, faults>>

\* The global cap, and the budget it demands.
CheckSpend(q) ==
    /\ At(q, "spend")
    /\ IF Exceeds(Spend(None), GlobalCap) \/ (GlobalCap # None /\ req[q].budget = None)
       THEN Answer(q, 403) ELSE Goto(q, "insert")
    /\ UNCHANGED <<audit, revoked, runs, status, open, faults>>

\* scheduler.createRun(): refused when the scheduler is closed.
CreateRun(q) ==
    /\ At(q, "insert")
    /\ IF open
       THEN /\ runs' = [runs EXCEPT ![q] = "active"]
            /\ Becomes(q, [req[q] EXCEPT !.pc = "audit", !.run = q])
       ELSE Answer(q, 503) /\ UNCHANGED runs
    /\ UNCHANGED <<audit, revoked, status, open, faults>>

\* pause, resume, cancel: what is not found is a 404.
HandleRunAction(q) ==
    /\ At(q, "action")
    /\ \/ Answer(q, 404) /\ UNCHANGED runs
       \/ \E r \in Requests :
            /\ runs[r] # None
            /\ \/ runs[r] = "active" /\ runs' = [runs EXCEPT ![r] = "cancelled"]
               \/ UNCHANGED runs
            /\ Becomes(q, [req[q] EXCEPT !.pc = "audit", !.run = r])
    /\ UNCHANGED <<audit, revoked, status, open, faults>>

\* The session and its one prompt may throw.
HandleAnalyze(q) ==
    /\ At(q, "analyze")
    /\ \/ Answer(q, 500)
       \/ Goto(q, "audit")
    /\ UNCHANGED <<audit, revoked, runs, status, open, faults>>

HandleGetWorkflowStatus(q) ==
    /\ At(q, "getStatus")
    /\ Goto(q, "audit")
    /\ UNCHANGED <<audit, revoked, runs, status, open, faults>>

HandleSetWorkflowStatus(q) ==
    /\ At(q, "setStatus")
    /\ status' = req[q].token
    /\ Goto(q, "audit")
    /\ UNCHANGED <<audit, revoked, runs, open, faults>>

HandleResetWorkflowStatus(q) ==
    /\ At(q, "resetStatus")
    /\ status' = None
    /\ Goto(q, "audit")
    /\ UNCHANGED <<audit, revoked, runs, open, faults>>

AuditRow_NoBudget(q) == Row(req[q].token, req[q].kind, req[q].run, None)

\* The row of a request: only a create names a cost, the budget it reserves.
AuditRow(q) ==
    Row(req[q].token, req[q].kind, req[q].run,
        IF req[q].kind = "create" THEN req[q].budget ELSE None)

\* writeAudit() comes after the effect, and before the answer.
WriteAudit(q) ==
    /\ At(q, "audit")
    /\ audit' = Append(audit, AuditRow(q))
    /\ Answer(q, IF req[q].kind = "create" THEN 201 ELSE 200)
    /\ UNCHANGED <<revoked, runs, status, open, faults>>

\* A statement fails: handleRequest() answers 500, and nothing is undone.
StatementFails(q) ==
    /\ req[q].pc \notin {"new", "done"}
    /\ faults < MaxFaults
    /\ faults' = faults + 1
    /\ Answer(q, 500)
    /\ UNCHANGED <<audit, revoked, runs, status, open>>

Handle(q) ==
    \/ Authenticate(q) \/ Measure(q) \/ Route(q) \/ HandleRead(q)
    \/ CheckIdentity(q) \/ CheckSpend(q) \/ CreateRun(q)
    \/ HandleRunAction(q) \/ HandleAnalyze(q)
    \/ HandleGetWorkflowStatus(q) \/ HandleSetWorkflowStatus(q) \/ HandleResetWorkflowStatus(q)
    \/ WriteAudit(q)

-----------------------------------------------------------------------------
(* Around the endpoints.                                                   *)

\* A run settles; its completion row carries what it really cost.
RunSettles(r) ==
    /\ runs[r] \in {"active", "cancelled"}
    /\ runs' = [runs EXCEPT ![r] = "settled"]
    /\ \E cost \in Actuals :
         audit' = Append(audit, Row(req[r].token, "run-complete", r, cost))
    /\ UNCHANGED <<req, revoked, status, open, faults>>

Revoke(t) ==
    /\ t \notin revoked
    /\ revoked' = revoked \cup {t}
    /\ UNCHANGED <<req, audit, runs, status, open, faults>>

CloseScheduler ==
    /\ open /\ open' = FALSE
    /\ UNCHANGED <<req, audit, revoked, runs, status, faults>>

Next ==
    \/ \E q \in Requests : Arrive(q) \/ Handle(q) \/ StatementFails(q) \/ RunSettles(q)
    \/ \E t \in Tokens : Revoke(t)
    \/ CloseScheduler

Spec == Init /\ [][Next]_vars

-----------------------------------------------------------------------------
\* A request changes something only if its token was valid when it came, and
\* creates a run only if neither the token's spend nor the whole ledger was
\* beyond its cap then: what was true on arrival may be old by the time it is
\* used, but a cap that is exhausted stays so for every later request, because
\* nothing lowers the sums (api.ts:8-14, 19-23).
EffectsAreAuthorized ==
    /\ \A q \in Requests : runs[q] # None => req[q].could /\ Listed(q)
    /\ \A q \in Requests : req[q].answer \in {200, 201} => req[q].valid

Audited(q, action) ==
    Cardinality({k \in DOMAIN audit : audit[k].run = q /\ audit[k].action = action})

\* Every run has one row with its creator's name and its budget, unless the
\* creating request is still on its way to it or failed with a 500; and one
\* completion row at most (api.ts:24-27).
RunsAreAudited ==
    \A q \in Requests :
      /\ runs[q] # None /\ At(q, "done") /\ req[q].answer # 500 =>
           Cardinality({k \in DOMAIN audit :
             audit[k] = Row(req[q].token, "create", q, req[q].budget)}) = 1
      /\ Audited(q, "run-complete") = IF runs[q] = "settled" THEN 1 ELSE 0

\* "so the cap bounds the ledger" (api.ts:1002).
CapBoundsTheLedger == GlobalCap # None => Spend(None) <= GlobalCap
=============================================================================
