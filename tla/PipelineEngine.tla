--------------------------- MODULE PipelineEngine ---------------------------
(***************************************************************************)
(* The step executor of src/pipeline/engine.ts under the budget guard of   *)
(* src/pipeline/run.ts: scopes, foreach with its batches and routes, the   *)
(* agent loop with its verdicts and the `finish' tool, and the triggers    *)
(* that start further pipelines.                                           *)
(*                                                                         *)
(* A run is sequential: its nested calls are a stack of frames, and each   *)
(* action is what happens between two of its awaits that matter.  What the *)
(* hooks, the verifiers and the agent answer is chosen freely; any of them *)
(* may throw.  Hooks that call ctx.run, or change an item's fields, are    *)
(* left out, as are prompts, texts and logs.                               *)
(*                                                                         *)
(* An operator named X_Bug is X with a plausible programming error; it is  *)
(* used only to confirm that the properties below notice the error.        *)
(***************************************************************************)
EXTENDS Integers, Sequences, FiniteSets, SequencesExt

CONSTANTS
    Items,       \* work items
    Item,        \* the fields routes and groups read: size, status, attempts, unit
    Steps,       \* the steps of every scope: pipelines, bodies and fragments
    Pipelines,   \* registered pipelines, by the scope of their steps
    Fragments,   \* registered fragments, likewise
    Plan,        \* the items each pipeline's plan() selects, in order
    Triggers,    \* the targets of each pipeline's unitComplete triggers
    First,       \* the pipeline that is run
    Default,     \* the run's default model
    None,        \* an optional field that is absent
    Limit,       \* the run's budget
    Estimate,    \* the price of an estimated turn
    Costs,       \* what a turn may really cost
    Sloppy       \* TRUE: verdicts may accept any item the loop began with

ASSUME BudgetAssumption == Limit \in Nat /\ Costs \subseteq Nat /\ Costs # {}

\* What is registered is there; a plan names items, each once.
ASSUME PlanAssumption ==
    /\ Pipelines \cup Fragments \subseteq DOMAIN Steps
    /\ \A p \in Pipelines : Plan[p] \in Seq(Items) /\ IsInjective(Plan[p])

\* Steps and routes are lists; a foreach has a body, and batches of one item at
\* least (any other is refused); a selector gives items, each once.
ASSUME StepsAssumption ==
    \A x \in DOMAIN Steps :
      /\ Steps[x] \in Seq(ToSet(Steps[x]))
      /\ \A step \in ToSet(Steps[x]) :
           /\ step.kind = "foreach" => /\ step.body \in DOMAIN Steps
                                      /\ step.batch \in Nat \ {0}
                                      /\ step.routes \in Seq(ToSet(step.routes))
           /\ step.kind = "select" => step.selected \in Seq(Items) /\ IsInjective(step.selected)

VARIABLES
    status,      \* running, done or failed
    agenda,      \* pipelines to run and units whose triggers are due, first first
    current,     \* the pipeline that runs
    planned,     \* what its plan() gave
    stack,       \* its frames, the innermost first
    bindings,    \* what select steps bound
    attempts,    \* per route and item, how often it was routed (a bag)
    fired,       \* firedTriggers
    spent,       \* the budget tracker
    statuses,    \* items with a status row of their own
    finalized,   \* how often each item was finalized (a bag)
    outcome      \* the outcome of the last pipeline that ended

vars == <<status, agenda, current, planned, stack, bindings, attempts, fired, spent,
          statuses, finalized, outcome>>

-----------------------------------------------------------------------------
(* Frames.                                                                 *)

Scope(body, items, model, retries) ==
    [what |-> "scope", body |-> body, pc |-> 1, items |-> items,
     accepted |-> <<>>, skipped |-> <<>>, model |-> model, retries |-> retries]

Top == Head(stack)
Below == stack[2]
Become(frame) == <<frame>> \o Tail(stack)
Push(frame) == <<frame>> \o stack

Ended(scope) == scope.pc > Len(Steps[scope.body])
Step == Steps[Top.body][Top.pc]
At(kind) ==
    /\ status = "running" /\ stack # <<>>
    /\ Top.what = "scope" /\ ~Ended(Top) /\ Step.kind = kind

Outcome(accepted, rejected, skipped) ==
    [accepted |-> accepted, rejected |-> rejected, skipped |-> skipped]

\* runScope(): the scope goes on with what the step rejected.
AfterStep(scope, res) ==
    [scope EXCEPT !.accepted = @ \o res.accepted, !.skipped = @ \o res.skipped,
                  !.items = res.rejected, !.pc = @ + 1]

\* A gate that fires false: the items are skipped, the rest is not run.
Abort(scope) ==
    [scope EXCEPT !.skipped = @ \o scope.items, !.items = <<>>,
                  !.pc = Len(Steps[scope.body]) + 1]

\* Those of S, and those not of S, in the order in which they are.
Of(items, S) ==
    LET of[n \in 0..Len(items)] ==
          IF n = 0 THEN <<>>
          ELSE IF items[n] \in S THEN Append(of[n - 1], items[n]) ELSE of[n - 1]
    IN  of[Len(items)]
Without(items, S) == Of(items, ToSet(items) \ S)

-----------------------------------------------------------------------------
(* The budget guard of run.ts.                                             *)

\* createSession(): refused when the estimate does not fit.
Affordable == spent + Estimate <= Limit

Within_Unchecked(cost) == TRUE

\* prompt(): the cost is charged whatever it is; the run fails beyond the limit.
Within(cost) == spent + cost <= Limit

Fail ==
    /\ status' = "failed"
    /\ UNCHANGED <<agenda, current, planned, stack, bindings, attempts, fired, statuses,
                   finalized, outcome>>

Overdraw == \E c \in Costs : ~Within(c) /\ spent' = spent + c /\ Fail

-----------------------------------------------------------------------------
(* Steps without frames of their own.                                      *)

Keeps == UNCHANGED <<status, agenda, current, planned, bindings, attempts, fired, spent,
                     statuses, finalized, outcome>>

Pass == Outcome(<<>>, Top.items, <<>>)

\* shell and transform: every item stays in play.
PlainStep ==
    /\ At("shell") \/ At("transform")
    /\ stack' = Become(AfterStep(Top, Pass))
    /\ Keeps

VerifyStep ==
    /\ At("verify")
    /\ \E S \in SUBSET ToSet(Top.items) :
         stack' = Become(AfterStep(Top, Outcome(Of(Top.items, S), Without(Top.items, S), <<>>)))
    /\ Keeps

\* The store resolves the selector, which asks for items without a status.
SelectStep ==
    /\ At("select")
    /\ bindings' = [bindings EXCEPT ![Step.into] = Without(Step.selected, statuses)]
    /\ stack' = Become(AfterStep(Top, Pass))
    /\ UNCHANGED <<status, agenda, current, planned, attempts, fired, spent, statuses,
                   finalized, outcome>>

GateStep ==
    /\ At("gate")
    /\ \E pass \in BOOLEAN :
         stack' = Become(IF pass THEN AfterStep(Top, Pass) ELSE Abort(Top))
    /\ Keeps

Skip ==
    /\ Top.items = <<>>
    /\ stack' = Become(AfterStep(Top, Pass))
    /\ Keeps

Refused == Top.items # <<>> /\ ~Affordable /\ UNCHANGED spent /\ Fail

\* One turn over the scope's items, in a session of its own.
AgentStep ==
    /\ At("agent")
    /\ \/ Skip
       \/ Refused
       \/ Top.items # <<>> /\ Affordable /\ Overdraw
       \/ /\ Top.items # <<>> /\ Affordable
          /\ \E c \in Costs : Within(c) /\ spent' = spent + c
          /\ stack' = Become(AfterStep(Top, Pass))
          /\ UNCHANGED <<status, agenda, current, planned, bindings, attempts, fired, statuses,
                         finalized, outcome>>

-----------------------------------------------------------------------------
(* The agent loop.                                                         *)

Retries == IF Top.retries # None THEN Top.retries ELSE Step.retries

LoopStep ==
    /\ At("agentLoop")
    /\ \/ Skip
       \/ Refused
       \/ /\ Top.items # <<>> /\ Affordable
          /\ stack' = Push([what |-> "loop", inPlay |-> Top.items, accepted |-> <<>>,
                            turns |-> 0, retries |-> Retries, final |-> FALSE])
          /\ Keeps

InLoop(final) ==
    status = "running" /\ stack # <<>> /\ Top.what = "loop" /\ Top.final = final

\* What the loop returns to its scope; what is left in play is rejected.
Return(accepted, left) ==
    <<AfterStep(Below, Outcome(accepted, left, <<>>))>> \o SubSeq(stack, 3, Len(stack))

Bag(items) == SetToBag(ToSet(items))

\* Items of which the completion action promotes get a status row.
Finalize(items, promoted) ==
    /\ finalized' = finalized (+) Bag(items)
    /\ statuses' = statuses \cup promoted

\* drainFinish(): what the agent declared finished leaves play.
DrainFinish_Keeps(inPlay, F) == inPlay
DrainFinish(inPlay, F) == Without(inPlay, F)

MayAccept(left) == IF Sloppy THEN ToSet(Below.items) ELSE ToSet(left)

\* The loop ends when nothing is in play, on a final verdict and at the cap.
LoopGoesOn(left, final, turns) == left # <<>> /\ ~final /\ turns < Top.retries

\* A turn: the finish calls are drained, then the verdict's accepted items
\* are completed; what it rejects or does not name stays in play.
LoopTurn ==
    /\ InLoop(FALSE)
    /\ \E c \in Costs : Within(c) /\ spent' = spent + c
    /\ \E F \in SUBSET ToSet(Top.inPlay) :
         LET drained == Of(Top.inPlay, F)
             open == DrainFinish(Top.inPlay, F)
         IN \E A \in SUBSET MayAccept(open), final, feedback \in BOOLEAN :
              \E promoted \in {A, {}} :
              LET left == Without(open, A)
                  taken == Top.accepted \o drained \o Of(Below.items, A)
                  turns == Top.turns + 1
              IN
              /\ finalized' = finalized (+) Bag(drained) (+) SetToBag(A)
              /\ statuses' = statuses \cup F \cup promoted
              /\ stack' =
                   IF LoopGoesOn(left, final, turns) \/ (left # <<>> /\ final /\ feedback)
                   THEN Become([Top EXCEPT !.inPlay = left, !.accepted = taken,
                                           !.turns = turns, !.final = final])
                   ELSE Return(taken, left)
    /\ UNCHANGED <<status, agenda, current, planned, bindings, attempts, fired, outcome>>

\* The write-only turn of a final verdict with feedback.
FinalTurn ==
    /\ InLoop(TRUE)
    /\ \E c \in Costs : Within(c) /\ spent' = spent + c
    /\ \E F \in SUBSET ToSet(Top.inPlay) :
         /\ Finalize(Of(Top.inPlay, F), F)
         /\ stack' = Return(Top.accepted \o Of(Top.inPlay, F), DrainFinish(Top.inPlay, F))
    /\ UNCHANGED <<status, agenda, current, planned, bindings, attempts, fired, outcome>>

\* A turn that crosses the limit: its finish calls are lost.
LoopOverdraws == (InLoop(FALSE) \/ InLoop(TRUE)) /\ Overdraw

-----------------------------------------------------------------------------
(* foreach.                                                                *)

Chunk(items, size) ==
    [k \in 1..((Len(items) + size - 1) \div size) |->
       SubSeq(items, (k - 1) * size + 1,
              IF k * size < Len(items) THEN k * size ELSE Len(items))]

\* The groups of a key, in the order they are met.
Groups(items) ==
    LET unit(k) == Item[items[k]].unit
        first == Of([k \in DOMAIN items |-> k],
                    {k \in DOMAIN items : \A j \in 1..(k - 1) : unit(j) # unit(k)})
    IN  [g \in DOMAIN first |->
           Of(items, {i \in ToSet(items) : Item[i].unit = unit(first[g])})]

Partition(items, size, keyed) ==
    IF ~keyed THEN Chunk(items, size)
    ELSE LET groups == Groups(items)
         IN  FlattenSeq([g \in DOMAIN groups |-> Chunk(groups[g], size)])

Source == IF Step.from = None THEN Top.items ELSE bindings[Step.from]

\* Items of the scope that a binding does not name stay in play.
Unchanged == IF Step.from = None THEN <<>> ELSE Without(Top.items, ToSet(Source))

ForeachStep ==
    /\ At("foreach")
    /\ IF Source = None
       THEN UNCHANGED spent /\ Fail
       ELSE /\ stack' = Push([what |-> "foreach", step |-> Step,
                              queue |-> Partition(Source, Step.batch, Step.keyed),
                              routed |-> <<>>, unchanged |-> Unchanged,
                              accepted |-> <<>>, rejected |-> <<>>, skipped |-> <<>>,
                              model |-> Top.model, retries |-> Top.retries])
            /\ Keeps

InForeach == status = "running" /\ stack # <<>> /\ Top.what = "foreach"

Excess_Dropped(queue, batch, size) == Tail(queue)

\* What setup() leaves of a batch goes back to the front of the queue.
Excess(queue, batch, size) ==
    IF size < Len(batch) THEN <<SubSeq(batch, size + 1, Len(batch))>> \o Tail(queue)
    ELSE Tail(queue)

\* A batch is drawn; setup() may divide it, choose its model and its cap.
DrawBatch ==
    /\ InForeach /\ Top.queue # <<>>
    /\ LET batch == Head(Top.queue) IN
       \E size \in IF Top.step.setup THEN 1..Len(batch) ELSE {Len(batch)} :
       \E model \in {Top.model} \cup Top.step.models, retries \in {Top.retries} \cup Top.step.caps :
         stack' = <<Scope(Top.step.body, SubSeq(batch, 1, size), model, retries)>>
                  \o Become([Top EXCEPT !.queue = Excess(@, batch, size)])
    /\ Keeps

\* routeMatches(): every part of the predicate that is there must hold.
RouteMatches(when, i) ==
    /\ when.below # None => Item[i].size # None /\ Item[i].size < when.below
    /\ when.status # None => Item[i].status \in when.status
    /\ when.min # None => Item[i].attempts >= when.min
    /\ when.max # None => Item[i].attempts <= when.max

\* The index of the first route that matches, 0 when none does.
MatchRoute(routes, i) ==
    SelectInSeq(routes, LAMBDA r : RouteMatches(r.when, i))

Tried(tries, key, i) == IF BagIn(<<key, i>>, tries) THEN tries[<<key, i>>] ELSE 0
BudgetExceeded(tries, key, i, max) == max # None /\ Tried(tries, key, i) >= max

PutInBucket(routed, route, i) ==
    LET k == SelectInSeq(routed, LAMBDA b : b.to = route.to)
    IN  IF k = 0 THEN Append(routed, [to |-> route.to, model |-> route.model, items |-> <<i>>])
        ELSE [routed EXCEPT ![k].items = Append(@, i)]

\* One rejected item of a batch: routed, or rejected for good.
RouteItem(acc, i) ==
    LET routes == acc.frame.step.routes
        k == MatchRoute(routes, i)
        key == <<k, routes[k].to>>
    IN  IF k = 0 \/ BudgetExceeded(acc.attempts, key, i, routes[k].max)
        THEN [acc EXCEPT !.frame.rejected = Append(@, i)]
        ELSE [acc EXCEPT !.attempts = @ (+) SetToBag({<<key, i>>}),
                         !.frame.routed = PutInBucket(@, routes[k], i)]

\* The rejected items of a batch, one after the other.
RouteAll(frame, items) ==
    LET routed[n \in 0..Len(items)] ==
          IF n = 0 THEN [frame |-> frame, attempts |-> attempts]
          ELSE RouteItem(routed[n - 1], items[n])
    IN  routed[Len(items)]

\* A body, or a fragment, ended: its outcome joins that of the foreach, and
\* what a body rejects goes through the routes.
ScopeReturns ==
    /\ status = "running" /\ Len(stack) > 1
    /\ Top.what = "scope" /\ Ended(Top)
    /\ LET joined == [Below EXCEPT !.accepted = @ \o Top.accepted,
                                   !.skipped = @ \o Top.skipped]
           routed == RouteAll(joined, Top.items)
           isBody == Top.body = Below.step.body
       IN /\ stack' = <<IF isBody THEN routed.frame
                        ELSE [joined EXCEPT !.rejected = @ \o Top.items]>>
                      \o SubSeq(stack, 3, Len(stack))
          /\ attempts' = IF isBody THEN routed.attempts ELSE attempts
    /\ UNCHANGED <<status, agenda, current, planned, bindings, fired, spent, statuses,
                   finalized, outcome>>

\* All batches are through: the routed items run through their fragments.
StartFragment ==
    /\ InForeach /\ Top.queue = <<>> /\ Top.routed # <<>>
    /\ LET bucket == Head(Top.routed)
           model == IF bucket.model # None THEN bucket.model ELSE Top.model
       IN IF bucket.to \notin Fragments
          THEN UNCHANGED spent /\ Fail
          ELSE /\ stack' = <<Scope(bucket.to, bucket.items, model, None)>>
                           \o Become([Top EXCEPT !.routed = Tail(@)])
               /\ Keeps

EndForeach ==
    /\ InForeach /\ Top.queue = <<>> /\ Top.routed = <<>>
    /\ stack' = <<AfterStep(Below, Outcome(Top.accepted, Top.unchanged \o Top.rejected,
                                           Top.skipped))>>
                \o SubSeq(stack, 3, Len(stack))
    /\ Keeps

-----------------------------------------------------------------------------
(* Pipelines and triggers.                                                 *)

Idle == status = "running" /\ stack = <<>>
Run(p) == [what |-> "run", pipeline |-> p, units |-> {}]

\* runPipeline(): plan() leaves out what has a status already.
StartPipeline ==
    /\ Idle /\ agenda # <<>> /\ Head(agenda).what = "run"
    /\ LET p == Head(agenda).pipeline IN
       IF p \notin Pipelines
       THEN UNCHANGED spent /\ Fail
       ELSE /\ planned' = Without(Plan[p], statuses)
            /\ stack' = <<Scope(p, planned', Default, None)>>
            /\ current' = p
            /\ agenda' = Tail(agenda)
            /\ bindings' = [b \in DOMAIN bindings |-> None]
            /\ attempts' = EmptyBag
            /\ outcome' = None
            /\ UNCHANGED <<status, fired, spent, statuses, finalized>>

\* Units none of whose items was rejected or skipped.
CompleteUnits(out) ==
    LET units(items) == {Item[i].unit : i \in ToSet(items)} \ {None}
    IN  units(out.accepted) \ (units(out.rejected) \cup units(out.skipped))

EndPipeline ==
    /\ status = "running" /\ Len(stack) = 1 /\ Ended(Top)
    /\ LET out == Outcome(Top.accepted, Top.items, Top.skipped) IN
       /\ outcome' = out
       /\ agenda' = IF Triggers[current] = <<>> THEN agenda
                    ELSE <<[what |-> "units", pipeline |-> current,
                            units |-> CompleteUnits(out)]>> \o agenda
    /\ stack' = <<>>
    /\ UNCHANGED <<status, current, planned, bindings, attempts, fired, spent, statuses, finalized>>

Mark_TooLate(key) == fired
Mark(key) == fired \cup {key}

\* dispatchTriggers(): each complete unit once, marked before its pipelines run.
Dispatch ==
    /\ Idle /\ agenda # <<>> /\ Head(agenda).what = "units"
    /\ LET due == Head(agenda)
           rest == Tail(agenda)
       IN \/ /\ due.units = {}
             /\ agenda' = rest
             /\ UNCHANGED fired
          \/ \E u \in due.units :
               LET key == <<due.pipeline, u>>
                   left == IF due.units = {u} THEN rest
                           ELSE <<[due EXCEPT !.units = @ \ {u}]>> \o rest
                   targets == Triggers[due.pipeline]
               IN /\ agenda' = IF key \in fired THEN left
                               ELSE [k \in DOMAIN targets |-> Run(targets[k])] \o left
                  /\ fired' = Mark(key)
    /\ UNCHANGED <<status, current, planned, stack, bindings, attempts, spent, statuses,
                   finalized, outcome>>

End ==
    /\ Idle /\ agenda = <<>>
    /\ status' = "done"
    /\ UNCHANGED <<agenda, current, planned, stack, bindings, attempts, fired, spent, statuses,
                   finalized, outcome>>

\* A hook, a verifier or the agent throws, or the run is cancelled.
Throw == status = "running" /\ stack # <<>> /\ UNCHANGED spent /\ Fail

\* The names that select steps bind and foreach steps use.
Names ==
    LET all == UNION {ToSet(Steps[x]) : x \in DOMAIN Steps}
    IN  {s.into : s \in {t \in all : t.kind = "select"}}
        \cup {s.from : s \in {t \in all : t.kind = "foreach" /\ t.from # None}}

\* Scopes that a foreach runs: bodies and fragments.
Nested ==
    Fragments \cup
    {step.body : step \in {t \in UNION {ToSet(Steps[x]) : x \in DOMAIN Steps} : t.kind = "foreach"}}

\* Steps that leave every item in play.
Plain == {"shell", "transform", "select", "gate", "agent"}

\* A foreach over a binding comes before whatever decides on items, and in no
\* body: what it draws from the binding is in no other frame.  Nothing in
\* engine.ts asks for that: a binding names items whether or not the scope, or
\* an enclosing foreach, has them.
BindsFirst ==
    \A x \in DOMAIN Steps : \A k \in DOMAIN Steps[x] :
      Steps[x][k].kind = "foreach" /\ Steps[x][k].from # None =>
        x \notin Nested /\ \A j \in 1..(k - 1) : Steps[x][j].kind \in Plain

Init ==
    /\ status = "running"
    /\ agenda = <<Run(First)>>
    /\ current = None
    /\ planned = <<>>
    /\ stack = <<>>
    /\ bindings = [b \in Names |-> None]
    /\ attempts = EmptyBag
    /\ fired = {}
    /\ spent = 0
    /\ statuses = {}
    /\ finalized = EmptyBag
    /\ outcome = None

Execute ==
    \/ PlainStep \/ VerifyStep \/ SelectStep \/ GateStep
    \/ AgentStep
    \/ LoopStep \/ LoopTurn \/ FinalTurn \/ LoopOverdraws
    \/ ForeachStep \/ DrawBatch \/ ScopeReturns \/ StartFragment \/ EndForeach
    \/ StartPipeline \/ EndPipeline \/ Dispatch \/ End

Next == Throw \/ Execute

\* Hooks and agents answer, or throw; either way the run goes on.
Spec == Init /\ [][Next]_vars /\ WF_vars(Next)

-----------------------------------------------------------------------------
(* Where items are.                                                        *)

Undecided(k) ==
    LET f == stack[k] IN
    CASE f.what = "scope" -> IF k = 1 THEN f.items ELSE <<>>
      [] f.what = "loop" -> f.inPlay
      [] f.what = "foreach" ->
           FlattenSeq(f.queue) \o FlattenSeq([b \in DOMAIN f.routed |-> f.routed[b].items])

Decided(k) ==
    LET f == stack[k] IN
    CASE f.what = "scope" -> f.accepted \o f.skipped
      [] f.what = "loop" -> f.accepted
      [] f.what = "foreach" -> f.accepted \o f.rejected \o f.skipped \o f.unchanged

Count(items, i) == Cardinality({k \in DOMAIN items : items[k] = i})
Everywhere ==
    FlattenSeq([k \in DOMAIN stack |-> Undecided(k) \o Decided(k)])
    \o (IF outcome = None THEN <<>> ELSE outcome.accepted \o outcome.rejected \o outcome.skipped)

\* Every item a run planned is in one place: in play in one scope, waiting in
\* one batch or one route's bucket, or in one of the outcome's three sets
\* (engine.ts:35-36, "three disjoint sets"): batches that setup() divides,
\* verdicts, finish calls, routes and gates neither lose an item nor double it.
\* One that was completed with a status row leaves play for good: no later turn,
\* route or fragment of its run works on it (engine.ts:33-34).
EachItemHasOnePlace ==
    /\ stack # <<>> \/ outcome # None =>
         \A i \in Items : /\ Count(Everywhere, i) <= 1
                          /\ i \in ToSet(planned) => Count(Everywhere, i) = 1
    /\ stack # <<>> => \A k \in DOMAIN stack : ToSet(Undecided(k)) \cap statuses = {}

\* The budget is overdrawn by one turn at most, and a run beyond its budget has
\* failed (run.ts:85-88, 215-219).
OverdraftIsOneTurn ==
    /\ \E c \in Costs : spent <= Limit + c
    /\ spent > Limit => status = "failed"

\* Whatever hooks and agents answer, the run ends: loops are capped, batches
\* shrink, a route leads forward, and a trigger fires once per unit although
\* the pipeline it starts may trigger in turn.
RunEnds == <>(status # "running")
=============================================================================
