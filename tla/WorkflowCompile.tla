---------------------------- MODULE WorkflowCompile ----------------------------
(***************************************************************************)
(* The compiler of src/workflow/compile.ts: what a workflow's definition   *)
(* becomes, the steps and fragments that PipelineEngine runs, and the      *)
(* selector and status ladder by which its plan chooses targets (RunPlan). *)
(* Prompts, hooks' texts, helpers and the tools' schemas are left out; an  *)
(* optional field that is absent is None.                                  *)
(***************************************************************************)
EXTENDS Integers, Sequences, FiniteSets, TLC

CONSTANT None

DEFAULT_BATCH_SIZE == 5
DEFAULT_STATUSES == <<"DONE">>
RESERVED_CORE_TOOLS == {"finish", "select", "status", "lint"}

-----------------------------------------------------------------------------
(* The ladder and the plan.                                                *)

Otherwise(field, default) == IF field = None THEN default ELSE field

ResolveLadder_First(def) ==
    LET statuses == Otherwise(def.statuses, DEFAULT_STATUSES)
        last == IF statuses = <<>> THEN "DONE" ELSE statuses[Len(statuses)]
    IN  [statuses |-> statuses, done |-> Otherwise(def.doneStatuses, {statuses[1]}),
         completion |-> Otherwise(def.completionStatus, last)]

\* resolveLadder(): what counts as done, and what a completion records, are the
\* last status unless the definition says otherwise.
ResolveLadder(def) ==
    LET statuses == Otherwise(def.statuses, DEFAULT_STATUSES)
        last == IF statuses = <<>> THEN "DONE" ELSE statuses[Len(statuses)]
    IN  [statuses |-> statuses, done |-> Otherwise(def.doneStatuses, {last}),
         completion |-> Otherwise(def.completionStatus, last)]

\* The selector of the plan.  The kind is the accepted one, unless the filter of
\* the definition names kinds itself: its fields are spread over it.
PlanSelector(def) ==
    [filter |-> [def.select.filter EXCEPT !.kind = Otherwise(@, {def.accepts})],
     sort |-> def.select.sort, limit |-> def.select.limit]

\* applyScopeSelector(): a filter over what was selected; items without a unit
\* are outside of every scope of units.
ApplyScopeSelector(item, scope) ==
    scope # None =>
      /\ scope.targets # None => item.id \in scope.targets
      /\ scope.units # None => item.unit # None /\ item.unit \in scope.units

-----------------------------------------------------------------------------
(* Steps and fragments.                                                    *)

Batch_IgnoresCanBatch(def) == Otherwise(def.defaultBatchSize, DEFAULT_BATCH_SIZE)

\* canBatch: false is one target per session.
Batch(def) ==
    IF def.canBatch THEN Otherwise(def.defaultBatchSize, DEFAULT_BATCH_SIZE) ELSE 1

FragmentId(workflow, index) == workflow \o "#fragment" \o ToString(index - 1)

\* The body that the foreach of the pipeline and those of its fragments share.
LoopId(workflow) == workflow \o "#loop"

\* agentLoopStep(); the engine's own cap where the definition has none.
AgentLoopStep(def) == [kind |-> "agentLoop", retries |-> Otherwise(def.rejectionRetries, 1)]

\* A foreach over what its scope holds; setup() is run in fragments as well.
Foreach(def, batch, routes) ==
    [kind |-> "foreach", from |-> None, batch |-> batch, keyed |-> FALSE,
     body |-> LoopId(def.id), routes |-> routes,
     setup |-> def.setup # None,
     models |-> IF def.setup = None THEN {} ELSE def.setup.models,
     caps |-> IF def.setup = None THEN {} ELSE def.setup.caps]

Routes(def) ==
    [i \in DOMAIN def.routes |->
       [when |-> def.routes[i].when, to |-> FragmentId(def.id, i),
        model |-> def.routes[i].model, max |-> def.routes[i].maxAttempts]]

\* Targets a route takes for their size are batched again, others go one by one.
FragmentSteps(def, i) ==
    << Foreach(def, IF def.routes[i].when.below # None THEN Batch(def) ELSE 1, <<>>) >>

Reserved(def) == def.tools \cap RESERVED_CORE_TOOLS # {}

\* compileWorkflow(): every scope of the workflow by its name; a definition with
\* a reserved tool is not compiled.
CompileWorkflow(def) ==
    (def.id :> << Foreach(def, Batch(def), Routes(def)) >>)
    @@ (LoopId(def.id) :> << AgentLoopStep(def) >>)
    @@ [f \in {FragmentId(def.id, i) : i \in DOMAIN def.routes} |->
          FragmentSteps(def, CHOOSE i \in DOMAIN def.routes : FragmentId(def.id, i) = f)]
=============================================================================
