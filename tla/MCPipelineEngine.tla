--------------------------- MODULE MCPipelineEngine ---------------------------
(* A small project of pipelines: a compiled workflow (an agent loop under     *)
(* foreach, with setup and routes), the built-in match pipeline and a         *)
(* workflow that does not batch, which its triggers start, one over a         *)
(* binding, with a gate, and one that spends nothing and triggers itself.     *)
EXTENDS PipelineEngine, TLC

CONSTANTS i1, i2, i3, cheap, hard, usual, u1, u2

M == INSTANCE MatchPipeline
       WITH MatchBatchSize <- 2, RebatchSizeBelow <- 5,
            RebatchModel <- cheap, SingletonModel <- hard

MCItem ==
    i1 :> [size |-> 3, status |-> "NOT_STARTED", attempts |-> 0, unit |-> u1] @@
    i2 :> [size |-> 8, status |-> "NOT_STARTED", attempts |-> 1, unit |-> u2] @@
    i3 :> [size |-> None, status |-> "STARTED", attempts |-> 0, unit |-> u1]

C == INSTANCE WorkflowCompile

\* A workflow that batches, with setup and two routes, and one that does not.
Def(id, canBatch, setup, routes) ==
    [id |-> id, canBatch |-> canBatch, defaultBatchSize |-> 2, rejectionRetries |-> None,
     setup |-> setup, routes |-> routes, tools |-> {"ask"}]
Batching ==
    Def("workflow", TRUE, [models |-> {}, caps |-> {2}],
        << [when |-> [M!Always EXCEPT !.below = 5, !.max = 0], model |-> None, maxAttempts |-> 1],
           [when |-> [M!Always EXCEPT !.status = {"NOT_STARTED"}, !.min = 1], model |-> hard,
            maxAttempts |-> None] >>)
OneByOne ==
    Def("single", FALSE, None,
        << [when |-> [M!Always EXCEPT !.below = 9], model |-> cheap, maxAttempts |-> None] >>)

OverBinding ==
    << [kind |-> "shell"], [kind |-> "gate"], [kind |-> "select", into |-> "picked", selected |-> <<i2, i3>>],
       [kind |-> "transform"],
       [M!Foreach(2, "match-body", <<>>) EXCEPT !.from = "picked", !.keyed = TRUE] >>

MCSteps ==
    C!CompileWorkflow(Batching) @@ C!CompileWorkflow(OneByOne) @@
    "match" :> M!MatchSteps @@
    "match-body" :> M!BodySteps @@
    "match-one" :> M!BodySteps @@
    "match-rebatch" :> M!RebatchSteps @@
    "match-singleton" :> M!SingletonSteps @@
    "over" :> OverBinding @@
    "check" :> << M!Verify >>

MCPlan == "workflow" :> <<i1, i2, i3>> @@ "match" :> <<i1, i2, i3>> @@ "over" :> <<i1, i2>> @@
          "check" :> <<i1, i3>> @@ "single" :> <<i1, i3>>
MCTriggers == "workflow" :> <<"single", "match">> @@ "match" :> <<"match", "over">> @@
              "over" :> <<"check">> @@ "single" :> <<"check">> @@ "check" :> <<"check">>

\* What the theorem about items supposes of the steps holds here.
ASSUME StepsBindFirst == BindsFirst

\* "One target per session" (compile.ts:289): no session of a workflow holds more
\* targets than its batch, in its batches, what setup() leaves of them, and its
\* fragments alike.
BatchesFitTheirWorkflow ==
    \A k \in DOMAIN stack :
      stack[k].what = "scope" =>
        /\ stack[k].body = C!LoopId("workflow") => Len(stack[k].items) <= 2
        /\ stack[k].body = C!LoopId("single") => Len(stack[k].items) <= 1
===============================================================================
