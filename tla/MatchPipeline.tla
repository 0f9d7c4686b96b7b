---------------------------- MODULE MatchPipeline ----------------------------
(***************************************************************************)
(* The built-in pipeline of src/pipeline/builtin/match.ts, as the steps    *)
(* PipelineEngine runs.                                                    *)
(***************************************************************************)
EXTENDS Integers

CONSTANTS None, MatchBatchSize, RebatchSizeBelow, RebatchModel, SingletonModel

Agent == [kind |-> "agent"]
Verify == [kind |-> "verify"]

\* foreach with neither setup(), key nor binding.
Foreach(batch, body, routes) ==
    [kind |-> "foreach", from |-> None, batch |-> batch, keyed |-> FALSE, body |-> body,
     routes |-> routes, setup |-> FALSE, models |-> {}, caps |-> {}]

Always == [below |-> None, status |-> None, min |-> None, max |-> None]

\* Small items are batched again on the cheap model, large ones go one by one.
MatchRoutes ==
    << [when |-> [Always EXCEPT !.below = RebatchSizeBelow], to |-> "match-rebatch",
        model |-> RebatchModel, max |-> None],
       [when |-> Always, to |-> "match-singleton", model |-> SingletonModel, max |-> None] >>

MatchSteps == << Foreach(MatchBatchSize, "match-body", MatchRoutes) >>
RebatchSteps == << Agent, Verify >>
SingletonSteps == << Foreach(1, "match-one", <<>>) >>
BodySteps == << Agent, Verify >>
=============================================================================
