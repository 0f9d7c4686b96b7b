----------------------------- MODULE Registration -----------------------------
(***************************************************************************)
(* What the engine may run: pipelines and fragments as they are registered *)
(* on it, by hand and by the facade's addWorkflow(), each checked for      *)
(* cycles of its routes.  A registration that throws keeps what it had     *)
(* written; the same id may be registered again.                           *)
(*                                                                         *)
(* An operator named X_Bug is X with a plausible programming error; it is  *)
(* used only to confirm that the property below notices the error.         *)
(***************************************************************************)
EXTENDS WorkflowCompile, SequencesExt

CONSTANTS
    Registrations,     \* calls of registerPipeline() and registerFragment(): what, id, scopes
    Workflows,         \* definitions that may be added
    MaxRegistrations   \* bound

VARIABLES
    pipelines,     \* by id, their scopes
    fragments,
    routeTargets,  \* the edges of the route graph, by id
    workflows,     \* ids of the workflows that were added
    threw,         \* some registration threw
    registrations

vars == <<pipelines, fragments, routeTargets, workflows, threw, registrations>>

\* collectRouteTargets(): the routes of every foreach, nested ones included.
RECURSIVE CollectRouteTargets(_, _)
CollectRouteTargets(scopes, id) ==
    UNION {{step.routes[k].to : k \in DOMAIN step.routes}
             \cup CollectRouteTargets(scopes, step.body)
           : step \in {s \in ToSet(scopes[id]) : s.kind = "foreach"}}

RECURSIVE Reach(_, _)
Reach(edges, nodes) ==
    LET more == nodes \cup UNION {edges[n] : n \in nodes \cap DOMAIN edges}
    IN  IF more = nodes THEN nodes ELSE Reach(edges, more)

After(edges, n) == IF n \in DOMAIN edges THEN Reach(edges, edges[n]) ELSE {}

FindCycle_Direct(edges, node) == \E n \in edges[node] : n = node

\* findCycle(): a cycle that can be reached from the node.
FindCycle(edges, node) == \E n \in Reach(edges, {node}) : n \in After(edges, n)

\* What the engine holds after a registration: it is written, then checked.
Register(state, r) ==
    IF state.threw THEN state
    ELSE LET edges == (r.id :> CollectRouteTargets(r.scopes, r.id)) @@ state.routeTargets
             written == [state EXCEPT !.routeTargets = edges, !.threw = FindCycle(edges, r.id)]
         IN  IF r.what = "pipeline"
             THEN [written EXCEPT !.pipelines = (r.id :> r.scopes) @@ @]
             ELSE [written EXCEPT !.fragments = (r.id :> r.scopes) @@ @]

Engine == [pipelines |-> pipelines, fragments |-> fragments, routeTargets |-> routeTargets,
           threw |-> FALSE]

Become(state) ==
    /\ pipelines' = state.pipelines
    /\ fragments' = state.fragments
    /\ routeTargets' = state.routeTargets
    /\ threw' = (threw \/ state.threw)
    /\ registrations' = registrations + 1

-----------------------------------------------------------------------------
Nothing == [x \in {} |-> x]

Init ==
    /\ pipelines = Nothing /\ fragments = Nothing /\ routeTargets = Nothing
    /\ workflows = {}
    /\ threw = FALSE
    /\ registrations = 0

\* registerPipeline() or registerFragment().
RegisterOne(r) ==
    /\ registrations < MaxRegistrations
    /\ Become(Register(Engine, r))
    /\ UNCHANGED workflows

\* addWorkflow(): compiles, then registers the pipeline and each fragment.
AddWorkflow(def) ==
    /\ registrations < MaxRegistrations
    /\ LET scopes == CompileWorkflow(def)
           calls == <<[what |-> "pipeline", id |-> def.id, scopes |-> scopes]>>
                    \o [i \in DOMAIN def.routes |->
                          [what |-> "fragment", id |-> FragmentId(def.id, i), scopes |-> scopes]]
           end == IF Reserved(def) THEN [Engine EXCEPT !.threw = TRUE]
                  ELSE FoldLeft(Register, Engine, calls)
       IN  /\ Become(end)
           /\ workflows' = IF end.threw THEN workflows ELSE workflows \cup {def.id}

Next ==
    \/ \E r \in Registrations : RegisterOne(r)
    \/ \E def \in Workflows : AddWorkflow(def)

Spec == Init /\ [][Next]_vars

-----------------------------------------------------------------------------
\* The edges a run follows: fragments route to fragments.
Followed == [f \in DOMAIN fragments |-> CollectRouteTargets(fragments[f], f)]

\* While no registration threw and no fragment has the id of a pipeline, the
\* routes that a run may follow have no cycle, in whatever order pipelines and
\* fragments came and however often one was replaced (engine.ts:383); and the
\* workflows that were added find every fragment their compiled routes lead to.
RoutesAreSound ==
    /\ ~threw /\ DOMAIN pipelines \cap DOMAIN fragments = {} =>
         \A f \in DOMAIN fragments : f \notin After(Followed, f)
    /\ \A w \in workflows :
         \A def \in Workflows :
           (def.id = w /\ pipelines[w] = CompileWorkflow(def)) =>
             CollectRouteTargets(pipelines[w], w) \subseteq DOMAIN fragments
=============================================================================
