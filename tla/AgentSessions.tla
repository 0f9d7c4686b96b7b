---------------------------- MODULE AgentSessions ----------------------------
(***************************************************************************)
(* Agent turns of concurrent runs: pacing by model (agent/ratelimit.ts),   *)
(* budget (pipeline/run.ts, agent/budget.ts), the sessions of the runtime  *)
(* (agent/pi-runtime.ts, agent/mock.ts) and the stateless judge of a loop  *)
(* (workflow/helpers.ts).                                                  *)
(*                                                                         *)
(* The runs of one process share the limiter; each has a budget of its own *)
(* and works on one turn at a time: a loop session that it prompts again,  *)
(* and between two turns judges, every attempt in a fresh session.  What a *)
(* turn costs is its usage at the price of the model, a small number; the  *)
(* tool calls in a turn are part of it.                                    *)
(*                                                                         *)
(* An operator named X_Bug is X with a plausible programming error; it is  *)
(* used only to confirm that the properties below notice the error.        *)
(***************************************************************************)
EXTENDS Integers, Sequences, FiniteSets

CONSTANTS
    Runs, Models,
    Known,       \* models of the directory
    Interval,    \* [Models -> Nat]: 60000 / rpm, 0 for an unlimited model
    Limit,       \* [Runs -> Nat]: budget
    Estimate,    \* of a turn
    Costs,       \* what a turn may cost
    MAX_JUDGE_ATTEMPTS,
    None,
    MaxTime,     \* bound: the clock
    MaxTurns     \* bound: turns of a loop session

ASSUME PacingAssumption == Interval \in [Models -> Nat]
ASSUME BudgetAssumption == Limit \in [Runs -> Nat] /\ Estimate \in Nat /\ Costs \subseteq Nat
ASSUME AttemptsAssumption == MAX_JUDGE_ATTEMPTS \in Nat \ {0}
ASSUME BoundsAssumption == MaxTime \in Nat /\ MaxTurns \in Nat

VARIABLES
    now,
    nextAt,   \* RateLimiter.nextAt
    chain,    \* per model, the runs that wait for one another, head first
    releases, \* RateLimiter.releases
    run       \* per run: what it does, its sessions, and its budget

vars == <<now, nextAt, chain, releases, run>>

\* asks: the session in work; wants: what follows the acquire; until: the end
\* of the sleep; usage: what the session reports; turns: of the loop session.
Idle == [status |-> "running", loop |-> None, asks |-> None, wants |-> None, at |-> "idle",
         until |-> None, attempts |-> 0, turns |-> 0, spent |-> 0, actual |-> 0]

Init ==
    /\ now = 0
    /\ nextAt = [m \in Models |-> 0]
    /\ chain = [m \in Models |-> <<>>]
    /\ releases = [m \in Models |-> <<>>]
    /\ run = [r \in Runs |-> Idle]

\* A session of the runtime, and the states of a run.
SessionsOf(kinds) == [kind : kinds, model : Models, usage : Nat]
ASSUME NoneAssumption == None \notin SessionsOf({"loop", "judge"}) \cup Nat
RunStates ==
    [status : {"running", "failed", "done"}, loop : SessionsOf({"loop"}) \cup {None},
     asks : SessionsOf({"loop", "judge"}) \cup {None}, wants : {"session", "prompt", None},
     at : {"idle", "chained", "asleep", "acquired", "retry"}, until : Nat \cup {None},
     attempts : Nat, turns : Nat, spent : Nat, actual : Nat]
Requests == [by : Runs, time : 0..MaxTime]

TypeOK ==
    /\ now \in 0..MaxTime
    /\ nextAt \in [Models -> Nat]
    /\ chain \in [Models -> Seq(Runs)]
    /\ releases \in [Models -> Seq(Requests)]
    /\ run \in [Runs -> RunStates]

\* What a run of this status is at.
At(r, phase) == run[r].status = "running" /\ run[r].at = phase

Model(r) == run[r].asks.model

-----------------------------------------------------------------------------
(* The rate limiter.                                                       *)

\* acquire(): an unlimited model is not paced at all.
Acquire(r, m, state) ==
    IF Interval[m] = 0
    THEN run' = [run EXCEPT ![r] = [state EXCEPT !.at = "acquired"]] /\ UNCHANGED chain
    ELSE /\ run' = [run EXCEPT ![r] = [state EXCEPT !.at = "chained"]]
         /\ chain' = [chain EXCEPT ![m] = Append(@, r)]

HisTurn_Anyone(r, m) == TRUE

\* pace() follows the previous acquire of the model.
HisTurn(r, m) == chain[m][1] = r

\* pace() until its sleep.
Pace(r) ==
    /\ At(r, "chained") /\ HisTurn(r, Model(r))
    /\ run' = [run EXCEPT ![r].at = "asleep", ![r].until = nextAt[Model(r)]]
    /\ UNCHANGED <<now, nextAt, chain, releases>>

Later(a, b) == IF a < b THEN b ELSE a

\* The window is open: the next one is moved, and the next acquire may pace.
Release(r) ==
    LET m == Model(r)
    IN  /\ At(r, "asleep") /\ now >= run[r].until
        /\ nextAt' = [nextAt EXCEPT ![m] = Later(now, run[r].until) + Interval[m]]
        /\ releases' = [releases EXCEPT ![m] = Append(@, [by |-> r, time |-> now])]
        /\ chain' = [chain EXCEPT ![m] = Tail(@)]
        /\ run' = [run EXCEPT ![r].at = "acquired", ![r].until = None]
        /\ UNCHANGED now

-----------------------------------------------------------------------------
(* Sessions.                                                               *)

Session(kind, m) == [kind |-> kind, model |-> m, usage |-> 0]

Failed(r) == [run[r] EXCEPT !.status = "failed", !.at = "idle", !.asks = None]

\* createSession() of the guarded runtime: a model that cannot be priced, and
\* a turn that is not affordable, are refused before anything is spent.
Create(r, kind, m, attempts) ==
    /\ IF m \notin Known \/ run[r].spent + Estimate > Limit[r]
       THEN run' = [run EXCEPT ![r] = Failed(r)] /\ UNCHANGED chain
       ELSE Acquire(r, m, [run[r] EXCEPT !.asks = Session(kind, m), !.wants = "session",
                                         !.attempts = attempts])
    /\ UNCHANGED <<now, nextAt, releases>>

\* An agent step, or a loop, opens its session.
OpenLoop(r, m) ==
    /\ At(r, "idle") /\ run[r].loop = None
    /\ Create(r, "loop", m, 0)

\* StartJsonAgent(), called between the turns of a loop.
StartJsonAgent(r, m) ==
    /\ At(r, "idle") /\ run[r].loop # None /\ run[r].turns > 0
    /\ Create(r, "judge", m, 1)

\* The runtime makes the session, and its first prompt acquires again.
SessionIsOpen(r) ==
    /\ At(r, "acquired") /\ run[r].wants = "session"
    /\ Acquire(r, Model(r), [run[r] EXCEPT !.wants = "prompt"])
    /\ UNCHANGED <<now, nextAt, releases>>

\* The loop prompts its session again.
Reprompt(r) ==
    /\ At(r, "idle") /\ run[r].loop # None /\ run[r].turns < MaxTurns
    /\ Acquire(r, run[r].loop.model, [run[r] EXCEPT !.asks = run[r].loop, !.wants = "prompt"])
    /\ UNCHANGED <<now, nextAt, releases>>

\* sumUsage(): over all messages of the session.
SumUsage(session, cost) == session.usage + cost

Charged_UnlessOver(r, cost) == IF run[r].spent + cost <= Limit[r] THEN cost ELSE 0

\* What guardSession() charges of the usage that the turn reports.
Charged(r, cost) == cost

JudgeGoesOn_Always(r) == TRUE

\* A reply that is no JSON of the schema is asked for once more.
JudgeGoesOn(r) == run[r].attempts < MAX_JUDGE_ATTEMPTS

\* prompt() resolves: the turn is charged; the run fails beyond its limit.  A
\* judge has answered, or not; the loop takes the answer of its own session.
Answer(r, cost, valid) ==
    LET session == [run[r].asks EXCEPT !.usage = SumUsage(run[r].asks, cost)]
        spent == run[r].spent + Charged(r, session.usage)
        after == [run[r] EXCEPT !.spent = spent, !.actual = @ + cost, !.wants = None,
                                !.asks = None, !.at = "idle"]
    IN  /\ At(r, "acquired") /\ run[r].wants = "prompt"
        /\ IF spent > Limit[r]
           THEN run' = [run EXCEPT ![r] = [after EXCEPT !.status = "failed"]]
           ELSE IF session.kind = "loop"
           THEN run' = [run EXCEPT ![r] = [after EXCEPT !.loop = session, !.turns = @ + 1]]
           ELSE IF valid
           THEN run' = [run EXCEPT ![r] = [after EXCEPT !.attempts = 0]]
           ELSE IF JudgeGoesOn(r)
           THEN run' = [run EXCEPT ![r] = [after EXCEPT !.at = "retry", !.asks = session]]
           ELSE run' = [run EXCEPT ![r] = [after EXCEPT !.status = "failed"]] \* JudgeError
        /\ UNCHANGED <<now, nextAt, chain, releases>>

\* The second attempt of a judge, in a session of its own.
Retry(r) == At(r, "retry") /\ Create(r, "judge", Model(r), run[r].attempts + 1)

\* The runtime, the provider or a tool throws.
Throws(r) ==
    /\ At(r, "acquired")
    /\ run' = [run EXCEPT ![r] = Failed(r)]
    /\ UNCHANGED <<now, nextAt, chain, releases>>

\* The loop is over; the run goes on with a session of its next step.
LoopEnds(r) ==
    /\ At(r, "idle") /\ run[r].turns > 0
    /\ run' = [run EXCEPT ![r].status = "done"]
    /\ UNCHANGED <<now, nextAt, chain, releases>>

Tick == now < MaxTime /\ now' = now + 1 /\ UNCHANGED <<nextAt, chain, releases, run>>

Next ==
    \/ Tick
    \/ \E r \in Runs :
         \/ Pace(r) \/ Release(r) \/ SessionIsOpen(r) \/ Reprompt(r) \/ Retry(r) \/ Throws(r) \/ LoopEnds(r)
         \/ \E m \in Models : OpenLoop(r, m) \/ StartJsonAgent(r, m)
         \/ \E c \in Costs, valid \in BOOLEAN : Answer(r, c, valid)

Spec == Init /\ [][Next]_vars

-----------------------------------------------------------------------------
\* "One request per 60_000/rpm ms, never in bursts" (ratelimit.ts:2-4): two
\* releases of a model are an interval apart, whichever runs they are of and
\* however late a timer fires.
PacedReleases ==
    \A m \in Models : \A i \in 1..Len(releases[m]) - 1 :
      releases[m][i + 1].time - releases[m][i].time >= Interval[m]

\* "Non-JSON / schema-invalid output retries once with a fresh session, then
\* throws" (helpers.ts:217-218), and a judge fails a run that has
\* nothing left: beyond its limit a run starts no turn.
JudgesAreBounded ==
    \A r \in Runs :
      /\ run[r].attempts <= MAX_JUDGE_ATTEMPTS
      /\ run[r].asks # None /\ run[r].asks.kind = "judge" /\ run[r].at # "retry"
           => run[r].asks.usage = 0
      /\ run[r].spent > Limit[r] => run[r].status = "failed"

\* Every turn is paid for: what a run has spent is never less than the usage of
\* its turns, those of judges and the one that crossed the limit included, and
\* it is exactly that while no session was prompted twice.
EveryTurnIsCharged ==
    \A r \in Runs :
      /\ run[r].spent >= run[r].actual
      /\ run[r].turns < 2 /\ run[r].status = "running" => run[r].spent = run[r].actual

\* "Every agent turn is charged (post) against the actual usage" (run.ts:151):
\* a turn is charged with its own usage.
ChargesActualUsage == \A r \in Runs : run[r].spent = run[r].actual
=============================================================================
