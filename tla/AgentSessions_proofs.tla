------------------------ MODULE AgentSessions_proofs ------------------------
(***************************************************************************)
(* What TLAPS checks of AgentSessions, for every set of runs and models,   *)
(* every pace, budget, cost and number of attempts: requests of a model    *)
(* are an interval apart, judges are bounded, and every turn is charged.   *)
(***************************************************************************)
EXTENDS AgentSessions, SequenceTheorems, TLAPS

\* Who waits for his turn is in the chain of his model; who sleeps is its head
\* and sleeps until the window opens, which nobody else can move.
WaitersFit ==
    \A r \in Runs :
      /\ run[r].at = "chained" => \E i \in 1..Len(chain[Model(r)]) : chain[Model(r)][i] = r
      /\ run[r].at = "asleep" => /\ chain[Model(r)] # <<>> /\ HisTurn(r, Model(r))
                                 /\ run[r].until = nextAt[Model(r)]

\* The window opens an interval after each request that was let go.
WindowsFit ==
    \A m \in Models : \A i \in 1..Len(releases[m]) :
      releases[m][i].time + Interval[m] <= nextAt[m]

Asking == {"chained", "asleep", "acquired", "retry"}

\* A run in state s with that limit: who asks has a session; those of judges are
\* new, and so is that of a loop that has had no turn; what was spent is what the
\* sessions used, and more only after a second turn.
Fits(s, limit) ==
    /\ s.at \in Asking => s.asks # None
    /\ s.turns = 0 <=> s.loop = None
    /\ s.at = "retry" => s.attempts < MAX_JUDGE_ATTEMPTS
    /\ s.attempts <= MAX_JUDGE_ATTEMPTS
    /\ s.asks # None /\ s.asks.kind = "loop" /\ s.turns = 0 => s.asks.usage = 0
    /\ s.asks # None /\ s.asks.kind = "judge" /\ s.at # "retry" => s.asks.usage = 0
    /\ s.spent > limit => s.status = "failed"
    /\ s.spent >= s.actual
    /\ s.turns < 2 /\ s.status = "running" => s.spent = s.actual
RunsFit == \A r \in Runs : Fits(run[r], Limit[r])

IInv == TypeOK /\ WaitersFit /\ WindowsFit /\ PacedReleases /\ RunsFit

-----------------------------------------------------------------------------
(* Steps of one run that no other waits for.                               *)

\* The run r goes to the state s, and joins a chain or none.
Goes(r, s) ==
    /\ s \in RunStates /\ Fits(s, Limit[r])
    /\ run' = [run EXCEPT ![r] = s]
    /\ UNCHANGED <<now, nextAt, releases>>
    /\ \/ s.at \notin {"chained", "asleep"} /\ UNCHANGED chain
       \/ s.at = "chained" /\ chain' = [chain EXCEPT ![s.asks.model] = Append(@, r)]

LEMMA GoesKeeps ==
    ASSUME IInv, NEW r \in Runs, NEW s, Goes(r, s)
    PROVE  IInv'
<1> USE DEF IInv
<1>1. s.at = "chained" => s.asks.model \in Models
  BY DEF Goes, Fits, Asking, RunStates, SessionsOf
<1>2. TypeOK'
  <2>1. chain' \in [Models -> Seq(Runs)]
    <3>1. CASE UNCHANGED chain
      BY <3>1 DEF TypeOK
    <3>2. CASE s.at = "chained" /\ chain' = [chain EXCEPT ![s.asks.model] = Append(@, r)]
      <4>1. Append(chain[s.asks.model], r) \in Seq(Runs)
        BY <1>1, <3>2 DEF TypeOK
      <4> QED
        BY <3>2, <4>1 DEF TypeOK
    <3> QED
      BY <3>1, <3>2 DEF Goes
  <2>2. run' \in [Runs -> RunStates]
    BY DEF TypeOK, Goes
  <2> QED
    BY <2>1, <2>2 DEF TypeOK, Goes
<1>3. run'[r] = s /\ \A q \in Runs \ {r} : run'[q] = run[q]
  BY DEF Goes, TypeOK
<1>4. WindowsFit' /\ PacedReleases'
  BY DEF Goes, WindowsFit, PacedReleases
<1>5. RunsFit'
  BY <1>3 DEF Goes, RunsFit
<1>6. ASSUME NEW m \in Models
      PROVE  /\ Len(chain'[m]) >= Len(chain[m])
             /\ \A i \in 1..Len(chain[m]) : chain'[m][i] = chain[m][i]
             /\ chain[m] \in Seq(Runs) /\ chain'[m] \in Seq(Runs)
  <2>1. chain[m] \in Seq(Runs) /\ chain'[m] \in Seq(Runs)
    BY <1>2 DEF TypeOK
  <2>2. chain'[m] = chain[m] \/ chain'[m] = Append(chain[m], r)
    BY <1>1 DEF TypeOK, Goes
  <2> QED
    BY <2>1, <2>2
<1>7. ASSUME NEW q \in Runs, run'[q].at = "chained"
      PROVE  \E i \in 1..Len(chain'[Model(q)']) : chain'[Model(q)'][i] = q
  <2>1. CASE q = r
    <3>1. s.at = "chained" /\ Model(r)' = s.asks.model /\ chain[s.asks.model] \in Seq(Runs)
      BY <1>1, <1>3, <1>7, <2>1 DEF Model, TypeOK
    <3>2. chain'[s.asks.model] = Append(chain[s.asks.model], r)
      BY <1>1, <3>1 DEF Goes, TypeOK
    <3>3. LET k == Len(chain[s.asks.model]) + 1
          IN  k \in 1..Len(chain'[s.asks.model]) /\ chain'[s.asks.model][k] = r
      BY <3>1, <3>2
    <3> QED
      BY <2>1, <3>1, <3>3
  <2>2. CASE q # r
    <3>1. Model(q)' = Model(q) /\ run[q].at = "chained"
      BY <1>3, <1>7, <2>2 DEF Model
    <3>2. Model(q) \in Models
      BY <3>1 DEF TypeOK, RunStates, SessionsOf, RunsFit, Fits, Asking, Model
    <3>3. PICK i \in 1..Len(chain[Model(q)]) : chain[Model(q)][i] = q
      BY <3>1 DEF WaitersFit
    <3>4. i \in 1..Len(chain'[Model(q)]) /\ chain'[Model(q)][i] = q
      BY <1>6, <3>2, <3>3
    <3> QED
      BY <3>1, <3>4
  <2> QED
    BY <2>1, <2>2
<1>8. ASSUME NEW q \in Runs, run'[q].at = "asleep"
      PROVE  /\ chain'[Model(q)'] # <<>> /\ HisTurn(q, Model(q))'
             /\ run'[q].until = nextAt'[Model(q)']
  <2>1. q # r
    BY <1>3, <1>8 DEF Goes
  <2>2. Model(q)' = Model(q) /\ run[q].at = "asleep" /\ run'[q] = run[q]
    BY <1>3, <1>8, <2>1 DEF Model
  <2>3. Model(q) \in Models
    BY <2>2 DEF TypeOK, RunStates, SessionsOf, RunsFit, Fits, Asking, Model
  <2>4. chain[Model(q)] # <<>> /\ chain[Model(q)][1] = q /\ run[q].until = nextAt[Model(q)]
    BY <2>2 DEF WaitersFit, HisTurn
  <2>5. chain'[Model(q)] # <<>> /\ chain'[Model(q)][1] = q
    BY <1>6, <2>3, <2>4
  <2> QED
    BY <2>2, <2>4, <2>5 DEF Goes, HisTurn
<1> QED
  BY <1>2, <1>4, <1>5, <1>7, <1>8 DEF WaitersFit

\* acquire() of a session at hand.
LEMMA AcquireGoes ==
    ASSUME NEW r \in Runs, NEW state \in RunStates, state.asks # None,
           Fits([state EXCEPT !.at = "acquired"], Limit[r]),
           Acquire(r, state.asks.model, state), UNCHANGED <<now, nextAt, releases>>
    PROVE  \E s : Goes(r, s)
<1>1. CASE Interval[state.asks.model] = 0
  <2> DEFINE s == [state EXCEPT !.at = "acquired"]
  <2>1. s \in RunStates /\ s.at = "acquired"
    BY DEF RunStates
  <2> QED
    BY <1>1, <2>1 DEF Goes, Acquire
<1>2. CASE Interval[state.asks.model] # 0
  <2> DEFINE s == [state EXCEPT !.at = "chained"]
  <2>1. s \in RunStates /\ s.at = "chained" /\ s.asks = state.asks
    BY DEF RunStates
  <2>2. Fits(s, Limit[r])
    BY DEF Fits, Asking, RunStates
  <2> QED
    BY <1>2, <2>1, <2>2 DEF Goes, Acquire
<1> QED
  BY <1>1, <1>2

\* createSession() asks for a new session, or fails the run.
LEMMA CreateGoes ==
    ASSUME IInv, NEW r \in Runs, NEW kind \in {"loop", "judge"}, NEW m \in Models,
           NEW attempts \in 0..MAX_JUDGE_ATTEMPTS, run[r].status = "running",
           kind = "loop" => run[r].turns = 0,
           Create(r, kind, m, attempts)
    PROVE  \E s : Goes(r, s)
<1> USE DEF IInv
<1>1. run[r] \in RunStates /\ Fits(run[r], Limit[r])
  BY DEF TypeOK, RunsFit
<1>2. UNCHANGED <<now, nextAt, releases>>
  BY DEF Create
<1>3. CASE m \notin Known \/ run[r].spent + Estimate > Limit[r]
  <2>1. Failed(r) \in RunStates /\ Fits(Failed(r), Limit[r]) /\ Failed(r).at = "idle"
    BY <1>1 DEF Failed, Fits, Asking, RunStates
  <2> QED
    BY <1>2, <1>3, <2>1 DEF Create, Goes
<1>4. CASE ~(m \notin Known \/ run[r].spent + Estimate > Limit[r])
  <2> DEFINE state == [run[r] EXCEPT !.asks = Session(kind, m), !.wants = "session",
                                     !.attempts = attempts]
             fresh == Session(kind, m)
  <2>1. fresh \in SessionsOf({"loop", "judge"}) /\ fresh.kind = kind /\ fresh.usage = 0
        /\ fresh.model = m
    BY DEF Session, SessionsOf
  <2>2. fresh # None
    BY <2>1, NoneAssumption
  <2> HIDE DEF fresh
  <2>3. attempts \in Nat /\ attempts <= MAX_JUDGE_ATTEMPTS
    BY AttemptsAssumption
  <2>4. state = [run[r] EXCEPT !.asks = fresh, !.wants = "session", !.attempts = attempts]
    BY DEF fresh
  <2> HIDE DEF state
  <2>5. state \in RunStates /\ state.asks = fresh
    BY <1>1, <2>1, <2>3, <2>4 DEF RunStates
  <2>6. Fits([state EXCEPT !.at = "acquired"], Limit[r])
    BY <1>1, <2>1, <2>2, <2>3, <2>4 DEF Fits, Asking, RunStates
  <2>7. Acquire(r, m, state)
    BY <1>4 DEF Create, state
  <2> QED
    BY <1>2, <2>1, <2>2, <2>5, <2>6, <2>7, AcquireGoes
<1> QED
  BY <1>3, <1>4

LEMMA OpenLoopGoes ==
    ASSUME IInv, NEW r \in Runs, NEW m \in Models, OpenLoop(r, m)
    PROVE  \E s : Goes(r, s)
<1>1. run[r].status = "running" /\ Create(r, "loop", m, 0) /\ 0 \in 0..MAX_JUDGE_ATTEMPTS
  BY AttemptsAssumption DEF OpenLoop, At
<1>2. run[r].turns = 0
  BY DEF OpenLoop, IInv, RunsFit, Fits
<1> QED
  BY <1>1, <1>2, CreateGoes

LEMMA StartJsonAgentGoes ==
    ASSUME IInv, NEW r \in Runs, NEW m \in Models, StartJsonAgent(r, m)
    PROVE  \E s : Goes(r, s)
<1>1. run[r].status = "running" /\ Create(r, "judge", m, 1) /\ 1 \in 0..MAX_JUDGE_ATTEMPTS
  BY AttemptsAssumption DEF StartJsonAgent, At
<1> QED
  BY <1>1, CreateGoes

LEMMA RetryGoes ==
    ASSUME IInv, NEW r \in Runs, Retry(r)
    PROVE  \E s : Goes(r, s)
<1>1. run[r].status = "running" /\ Create(r, "judge", Model(r), run[r].attempts + 1)
  BY DEF Retry, At
<1>2. run[r].attempts + 1 \in 0..MAX_JUDGE_ATTEMPTS
  BY AttemptsAssumption DEF Retry, At, IInv, RunsFit, Fits, TypeOK, RunStates
<1>3. Model(r) \in Models
  BY DEF Retry, At, IInv, RunsFit, Fits, Asking, TypeOK, RunStates, SessionsOf, Model
<1> QED
  BY <1>1, <1>2, <1>3, CreateGoes

LEMMA SessionIsOpenGoes ==
    ASSUME IInv, NEW r \in Runs, SessionIsOpen(r)
    PROVE  \E s : Goes(r, s)
<1> DEFINE state == [run[r] EXCEPT !.wants = "prompt"]
<1>1. run[r] \in RunStates /\ Fits(run[r], Limit[r]) /\ run[r].at = "acquired"
  BY DEF SessionIsOpen, At, IInv, TypeOK, RunsFit
<1>2. state \in RunStates /\ state.asks = run[r].asks /\ state.asks # None
  BY <1>1 DEF RunStates, Fits, Asking
<1>3. Fits([state EXCEPT !.at = "acquired"], Limit[r])
  BY <1>1 DEF RunStates, Fits, Asking
<1>4. Acquire(r, state.asks.model, state) /\ UNCHANGED <<now, nextAt, releases>>
  BY <1>2 DEF SessionIsOpen, Model
<1> QED
  BY <1>2, <1>3, <1>4, AcquireGoes

LEMMA RepromptGoes ==
    ASSUME IInv, NEW r \in Runs, Reprompt(r)
    PROVE  \E s : Goes(r, s)
<1> DEFINE state == [run[r] EXCEPT !.asks = run[r].loop, !.wants = "prompt"]
<1>1. run[r] \in RunStates /\ Fits(run[r], Limit[r]) /\ run[r].at = "idle"
      /\ run[r].loop \in SessionsOf({"loop"}) /\ run[r].loop # None
  BY DEF Reprompt, At, IInv, TypeOK, RunsFit, RunStates
<1>2. state \in RunStates /\ state.asks = run[r].loop
  <2>1. run[r].loop \in SessionsOf({"loop", "judge"})
    BY <1>1 DEF SessionsOf
  <2> QED
    BY <1>1, <2>1 DEF RunStates
<1>3. run[r].loop.kind = "loop" /\ run[r].turns # 0
  BY <1>1 DEF SessionsOf, Fits
<1>4. Fits([state EXCEPT !.at = "acquired"], Limit[r])
  BY <1>1, <1>3 DEF RunStates, Fits, Asking
<1>5. Acquire(r, state.asks.model, state) /\ UNCHANGED <<now, nextAt, releases>>
  BY <1>2 DEF Reprompt
<1> QED
  BY <1>1, <1>2, <1>4, <1>5, AcquireGoes

LEMMA ThrowsGoes ==
    ASSUME IInv, NEW r \in Runs, Throws(r)
    PROVE  \E s : Goes(r, s)
<1>1. run[r] \in RunStates /\ Fits(run[r], Limit[r])
  BY DEF IInv, TypeOK, RunsFit
<1>2. Failed(r) \in RunStates /\ Fits(Failed(r), Limit[r]) /\ Failed(r).at = "idle"
  BY <1>1 DEF Failed, Fits, Asking, RunStates
<1> QED
  BY <1>2 DEF Throws, Goes

LEMMA LoopEndsGoes ==
    ASSUME IInv, NEW r \in Runs, LoopEnds(r)
    PROVE  \E s : Goes(r, s)
<1> DEFINE s == [run[r] EXCEPT !.status = "done"]
<1>1. run[r] \in RunStates /\ Fits(run[r], Limit[r]) /\ run[r].at = "idle"
      /\ run[r].status = "running"
  BY DEF LoopEnds, At, IInv, TypeOK, RunsFit
<1>2. s \in RunStates /\ Fits(s, Limit[r]) /\ s.at = "idle"
  BY <1>1 DEF Fits, Asking, RunStates
<1>3. run' = [run EXCEPT ![r] = s]
  BY DEF LoopEnds
<1> QED
  BY <1>2, <1>3 DEF LoopEnds, Goes

-----------------------------------------------------------------------------
(* The turn is answered.                                                   *)

\* What the session reports of a judge, or of a first turn, is what it cost; a
\* session that was prompted before reports more, and is charged all of it.
LEMMA AnswerGoes ==
    ASSUME IInv, NEW r \in Runs, NEW cost \in Costs, NEW valid \in BOOLEAN,
           Answer(r, cost, valid)
    PROVE  \E s : Goes(r, s)
<1> DEFINE s == run[r]
           session == [s.asks EXCEPT !.usage = SumUsage(s.asks, cost)]
           spent == s.spent + Charged(r, session.usage)
           after == [s EXCEPT !.spent = spent, !.actual = @ + cost, !.wants = None,
                              !.asks = None, !.at = "idle"]
<1>1. s \in RunStates /\ Fits(s, Limit[r]) /\ s.at = "acquired" /\ s.status = "running"
  BY DEF Answer, At, IInv, TypeOK, RunsFit
<1>2. s.asks # None /\ s.asks \in SessionsOf({"loop", "judge"}) /\ cost \in Nat
  BY <1>1, BudgetAssumption DEF RunStates, Fits, Asking
<1>3. session \in SessionsOf({"loop", "judge"}) /\ session.kind = s.asks.kind
      /\ session.usage = s.asks.usage + cost
  BY <1>2 DEF SessionsOf, SumUsage
<1>4. session # None
  BY <1>3, NoneAssumption
<1>5. spent = s.spent + s.asks.usage + cost /\ spent \in Nat
  BY <1>1, <1>2, <1>3 DEF Charged, RunStates, SessionsOf
<1>6. UNCHANGED <<now, nextAt, chain, releases>>
  BY DEF Answer
<1>7. s.asks.kind = "judge" \/ s.turns = 0 => s.asks.usage = 0
  BY <1>1, <1>2 DEF Fits, SessionsOf
<1> HIDE DEF session, spent
<1>8. /\ after \in RunStates /\ after.at = "idle" /\ after.asks = None /\ after.turns = s.turns
      /\ after.spent = spent /\ after.actual = s.actual + cost /\ after.status = "running"
      /\ after.attempts = s.attempts /\ after.loop = s.loop
  <2> HIDE DEF s
  <2>1. s.actual + cost \in Nat
    BY <1>1, <1>2 DEF RunStates
  <2>2. after \in RunStates
    BY <1>1, <1>5, <2>1 DEF RunStates
  <2> QED
    BY <1>1, <2>2 DEF RunStates
<1>9. after.spent >= after.actual
      /\ (s.asks.kind = "judge" /\ s.turns < 2 => after.spent = after.actual)
      /\ (s.turns = 0 => after.spent = after.actual)
  BY <1>1, <1>2, <1>5, <1>7, <1>8 DEF Fits, RunStates, SessionsOf
<1>10. CASE spent > Limit[r]
  <2> DEFINE t == [after EXCEPT !.status = "failed"]
  <2>1. t \in RunStates /\ Fits(t, Limit[r]) /\ t.at = "idle"
    BY <1>1, <1>8, <1>9 DEF RunStates, Fits, Asking
  <2>2. run' = [run EXCEPT ![r] = t]
    BY <1>10 DEF Answer, session, spent
  <2> QED
    BY <1>6, <2>1, <2>2 DEF Goes
<1>11. CASE ~(spent > Limit[r]) /\ session.kind = "loop"
  <2> DEFINE t == [after EXCEPT !.loop = session, !.turns = @ + 1]
  <2>1. session \in SessionsOf({"loop"})
    BY <1>3, <1>11 DEF SessionsOf
  <2>2. t \in RunStates /\ t.at = "idle" /\ t.turns = s.turns + 1 /\ t.turns > 0
        /\ t.spent = after.spent /\ t.actual = after.actual
    <3> HIDE DEF after, s
    <3>1. after.turns \in Nat /\ after.turns + 1 \in Nat
      BY <1>8 DEF RunStates
    <3>2. t \in RunStates
      <4>1. ASSUME NEW n \in Nat
            PROVE  [after EXCEPT !.loop = session, !.turns = n] \in RunStates
        BY <1>8, <2>1 DEF RunStates
      <4> QED
        BY <3>1, <4>1
    <3> QED
      BY <1>8, <3>1, <3>2 DEF RunStates
  <2>3. Fits(t, Limit[r])
    BY <1>1, <1>4, <1>8, <1>9, <1>11, <2>2, BudgetAssumption DEF RunStates, Fits, Asking
  <2>4. run' = [run EXCEPT ![r] = t]
    BY <1>11 DEF Answer, session, spent
  <2> QED
    BY <1>6, <2>2, <2>3, <2>4 DEF Goes
<1>12. CASE ~(spent > Limit[r]) /\ session.kind # "loop"
  <2> DEFINE told == [after EXCEPT !.attempts = 0]
             again == [after EXCEPT !.at = "retry", !.asks = session]
             over == [after EXCEPT !.status = "failed"]
  <2>1. s.asks.kind = "judge"
    BY <1>2, <1>3, <1>12 DEF SessionsOf
  <2>2. \/ run' = [run EXCEPT ![r] = told]
        \/ run' = [run EXCEPT ![r] = again] /\ JudgeGoesOn(r)
        \/ run' = [run EXCEPT ![r] = over]
    BY <1>12 DEF Answer, session, spent
  <2>3. ~(spent > Limit[r])
    BY <1>12
  <2>4. told \in RunStates /\ Fits(told, Limit[r]) /\ told.at = "idle"
    <3> HIDE DEF after, s
    <3>1. told \in RunStates
      BY <1>8 DEF RunStates
    <3> QED
      BY <1>1, <1>8, <1>9, <2>1, <2>3, <3>1, AttemptsAssumption DEF RunStates, Fits, Asking
  <2>5. JudgeGoesOn(r) => again \in RunStates /\ Fits(again, Limit[r]) /\ again.at = "retry"
    <3>1. again \in RunStates /\ again.at = "retry" /\ again.asks = session
      BY <1>3, <1>8 DEF RunStates
    <3>2. session.kind = "judge"
      BY <1>3, <2>1
    <3> QED
      BY <1>1, <1>4, <1>8, <1>9, <2>1, <2>3, <3>1, <3>2 DEF RunStates, Fits, Asking, JudgeGoesOn
  <2>6. over \in RunStates /\ Fits(over, Limit[r]) /\ over.at = "idle"
    BY <1>1, <1>8, <1>9, <2>1, <2>3 DEF RunStates, Fits, Asking
  <2> QED
    BY <1>6, <2>2, <2>4, <2>5, <2>6 DEF Goes
<1> QED
  BY <1>10, <1>11, <1>12

-----------------------------------------------------------------------------
(* The clock and the limiter.                                              *)

LEMMA TickKeeps ==
    ASSUME IInv, Tick
    PROVE  IInv'
<1>1. TypeOK'
  <2>1. now' \in 0..MaxTime
    BY BoundsAssumption DEF Tick, IInv, TypeOK
  <2> QED
    BY <2>1 DEF Tick, IInv, TypeOK
<1>2. \A r \in Runs : Model(r)' = Model(r)
  BY DEF Tick, Model
<1>3. WaitersFit'
  BY <1>2 DEF Tick, IInv, WaitersFit, HisTurn
<1>4. WindowsFit' /\ PacedReleases' /\ RunsFit'
  BY DEF Tick, IInv, WindowsFit, PacedReleases, RunsFit
<1> QED
  BY <1>1, <1>3, <1>4 DEF IInv

\* The head of the chain goes to sleep until the window that is next.
LEMMA PaceKeeps ==
    ASSUME IInv, NEW r \in Runs, Pace(r)
    PROVE  IInv'
<1> DEFINE s == [run[r] EXCEPT !.at = "asleep", !.until = nextAt[Model(r)]]
<1>1. run[r] \in RunStates /\ Fits(run[r], Limit[r]) /\ run[r].at = "chained"
  BY DEF Pace, At, IInv, TypeOK, RunsFit
<1>2. run[r].asks # None /\ Model(r) \in Models
  BY <1>1 DEF Fits, Asking, RunStates, SessionsOf, Model
<1>3. s \in RunStates /\ Fits(s, Limit[r]) /\ s.asks = run[r].asks
      /\ s.at = "asleep" /\ s.until = nextAt[Model(r)]
  BY <1>1, <1>2 DEF IInv, TypeOK, Fits, Asking, RunStates
<1>4. run' = [run EXCEPT ![r] = s] /\ UNCHANGED <<now, nextAt, chain, releases>>
  BY DEF Pace
<1> HIDE DEF s
<1>5. run'[r] = s /\ \A q \in Runs \ {r} : run'[q] = run[q]
  BY <1>4 DEF IInv, TypeOK
<1>6. TypeOK'
  BY <1>3, <1>4 DEF IInv, TypeOK
<1>7. RunsFit'
  BY <1>3, <1>5 DEF IInv, RunsFit
<1>8. WindowsFit' /\ PacedReleases'
  BY <1>4 DEF IInv, WindowsFit, PacedReleases
<1>9. chain[Model(r)] # <<>> /\ HisTurn(r, Model(r))
  <2>1. PICK i \in 1..Len(chain[Model(r)]) : chain[Model(r)][i] = r
    BY <1>1 DEF IInv, WaitersFit
  <2> QED
    BY <1>2, <2>1 DEF Pace, IInv, TypeOK
<1>10. \A q \in Runs : Model(q)' = Model(q)
  BY <1>3, <1>5 DEF Model
<1>11. WaitersFit'
  BY <1>3, <1>4, <1>5, <1>9, <1>10 DEF IInv, WaitersFit, HisTurn
<1> QED
  BY <1>6, <1>7, <1>8, <1>11 DEF IInv

\* The head of the chain leaves it: nobody else of that model was asleep, and who
\* is still in the chain is one place nearer to its head.
LEMMA ReleaseKeeps ==
    ASSUME IInv, NEW r \in Runs, Release(r)
    PROVE  IInv'
<1> DEFINE m == Model(r)
           s == [run[r] EXCEPT !.at = "acquired", !.until = None]
           at == Later(now, run[r].until) + Interval[m]
           released == [by |-> r, time |-> now]
<1>1. run[r] \in RunStates /\ Fits(run[r], Limit[r]) /\ run[r].at = "asleep"
      /\ now >= run[r].until
  BY DEF Release, At, IInv, TypeOK, RunsFit
<1>2. run[r].asks # None /\ m \in Models /\ now \in 0..MaxTime
  BY <1>1 DEF Fits, Asking, RunStates, SessionsOf, Model, IInv, TypeOK
<1>3. s \in RunStates /\ Fits(s, Limit[r]) /\ s.asks = run[r].asks /\ s.at = "acquired"
  BY <1>1 DEF Fits, Asking, RunStates
<1>4. chain[m] # <<>> /\ chain[m][1] = r /\ run[r].until = nextAt[m]
  BY <1>1 DEF IInv, WaitersFit, HisTurn
<1>5. nextAt[m] \in Nat /\ Interval[m] \in Nat /\ chain[m] \in Seq(Runs)
      /\ releases[m] \in Seq(Requests)
  BY <1>2, PacingAssumption DEF IInv, TypeOK
<1>6. at \in Nat /\ at >= now + Interval[m] /\ at >= nextAt[m]
  BY <1>2, <1>4, <1>5, BoundsAssumption DEF Later
<1>7. /\ nextAt' = [nextAt EXCEPT ![m] = at]
      /\ releases' = [releases EXCEPT ![m] = Append(@, released)]
      /\ chain' = [chain EXCEPT ![m] = Tail(@)]
      /\ run' = [run EXCEPT ![r] = s]
      /\ now' = now
  BY DEF Release
<1>8. released \in Requests /\ released.time = now
  BY <1>2 DEF Requests
<1> HIDE DEF s, at, released, m
<1>9. Tail(chain[m]) \in Seq(Runs) /\ Len(Tail(chain[m])) = Len(chain[m]) - 1
      /\ \A i \in 1..Len(chain[m]) - 1 : Tail(chain[m])[i] = chain[m][i + 1]
  BY <1>4, <1>5
<1>10. Append(releases[m], released) \in Seq(Requests)
       /\ Len(Append(releases[m], released)) = Len(releases[m]) + 1
       /\ Append(releases[m], released)[Len(releases[m]) + 1] = released
       /\ \A i \in 1..Len(releases[m]) : Append(releases[m], released)[i] = releases[m][i]
  BY <1>5, <1>8
<1>11. TypeOK'
  BY <1>2, <1>3, <1>6, <1>7, <1>9, <1>10 DEF IInv, TypeOK
<1>12. run'[r] = s /\ \A q \in Runs \ {r} : run'[q] = run[q]
  BY <1>7 DEF IInv, TypeOK
<1>13. RunsFit'
  BY <1>3, <1>12 DEF IInv, RunsFit
<1>14. nextAt'[m] = at /\ chain'[m] = Tail(chain[m])
       /\ releases'[m] = Append(releases[m], released)
  BY <1>2, <1>7 DEF IInv, TypeOK
<1>15. ASSUME NEW k \in Models, k # m
       PROVE  nextAt'[k] = nextAt[k] /\ chain'[k] = chain[k] /\ releases'[k] = releases[k]
  BY <1>7, <1>15 DEF IInv, TypeOK
<1>16. ASSUME NEW i \in 1..Len(releases[m])
       PROVE  releases[m][i].time + Interval[m] <= nextAt[m] /\ releases[m][i].time \in Nat
  <2>1. releases[m][i] \in Requests
    BY <1>5
  <2>2. releases[m][i].time \in Nat
    BY <2>1, BoundsAssumption DEF Requests
  <2> QED
    BY <1>2, <2>2 DEF IInv, WindowsFit
<1>17. WindowsFit'
  <2>1. ASSUME NEW k \in Models, k # m
        PROVE  \A i \in 1..Len(releases'[k]) : releases'[k][i].time + Interval[k] <= nextAt'[k]
    BY <1>15, <2>1 DEF IInv, WindowsFit
  <2>2. ASSUME NEW i \in 1..Len(releases'[m])
        PROVE  releases'[m][i].time + Interval[m] <= nextAt'[m]
    <3>1. CASE i = Len(releases[m]) + 1
      BY <1>2, <1>5, <1>6, <1>8, <1>10, <1>14, <3>1
    <3>2. CASE i \in 1..Len(releases[m])
      BY <1>5, <1>6, <1>10, <1>14, <1>16, <3>2
    <3> QED
      BY <1>5, <1>10, <1>14, <3>1, <3>2
  <2> QED
    BY <2>1, <2>2 DEF WindowsFit
<1>18. PacedReleases'
  <2>1. ASSUME NEW k \in Models, k # m
        PROVE  \A i \in 1..Len(releases'[k]) - 1 :
                 releases'[k][i + 1].time - releases'[k][i].time >= Interval[k]
    BY <1>15, <2>1 DEF IInv, PacedReleases
  <2>2. ASSUME NEW i \in 1..Len(releases'[m]) - 1
        PROVE  releases'[m][i + 1].time - releases'[m][i].time >= Interval[m]
    <3>1. CASE i = Len(releases[m])
      <4>1. releases'[m][i] = releases[m][i] /\ releases'[m][i + 1].time = now
        BY <1>5, <1>8, <1>10, <1>14, <2>2, <3>1
      <4>2. releases[m][i].time + Interval[m] <= nextAt[m] /\ releases[m][i].time \in Nat
        BY <1>5, <1>10, <1>14, <1>16, <2>2, <3>1
      <4>3. nextAt[m] <= now
        BY <1>1, <1>4
      <4> QED
        BY <1>2, <1>5, <4>1, <4>2, <4>3, BoundsAssumption
    <3>2. CASE i # Len(releases[m])
      <4>1. i \in 1..Len(releases[m]) - 1
        BY <1>5, <1>10, <1>14, <2>2, <3>2
      <4>2. releases'[m][i] = releases[m][i] /\ releases'[m][i + 1] = releases[m][i + 1]
        BY <1>5, <1>10, <1>14, <4>1
      <4> QED
        BY <1>2, <4>1, <4>2 DEF IInv, PacedReleases
    <3> QED
      BY <3>1, <3>2
  <2> QED
    BY <2>1, <2>2 DEF PacedReleases
<1>19. \A q \in Runs : Model(q)' = Model(q)
  BY <1>3, <1>12 DEF Model
<1>20. ASSUME NEW q \in Runs, run'[q].at \in {"chained", "asleep"}
       PROVE  /\ q # r /\ run'[q] = run[q] /\ Model(q) \in Models
              /\ run[q].at \in {"chained", "asleep"}
  BY <1>3, <1>12, <1>20, ZenonT(60) DEF IInv, TypeOK, RunsFit, Fits, Asking, RunStates, SessionsOf, Model
<1>21. ASSUME NEW q \in Runs, run'[q].at = "chained"
       PROVE  \E i \in 1..Len(chain'[Model(q)]) : chain'[Model(q)][i] = q
  <2>1. PICK i \in 1..Len(chain[Model(q)]) : chain[Model(q)][i] = q
    BY <1>20, <1>21 DEF IInv, WaitersFit
  <2>2. CASE Model(q) # m
    BY <1>15, <1>20, <1>21, <2>1, <2>2
  <2>3. CASE Model(q) = m
    <3>1. i # 1 /\ i \in 1..Len(chain[m]) /\ chain[m][i] = q
      BY <1>4, <1>20, <1>21, <2>1, <2>3
    <3>2. i - 1 \in 1..Len(chain[m]) - 1
      BY <1>5, <3>1
    <3>3. i - 1 \in 1..Len(chain'[m]) /\ chain'[m][i - 1] = q
      BY <1>5, <1>9, <1>14, <3>1, <3>2
    <3> QED
      BY <2>3, <3>3
  <2> QED
    BY <2>2, <2>3
<1>22. ASSUME NEW q \in Runs, run'[q].at = "asleep"
       PROVE  /\ chain'[Model(q)] # <<>> /\ chain'[Model(q)][1] = q
              /\ run'[q].until = nextAt'[Model(q)]
  <2>1. chain[Model(q)] # <<>> /\ chain[Model(q)][1] = q /\ run[q].until = nextAt[Model(q)]
    BY <1>20, <1>22 DEF IInv, WaitersFit, HisTurn
  <2>2. Model(q) # m
    BY <1>4, <1>20, <1>22, <2>1
  <2> QED
    BY <1>15, <1>20, <1>22, <2>1, <2>2
<1>23. WaitersFit'
  BY <1>19, <1>21, <1>22 DEF WaitersFit, HisTurn
<1> QED
  BY <1>11, <1>13, <1>17, <1>18, <1>23 DEF IInv

-----------------------------------------------------------------------------
(* Theorems.                                                               *)

LEMMA InitFits == Init => IInv
<1>1. ASSUME Init PROVE TypeOK /\ RunsFit
  BY <1>1, NoneAssumption, BudgetAssumption, AttemptsAssumption, BoundsAssumption
     DEF Init, TypeOK, RunsFit, Idle, RunStates, Fits, Asking
<1>2. ASSUME Init PROVE WaitersFit /\ WindowsFit /\ PacedReleases
  BY <1>2 DEF Init, Idle, WaitersFit, WindowsFit, PacedReleases
<1> QED
  BY <1>1, <1>2 DEF IInv

LEMMA NextKeeps == IInv /\ [Next]_vars => IInv'
<1> SUFFICES ASSUME IInv, [Next]_vars
             PROVE  IInv'
  OBVIOUS
<1>1. CASE UNCHANGED vars
  BY <1>1 DEF vars, IInv, TypeOK, WaitersFit, HisTurn, Model, WindowsFit, PacedReleases, RunsFit
<1>2. CASE Tick
  BY <1>2, TickKeeps
<1>3. ASSUME NEW r \in Runs,
             \/ Pace(r) \/ Release(r) \/ SessionIsOpen(r) \/ Reprompt(r) \/ Retry(r)
             \/ Throws(r) \/ LoopEnds(r)
             \/ \E m \in Models : OpenLoop(r, m) \/ StartJsonAgent(r, m)
             \/ \E c \in Costs, valid \in BOOLEAN : Answer(r, c, valid)
      PROVE  IInv'
  <2>1. Pace(r) \/ Release(r) => IInv'
    BY PaceKeeps, ReleaseKeeps
  <2>2. SessionIsOpen(r) \/ Reprompt(r) \/ Retry(r) \/ Throws(r) \/ LoopEnds(r)
        => \E s : Goes(r, s)
    BY SessionIsOpenGoes, RepromptGoes, RetryGoes, ThrowsGoes, LoopEndsGoes
  <2>3. (\E m \in Models : OpenLoop(r, m) \/ StartJsonAgent(r, m)) => \E s : Goes(r, s)
    BY OpenLoopGoes, StartJsonAgentGoes
  <2>4. (\E c \in Costs, valid \in BOOLEAN : Answer(r, c, valid)) => \E s : Goes(r, s)
    BY AnswerGoes
  <2>5. (\E s : Goes(r, s)) => IInv'
    BY GoesKeeps
  <2> QED
    BY <1>3, <2>1, <2>2, <2>3, <2>4, <2>5
<1> QED
  BY <1>1, <1>2, <1>3 DEF Next

\* The limiter, the budgets and the sessions stay consistent (ratelimit.ts, run.ts).
THEOREM SessionsInvariant == Spec => []IInv
<1>1. Init => IInv
  BY InitFits
<1>2. IInv /\ [Next]_vars => IInv'
  BY NextKeeps
<1> QED
  BY <1>1, <1>2, PTL DEF Spec

\* Every variable keeps its type.
THEOREM TypeCorrect == Spec => []TypeOK
<1>1. IInv => TypeOK
  BY DEF IInv
<1> QED
  BY <1>1, SessionsInvariant, PTL

\* Requests of a model leave at least an interval apart, whichever runs they are
\* of, however many wait, and however late a timer fires (ratelimit.ts:2-4).
THEOREM RequestsArePaced == Spec => []PacedReleases
<1>1. IInv => PacedReleases
  BY DEF IInv
<1> QED
  BY <1>1, SessionsInvariant, PTL

\* A judge asks as often as it may and in new sessions, and a run beyond its limit
\* has failed (helpers.ts:217-218, run.ts:150-151).
THEOREM JudgesStayBounded == Spec => []JudgesAreBounded
<1>1. IInv => JudgesAreBounded
  BY DEF IInv, RunsFit, Fits, JudgesAreBounded
<1> QED
  BY <1>1, SessionsInvariant, PTL

\* Nothing that was used goes unpaid, and what was paid is what was used until a
\* session is prompted twice (run.ts:150-151, run.ts:206-218).
THEOREM TurnsAreCharged == Spec => []EveryTurnIsCharged
<1>1. IInv => EveryTurnIsCharged
  BY DEF IInv, RunsFit, Fits, EveryTurnIsCharged
<1> QED
  BY <1>1, SessionsInvariant, PTL
=============================================================================
