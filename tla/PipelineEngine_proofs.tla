------------------------ MODULE PipelineEngine_proofs ------------------------
(***************************************************************************)
(* What TLAPS checks of the pipeline engine, for every set of pipelines,   *)
(* items, prices and limits: the budget guard of run.ts, and that scopes,  *)
(* loops, foreach steps, routes and fragments neither lose an item nor     *)
(* double it.                                                              *)
(*                                                                         *)
(* The second needs an invariant about the whole stack (PlaceInv): every   *)
(* frame is tidy, no two have an item in common, a frame lies only on one  *)
(* that can have called it, what is in play has no status row, and         *)
(* together the frames have all that was planned.  An action touches the   *)
(* innermost frame, puts one on it or takes it off: one lemma for each of  *)
(* the three shapes (SwapOne, SwapForTwo, SwapTwo) says when that keeps    *)
(* the stack in order, and one per action that it has such a shape.        *)
(***************************************************************************)
EXTENDS PipelineEngine, FiniteSetTheorems, SequenceTheorems, TLAPS

\* What a step may do to the budget: leave it alone, charge a turn that fits,
\* or charge one that does not and fail.
BudgetKept == spent' = spent
Charged == \E c \in Costs : Within(c) /\ spent' = spent + c
Overdrawn == \E c \in Costs : ~Within(c) /\ spent' = spent + c /\ status' = "failed"

\* The budget is spent in whole units, and only an ended run is beyond it.
BudgetInv ==
    /\ spent \in Nat
    /\ OverdraftIsOneTurn

\* createSession() and prompt() are all that touches the tracker, and they do so
\* while the run is on: a step that charges leaves the run within its budget or
\* ends it.
LEMMA StepCharges ==
    [Next]_vars => \/ BudgetKept /\ (status' = status \/ status = "running")
                   \/ status = "running" /\ Charged
                   \/ status = "running" /\ Overdrawn
<1> SUFFICES ASSUME [Next]_vars
             PROVE  \/ BudgetKept /\ (status' = status \/ status = "running")
                    \/ status = "running" /\ Charged
                    \/ status = "running" /\ Overdrawn
  OBVIOUS
<1> USE DEF BudgetKept, Charged, Overdrawn
<1>1. CASE UNCHANGED vars
  BY <1>1 DEF vars
<1>2. CASE Throw
  BY <1>2 DEF Throw, Fail
<1>3. CASE PlainStep \/ VerifyStep \/ GateStep \/ SelectStep
  BY <1>3 DEF PlainStep, VerifyStep, GateStep, SelectStep, Keeps
<1>4. CASE AgentStep
  BY <1>4 DEF AgentStep, At, Skip, Refused, Overdraw, Fail, Keeps
<1>5. CASE LoopStep
  BY <1>5 DEF LoopStep, At, Skip, Refused, Fail, Keeps
<1>6. CASE LoopTurn
  BY <1>6 DEF LoopTurn, InLoop
<1>7. CASE FinalTurn
  BY <1>7 DEF FinalTurn, InLoop
<1>8. CASE LoopOverdraws
  BY <1>8 DEF LoopOverdraws, InLoop, Overdraw, Fail
<1>9. CASE ForeachStep
  BY <1>9 DEF ForeachStep, At, Fail, Keeps
<1>10. CASE DrawBatch \/ EndForeach
  BY <1>10 DEF DrawBatch, EndForeach, Keeps
<1>11. CASE ScopeReturns
  BY <1>11 DEF ScopeReturns
<1>12. CASE StartFragment
  BY <1>12 DEF StartFragment, InForeach, Fail, Keeps
<1>13. CASE StartPipeline
  BY <1>13 DEF StartPipeline, Idle, Fail
<1>14. CASE EndPipeline \/ Dispatch
  BY <1>14 DEF EndPipeline, Dispatch
<1>15. CASE End
  BY <1>15 DEF End, Idle
<1> QED
  BY <1>1, <1>2, <1>3, <1>4, <1>5, <1>6, <1>7, <1>8, <1>9, <1>10, <1>11, <1>12, <1>13, <1>14,
     <1>15 DEF Next, Execute

\* "the run's cost never exceeds its limit by more than the turn that crossed
\* it" (createSession, prompt): whatever turns really cost, whatever was
\* estimated, and however the steps nest.
THEOREM OverdraftBounded == Spec => []OverdraftIsOneTurn
<1>1. Init => BudgetInv
  <2>1. PICK c \in Costs : TRUE
    BY BudgetAssumption
  <2>2. c \in Nat
    BY BudgetAssumption
  <2>3. 0 <= Limit + c /\ ~(0 > Limit)
    BY <2>2, BudgetAssumption
  <2> QED
    BY <2>3 DEF Init, BudgetInv, OverdraftIsOneTurn
<1>2. BudgetInv /\ [Next]_vars => BudgetInv'
  <2> SUFFICES ASSUME BudgetInv, [Next]_vars
               PROVE  BudgetInv'
    OBVIOUS
  <2> USE BudgetAssumption DEF BudgetInv, OverdraftIsOneTurn
  <2>1. CASE BudgetKept /\ (status' = status \/ status = "running")
    BY <2>1 DEF BudgetKept
  <2>2. CASE status = "running" /\ Charged
    <3>1. PICK c \in Costs : Within(c) /\ spent' = spent + c
      BY <2>2 DEF Charged
    <3>2. c \in Nat
      BY BudgetAssumption
    <3>3. spent' \in Nat /\ spent' <= Limit
      BY <3>1, <3>2 DEF Within
    <3> QED
      BY <3>2, <3>3
  <2>3. CASE status = "running" /\ Overdrawn
    <3>1. PICK c \in Costs : spent' = spent + c /\ status' = "failed"
      BY <2>3 DEF Overdrawn
    <3>2. c \in Nat /\ spent <= Limit
      BY <2>3, BudgetAssumption
    <3> QED
      BY <3>1, <3>2
  <2> QED
    BY <2>1, <2>2, <2>3, StepCharges
<1>3. BudgetInv => OverdraftIsOneTurn
  BY DEF BudgetInv
<1> QED
  BY <1>1, <1>2, <1>3, PTL DEF Spec

-----------------------------------------------------------------------------
(* The least of a set of naturals, and induction, from the well-founded    *)
(* order of the finite sets: with sets in the place of predicates, because *)
(* the library's own theorems take an operator, which no prover here can   *)
(* instantiate.                                                            *)

\* A set of naturals that is not empty has a least member.
LEMMA LeastNat ==
    ASSUME NEW S \in SUBSET Nat, S # {}
    PROVE  \E x \in S : \A y \in S : x <= y
<1> DEFINE T == {0..x : x \in S}
           R == StrictSubsetOrdering(Nat)
<1>1. IsWellFoundedOn(R, FiniteSubsetsOf(Nat))
  BY FS_StrictSubsetOrderingWellFounded
<1>2. T \subseteq FiniteSubsetsOf(Nat)
  <2> SUFFICES ASSUME NEW x \in S
               PROVE  0..x \in FiniteSubsetsOf(Nat)
    OBVIOUS
  <2>1. x \in Int /\ 0 \in Int /\ 0..x \subseteq Nat
    OBVIOUS
  <2>2. IsFiniteSet(0..x)
    BY <2>1, FS_Interval
  <2> QED
    BY <2>1, <2>2 DEF FiniteSubsetsOf
<1>3. T # {}
  OBVIOUS
<1> HIDE DEF R, T
<1>4. PICK m \in T : \A t \in T : ~ (<<t, m>> \in R)
  BY <1>1, <1>2, <1>3, WFMin
<1>5. PICK x \in S : m = 0..x
  BY DEF T
<1>6. ASSUME NEW y \in S, y < x
      PROVE  FALSE
  <2>1. 0..y \in T
    BY DEF T
  <2>2. 0..y \subseteq 0..x /\ 0..y # 0..x
    <3>1. x \in 0..x /\ x \notin 0..y
      BY <1>6
    <3> QED
      BY <3>1, <1>6
  <2>3. <<0..y, 0..x>> \in R
    BY <2>2 DEF R, StrictSubsetOrdering
  <2> QED
    BY <2>1, <2>3, <1>4, <1>5
<1> QED
  BY <1>6

\* Induction: a set with 0 and with the successor of each member is Nat.
LEMMA SetInduction ==
    ASSUME NEW S \in SUBSET Nat, 0 \in S, \A n \in S : n + 1 \in S
    PROVE  S = Nat
<1> DEFINE T == Nat \ S
<1>1. SUFFICES ASSUME T # {}
               PROVE  FALSE
  OBVIOUS
<1>2. PICK x \in T : \A y \in T : x <= y
  BY <1>1, LeastNat
<1>3. x # 0
  OBVIOUS
<1>4. x - 1 \in Nat /\ ~(x <= x - 1)
  BY <1>3
<1>5. x - 1 \in S
  BY <1>2, <1>4
<1> QED
  BY <1>5

\* f is computed from base by more, from a on.
Computed(f, T, a, N, base, more) ==
    /\ f \in [a..N -> T]
    /\ f[a] = base
    /\ \A n \in (a + 1)..N : f[n] = more[<<f[n - 1], n>>]

\* There is such a function.
LEMMA Recursion ==
    ASSUME NEW T, NEW a \in Nat, NEW N \in Nat, a <= N, NEW base \in T,
           NEW more \in [T \X Nat -> T]
    PROVE  \E f : Computed(f, T, a, N, base, more)
<1> DEFINE Is(f, m) == /\ f \in [a..(a + m) -> T]
                       /\ f[a] = base
                       /\ \A n \in (a + 1)..(a + m) : f[n] = more[<<f[n - 1], n>>]
           Reached == {m \in Nat : \E f : Is(f, m)}
<1>1. 0 \in Reached
  <2> DEFINE f == [n \in a..(a + 0) |-> base]
  <2>1. Is(f, 0)
    OBVIOUS
  <2> HIDE DEF f, Is
  <2> QED
    BY <2>1
<1>2. ASSUME NEW m \in Reached
      PROVE  m + 1 \in Reached
  <2>1. m \in Nat
    OBVIOUS
  <2>2. PICK f : Is(f, m)
    OBVIOUS
  <2> DEFINE next == more[<<f[a + m], a + m + 1>>]
             g == [n \in a..(a + (m + 1)) |-> IF n = a + m + 1 THEN next ELSE f[n]]
  <2>3. f[a + m] \in T
    BY <2>1, <2>2
  <2>4. next \in T
    BY <2>1, <2>3
  <2>5. g \in [a..(a + (m + 1)) -> T]
    BY <2>1, <2>2, <2>4
  <2>6. g[a] = base
    BY <2>1, <2>2
  <2>7. ASSUME NEW n \in (a + 1)..(a + (m + 1))
        PROVE  g[n] = more[<<g[n - 1], n>>]
    <3>1. CASE n = a + m + 1
      <4>1. g[n] = next
        BY <3>1, <2>1
      <4>2. n - 1 = a + m /\ n - 1 # a + m + 1 /\ n - 1 \in a..(a + (m + 1))
        BY <3>1, <2>1
      <4>3. g[n - 1] = f[a + m]
        BY <4>2
      <4> QED
        BY <3>1, <4>1, <4>3
    <3>2. CASE n # a + m + 1
      <4>1. n \in (a + 1)..(a + m) /\ n \in a..(a + (m + 1))
            /\ n - 1 \in a..(a + (m + 1)) /\ n - 1 # a + m + 1
        BY <3>2, <2>1
      <4>2. g[n] = f[n] /\ g[n - 1] = f[n - 1]
        BY <4>1, <3>2
      <4> QED
        BY <4>1, <4>2, <2>2
    <3> QED
      BY <3>1, <3>2
  <2> HIDE DEF g
  <2>8. Is(g, m + 1)
    BY <2>5, <2>6, <2>7
  <2> HIDE DEF Is
  <2>9. \E h : Is(h, m + 1)
    BY <2>8
  <2> QED
    BY <2>1, <2>9
<1>3. Reached = Nat
  <2> HIDE DEF Is
  <2>1. Reached \in SUBSET Nat
    OBVIOUS
  <2> HIDE DEF Reached
  <2> QED
    BY <1>1, <1>2, <2>1, SetInduction
<1>4. N - a \in Nat /\ a + (N - a) = N
  OBVIOUS
<1>5. PICK f : Is(f, N - a)
  <2> HIDE DEF Is
  <2> QED
    BY <1>3, <1>4
<1>6. f \in [a..N -> T]
  BY <1>4, <1>5
<1>7. f[a] = base /\ \A n \in (a + 1)..N : f[n] = more[<<f[n - 1], n>>]
  BY <1>4, <1>5
<1>8. Computed(f, T, a, N, base, more)
  BY <1>6, <1>7 DEF Computed
<1> QED
  BY <1>8

-----------------------------------------------------------------------------
(* Sequences without repetition.                                           *)

\* What a sequence of a set is.
LEMMA SeqIs ==
    ASSUME NEW E, NEW s \in Seq(E)
    PROVE  /\ Len(s) \in Nat /\ DOMAIN s = 1..Len(s) /\ \A k \in 1..Len(s) : s[k] \in E
           /\ ToSet(s) \subseteq E
<1>1. Len(s) \in Nat /\ DOMAIN s = 1..Len(s) /\ \A k \in 1..Len(s) : s[k] \in E
  BY LenProperties, ElementOfSeq
<1> QED
  BY <1>1 DEF ToSet

\* The empty sequence has nothing.
LEMMA EmptyIs ==
    ToSet(<<>>) = {} /\ IsInjective(<<>>) /\ DOMAIN <<>> = {}
BY DEF ToSet, IsInjective

\* Append adds one, and repeats nothing if the one is new.
LEMMA AppendIs ==
    ASSUME NEW E, NEW s \in Seq(E), NEW e \in E
    PROVE  /\ Append(s, e) \in Seq(E) /\ ToSet(Append(s, e)) = ToSet(s) \cup {e}
           /\ IsInjective(s) /\ e \notin ToSet(s) => IsInjective(Append(s, e))
<1>1. /\ Append(s, e) \in Seq(E) /\ Len(s) \in Nat /\ DOMAIN s = 1..Len(s)
      /\ DOMAIN Append(s, e) = 1..(Len(s) + 1)
      /\ \A k \in 1..Len(s) : Append(s, e)[k] = s[k]
      /\ Append(s, e)[Len(s) + 1] = e
  BY AppendProperties, LenProperties
<1>2. ToSet(Append(s, e)) = ToSet(s) \cup {e}
  BY <1>1 DEF ToSet
<1>3. ASSUME IsInjective(s), e \notin ToSet(s)
      PROVE  IsInjective(Append(s, e))
  BY <1>1, <1>3 DEF IsInjective, ToSet
<1> QED
  BY <1>1, <1>2, <1>3

\* Concatenation.
LEMMA ConcatIs ==
    ASSUME NEW E, NEW s \in Seq(E), NEW t \in Seq(E)
    PROVE  /\ s \o t \in Seq(E) /\ ToSet(s \o t) = ToSet(s) \cup ToSet(t)
           /\ IsInjective(s) /\ IsInjective(t) /\ ToSet(s) \cap ToSet(t) = {} => IsInjective(s \o t)
<1> DEFINE c == s \o t
<1>1. /\ Len(s) \in Nat /\ DOMAIN s = 1..Len(s)
      /\ Len(t) \in Nat /\ DOMAIN t = 1..Len(t)
  BY LenProperties
<1>2. /\ c \in Seq(E) /\ DOMAIN c = 1..(Len(s) + Len(t))
      /\ \A i \in 1..(Len(s) + Len(t)) : c[i] = IF i <= Len(s) THEN s[i] ELSE t[i - Len(s)]
  BY ConcatProperties, LenProperties
<1> HIDE DEF c
<1>3. \A i \in 1..Len(s) : i \in DOMAIN c /\ c[i] = s[i]
  BY <1>1, <1>2
<1>4. \A i \in 1..Len(t) : Len(s) + i \in DOMAIN c /\ c[Len(s) + i] = t[i]
  BY <1>1, <1>2
<1>5. \A i \in DOMAIN c : \/ i \in 1..Len(s) /\ c[i] = s[i]
                          \/ i - Len(s) \in 1..Len(t) /\ c[i] = t[i - Len(s)]
  BY <1>1, <1>2
<1>6. ToSet(c) = ToSet(s) \cup ToSet(t)
  BY <1>1, <1>3, <1>4, <1>5 DEF ToSet
<1>7. ASSUME IsInjective(s), IsInjective(t), ToSet(s) \cap ToSet(t) = {},
             NEW j \in DOMAIN c, NEW k \in DOMAIN c, c[j] = c[k]
      PROVE  j = k
  <2>1. j \in Nat /\ k \in Nat
    BY <1>1, <1>2
  <2>2. CASE j \in 1..Len(s) /\ k \in 1..Len(s)
    BY <1>1, <1>3, <1>7, <2>2 DEF IsInjective
  <2>3. CASE j \notin 1..Len(s) /\ k \notin 1..Len(s)
    <3>1. /\ j - Len(s) \in 1..Len(t) /\ c[j] = t[j - Len(s)]
          /\ k - Len(s) \in 1..Len(t) /\ c[k] = t[k - Len(s)]
      BY <1>5, <2>3
    <3>2. j - Len(s) = k - Len(s)
      BY <1>1, <1>7, <3>1 DEF IsInjective
    <3> QED
      BY <1>1, <2>1, <3>2
  <2>4. ASSUME NEW x \in 1..Len(s), NEW y \in 1..Len(t)
        PROVE  s[x] # t[y]
    BY <1>1, <1>7 DEF ToSet
  <2> QED
    BY <1>5, <1>7, <2>2, <2>3, <2>4
<1>8. IsInjective(s) /\ IsInjective(t) /\ ToSet(s) \cap ToSet(t) = {} => IsInjective(c)
  BY <1>7 DEF IsInjective
<1> QED
  BY <1>2, <1>6, <1>8 DEF c

\* The two parts of a sequence that is cut.
LEMMA CutIs ==
    ASSUME NEW E, NEW s \in Seq(E), NEW n \in 0..Len(s)
    PROVE  /\ SubSeq(s, 1, n) \in Seq(E) /\ SubSeq(s, n + 1, Len(s)) \in Seq(E)
           /\ ToSet(SubSeq(s, 1, n)) \cup ToSet(SubSeq(s, n + 1, Len(s))) = ToSet(s)
           /\ IsInjective(s) =>
                /\ IsInjective(SubSeq(s, 1, n)) /\ IsInjective(SubSeq(s, n + 1, Len(s)))
                /\ ToSet(SubSeq(s, 1, n)) \cap ToSet(SubSeq(s, n + 1, Len(s))) = {}
<1> DEFINE t == SubSeq(s, 1, n)
           u == SubSeq(s, n + 1, Len(s))
<1>1. Len(s) \in Nat /\ DOMAIN s = 1..Len(s) /\ \A k \in 1..Len(s) : s[k] \in E
  BY SeqIs
<1>2. n \in Nat /\ n <= Len(s)
  BY <1>1
<1>3. t \in Seq(E) /\ DOMAIN t = 1..n /\ \A k \in 1..n : t[k] = s[k]
  <2>1. t \in Seq(E) /\ Len(t) = n /\ \A k \in 1..n : t[k] = s[k]
    <3>1. \A k \in 1..n : s[k] \in E
      BY <1>1, <1>2
    <3>2. /\ t \in Seq(E) /\ Len(t) = IF 1 <= n THEN n - 1 + 1 ELSE 0
          /\ \A k \in 1..(n - 1 + 1) : t[k] = s[1 + k - 1]
      BY <1>2, <3>1, SubSeqProperties, 1 \in Int, n \in Int
    <3> QED
      BY <1>2, <3>2
  <2> HIDE DEF t
  <2> QED
    BY <2>1, LenProperties
<1>4. u \in Seq(E) /\ DOMAIN u = 1..(Len(s) - n) /\ \A k \in 1..(Len(s) - n) : u[k] = s[k + n]
  <2>1. u \in Seq(E) /\ Len(u) = Len(s) - n /\ \A k \in 1..(Len(s) - n) : u[k] = s[k + n]
    <3>1. \A k \in (n + 1)..Len(s) : s[k] \in E
      BY <1>1, <1>2
    <3>2. n + 1 \in Int /\ Len(s) \in Int
      BY <1>1, <1>2
    <3>3. /\ u \in Seq(E)
          /\ Len(u) = IF n + 1 <= Len(s) THEN Len(s) - (n + 1) + 1 ELSE 0
          /\ \A k \in 1..(Len(s) - (n + 1) + 1) : u[k] = s[(n + 1) + k - 1]
      BY <3>1, <3>2, SubSeqProperties
    <3>4. \A k \in 1..(Len(s) - n) : k \in 1..(Len(s) - (n + 1) + 1) /\ (n + 1) + k - 1 = k + n
      BY <1>1, <1>2
    <3>5. Len(u) = Len(s) - n
      <4> HIDE DEF t, u
      <4>1. CASE n = Len(s)
        <5>1. ~(n + 1 <= Len(s)) /\ Len(s) - n = 0
          BY <1>1, <4>1
        <5> QED
          BY <3>3, <5>1
      <4>2. CASE n # Len(s)
        <5>1. n + 1 <= Len(s) /\ Len(s) - (n + 1) + 1 = Len(s) - n
          <6>1. Len(s) \in Nat
            BY <1>1
          <6> QED
            BY <1>2, <4>2, <6>1
        <5> QED
          BY <3>3, <5>1
      <4> QED
        BY <4>1, <4>2
    <3>6. \A k \in 1..(Len(s) - n) : u[k] = s[k + n]
      BY <3>3, <3>4
    <3> QED
      BY <3>3, <3>5, <3>6
  <2> HIDE DEF u
  <2> QED
    BY <2>1, LenProperties
<1> HIDE DEF t, u
<1>5. ToSet(t) \cup ToSet(u) = ToSet(s)
  <2>1. ASSUME NEW k \in 1..Len(s)
        PROVE  s[k] \in ToSet(t) \cup ToSet(u)
    <3>1. CASE k <= n
      BY <1>2, <1>3, <3>1 DEF ToSet
    <3>2. CASE ~(k <= n)
      <4>1. k - n \in 1..(Len(s) - n) /\ (k - n) + n = k
        BY <1>1, <1>2, <3>2
      <4>2. u[k - n] = s[k]
        BY <1>4, <4>1
      <4> QED
        BY <1>4, <4>1, <4>2 DEF ToSet
    <3> QED
      BY <3>1, <3>2
  <2>2. \A k \in 1..n : k \in 1..Len(s)
    BY <1>1, <1>2
  <2>3. \A k \in 1..(Len(s) - n) : k + n \in 1..Len(s)
    BY <1>1, <1>2
  <2>4. ToSet(t) \subseteq ToSet(s)
    BY <1>1, <1>3, <2>2 DEF ToSet
  <2>5. ToSet(u) \subseteq ToSet(s)
    BY <1>1, <1>4, <2>3 DEF ToSet
  <2>6. ToSet(s) \subseteq ToSet(t) \cup ToSet(u)
    <3>1. ASSUME NEW i \in ToSet(s)
          PROVE  \E k \in 1..Len(s) : i = s[k]
      BY <1>1 DEF ToSet
    <3> QED
      BY <2>1, <3>1
  <2> QED
    BY <2>4, <2>5, <2>6
<1>6. IsInjective(s) => IsInjective(t) /\ IsInjective(u) /\ ToSet(t) \cap ToSet(u) = {}
  <2> SUFFICES ASSUME IsInjective(s)
               PROVE  IsInjective(t) /\ IsInjective(u) /\ ToSet(t) \cap ToSet(u) = {}
    OBVIOUS
  <2>1. \A j, k \in 1..Len(s) : s[j] = s[k] => j = k
    BY <1>1 DEF IsInjective
  <2>2. IsInjective(t)
    BY <1>1, <1>2, <1>3, <2>1 DEF IsInjective
  <2>3. IsInjective(u)
    BY <1>1, <1>2, <1>4, <2>1 DEF IsInjective
  <2>4. ASSUME NEW j \in 1..n, NEW k \in 1..(Len(s) - n)
        PROVE  t[j] # u[k]
    BY <1>1, <1>2, <1>3, <1>4, <2>1
  <2> QED
    BY <1>3, <1>4, <2>2, <2>3, <2>4 DEF ToSet
<1> QED
  BY <1>3, <1>4, <1>5, <1>6 DEF t, u

\* Of keeps the order and drops what is not in S.
LEMMA OfIs ==
    ASSUME NEW E, NEW s \in Seq(E), NEW S
    PROVE  /\ Of(s, S) \in Seq(E) /\ ToSet(Of(s, S)) = ToSet(s) \cap S
           /\ IsInjective(s) => IsInjective(Of(s, S))
<1> DEFINE N == Len(s)
           IsOf(f) == f = [n \in 0..N |-> IF n = 0 THEN <<>>
                                          ELSE IF s[n] \in S THEN Append(f[n - 1], s[n])
                                               ELSE f[n - 1]]
           more == [p \in Seq(E) \X Nat |->
                      IF p[2] \in 1..N /\ s[p[2]] \in S THEN Append(p[1], s[p[2]]) ELSE p[1]]
<1>1. N \in Nat /\ DOMAIN s = 1..N /\ \A k \in 1..N : s[k] \in E
  BY SeqIs
<1>2. \A t \in Seq(E), n \in Nat :
        /\ more[<<t, n>>] = IF n \in 1..N /\ s[n] \in S THEN Append(t, s[n]) ELSE t
        /\ more[<<t, n>>] \in Seq(E)
  <2> SUFFICES ASSUME NEW t \in Seq(E), NEW n \in Nat
               PROVE  /\ more[<<t, n>>] = IF n \in 1..N /\ s[n] \in S THEN Append(t, s[n]) ELSE t
                      /\ more[<<t, n>>] \in Seq(E)
    OBVIOUS
  <2>1. more[<<t, n>>] = IF n \in 1..N /\ s[n] \in S THEN Append(t, s[n]) ELSE t
    OBVIOUS
  <2>2. n \in 1..N => Append(t, s[n]) \in Seq(E)
    BY <1>1, AppendProperties
  <2> QED
    BY <2>1, <2>2
<1>2a. more \in [Seq(E) \X Nat -> Seq(E)]
  <2>1. \A p \in Seq(E) \X Nat : p[2] \in 1..N => Append(p[1], s[p[2]]) \in Seq(E)
    BY <1>1, AppendProperties
  <2> QED
    BY <2>1
<1> HIDE DEF more
<1>3. PICK f : Computed(f, Seq(E), 0, N, <<>>, more)
  <2>1. 0 \in Nat /\ 0 <= N /\ <<>> \in Seq(E)
    BY <1>1
  <2> HIDE DEF N
  <2> QED
    BY <1>1, <1>2a, <2>1, Recursion
<1> HIDE DEF N
<1>3a. f \in [0..N -> Seq(E)] /\ f[0] = <<>> /\ \A n \in 1..N : f[n] = more[<<f[n - 1], n>>]
  BY <1>3 DEF Computed
<1> USE DEF N
<1>4. ASSUME NEW n \in 0..N
      PROVE  f[n] = IF n = 0 THEN <<>>
                    ELSE IF s[n] \in S THEN Append(f[n - 1], s[n]) ELSE f[n - 1]
  <2>1. CASE n = 0
    BY <1>3a, <2>1
  <2>2. CASE n # 0
    <3>1. n \in 1..N /\ n \in Nat /\ n - 1 \in 0..N
      BY <1>1, <2>2
    <3>2. f[n - 1] \in Seq(E)
      BY <1>3a, <3>1
    <3>3. f[n] = more[<<f[n - 1], n>>]
      BY <1>3a, <2>2
    <3> QED
      BY <1>2, <2>2, <3>1, <3>2, <3>3
  <2> QED
    BY <2>1, <2>2
<1>5. IsOf(f)
  <2> HIDE DEF N
  <2> QED
    BY <1>3a, <1>4
<1> DEFINE of == CHOOSE g : IsOf(g)
<1>6. IsOf(of)
  BY <1>5
<1>7. Of(s, S) = of[N]
  BY DEF Of
<1>8. \A n \in 0..N : of[n] = IF n = 0 THEN <<>>
                              ELSE IF s[n] \in S THEN Append(of[n - 1], s[n]) ELSE of[n - 1]
  <2> HIDE DEF of, N
  <2> QED
    BY <1>6
<1> HIDE DEF of, N
<1> DEFINE Good(n) == /\ of[n] \in Seq(E)
                      /\ ToSet(of[n]) = {s[i] : i \in 1..n} \cap S
                      /\ IsInjective(s) => IsInjective(of[n])
           Goods == {n \in Nat : n <= N => Good(n)}
<1>9. 0 \in Goods
  <2>1. of[0] = <<>>
    BY <1>1, <1>8
  <2>2. Good(0)
    BY <2>1, EmptyIs
  <2> QED
    BY <2>2
<1>10. ASSUME NEW n \in Goods
       PROVE  n + 1 \in Goods
  <2> SUFFICES ASSUME n + 1 <= N
               PROVE  Good(n + 1)
    OBVIOUS
  <2>1. n \in Nat /\ Good(n)
    <3> HIDE DEF Good
    <3>1. n \in Nat /\ n <= N
      BY <1>1
    <3> QED
      BY <3>1
  <2>2. n + 1 \in 0..N /\ n + 1 # 0 /\ (n + 1) - 1 = n /\ n + 1 \in 1..N
    BY <2>1, <1>1
  <2>3. s[n + 1] \in E
    BY <1>1, <2>2
  <2>4. {s[i] : i \in 1..(n + 1)} = {s[i] : i \in 1..n} \cup {s[n + 1]}
    BY <2>1
  <2>5. CASE s[n + 1] \in S
    <3>1. of[n + 1] = Append(of[n], s[n + 1])
      BY <1>8, <2>2, <2>5
    <3>2. IsInjective(s) => s[n + 1] \notin {s[i] : i \in 1..n}
      <4> SUFFICES ASSUME IsInjective(s), NEW i \in 1..n, s[n + 1] = s[i]
                   PROVE  FALSE
        OBVIOUS
      <4> HIDE DEF Good
      <4>1. i \in 1..N /\ n + 1 # i
        BY <1>1, <2>1, <2>2
      <4>2. i = n + 1
        BY <1>1, <2>2, <4>1 DEF IsInjective
      <4> QED
        BY <4>1, <4>2
    <3> QED
      BY <2>1, <2>3, <2>4, <2>5, <3>1, <3>2, AppendIs
  <2>6. CASE s[n + 1] \notin S
    <3>1. of[n + 1] = of[n]
      BY <1>8, <2>2, <2>6
    <3> QED
      BY <2>1, <2>4, <2>6, <3>1
  <2> QED
    BY <2>5, <2>6
<1>11. Goods = Nat
  <2> HIDE DEF Good
  <2>1. Goods \in SUBSET Nat
    OBVIOUS
  <2> HIDE DEF Goods
  <2> QED
    BY <1>9, <1>10, <2>1, SetInduction
<1>12. Good(N)
  <2> HIDE DEF Good
  <2>1. N \in Goods
    BY <1>1, <1>11
  <2> QED
    BY <2>1
<1> QED
  BY <1>1, <1>7, <1>12 DEF ToSet

\* What Without leaves is the rest, in order and as often.
LEMMA WithoutIs ==
    ASSUME NEW E, NEW s \in Seq(E), NEW S
    PROVE  /\ Without(s, S) \in Seq(E) /\ ToSet(Without(s, S)) = ToSet(s) \ S
           /\ IsInjective(s) => IsInjective(Without(s, S))
<1>1. /\ Without(s, S) \in Seq(E) /\ ToSet(Without(s, S)) = ToSet(s) \cap (ToSet(s) \ S)
      /\ IsInjective(s) => IsInjective(Without(s, S))
  BY OfIs DEF Without
<1> QED
  BY <1>1

-----------------------------------------------------------------------------
(* Sequences of sequences: queues of batches.                              *)

Members(q) == UNION {ToSet(q[b]) : b \in DOMAIN q}
Apart(q) == \A a, b \in DOMAIN q : a # b => ToSet(q[a]) \cap ToSet(q[b]) = {}
Neat(q) == (\A b \in DOMAIN q : IsInjective(q[b])) /\ Apart(q)

\* At p, s has what the sequence g[p] of q has at h[p].
Locates(g, h, q, s) ==
    /\ \A p \in DOMAIN s : /\ g[p] \in DOMAIN q /\ h[p] \in DOMAIN q[g[p]]
                           /\ s[p] = q[g[p]][h[p]]
    /\ \A p, r \in DOMAIN s : g[p] = g[r] /\ h[p] = h[r] => p = r
    /\ \A a \in DOMAIN q : \A j \in DOMAIN q[a] : \E p \in DOMAIN s : g[p] = a /\ h[p] = j

\* One more sequence at the end.
LEMMA LocatesMore ==
    ASSUME NEW E, NEW q \in Seq(Seq(E)), NEW n \in Nat, n + 1 <= Len(q), NEW s \in Seq(E),
           NEW g, NEW h, Locates(g, h, SubSeq(q, 1, n), s)
    PROVE  \E g1, h1 : Locates(g1, h1, SubSeq(q, 1, n + 1), s \o q[n + 1])
<1> DEFINE t == q[n + 1]
           u == s \o t
           M == Len(s)
           K == Len(t)
           g1 == [p \in 1..(M + K) |-> IF p <= M THEN g[p] ELSE n + 1]
           h1 == [p \in 1..(M + K) |-> IF p <= M THEN h[p] ELSE p - M]
           old == SubSeq(q, 1, n)
           new == SubSeq(q, 1, n + 1)
<1>1. Len(q) \in Nat /\ DOMAIN q = 1..Len(q) /\ \A k \in 1..Len(q) : q[k] \in Seq(E)
  BY SeqIs
<1>2. n + 1 \in 1..Len(q)
  BY <1>1
<1>3. t \in Seq(E)
  BY <1>1, <1>2
<1>4. M \in Nat /\ DOMAIN s = 1..M /\ K \in Nat /\ DOMAIN t = 1..K
  BY <1>3, SeqIs
<1>5. /\ DOMAIN u = 1..(M + K)
      /\ \A i \in 1..(M + K) : u[i] = IF i <= M THEN s[i] ELSE t[i - M]
  <2> HIDE DEF t
  <2> QED
    BY <1>3, ConcatProperties, LenProperties
<1>6. /\ DOMAIN old = 1..n /\ \A k \in 1..n : old[k] = q[k]
      /\ DOMAIN new = 1..(n + 1) /\ \A k \in 1..(n + 1) : new[k] = q[k]
  <2>1. \A m \in 0..Len(q) : DOMAIN SubSeq(q, 1, m) = 1..m /\ \A k \in 1..m : SubSeq(q, 1, m)[k] = q[k]
    BY <1>1
  <2>2. n \in 0..Len(q) /\ n + 1 \in 0..Len(q)
    BY <1>2
  <2> QED
    BY <2>1, <2>2
<1> HIDE DEF t, u, M, K, old, new
<1>7. /\ \A p \in 1..M : p \in 1..(M + K) /\ g1[p] = g[p] /\ h1[p] = h[p]
      /\ \A j \in 1..K : M + j \in 1..(M + K) /\ g1[M + j] = n + 1 /\ h1[M + j] = j
      /\ \A p \in 1..(M + K) :
           p \notin 1..M => p - M \in 1..K /\ g1[p] = n + 1 /\ h1[p] = p - M
  <2>1. M \in Nat /\ K \in Nat
    BY <1>4
  <2>2. \A p \in 1..M : p \in 1..(M + K) /\ p <= M
    BY <2>1
  <2>3. \A j \in 1..K : M + j \in 1..(M + K) /\ ~(M + j <= M) /\ (M + j) - M = j
    BY <2>1
  <2>4. \A p \in 1..(M + K) : p \notin 1..M => p - M \in 1..K /\ ~(p <= M)
    BY <2>1
  <2> HIDE DEF M, K
  <2>5. \A p \in 1..(M + K) : /\ g1[p] = IF p <= M THEN g[p] ELSE n + 1
                              /\ h1[p] = IF p <= M THEN h[p] ELSE p - M
    OBVIOUS
  <2> HIDE DEF g1, h1
  <2>6. \A p \in 1..M : p \in 1..(M + K) /\ g1[p] = g[p] /\ h1[p] = h[p]
    BY <2>2, <2>5
  <2>7. \A j \in 1..K : M + j \in 1..(M + K) /\ g1[M + j] = n + 1 /\ h1[M + j] = j
    BY <2>3, <2>5
  <2>8. \A p \in 1..(M + K) :
          p \notin 1..M => p - M \in 1..K /\ g1[p] = n + 1 /\ h1[p] = p - M
    BY <2>4, <2>5
  <2> QED
    BY <2>6, <2>7, <2>8
<1> HIDE DEF g1, h1
<1>8. /\ \A p \in 1..M : g[p] \in 1..n /\ h[p] \in DOMAIN q[g[p]] /\ s[p] = q[g[p]][h[p]]
      /\ \A p, r \in 1..M : g[p] = g[r] /\ h[p] = h[r] => p = r
      /\ \A a \in 1..n : \A j \in DOMAIN q[a] : \E p \in 1..M : g[p] = a /\ h[p] = j
  <2>1. Locates(g, h, old, s)
    BY DEF old
  <2>2. /\ \A p \in 1..M : /\ g[p] \in 1..n /\ h[p] \in DOMAIN old[g[p]]
                           /\ s[p] = old[g[p]][h[p]]
        /\ \A p, r \in 1..M : g[p] = g[r] /\ h[p] = h[r] => p = r
        /\ \A a \in 1..n : \A j \in DOMAIN old[a] : \E p \in 1..M : g[p] = a /\ h[p] = j
    <3>1. DOMAIN s = 1..M /\ DOMAIN old = 1..n
      BY <1>4, <1>6
    <3>2. \A p \in DOMAIN s : /\ g[p] \in DOMAIN old /\ h[p] \in DOMAIN old[g[p]]
                              /\ s[p] = old[g[p]][h[p]]
      BY <2>1 DEF Locates
    <3>3. \A p, r \in DOMAIN s : g[p] = g[r] /\ h[p] = h[r] => p = r
      BY <2>1 DEF Locates
    <3>4. \A a \in DOMAIN old : \A j \in DOMAIN old[a] : \E p \in DOMAIN s : g[p] = a /\ h[p] = j
      BY <2>1, Zenon DEF Locates
    <3>5. ASSUME NEW a \in 1..n, NEW j \in DOMAIN old[a]
          PROVE  \E p \in 1..M : g[p] = a /\ h[p] = j
      <4>1. a \in DOMAIN old
        BY <3>1
      <4>2. PICK p \in DOMAIN s : g[p] = a /\ h[p] = j
        BY <3>4, <4>1
      <4>3. p \in 1..M
        BY <3>1
      <4> QED
        BY <4>2, <4>3
    <3>6. \A p \in 1..M : /\ g[p] \in 1..n /\ h[p] \in DOMAIN old[g[p]]
                          /\ s[p] = old[g[p]][h[p]]
      BY <3>1, <3>2
    <3>7. \A p, r \in 1..M : g[p] = g[r] /\ h[p] = h[r] => p = r
      BY <3>1, <3>3
    <3> QED
      BY <3>5, <3>6, <3>7
  <2>3. \A k \in 1..n : old[k] = q[k]
    BY <1>6
  <2>4. ASSUME NEW p \in 1..M
        PROVE  g[p] \in 1..n /\ h[p] \in DOMAIN q[g[p]] /\ s[p] = q[g[p]][h[p]]
    <3>1. g[p] \in 1..n /\ h[p] \in DOMAIN old[g[p]] /\ s[p] = old[g[p]][h[p]]
      BY <2>2
    <3> QED
      BY <2>3, <3>1
  <2>5. ASSUME NEW a \in 1..n, NEW j \in DOMAIN q[a]
        PROVE  \E p \in 1..M : g[p] = a /\ h[p] = j
    <3>1. j \in DOMAIN old[a]
      BY <2>3
    <3> QED
      BY <2>2, <3>1
  <2>6. \A p, r \in 1..M : g[p] = g[r] /\ h[p] = h[r] => p = r
    BY <2>2
  <2> QED
    BY <2>4, <2>5, <2>6
<1>9. ASSUME NEW p \in 1..(M + K)
      PROVE  g1[p] \in 1..(n + 1) /\ h1[p] \in DOMAIN q[g1[p]] /\ u[p] = q[g1[p]][h1[p]]
  <2>1. CASE p \in 1..M
    <3>1. g1[p] = g[p] /\ h1[p] = h[p] /\ u[p] = s[p] /\ g[p] \in 1..n
      BY <2>1, <1>4, <1>5, <1>7, <1>8
    <3>2. g[p] \in 1..(n + 1)
      BY <3>1
    <3> QED
      BY <2>1, <3>1, <3>2, <1>8
  <2>2. CASE p \notin 1..M
    <3>1. p - M \in 1..K /\ g1[p] = n + 1 /\ h1[p] = p - M
      BY <2>2, <1>7
    <3>2. u[p] = t[p - M] /\ n + 1 \in 1..(n + 1)
      BY <2>2, <1>4, <1>5
    <3> QED
      BY <3>1, <3>2, <1>4 DEF t
  <2> QED
    BY <2>1, <2>2
<1>10. ASSUME NEW p \in 1..(M + K), NEW r \in 1..(M + K), g1[p] = g1[r], h1[p] = h1[r]
       PROVE  p = r
  <2>1. \A x \in 1..M : g1[x] # n + 1
    <3>1. \A x \in 1..M : g1[x] \in 1..n
      BY <1>7, <1>8
    <3> QED
      BY <3>1
  <2>2. CASE p \in 1..M /\ r \in 1..M
    BY <2>2, <1>7, <1>8, <1>10
  <2>3. CASE p \notin 1..M /\ r \notin 1..M
    <3>1. p - M = r - M
      BY <2>3, <1>7, <1>10
    <3> QED
      BY <3>1, <1>4
  <2>4. CASE p \in 1..M /\ r \notin 1..M
    BY <2>1, <2>4, <1>7, <1>10
  <2>5. CASE p \notin 1..M /\ r \in 1..M
    BY <2>1, <2>5, <1>7, <1>10
  <2> QED
    BY <2>2, <2>3, <2>4, <2>5
<1>11. ASSUME NEW a \in 1..(n + 1), NEW j \in DOMAIN q[a]
       PROVE  \E p \in 1..(M + K) : g1[p] = a /\ h1[p] = j
  <2>1. CASE a \in 1..n
    <3>1. PICK p \in 1..M : g[p] = a /\ h[p] = j
      BY <2>1, <1>8
    <3>2. p \in 1..(M + K) /\ g1[p] = a /\ h1[p] = j
      BY <3>1, <1>7
    <3> QED
      BY <3>2
  <2>2. CASE a \notin 1..n
    <3>1. a = n + 1
      BY <2>2
    <3>2. j \in 1..K
      BY <3>1, <1>4 DEF t
    <3> QED
      BY <3>1, <3>2, <1>7
  <2> QED
    BY <2>1, <2>2
<1>12. Locates(g1, h1, new, u)
  <2>1. DOMAIN u = 1..(M + K) /\ DOMAIN new = 1..(n + 1) /\ \A k \in 1..(n + 1) : new[k] = q[k]
    BY <1>5, <1>6
  <2>2. \A p \in DOMAIN u : /\ g1[p] \in DOMAIN new /\ h1[p] \in DOMAIN new[g1[p]]
                            /\ u[p] = new[g1[p]][h1[p]]
    BY <1>9, <2>1
  <2>3. \A p, r \in DOMAIN u : g1[p] = g1[r] /\ h1[p] = h1[r] => p = r
    BY <1>10, <2>1
  <2>4. \A a \in DOMAIN new : \A j \in DOMAIN new[a] : \E p \in DOMAIN u : g1[p] = a /\ h1[p] = j
    <3> SUFFICES ASSUME NEW a \in DOMAIN new, NEW j \in DOMAIN new[a]
                 PROVE  \E p \in DOMAIN u : g1[p] = a /\ h1[p] = j
      OBVIOUS
    <3>1. a \in 1..(n + 1) /\ j \in DOMAIN q[a]
      BY <2>1
    <3>2. PICK p \in 1..(M + K) : g1[p] = a /\ h1[p] = j
      BY <1>11, <3>1
    <3> QED
      BY <2>1, <3>2
  <2> QED
    BY <2>2, <2>3, <2>4 DEF Locates
<1>13. \E g2, h2 : Locates(g2, h2, new, u)
  BY <1>12
<1> QED
  BY <1>13 DEF new, u, t

\* A flattened sequence has every place of its sequences, once.
LEMMA FlattenLocates ==
    ASSUME NEW E, NEW q \in Seq(Seq(E))
    PROVE  /\ FlattenSeq(q) \in Seq(E)
           /\ \E g, h : Locates(g, h, q, FlattenSeq(q))
<1> DEFINE N == Len(q)
<1>1. N \in Nat /\ DOMAIN q = 1..N /\ \A k \in 1..N : q[k] \in Seq(E)
  BY SeqIs
<1>2. CASE N = 0
  <2>1. q = <<>>
    BY <1>1, <1>2
  <2>2. FlattenSeq(q) = <<>>
    BY <2>1 DEF FlattenSeq
  <2>3. Locates(<<>>, <<>>, q, <<>>)
    BY <2>1 DEF Locates
  <2>4. \E g, h : Locates(g, h, q, <<>>)
    BY <2>3
  <2> QED
    BY <2>2, <2>4
<1>3. CASE N # 0
  <2> DEFINE IsFlat(f) == f = [i \in 1..N |-> IF i = 1 THEN q[i] ELSE f[i - 1] \o q[i]]
             more == [p \in Seq(E) \X Nat |-> IF p[2] \in 1..N THEN p[1] \o q[p[2]] ELSE p[1]]
  <2>1. \A t \in Seq(E), n \in 1..N : more[<<t, n>>] = t \o q[n]
    <3> SUFFICES ASSUME NEW t \in Seq(E), NEW n \in 1..N
                 PROVE  more[<<t, n>>] = t \o q[n]
      OBVIOUS
    <3> HIDE DEF N
    <3>1. <<t, n>> \in Seq(E) \X Nat
      BY <1>1
    <3> QED
      BY <3>1
  <2>2. more \in [Seq(E) \X Nat -> Seq(E)]
    <3>1. \A p \in Seq(E) \X Nat : p[2] \in 1..N => p[1] \o q[p[2]] \in Seq(E)
      BY <1>1, ConcatProperties
    <3> QED
      BY <3>1
  <2> HIDE DEF more
  <2>3. q[1] \in Seq(E) /\ 1 \in Nat /\ 1 <= N
    BY <1>1, <1>3
  <2>4. PICK f : Computed(f, Seq(E), 1, N, q[1], more)
    <3> HIDE DEF N
    <3> QED
      BY <1>1, <2>2, <2>3, Recursion
  <2>5. /\ f \in [1..N -> Seq(E)] /\ f[1] = q[1]
        /\ \A n \in 2..N : f[n] = more[<<f[n - 1], n>>]
    <3> HIDE DEF N
    <3> QED
      BY <2>4 DEF Computed
  <2>6. ASSUME NEW n \in 1..N
        PROVE  f[n] = IF n = 1 THEN q[n] ELSE f[n - 1] \o q[n]
    <3>1. CASE n = 1
      BY <2>5, <3>1
    <3>2. CASE n # 1
      <4>1. n \in 2..N /\ n - 1 \in 1..N
        BY <1>1, <3>2
      <4>2. f[n - 1] \in Seq(E)
        BY <2>5, <4>1
      <4> QED
        BY <2>1, <2>5, <3>2, <4>1, <4>2
    <3> QED
      BY <3>1, <3>2
  <2>7. IsFlat(f)
    <3> HIDE DEF N
    <3> QED
      BY <2>5, <2>6
  <2> DEFINE flatten == CHOOSE e : IsFlat(e)
  <2>8. IsFlat(flatten)
    BY <2>7
  <2>9. FlattenSeq(q) = flatten[N]
    BY <1>3 DEF FlattenSeq
  <2>10. \A n \in 1..N : flatten[n] = IF n = 1 THEN q[n] ELSE flatten[n - 1] \o q[n]
    <3> HIDE DEF flatten, N
    <3> QED
      BY <2>8
  <2> HIDE DEF flatten, N
  <2> DEFINE Good(n) == /\ flatten[n] \in Seq(E)
                        /\ \E g, h : Locates(g, h, SubSeq(q, 1, n), flatten[n])
             Goods == {n \in Nat : n + 1 <= N => Good(n + 1)}
  <2>11. 0 \in Goods
    <3>1. flatten[1] = q[1] /\ 0 + 1 = 1
      BY <2>3, <2>10
    <3> DEFINE s == q[1]
               g == [p \in DOMAIN s |-> 1]
               h == [p \in DOMAIN s |-> p]
               one == SubSeq(q, 1, 1)
    <3>2. DOMAIN one = {1} /\ one[1] = s
      BY <1>1, <2>3 DEF N
    <3> HIDE DEF one, s
    <3>3. Locates(g, h, one, s)
      BY <3>2 DEF Locates
    <3> HIDE DEF g, h
    <3>4. \E g1, h1 : Locates(g1, h1, one, s)
      BY <3>3
    <3>5. Good(1)
      BY <2>3, <3>1, <3>4 DEF one, s
    <3> HIDE DEF Good
    <3> QED
      BY <3>1, <3>5
  <2>12. ASSUME NEW n \in Goods
         PROVE  n + 1 \in Goods
    <3> SUFFICES ASSUME (n + 1) + 1 <= N
                 PROVE  Good((n + 1) + 1)
      OBVIOUS
    <3> DEFINE m == n + 1
    <3>1. m \in Nat /\ Good(m) /\ m + 1 <= N
      <4> HIDE DEF Good
      <4>1. n \in Nat /\ n + 1 <= N
        BY <1>1
      <4> QED
        BY <4>1
    <3> HIDE DEF m
    <3>2. flatten[m + 1] = flatten[m] \o q[m + 1]
      <4> HIDE DEF Good
      <4>1. m + 1 \in 1..N /\ m + 1 # 1 /\ (m + 1) - 1 = m
        BY <1>1, <3>1 DEF m
      <4> QED
        BY <2>10, <4>1
    <3>3. PICK g, h : Locates(g, h, SubSeq(q, 1, m), flatten[m])
      BY <3>1
    <3>4. flatten[m] \in Seq(E) /\ q[m + 1] \in Seq(E)
      <4>1. m + 1 \in 1..N
        <5> HIDE DEF Good
        <5> QED
          BY <1>1, <3>1
      <4> QED
        BY <1>1, <3>1, <4>1
    <3>5. \E g1, h1 : Locates(g1, h1, SubSeq(q, 1, m + 1), flatten[m] \o q[m + 1])
      <4>1. m \in Nat /\ m + 1 <= Len(q)
        <5> HIDE DEF Good
        <5> QED
          BY <3>1 DEF N
      <4> QED
        BY <3>3, <3>4, <4>1, LocatesMore
    <3>6. flatten[m + 1] \in Seq(E)
      BY <3>2, <3>4, ConcatProperties
    <3>7. Good(m + 1)
      BY <3>2, <3>5, <3>6
    <3> HIDE DEF Good
    <3> QED
      BY <3>7 DEF m
  <2>13. Goods = Nat
    <3> HIDE DEF Good
    <3>1. Goods \in SUBSET Nat
      OBVIOUS
    <3> HIDE DEF Goods
    <3> QED
      BY <2>11, <2>12, <3>1, SetInduction
  <2>14. Good(N)
    <3> HIDE DEF Good
    <3>1. N - 1 \in Nat /\ (N - 1) + 1 = N
      <4>1. N \in Nat
        BY <1>1
      <4> QED
        BY <1>3, <4>1
    <3>2. N - 1 \in Goods
      BY <2>13, <3>1
    <3>3. N <= N
      BY <1>1
    <3> QED
      BY <3>1, <3>2, <3>3
  <2>15. SubSeq(q, 1, N) = q
    BY SubSeqFull DEF N
  <2> QED
    BY <2>9, <2>14, <2>15
<1> QED
  BY <1>2, <1>3

\* A flattened queue.
LEMMA FlattenIs ==
    ASSUME NEW E, NEW q \in Seq(Seq(E))
    PROVE  /\ FlattenSeq(q) \in Seq(E) /\ ToSet(FlattenSeq(q)) = Members(q)
           /\ Neat(q) => IsInjective(FlattenSeq(q))
<1> DEFINE s == FlattenSeq(q)
<1>1. s \in Seq(E)
  BY FlattenLocates
<1>2. PICK g, h : Locates(g, h, q, s)
  BY FlattenLocates
<1> HIDE DEF s
<1>3. ToSet(s) = Members(q)
  <2>1. ASSUME NEW p \in DOMAIN s
        PROVE  s[p] \in Members(q)
    <3>1. g[p] \in DOMAIN q /\ h[p] \in DOMAIN q[g[p]] /\ s[p] = q[g[p]][h[p]]
      BY <1>2 DEF Locates
    <3>2. s[p] \in ToSet(q[g[p]])
      BY <3>1 DEF ToSet
    <3> QED
      BY <3>1, <3>2 DEF Members
  <2>2. ASSUME NEW e \in Members(q)
        PROVE  e \in ToSet(s)
    <3>1. PICK a \in DOMAIN q : e \in ToSet(q[a])
      BY DEF Members
    <3>2. PICK j \in DOMAIN q[a] : e = q[a][j]
      BY <3>1 DEF ToSet
    <3>3. PICK p \in DOMAIN s : g[p] = a /\ h[p] = j
      BY <1>2, <3>2 DEF Locates
    <3>4. s[p] = e
      BY <1>2, <3>2, <3>3 DEF Locates
    <3> QED
      BY <3>4 DEF ToSet
  <2> QED
    BY <2>1, <2>2 DEF ToSet
<1>4. ASSUME Neat(q)
      PROVE  IsInjective(s)
  <2> SUFFICES ASSUME NEW p \in DOMAIN s, NEW r \in DOMAIN s, s[p] = s[r]
               PROVE  p = r
    BY DEF IsInjective
  <2>1. /\ g[p] \in DOMAIN q /\ h[p] \in DOMAIN q[g[p]] /\ s[p] = q[g[p]][h[p]]
        /\ g[r] \in DOMAIN q /\ h[r] \in DOMAIN q[g[r]] /\ s[r] = q[g[r]][h[r]]
    BY <1>2 DEF Locates
  <2>2. g[p] = g[r]
    BY <1>4, <2>1 DEF Neat, Apart, ToSet
  <2>3. h[p] = h[r]
    BY <1>4, <2>1, <2>2 DEF Neat, IsInjective
  <2> QED
    BY <1>2, <2>2, <2>3 DEF Locates
<1> QED
  BY <1>1, <1>3, <1>4 DEF s

\* Queues that are put one behind the other.
LEMMA FlattenNeat ==
    ASSUME NEW E, NEW qs \in Seq(Seq(Seq(E)))
    PROVE  /\ FlattenSeq(qs) \in Seq(Seq(E))
           /\ Members(FlattenSeq(qs)) = UNION {Members(qs[a]) : a \in DOMAIN qs}
           /\ /\ \A a \in DOMAIN qs : Neat(qs[a])
              /\ \A a, b \in DOMAIN qs : a # b => Members(qs[a]) \cap Members(qs[b]) = {}
              => Neat(FlattenSeq(qs))
<1> DEFINE q == FlattenSeq(qs)
<1>1. q \in Seq(Seq(E))
  BY FlattenLocates
<1>2. PICK g, h : Locates(g, h, qs, q)
  BY FlattenLocates
<1> HIDE DEF q
<1>3. Members(q) = UNION {Members(qs[a]) : a \in DOMAIN qs}
  <2>1. ASSUME NEW e \in Members(q)
        PROVE  \E a \in DOMAIN qs : e \in Members(qs[a])
    <3>1. PICK p \in DOMAIN q : e \in ToSet(q[p])
      BY DEF Members
    <3>2. g[p] \in DOMAIN qs /\ h[p] \in DOMAIN qs[g[p]] /\ q[p] = qs[g[p]][h[p]]
      BY <1>2 DEF Locates
    <3> QED
      BY <3>1, <3>2 DEF Members
  <2>2. ASSUME NEW a \in DOMAIN qs, NEW e \in Members(qs[a])
        PROVE  e \in Members(q)
    <3>1. PICK j \in DOMAIN qs[a] : e \in ToSet(qs[a][j])
      BY DEF Members
    <3>2. PICK p \in DOMAIN q : g[p] = a /\ h[p] = j
      BY <1>2 DEF Locates
    <3>3. q[p] = qs[a][j]
      BY <1>2, <3>2 DEF Locates
    <3> QED
      BY <3>1, <3>3 DEF Members
  <2> QED
    BY <2>1, <2>2
<1>4. ASSUME \A a \in DOMAIN qs : Neat(qs[a]),
             \A a, b \in DOMAIN qs : a # b => Members(qs[a]) \cap Members(qs[b]) = {}
      PROVE  Neat(q)
  <2>1. \A p \in DOMAIN q : g[p] \in DOMAIN qs /\ h[p] \in DOMAIN qs[g[p]] /\ q[p] = qs[g[p]][h[p]]
    BY <1>2 DEF Locates
  <2>2. \A p \in DOMAIN q : IsInjective(q[p])
    BY <1>4, <2>1 DEF Neat
  <2>3. ASSUME NEW p \in DOMAIN q, NEW r \in DOMAIN q, p # r
        PROVE  ToSet(q[p]) \cap ToSet(q[r]) = {}
    <3>1. CASE g[p] = g[r]
      <4>1. h[p] # h[r]
        BY <1>2, <2>3, <3>1 DEF Locates
      <4>2. ToSet(qs[g[p]][h[p]]) \cap ToSet(qs[g[p]][h[r]]) = {}
        BY <1>4, <2>1, <3>1, <4>1 DEF Neat, Apart
      <4> QED
        BY <2>1, <3>1, <4>2
    <3>2. CASE g[p] # g[r]
      <4>1. Members(qs[g[p]]) \cap Members(qs[g[r]]) = {}
        BY <1>4, <2>1, <3>2
      <4>2. ToSet(q[p]) \subseteq Members(qs[g[p]]) /\ ToSet(q[r]) \subseteq Members(qs[g[r]])
        BY <2>1 DEF Members
      <4> QED
        BY <4>1, <4>2
    <3> QED
      BY <3>1, <3>2
  <2> QED
    BY <2>2, <2>3 DEF Neat, Apart
<1> QED
  BY <1>1, <1>3, <1>4 DEF q

-----------------------------------------------------------------------------
(* The batches of a foreach.                                               *)

\* The parts of a queue are sequences.
LEMMA QueueIs ==
    ASSUME NEW E, NEW q \in Seq(Seq(E))
    PROVE  /\ Len(q) \in Nat /\ DOMAIN q = 1..Len(q) /\ \A b \in DOMAIN q : q[b] \in Seq(E)
           /\ Members(q) \subseteq E
<1>1. Len(q) \in Nat /\ DOMAIN q = 1..Len(q) /\ \A b \in DOMAIN q : q[b] \in Seq(E)
  BY SeqIs
<1>2. \A b \in DOMAIN q : ToSet(q[b]) \subseteq E
  BY <1>1, SeqIs
<1> QED
  BY <1>1, <1>2 DEF Members

\* Batches of one size begin and end where this says, in steps of that size.
LEMMA ChunksMeet ==
    ASSUME NEW L \in Nat, NEW size \in Nat \ {0}
    PROVE  LET C == (L + size - 1) \div size
               Hi(k) == IF k * size < L THEN k * size ELSE L
           IN /\ C \in Nat
              /\ \A k \in 1..C : /\ (k - 1) * size \in Nat /\ Hi(k) \in Nat
                                 /\ (k - 1) * size <= Hi(k) /\ Hi(k) <= L
              /\ \A n \in 1..L : \E k \in 1..C : (k - 1) * size < n /\ n <= Hi(k)
              /\ \A j, k \in 1..C : j < k => Hi(j) <= (k - 1) * size
<1> DEFINE C == (L + size - 1) \div size
           Hi(k) == IF k * size < L THEN k * size ELSE L
<1>1. C \in Nat /\ C * size <= L + size - 1 /\ L + size - 1 < C * size + size
  OBVIOUS
<1> HIDE DEF C
<1>2. ASSUME NEW k \in 1..C
      PROVE  /\ (k - 1) * size \in Nat /\ Hi(k) \in Nat
             /\ (k - 1) * size <= Hi(k) /\ Hi(k) <= L
  <2>1. k \in Nat /\ k - 1 \in Nat /\ k <= C
    BY <1>1
  <2>2. k * size \in Nat /\ (k - 1) * size \in Nat /\ (k - 1) * size = k * size - size
    BY <2>1
  <2>3. k * size <= C * size /\ C * size \in Nat
    BY <1>1, <2>1
  <2>4. (k - 1) * size < L
    BY <1>1, <2>2, <2>3
  <2> QED
    BY <2>2, <2>4
<1>3. ASSUME NEW n \in 1..L
      PROVE  \E k \in 1..C : (k - 1) * size < n /\ n <= Hi(k)
  <2> DEFINE d == (n - 1) \div size
  <2>1. n \in Nat /\ n - 1 \in Nat /\ n <= L
    OBVIOUS
  <2>2. d \in Nat /\ d * size <= n - 1 /\ n - 1 < d * size + size
    BY <2>1
  <2> HIDE DEF d
  <2>3. d * size < C * size
    BY <1>1, <2>1, <2>2
  <2>4. d < C
    BY <1>1, <2>2, <2>3
  <2>5. d + 1 \in 1..C /\ (d + 1) - 1 = d /\ (d + 1) * size = d * size + size
    BY <1>1, <2>2, <2>4
  <2>6. d * size \in Nat /\ (d + 1) * size \in Nat
    BY <2>2
  <2>7. n <= Hi(d + 1)
    BY <2>1, <2>2, <2>5, <2>6
  <2>8. ((d + 1) - 1) * size < n
    BY <2>1, <2>2, <2>5, <2>6
  <2> QED
    BY <2>5, <2>7, <2>8
<1>4. ASSUME NEW j \in 1..C, NEW k \in 1..C, j < k
      PROVE  Hi(j) <= (k - 1) * size
  <2>1. j \in Nat /\ k \in Nat /\ k - 1 \in Nat /\ j <= k - 1
    BY <1>1, <1>4
  <2>2. j * size <= (k - 1) * size /\ j * size \in Nat /\ (k - 1) * size \in Nat
    BY <2>1
  <2> QED
    BY <2>2
<1> QED
  BY <1>1, <1>2, <1>3, <1>4 DEF C

\* chunk(): the batches have what was cut, in one batch each.
LEMMA ChunkIs ==
    ASSUME NEW E, NEW s \in Seq(E), NEW size \in Nat \ {0}
    PROVE  /\ Chunk(s, size) \in Seq(Seq(E)) /\ Members(Chunk(s, size)) = ToSet(s)
           /\ IsInjective(s) => Neat(Chunk(s, size))
<1> DEFINE L == Len(s)
           C == (L + size - 1) \div size
           Lo(k) == (k - 1) * size
           Hi(k) == IF k * size < L THEN k * size ELSE L
           batch(k) == SubSeq(s, Lo(k) + 1, Hi(k))
           q == Chunk(s, size)
<1>1. L \in Nat /\ DOMAIN s = 1..L /\ \A k \in 1..L : s[k] \in E
  BY SeqIs
<1>2. q = [k \in 1..C |-> batch(k)]
  BY DEF Chunk
<1>3. /\ C \in Nat
      /\ \A k \in 1..C : Lo(k) \in Nat /\ Hi(k) \in Nat /\ Lo(k) <= Hi(k) /\ Hi(k) <= L
      /\ \A n \in 1..L : \E k \in 1..C : Lo(k) < n /\ n <= Hi(k)
      /\ \A j, k \in 1..C : j < k => Hi(j) <= Lo(k)
  <2>1. L \in Nat
    BY <1>1
  <2> HIDE DEF L
  <2> QED
    BY <2>1, ChunksMeet
<1> HIDE DEF L, C, Lo, Hi, q
<1>4. ASSUME NEW k \in 1..C
      PROVE  /\ batch(k) \in Seq(E) /\ DOMAIN batch(k) = 1..(Hi(k) - Lo(k))
             /\ \A i \in 1..(Hi(k) - Lo(k)) : /\ batch(k)[i] = s[Lo(k) + i]
                                              /\ Lo(k) + i \in 1..L /\ Lo(k) + i <= Hi(k)
  <2>1. Lo(k) \in Nat /\ Hi(k) \in Nat /\ Lo(k) <= Hi(k) /\ Hi(k) <= L
    BY <1>3
  <2> DEFINE m == Lo(k) + 1
             n == Hi(k)
             b == SubSeq(s, m, n)
  <2>2. m \in Int /\ n \in Int /\ n - m + 1 = Hi(k) - Lo(k)
        /\ (m <= n => n - m + 1 = Hi(k) - Lo(k)) /\ (~(m <= n) => Hi(k) - Lo(k) = 0)
    BY <2>1
  <2>3. \A i \in m..n : i \in 1..L
    <3>1. L \in Nat
      BY <1>1
    <3> QED
      BY <2>1, <3>1
  <2>4. \A i \in m..n : s[i] \in E
    BY <1>1, <2>3
  <2> HIDE DEF m, n
  <2>5. /\ b \in Seq(E) /\ Len(b) = IF m <= n THEN n - m + 1 ELSE 0
        /\ \A i \in 1..(n - m + 1) : b[i] = s[m + i - 1]
    BY <2>2, <2>4, SubSeqProperties
  <2> HIDE DEF b
  <2>6. Len(b) = Hi(k) - Lo(k)
    BY <2>2, <2>5
  <2>7. DOMAIN b = 1..(Hi(k) - Lo(k))
    BY <2>5, <2>6, LenProperties
  <2>8. ASSUME NEW i \in 1..(Hi(k) - Lo(k))
        PROVE  b[i] = s[Lo(k) + i] /\ Lo(k) + i \in 1..L /\ Lo(k) + i <= Hi(k)
    <3>1. i \in Nat /\ L \in Nat
      BY <1>1, <2>1
    <3>2. m + i - 1 = Lo(k) + i /\ i \in 1..(n - m + 1)
      BY <2>1, <2>2, <3>1 DEF m
    <3>3. b[i] = s[Lo(k) + i]
      BY <2>5, <3>2
    <3>4. Lo(k) + i \in 1..L /\ Lo(k) + i <= Hi(k)
      BY <2>1, <3>1
    <3> QED
      BY <3>3, <3>4
  <2>9. batch(k) = b
    BY DEF b, m, n
  <2> HIDE DEF batch
  <2> QED
    BY <2>5, <2>7, <2>8, <2>9
<1> HIDE DEF batch
<1>5. q \in Seq(Seq(E)) /\ DOMAIN q = 1..C /\ \A k \in 1..C : q[k] = batch(k)
  BY <1>2, <1>3, <1>4
<1>6. Members(q) = ToSet(s)
  <2>1. ASSUME NEW e \in Members(q)
        PROVE  e \in ToSet(s)
    <3>1. PICK k \in 1..C : e \in ToSet(batch(k))
      BY <1>5 DEF Members
    <3>2. PICK i \in 1..(Hi(k) - Lo(k)) : e = batch(k)[i]
      BY <1>4, <3>1 DEF ToSet
    <3>3. e = s[Lo(k) + i] /\ Lo(k) + i \in 1..L
      BY <1>4, <3>2
    <3> QED
      BY <1>1, <3>3 DEF ToSet
  <2>2. ASSUME NEW e \in ToSet(s)
        PROVE  e \in Members(q)
    <3>1. PICK n \in 1..L : e = s[n]
      BY <1>1 DEF ToSet
    <3>2. PICK k \in 1..C : Lo(k) < n /\ n <= Hi(k)
      BY <1>3
    <3>3. n - Lo(k) \in 1..(Hi(k) - Lo(k)) /\ Lo(k) + (n - Lo(k)) = n
      <4>1. n \in Nat /\ Lo(k) \in Nat /\ Hi(k) \in Nat
        BY <1>1, <1>3
      <4> QED
        BY <3>2, <4>1
    <3>4. batch(k)[n - Lo(k)] = e /\ n - Lo(k) \in DOMAIN batch(k)
      BY <1>4, <3>1, <3>3
    <3>5. e \in ToSet(q[k])
      BY <1>5, <3>4 DEF ToSet
    <3> QED
      BY <1>5, <3>5 DEF Members
  <2> QED
    BY <2>1, <2>2
<1>7. ASSUME IsInjective(s)
      PROVE  Neat(q)
  <2>1. \A x, y \in 1..L : s[x] = s[y] => x = y
    BY <1>1, <1>7 DEF IsInjective
  <2>2. ASSUME NEW k \in 1..C
        PROVE  IsInjective(q[k])
    <3> SUFFICES ASSUME NEW i \in 1..(Hi(k) - Lo(k)), NEW j \in 1..(Hi(k) - Lo(k)),
                        batch(k)[i] = batch(k)[j]
                 PROVE  i = j
      BY <1>4, <1>5 DEF IsInjective
    <3>1. Lo(k) + i = Lo(k) + j
      BY <1>4, <2>1
    <3>2. Lo(k) \in Nat /\ Hi(k) \in Nat
      BY <1>3
    <3> QED
      BY <3>1, <3>2
  <2>3. ASSUME NEW k \in 1..C, NEW m \in 1..C, k < m
        PROVE  ToSet(q[k]) \cap ToSet(q[m]) = {}
    <3>1. Hi(k) <= Lo(m) /\ Lo(k) \in Nat /\ Hi(k) \in Nat /\ Lo(m) \in Nat /\ Hi(m) \in Nat
      BY <1>3, <2>3
    <3>2. ASSUME NEW i \in 1..(Hi(k) - Lo(k)), NEW j \in 1..(Hi(m) - Lo(m))
          PROVE  batch(k)[i] # batch(m)[j]
      <4>1. Lo(k) + i <= Hi(k) /\ Lo(k) + i # Lo(m) + j
        BY <3>1, <1>4
      <4>2. /\ batch(k)[i] = s[Lo(k) + i] /\ Lo(k) + i \in 1..L
            /\ batch(m)[j] = s[Lo(m) + j] /\ Lo(m) + j \in 1..L
        BY <1>4
      <4> QED
        BY <2>1, <4>1, <4>2
    <3> DEFINE b == batch(k)
               c == batch(m)
               B == 1..(Hi(k) - Lo(k))
               D == 1..(Hi(m) - Lo(m))
    <3>3. DOMAIN b = B /\ DOMAIN c = D /\ q[k] = b /\ q[m] = c
      BY <1>4, <1>5
    <3>4. \A i \in B, j \in D : b[i] # c[j]
      BY <3>2
    <3> HIDE DEF b, c, B, D
    <3> QED
      BY <3>3, <3>4 DEF ToSet
  <2>4. \A k, m \in 1..C : k # m => k < m \/ m < k
    BY <1>3
  <2> QED
    BY <1>5, <2>2, <2>3, <2>4 DEF Neat, Apart
<1> QED
  BY <1>5, <1>6, <1>7 DEF q

\* The groups of a key: every item is in the group of its unit.
LEMMA GroupsIs ==
    ASSUME NEW E, NEW s \in Seq(E)
    PROVE  /\ Groups(s) \in Seq(Seq(E)) /\ Members(Groups(s)) = ToSet(s)
           /\ IsInjective(s) => Neat(Groups(s))
<1> DEFINE unit(k) == Item[s[k]].unit
           S == {k \in DOMAIN s : \A j \in 1..(k - 1) : unit(j) # unit(k)}
           places == [k \in DOMAIN s |-> k]
           first == Of(places, S)
           group(g) == Of(s, {i \in ToSet(s) : Item[i].unit = unit(first[g])})
           q == Groups(s)
<1>1. Len(s) \in Nat /\ DOMAIN s = 1..Len(s)
  BY SeqIs
<1>2. places \in Seq(Nat) /\ ToSet(places) = DOMAIN s /\ IsInjective(places)
  BY <1>1 DEF ToSet, IsInjective
<1>3. q = [g \in DOMAIN first |-> group(g)]
  BY DEF Groups
<1> HIDE DEF places
<1>4. first \in Seq(Nat) /\ ToSet(first) = DOMAIN s \cap S /\ IsInjective(first)
  BY <1>2, OfIs
<1> HIDE DEF first, q
<1>5. Len(first) \in Nat /\ DOMAIN first = 1..Len(first)
  BY <1>4, SeqIs
<1>6. \A g \in DOMAIN first : first[g] \in S
  BY <1>4 DEF ToSet
<1>7. \A g : /\ group(g) \in Seq(E)
             /\ ToSet(group(g)) = {i \in ToSet(s) : Item[i].unit = unit(first[g])}
             /\ IsInjective(s) => IsInjective(group(g))
  <2> SUFFICES ASSUME NEW g
               PROVE  /\ group(g) \in Seq(E)
                      /\ ToSet(group(g)) = {i \in ToSet(s) : Item[i].unit = unit(first[g])}
                      /\ IsInjective(s) => IsInjective(group(g))
    OBVIOUS
  <2> DEFINE T == {i \in ToSet(s) : Item[i].unit = unit(first[g])}
  <2>1. T \subseteq ToSet(s)
    OBVIOUS
  <2> HIDE DEF T, S, unit
  <2>2. ToSet(s) \cap T = T
    BY <2>1
  <2>3. /\ Of(s, T) \in Seq(E) /\ ToSet(Of(s, T)) = ToSet(s) \cap T
        /\ IsInjective(s) => IsInjective(Of(s, T))
    BY OfIs
  <2> QED
    BY <2>2, <2>3 DEF T
<1> HIDE DEF group
<1>8. q \in Seq(Seq(E)) /\ DOMAIN q = DOMAIN first /\ \A g \in DOMAIN first : q[g] = group(g)
  BY <1>3, <1>5, <1>7
<1>9. Members(q) = ToSet(s)
  <2>1. Members(q) \subseteq ToSet(s)
    BY <1>7, <1>8 DEF Members
  <2>2. ASSUME NEW e \in ToSet(s)
        PROVE  e \in Members(q)
    <3>1. PICK k \in DOMAIN s : e = s[k]
      BY DEF ToSet
    <3> DEFINE same == {j \in DOMAIN s : unit(j) = unit(k)}
    <3>2. same \in SUBSET Nat /\ same # {}
      BY <1>1
    <3>3. PICK j \in same : \A x \in same : j <= x
      <4> HIDE DEF same
      <4> QED
        BY <3>2, LeastNat
    <3>4. j \in S
      <4> SUFFICES ASSUME NEW x \in 1..(j - 1), unit(x) = unit(j)
                   PROVE  FALSE
        OBVIOUS
      <4>1. j \in DOMAIN s /\ unit(j) = unit(k)
        OBVIOUS
      <4>2. x \in DOMAIN s /\ ~(j <= x)
        BY <1>1, <4>1
      <4>3. x \in same
        BY <4>1, <4>2
      <4> QED
        BY <3>3, <4>2, <4>3
    <3>5. PICK g \in DOMAIN first : first[g] = j
      BY <1>4, <3>4 DEF ToSet
    <3>6. e \in ToSet(group(g))
      BY <1>7, <3>1, <3>5
    <3> QED
      BY <1>8, <3>6 DEF Members
  <2> QED
    BY <2>1, <2>2
<1>10. ASSUME IsInjective(s)
       PROVE  Neat(q)
  <2>1. \A g \in DOMAIN q : IsInjective(q[g])
    BY <1>7, <1>8, <1>10
  <2>2. ASSUME NEW g \in DOMAIN first, NEW h \in DOMAIN first, first[g] < first[h]
        PROVE  unit(first[g]) # unit(first[h])
    <3>1. first[g] \in DOMAIN s /\ first[h] \in DOMAIN s
          /\ \A j \in 1..(first[h] - 1) : unit(j) # unit(first[h])
      BY <1>6
    <3>2. first[g] \in 1..(first[h] - 1)
      BY <1>1, <2>2, <3>1
    <3> QED
      BY <3>1, <3>2
  <2>3. \A g, h \in DOMAIN first : g # h => first[g] < first[h] \/ first[h] < first[g]
    <3>1. \A g \in DOMAIN first : first[g] \in Nat
      BY <1>1, <1>6
    <3>2. \A g, h \in DOMAIN first : g # h => first[g] # first[h]
      BY <1>4 DEF IsInjective
    <3> QED
      BY <3>1, <3>2
  <2>4. \A g, h \in DOMAIN first : g # h => unit(first[g]) # unit(first[h])
    BY <2>2, <2>3
  <2> HIDE DEF unit
  <2>5. \A g, h \in DOMAIN first : g # h => ToSet(group(g)) \cap ToSet(group(h)) = {}
    BY <1>7, <2>4
  <2> QED
    BY <1>8, <2>1, <2>5 DEF Neat, Apart
<1> QED
  BY <1>8, <1>9, <1>10 DEF q

\* partition(): every item of the source is in one batch.
LEMMA PartitionIs ==
    ASSUME NEW E, NEW s \in Seq(E), NEW size \in Nat \ {0}, NEW keyed
    PROVE  /\ Partition(s, size, keyed) \in Seq(Seq(E))
           /\ Members(Partition(s, size, keyed)) = ToSet(s)
           /\ IsInjective(s) => Neat(Partition(s, size, keyed))
<1>1. CASE ~keyed
  BY <1>1, ChunkIs DEF Partition
<1>2. CASE ~(~keyed)
  <2> DEFINE groups == Groups(s)
             qs == [g \in DOMAIN groups |-> Chunk(groups[g], size)]
  <2>1. Partition(s, size, keyed) = FlattenSeq(qs)
    BY <1>2 DEF Partition
  <2>2. /\ groups \in Seq(Seq(E)) /\ Members(groups) = ToSet(s)
        /\ IsInjective(s) => Neat(groups)
    BY GroupsIs
  <2> HIDE DEF groups
  <2>3. Len(groups) \in Nat /\ DOMAIN groups = 1..Len(groups)
        /\ \A g \in DOMAIN groups : groups[g] \in Seq(E)
    BY <2>2, QueueIs
  <2>4. \A g \in DOMAIN groups :
          /\ Chunk(groups[g], size) \in Seq(Seq(E))
          /\ Members(Chunk(groups[g], size)) = ToSet(groups[g])
          /\ IsInjective(groups[g]) => Neat(Chunk(groups[g], size))
    BY <2>3, ChunkIs
  <2>5. DOMAIN qs = DOMAIN groups /\ \A g \in DOMAIN groups : qs[g] = Chunk(groups[g], size)
    OBVIOUS
  <2>6. qs \in Seq(Seq(Seq(E)))
    BY <2>3, <2>4
  <2> HIDE DEF qs
  <2>7. UNION {Members(qs[g]) : g \in DOMAIN qs} = ToSet(s)
    BY <2>2, <2>4, <2>5 DEF Members
  <2>8. ASSUME IsInjective(s)
        PROVE  /\ \A g \in DOMAIN qs : Neat(qs[g])
               /\ \A g, h \in DOMAIN qs : g # h => Members(qs[g]) \cap Members(qs[h]) = {}
    BY <2>2, <2>4, <2>5, <2>8 DEF Neat, Apart
  <2> DEFINE flat == FlattenSeq(qs)
  <2>9. /\ flat \in Seq(Seq(E)) /\ Members(flat) = UNION {Members(qs[a]) : a \in DOMAIN qs}
        /\ /\ \A a \in DOMAIN qs : Neat(qs[a])
           /\ \A a, b \in DOMAIN qs : a # b => Members(qs[a]) \cap Members(qs[b]) = {}
           => Neat(flat)
    BY <2>6, FlattenNeat
  <2>10. Partition(s, size, keyed) = flat
    BY <2>1
  <2> HIDE DEF flat
  <2>11. IsInjective(s) => Neat(flat)
    BY <2>8, <2>9
  <2>12. Members(flat) = ToSet(s)
    BY <2>7, <2>9
  <2> QED
    BY <2>9, <2>10, <2>11, <2>12
<1> QED
  BY <1>1, <1>2

-----------------------------------------------------------------------------
(* Queues and buckets that change at one end, or in one place.             *)

\* The first batch of a queue, and the others.
LEMMA HeadIs ==
    ASSUME NEW E, NEW q \in Seq(Seq(E)), q # <<>>
    PROVE  /\ Head(q) \in Seq(E) /\ Tail(q) \in Seq(Seq(E))
           /\ Members(q) = ToSet(Head(q)) \cup Members(Tail(q))
           /\ Neat(q) => /\ IsInjective(Head(q)) /\ Neat(Tail(q))
                         /\ ToSet(Head(q)) \cap Members(Tail(q)) = {}
<1> DEFINE t == Tail(q)
<1>1. /\ Len(q) \in Nat /\ DOMAIN q = 1..Len(q) /\ \A b \in DOMAIN q : q[b] \in Seq(E)
      /\ Len(q) # 0
  BY QueueIs, EmptySeq
<1>2. t \in Seq(Seq(E)) /\ Len(t) = Len(q) - 1 /\ \A b \in 1..(Len(q) - 1) : t[b] = q[b + 1]
  BY HeadTailProperties, ElementOfSeq
<1>3. Head(q) = q[1] /\ 1 \in DOMAIN q
  BY <1>1
<1>4. DOMAIN t = 1..(Len(q) - 1)
  BY <1>2, LenProperties
<1> HIDE DEF t
<1>5. \A b \in DOMAIN t : b + 1 \in DOMAIN q /\ b + 1 # 1 /\ t[b] = q[b + 1]
  BY <1>1, <1>2, <1>4
<1>6. \A b \in DOMAIN q : b # 1 => b - 1 \in DOMAIN t /\ t[b - 1] = q[b]
  <2> SUFFICES ASSUME NEW b \in DOMAIN q, b # 1
               PROVE  b - 1 \in DOMAIN t /\ t[b - 1] = q[b]
    OBVIOUS
  <2>1. b - 1 \in 1..(Len(q) - 1) /\ (b - 1) + 1 = b
    BY <1>1
  <2> QED
    BY <1>2, <1>4, <2>1
<1>7. Members(q) = ToSet(q[1]) \cup Members(t)
  <2>1. Members(q) \subseteq ToSet(q[1]) \cup Members(t)
    BY <1>6 DEF Members
  <2>2. ToSet(q[1]) \cup Members(t) \subseteq Members(q)
    BY <1>3, <1>5 DEF Members
  <2> QED
    BY <2>1, <2>2
<1>8. ASSUME Neat(q)
      PROVE  IsInjective(q[1]) /\ Neat(t) /\ ToSet(q[1]) \cap Members(t) = {}
  <2>1. IsInjective(q[1]) /\ \A b \in DOMAIN t : IsInjective(t[b])
    BY <1>3, <1>5, <1>8 DEF Neat
  <2>2. ASSUME NEW a \in DOMAIN t, NEW b \in DOMAIN t, a # b
        PROVE  ToSet(t[a]) \cap ToSet(t[b]) = {}
    <3>1. a + 1 # b + 1
      BY <1>1, <1>4, <2>2
    <3>2. a + 1 \in DOMAIN q /\ b + 1 \in DOMAIN q /\ t[a] = q[a + 1] /\ t[b] = q[b + 1]
      BY <1>5
    <3>3. \A x, y \in DOMAIN q : x # y => ToSet(q[x]) \cap ToSet(q[y]) = {}
      BY <1>8 DEF Neat, Apart
    <3> QED
      BY <3>1, <3>2, <3>3
  <2>3. ToSet(q[1]) \cap Members(t) = {}
    BY <1>3, <1>5, <1>8 DEF Neat, Apart, Members
  <2> QED
    BY <2>1, <2>2, <2>3 DEF Neat, Apart
<1> QED
  BY <1>2, <1>1, <1>3, <1>7, <1>8 DEF t

\* A batch that goes back to the front.
LEMMA FrontIs ==
    ASSUME NEW E, NEW s \in Seq(E), NEW q \in Seq(Seq(E))
    PROVE  /\ <<s>> \o q \in Seq(Seq(E))
           /\ Members(<<s>> \o q) = ToSet(s) \cup Members(q)
           /\ IsInjective(s) /\ Neat(q) /\ ToSet(s) \cap Members(q) = {} => Neat(<<s>> \o q)
<1> DEFINE c == <<s>> \o q
<1>1. Len(q) \in Nat /\ DOMAIN q = 1..Len(q) /\ \A b \in DOMAIN q : q[b] \in Seq(E)
  BY QueueIs
<1>2. c \in Seq(Seq(E)) /\ Len(c) = 1 + Len(q) /\ DOMAIN c = 1..(1 + Len(q))
      /\ \A b \in 1..(1 + Len(q)) : c[b] = IF b <= 1 THEN s ELSE q[b - 1]
  <2>1. <<s>> \in Seq(Seq(E)) /\ Len(<<s>>) = 1 /\ <<s>>[1] = s
    OBVIOUS
  <2> DEFINE o == <<s>>
  <2> HIDE DEF o
  <2>2. o \in Seq(Seq(E)) /\ Len(o) = 1 /\ o[1] = s
    BY <2>1 DEF o
  <2>3. /\ o \o q \in Seq(Seq(E)) /\ Len(o \o q) = 1 + Len(q)
        /\ \A b \in 1..(1 + Len(q)) : (o \o q)[b] = IF b <= 1 THEN o[b] ELSE q[b - 1]
    <3>1. /\ o \o q \in Seq(Seq(E)) /\ Len(o \o q) = Len(o) + Len(q)
          /\ \A b \in 1..(Len(o) + Len(q)) :
               (o \o q)[b] = IF b <= Len(o) THEN o[b] ELSE q[b - Len(o)]
      BY <2>2, ConcatProperties
    <3> QED
      BY <2>2, <3>1
  <2>4. DOMAIN (o \o q) = 1..(1 + Len(q))
    BY <2>3, LenProperties
  <2>5. \A b \in 1..(1 + Len(q)) : b <= 1 => b = 1
    BY <1>1
  <2>6. c = o \o q
    BY DEF o
  <2> HIDE DEF c
  <2>7. ASSUME NEW b \in 1..(1 + Len(q))
        PROVE  c[b] = IF b <= 1 THEN s ELSE q[b - 1]
    <3>1. c[b] = IF b <= 1 THEN o[b] ELSE q[b - 1]
      BY <2>3, <2>6
    <3>2. b <= 1 => o[b] = s
      BY <2>2, <2>5
    <3> QED
      BY <3>1, <3>2
  <2> QED
    BY <2>3, <2>4, <2>6, <2>7
<1> HIDE DEF c
<1>3. 1 \in DOMAIN c /\ c[1] = s
  BY <1>1, <1>2
<1>4. \A b \in DOMAIN q : b + 1 \in DOMAIN c /\ b + 1 # 1 /\ c[b + 1] = q[b]
  <2> SUFFICES ASSUME NEW b \in DOMAIN q
               PROVE  b + 1 \in DOMAIN c /\ b + 1 # 1 /\ c[b + 1] = q[b]
    OBVIOUS
  <2>1. b + 1 \in 1..(1 + Len(q)) /\ ~(b + 1 <= 1) /\ (b + 1) - 1 = b
    BY <1>1
  <2> QED
    BY <1>2, <2>1
<1>5. \A b \in DOMAIN c : b # 1 => b - 1 \in DOMAIN q /\ c[b] = q[b - 1]
  <2> SUFFICES ASSUME NEW b \in DOMAIN c, b # 1
               PROVE  b - 1 \in DOMAIN q /\ c[b] = q[b - 1]
    OBVIOUS
  <2>1. b \in 1..(1 + Len(q)) /\ ~(b <= 1) /\ b - 1 \in 1..Len(q)
    BY <1>1, <1>2
  <2> QED
    BY <1>1, <1>2, <2>1
<1>6. Members(c) = ToSet(s) \cup Members(q)
  <2>1. Members(c) \subseteq ToSet(s) \cup Members(q)
    BY <1>3, <1>5 DEF Members
  <2>2. ToSet(s) \cup Members(q) \subseteq Members(c)
    BY <1>3, <1>4 DEF Members
  <2> QED
    BY <2>1, <2>2
<1>7. ASSUME IsInjective(s), Neat(q), ToSet(s) \cap Members(q) = {}
      PROVE  Neat(c)
  <2>1. \A b \in DOMAIN c : IsInjective(c[b])
    BY <1>3, <1>5, <1>7 DEF Neat
  <2>2. \A x, y \in DOMAIN q : x # y => ToSet(q[x]) \cap ToSet(q[y]) = {}
    BY <1>7 DEF Neat, Apart
  <2>3. \A b \in DOMAIN q : ToSet(s) \cap ToSet(q[b]) = {}
    BY <1>7 DEF Members
  <2>4. \A a, b \in DOMAIN c : a # 1 /\ b # 1 /\ a # b => a - 1 # b - 1
    BY <1>1, <1>2
  <2>5. ASSUME NEW a \in DOMAIN c, NEW b \in DOMAIN c, a # b
        PROVE  ToSet(c[a]) \cap ToSet(c[b]) = {}
    <3>1. CASE a = 1
      BY <1>3, <1>5, <2>3, <2>5, <3>1
    <3>2. CASE b = 1
      BY <1>3, <1>5, <2>3, <2>5, <3>2
    <3>3. CASE a # 1 /\ b # 1
      BY <1>5, <2>2, <2>4, <2>5, <3>3
    <3> QED
      BY <3>1, <3>2, <3>3
  <2> QED
    BY <2>1, <2>5 DEF Neat, Apart
<1> QED
  BY <1>2, <1>6, <1>7 DEF c

\* A new bucket at the end, with one item.
LEMMA BackIs ==
    ASSUME NEW E, NEW q \in Seq(Seq(E)), NEW e \in E
    PROVE  /\ Append(q, <<e>>) \in Seq(Seq(E))
           /\ Members(Append(q, <<e>>)) = Members(q) \cup {e}
           /\ Neat(q) /\ e \notin Members(q) => Neat(Append(q, <<e>>))
<1> DEFINE o == <<e>>
           c == Append(q, o)
<1>1. o \in Seq(E) /\ ToSet(o) = {e} /\ IsInjective(o)
  BY DEF ToSet, IsInjective
<1> HIDE DEF o
<1>2. Len(q) \in Nat /\ DOMAIN q = 1..Len(q) /\ \A b \in DOMAIN q : q[b] \in Seq(E)
  BY QueueIs
<1>3. c \in Seq(Seq(E)) /\ DOMAIN c = 1..(Len(q) + 1)
      /\ (\A b \in 1..Len(q) : c[b] = q[b]) /\ c[Len(q) + 1] = o
  BY <1>1, AppendProperties, LenProperties
<1> HIDE DEF c
<1> DEFINE n == Len(q) + 1
<1>4. n \in DOMAIN c /\ n \notin DOMAIN q /\ c[n] = o
      /\ (\A b \in DOMAIN q : b \in DOMAIN c /\ c[b] = q[b])
      /\ \A b \in DOMAIN c : b # n => b \in DOMAIN q
  BY <1>2, <1>3
<1> HIDE DEF n
<1>5. Members(c) = Members(q) \cup {e}
  <2>1. Members(c) \subseteq Members(q) \cup ToSet(o)
    BY <1>4 DEF Members
  <2>2. Members(q) \cup ToSet(o) \subseteq Members(c)
    BY <1>4 DEF Members
  <2> QED
    BY <1>1, <2>1, <2>2
<1>6. ASSUME Neat(q), e \notin Members(q)
      PROVE  Neat(c)
  <2>1. \A b \in DOMAIN c : IsInjective(c[b])
    BY <1>1, <1>4, <1>6 DEF Neat
  <2>2. \A x, y \in DOMAIN q : x # y => ToSet(q[x]) \cap ToSet(q[y]) = {}
    BY <1>6 DEF Neat, Apart
  <2>3. \A b \in DOMAIN q : ToSet(o) \cap ToSet(q[b]) = {}
    BY <1>1, <1>6 DEF Members
  <2>4. ASSUME NEW a \in DOMAIN c, NEW b \in DOMAIN c, a # b
        PROVE  ToSet(c[a]) \cap ToSet(c[b]) = {}
    BY <1>4, <2>2, <2>3, <2>4
  <2> QED
    BY <2>1, <2>4 DEF Neat, Apart
<1> QED
  BY <1>3, <1>5, <1>6 DEF c, o

\* A bucket that takes one more item.
LEMMA OneMoreIs ==
    ASSUME NEW E, NEW q \in Seq(Seq(E)), NEW k \in DOMAIN q, NEW e \in E,
           NEW c \in Seq(Seq(E)), DOMAIN c = DOMAIN q, c[k] = Append(q[k], e),
           \A b \in DOMAIN q : b # k => c[b] = q[b]
    PROVE  /\ Members(c) = Members(q) \cup {e}
           /\ Neat(q) /\ e \notin Members(q) => Neat(c)
<1>1. q[k] \in Seq(E)
  BY QueueIs
<1>2. /\ ToSet(c[k]) = ToSet(q[k]) \cup {e}
      /\ IsInjective(q[k]) /\ e \notin ToSet(q[k]) => IsInjective(c[k])
  BY <1>1, AppendIs
<1>3. Members(c) = Members(q) \cup {e}
  <2>1. Members(c) \subseteq Members(q) \cup {e}
    BY <1>2 DEF Members
  <2>2. Members(q) \subseteq Members(c)
    BY <1>2 DEF Members
  <2>3. e \in Members(c)
    BY <1>2 DEF Members
  <2> QED
    BY <2>1, <2>2, <2>3
<1>4. ASSUME Neat(q), e \notin Members(q)
      PROVE  Neat(c)
  <2>1. \A b \in DOMAIN q : e \notin ToSet(q[b])
    BY <1>4 DEF Members
  <2>2. \A b \in DOMAIN c : IsInjective(c[b])
    BY <1>2, <1>4, <2>1 DEF Neat
  <2>3. \A x, y \in DOMAIN q : x # y => ToSet(q[x]) \cap ToSet(q[y]) = {}
    BY <1>4 DEF Neat, Apart
  <2>4. ASSUME NEW a \in DOMAIN c, NEW b \in DOMAIN c, a # b
        PROVE  ToSet(c[a]) \cap ToSet(c[b]) = {}
    <3>1. ToSet(c[a]) \subseteq ToSet(q[a]) \cup {e} /\ (a # k => ToSet(c[a]) = ToSet(q[a]))
      BY <1>2
    <3>2. ToSet(c[b]) \subseteq ToSet(q[b]) \cup {e} /\ (b # k => ToSet(c[b]) = ToSet(q[b]))
      BY <1>2
    <3>3. ToSet(q[a]) \cap ToSet(q[b]) = {}
      BY <2>3, <2>4
    <3>4. e \notin ToSet(q[a]) /\ e \notin ToSet(q[b])
      BY <2>1
    <3> QED
      BY <2>4, <3>1, <3>2, <3>3, <3>4
  <2> QED
    BY <2>2, <2>4 DEF Neat, Apart
<1> QED
  BY <1>3, <1>4

-----------------------------------------------------------------------------
(* The frames of a run, and how they lie on each other.                    *)

Buckets(routes) ==
    [to : {r.to : r \in ToSet(routes)}, model : {r.model : r \in ToSet(routes)},
     items : Seq(Items)]

\* A hook chooses models and caps as it likes.
IsScope(f) ==
    f \in [what : {"scope"}, body : DOMAIN Steps, pc : Nat \ {0}, items : Seq(Items),
           accepted : Seq(Items), skipped : Seq(Items), model : {f.model}, retries : {f.retries}]

IsLoop(f) ==
    f \in [what : {"loop"}, inPlay : Seq(Items), accepted : Seq(Items), turns : {f.turns},
           retries : {f.retries}, final : {f.final}]

IsForeach(f) ==
    /\ f \in [what : {"foreach"}, step : {f.step}, queue : Seq(Seq(Items)),
              routed : Seq(Buckets(f.step.routes)), unchanged : Seq(Items), accepted : Seq(Items),
              rejected : Seq(Items), skipped : Seq(Items), model : {f.model}, retries : {f.retries}]
    /\ f.step.body \in DOMAIN Steps \cap Nested
    /\ f.step.routes \in Seq(ToSet(f.step.routes))

IsFrame(f) ==
    \/ f.what = "scope" /\ IsScope(f)
    \/ f.what = "loop" /\ IsLoop(f)
    \/ f.what = "foreach" /\ IsForeach(f)

\* The items of each bucket.
Loads(routed) == [b \in DOMAIN routed |-> routed[b].items]

\* The items a frame has in play, or hands back to its scope in play, and those
\* it has decided on.  A scope that is not the innermost has handed its items on.
Open(f, top) ==
    CASE f.what = "scope" -> IF top THEN ToSet(f.items) ELSE {}
      [] f.what = "loop" -> ToSet(f.inPlay)
      [] f.what = "foreach" -> Members(f.queue) \cup Members(Loads(f.routed))
                               \cup ToSet(f.rejected) \cup ToSet(f.unchanged)

Done(f) ==
    CASE f.what = "scope" -> ToSet(f.accepted) \cup ToSet(f.skipped)
      [] f.what = "loop" -> ToSet(f.accepted)
      [] f.what = "foreach" -> ToSet(f.accepted) \cup ToSet(f.skipped)

Has(f, top) == Open(f, top) \cup Done(f)

\* Sets that have nothing in common.
Disjoint(Q, L, A, R, S, U) ==
    /\ Q \cap (L \cup A \cup R \cup S \cup U) = {}
    /\ L \cap (A \cup R \cup S \cup U) = {}
    /\ A \cap (R \cup S \cup U) = {}
    /\ R \cap (S \cup U) = {}
    /\ S \cap U = {}

\* A frame has no item twice.
Tidy(f, top) ==
    /\ f.what = "scope" =>
         /\ IsInjective(f.accepted) /\ IsInjective(f.skipped)
         /\ top => IsInjective(f.items)
         /\ Disjoint(Open(f, top), {}, ToSet(f.accepted), {}, ToSet(f.skipped), {})
    /\ f.what = "loop" =>
         /\ IsInjective(f.inPlay) /\ IsInjective(f.accepted)
         /\ Disjoint(ToSet(f.inPlay), {}, ToSet(f.accepted), {}, {}, {})
    /\ f.what = "foreach" =>
         /\ Neat(f.queue) /\ Neat(Loads(f.routed))
         /\ IsInjective(f.accepted) /\ IsInjective(f.rejected)
         /\ IsInjective(f.skipped) /\ IsInjective(f.unchanged)
         /\ Disjoint(Members(f.queue), Members(Loads(f.routed)), ToSet(f.accepted),
                     ToSet(f.rejected), ToSet(f.skipped), ToSet(f.unchanged))

StandsAt(scope, kind) ==
    /\ scope.what = "scope"
    /\ scope.pc <= Len(Steps[scope.body]) /\ Steps[scope.body][scope.pc].kind = kind

\* f may lie on g: the body or fragment of a foreach, and the loop or foreach
\* of the step where a scope stands; a loop's items are its scope's.
LiesOn(f, g) ==
    /\ f.what = "scope" => g.what = "foreach" /\ f.body \in Nested
    /\ f.what = "loop" => /\ StandsAt(g, "agentLoop")
                          /\ IsInjective(g.items) /\ ToSet(f.inPlay) \subseteq ToSet(g.items)
    /\ f.what = "foreach" => StandsAt(g, "foreach")

-----------------------------------------------------------------------------
(* The inductive invariant.                                                *)

\* Nothing was decided on yet, as far as the scope got.
PlainSoFar(scope) ==
    /\ scope.what = "scope" /\ scope.pc <= Len(Steps[scope.body])
    /\ \A j \in 1..(scope.pc - 1) : Steps[scope.body][j].kind \in Plain

Frames(st) ==
    /\ st \in Seq(ToSet(st))
    /\ \A k \in DOMAIN st : IsFrame(st[k])
    /\ \A k \in DOMAIN st : k + 1 \in DOMAIN st => LiesOn(st[k], st[k + 1])
    /\ st # <<>> => st[Len(st)].what = "scope"

\* No frame has an item twice, and no two frames have the same.
Separate(st) ==
    /\ \A k \in DOMAIN st : Tidy(st[k], k = 1)
    /\ \A j, k \in DOMAIN st : j # k => Has(st[j], j = 1) \cap Has(st[k], k = 1) = {}

OpenStay(st, sts) == \A k \in DOMAIN st : Open(st[k], k = 1) \cap sts = {}

Holds(st) == UNION {Has(st[k], k = 1) : k \in DOMAIN st}

Bound(st, bound, sts) ==
    /\ DOMAIN bound = Names
    /\ Len(st) = 1 /\ PlainSoFar(st[1]) =>
         /\ st[1].accepted = <<>> /\ st[1].skipped = <<>>
         /\ \A b \in Names : bound[b] # None =>
              bound[b] \in Seq(Items) /\ IsInjective(bound[b]) /\ ToSet(bound[b]) \cap sts = {}

Parted(out) ==
    /\ out \in [accepted : Seq(Items), rejected : Seq(Items), skipped : Seq(Items)]
    /\ IsInjective(out.accepted) /\ IsInjective(out.rejected) /\ IsInjective(out.skipped)
    /\ ToSet(out.accepted) \cap ToSet(out.rejected) = {}
    /\ ToSet(out.accepted) \cap ToSet(out.skipped) = {}
    /\ ToSet(out.rejected) \cap ToSet(out.skipped) = {}
    /\ ToSet(planned) \subseteq ToSet(out.accepted) \cup ToSet(out.rejected) \cup ToSet(out.skipped)

PlaceInv ==
    /\ Frames(stack)
    /\ Separate(stack)
    /\ OpenStay(stack, statuses)
    /\ stack # <<>> => ToSet(planned) \subseteq Holds(stack)
    /\ Bound(stack, bindings, statuses)
    /\ outcome # None => stack = <<>> /\ Parted(outcome)

-----------------------------------------------------------------------------
(* Routes.                                                                 *)

\* The buckets of a foreach as a queue of batches.
LEMMA LoadsIs ==
    ASSUME NEW routes, NEW routed \in Seq(Buckets(routes))
    PROVE  /\ Loads(routed) \in Seq(Seq(Items)) /\ DOMAIN Loads(routed) = DOMAIN routed
           /\ Len(routed) \in Nat /\ DOMAIN routed = 1..Len(routed)
           /\ \A b \in DOMAIN routed : /\ routed[b] \in Buckets(routes)
                                       /\ Loads(routed)[b] = routed[b].items
<1>1. /\ Len(routed) \in Nat /\ DOMAIN routed = 1..Len(routed)
      /\ \A b \in DOMAIN routed : routed[b] \in Buckets(routes)
  BY SeqIs
<1>2. \A b \in DOMAIN routed : routed[b].items \in Seq(Items)
  BY <1>1 DEF Buckets
<1> QED
  BY <1>1, <1>2 DEF Loads

\* What SelectInSeq finds: a member of the places where its test holds, or 0.
LEMMA MinIs ==
    ASSUME NEW I \in SUBSET Nat, I # {}
    PROVE  Min(I) \in I
BY LeastNat DEF Min

\* matchRoute() gives a route of the list, or none.
LEMMA RoutePlace ==
    ASSUME NEW routes, Len(routes) \in Nat, NEW i
    PROVE  MatchRoute(routes, i) = 0 \/ MatchRoute(routes, i) \in 1..Len(routes)
<1> DEFINE I == {k \in 1..Len(routes) : RouteMatches(routes[k].when, i)}
<1>1. MatchRoute(routes, i) = IF I # {} THEN Min(I) ELSE 0
  BY DEF SelectInSeq, MatchRoute
<1>2. I # {} => Min(I) \in I
  <2>1. I \in SUBSET Nat
    OBVIOUS
  <2> HIDE DEF I
  <2> QED
    BY <2>1, MinIs
<1> QED
  BY <1>1, <1>2

\* A routed item is in one bucket more.
LEMMA PutIs ==
    ASSUME NEW routes, NEW routed \in Seq(Buckets(routes)), NEW route \in ToSet(routes),
           NEW i \in Items
    PROVE  /\ PutInBucket(routed, route, i) \in Seq(Buckets(routes))
           /\ Members(Loads(PutInBucket(routed, route, i))) = Members(Loads(routed)) \cup {i}
           /\ Neat(Loads(routed)) /\ i \notin Members(Loads(routed)) =>
                Neat(Loads(PutInBucket(routed, route, i)))
<1> DEFINE k == SelectInSeq(routed, LAMBDA b : b.to = route.to)
           new == [to |-> route.to, model |-> route.model, items |-> <<i>>]
           put == PutInBucket(routed, route, i)
           q == Loads(routed)
           c == Loads(put)
<1>1. /\ q \in Seq(Seq(Items)) /\ DOMAIN q = DOMAIN routed
      /\ Len(routed) \in Nat /\ DOMAIN routed = 1..Len(routed)
      /\ \A b \in DOMAIN routed : routed[b] \in Buckets(routes) /\ q[b] = routed[b].items
  BY LoadsIs
<1>2. k = 0 \/ k \in DOMAIN routed
  <2> DEFINE I == {j \in 1..Len(routed) : routed[j].to = route.to}
  <2>1. k = IF I # {} THEN Min(I) ELSE 0
    BY DEF SelectInSeq
  <2>2. I # {} => Min(I) \in I
    <3>1. I \in SUBSET Nat
      OBVIOUS
    <3> HIDE DEF I
    <3> QED
      BY <3>1, MinIs
  <2> QED
    BY <1>1, <2>1, <2>2
<1>3. put = IF k = 0 THEN Append(routed, new)
            ELSE [routed EXCEPT ![k].items = Append(@, i)]
  BY DEF PutInBucket
<1> HIDE DEF k, put, q
<1>4. CASE k = 0
  <2>1. new \in Buckets(routes) /\ new.items = <<i>>
    BY DEF Buckets
  <2> HIDE DEF new
  <2>2. /\ put \in Seq(Buckets(routes)) /\ DOMAIN put = 1..(Len(routed) + 1)
        /\ (\A b \in 1..Len(routed) : put[b] = routed[b]) /\ put[Len(routed) + 1] = new
    BY <1>3, <1>4, <2>1, AppendProperties, LenProperties
  <2>3. Len(q) = Len(routed) /\ DOMAIN q = 1..Len(q)
    BY <1>1, LenProperties
  <2>4. <<i>> \in Seq(Items)
    OBVIOUS
  <2> DEFINE d == Append(q, <<i>>)
  <2>5. /\ d \in Seq(Seq(Items)) /\ DOMAIN d = 1..(Len(q) + 1)
        /\ (\A b \in 1..Len(q) : d[b] = q[b]) /\ d[Len(q) + 1] = <<i>>
    BY <1>1, <2>4, AppendProperties, LenProperties
  <2>6. c \in Seq(Seq(Items)) /\ DOMAIN c = DOMAIN put /\ \A b \in DOMAIN put : c[b] = put[b].items
    BY <2>2, LoadsIs
  <2> HIDE DEF c, d
  <2>7. DOMAIN c = DOMAIN d
    BY <2>2, <2>3, <2>5, <2>6
  <2>8. \A b \in DOMAIN c : c[b] = d[b]
    <3> SUFFICES ASSUME NEW b \in DOMAIN c
                 PROVE  c[b] = d[b]
      OBVIOUS
    <3>1. b \in 1..Len(routed) \/ b = Len(routed) + 1
      BY <1>1, <2>2, <2>6
    <3>2. CASE b \in 1..Len(routed)
      BY <1>1, <2>2, <2>3, <2>5, <2>6, <3>2
    <3>3. CASE b = Len(routed) + 1
      BY <2>1, <2>2, <2>3, <2>5, <2>6, <3>3
    <3> QED
      BY <3>1, <3>2, <3>3
  <2>9. c = d
    <3>1. c = [b \in DOMAIN c |-> c[b]] /\ d = [b \in DOMAIN d |-> d[b]]
      BY <2>5, <2>6, ElementOfSeq, LenProperties
    <3> QED
      BY <2>7, <2>8, <3>1
  <2> QED
    BY <1>1, <2>2, <2>9, BackIs DEF c, d, put, q
<1>5. CASE k # 0
  <2>1. k \in DOMAIN routed
    BY <1>2, <1>5
  <2> DEFINE more == [routed[k] EXCEPT !.items = Append(@, i)]
  <2>2. routed[k] \in Buckets(routes) /\ q[k] = routed[k].items /\ q[k] \in Seq(Items)
    BY <1>1, <2>1, QueueIs
  <2>3. Append(q[k], i) \in Seq(Items)
    BY <2>2, AppendProperties
  <2>4. more \in Buckets(routes) /\ more.items = Append(q[k], i)
    BY <2>2, <2>3 DEF Buckets
  <2>5. put = [routed EXCEPT ![k] = more]
    BY <1>3, <1>5
  <2> HIDE DEF more
  <2>6. put \in Seq(Buckets(routes))
    BY <2>1, <2>4, <2>5, ExceptSeq
  <2>7. DOMAIN put = DOMAIN routed /\ put[k] = more /\ \A b \in DOMAIN routed : b # k => put[b] = routed[b]
    BY <2>1, <2>5
  <2>8. c \in Seq(Seq(Items)) /\ DOMAIN c = DOMAIN put /\ \A b \in DOMAIN put : c[b] = put[b].items
    BY <2>6, LoadsIs
  <2> HIDE DEF c
  <2>9. /\ k \in DOMAIN q /\ DOMAIN c = DOMAIN q /\ c[k] = Append(q[k], i)
        /\ \A b \in DOMAIN q : b # k => c[b] = q[b]
    BY <1>1, <2>1, <2>4, <2>7, <2>8
  <2>10. /\ Members(c) = Members(q) \cup {i}
         /\ Neat(q) /\ i \notin Members(q) => Neat(c)
    BY <1>1, <2>8, <2>9, OneMoreIs
  <2> QED
    BY <2>6, <2>10 DEF c, put, q
<1> QED
  BY <1>4, <1>5

\* What the parts of each frame are.
LEMMA ForeachIs ==
    ASSUME NEW f, IsForeach(f), NEW top
    PROVE  /\ f.what = "foreach" /\ IsFrame(f)
           /\ f.queue \in Seq(Seq(Items)) /\ f.routed \in Seq(Buckets(f.step.routes))
           /\ f.unchanged \in Seq(Items) /\ f.accepted \in Seq(Items)
           /\ f.rejected \in Seq(Items) /\ f.skipped \in Seq(Items)
           /\ Open(f, top) = Members(f.queue) \cup Members(Loads(f.routed))
                             \cup ToSet(f.rejected) \cup ToSet(f.unchanged)
           /\ Done(f) = ToSet(f.accepted) \cup ToSet(f.skipped)
<1>1. /\ f.what = "foreach"
      /\ f.queue \in Seq(Seq(Items)) /\ f.routed \in Seq(Buckets(f.step.routes))
      /\ f.unchanged \in Seq(Items) /\ f.accepted \in Seq(Items)
      /\ f.rejected \in Seq(Items) /\ f.skipped \in Seq(Items)
  BY DEF IsForeach
<1> QED
  BY <1>1 DEF IsFrame, Open, Done

\* The parts of a scope.
LEMMA ScopeIs ==
    ASSUME NEW f, IsScope(f), NEW top
    PROVE  /\ f.what = "scope" /\ IsFrame(f)
           /\ f.body \in DOMAIN Steps /\ f.pc \in Nat \ {0}
           /\ f.items \in Seq(Items) /\ f.accepted \in Seq(Items) /\ f.skipped \in Seq(Items)
           /\ Open(f, top) = IF top THEN ToSet(f.items) ELSE {}
           /\ Done(f) = ToSet(f.accepted) \cup ToSet(f.skipped)
<1>1. /\ f.what = "scope" /\ f.body \in DOMAIN Steps /\ f.pc \in Nat \ {0}
      /\ f.items \in Seq(Items) /\ f.accepted \in Seq(Items) /\ f.skipped \in Seq(Items)
  BY DEF IsScope
<1> QED
  BY <1>1 DEF IsFrame, Open, Done

\* The parts of a loop.
LEMMA LoopIs ==
    ASSUME NEW f, IsLoop(f), NEW top
    PROVE  /\ f.what = "loop" /\ IsFrame(f)
           /\ f.inPlay \in Seq(Items) /\ f.accepted \in Seq(Items)
           /\ Open(f, top) = ToSet(f.inPlay) /\ Done(f) = ToSet(f.accepted)
<1>1. f.what = "loop" /\ f.inPlay \in Seq(Items) /\ f.accepted \in Seq(Items)
  BY DEF IsLoop
<1> QED
  BY <1>1 DEF IsFrame, Open, Done

\* One more element.
LEMMA DisjointMore ==
    ASSUME NEW Q, NEW L, NEW A, NEW R, NEW S, NEW U, Disjoint(Q, L, A, R, S, U),
           NEW i, i \notin Q \cup L \cup A \cup R \cup S \cup U
    PROVE  Disjoint(Q, L \cup {i}, A, R, S, U) /\ Disjoint(Q, L, A, R \cup {i}, S, U)
BY DEF Disjoint

\* A rejected item joins the frame's rejected ones, or the bucket of its route.
LEMMA RouteItemIs ==
    ASSUME NEW acc, acc = [frame |-> acc.frame, attempts |-> acc.attempts],
           IsForeach(acc.frame), Tidy(acc.frame, FALSE), NEW i \in Items,
           i \notin Has(acc.frame, FALSE)
    PROVE  LET f == acc.frame
               r == RouteItem(acc, i)
               g == r.frame
           IN  /\ r = [frame |-> r.frame, attempts |-> r.attempts]
               /\ IsForeach(g) /\ Tidy(g, FALSE)
               /\ Has(g, FALSE) = Has(f, FALSE) \cup {i}
               /\ Open(g, FALSE) \subseteq Open(f, FALSE) \cup {i}
<1> DEFINE f == acc.frame
           routes == f.step.routes
           k == MatchRoute(routes, i)
           key == <<k, routes[k].to>>
           r == RouteItem(acc, i)
           g == r.frame
           reject == [f EXCEPT !.rejected = Append(@, i)]
           put == [f EXCEPT !.routed = PutInBucket(@, routes[k], i)]
           tries == acc.attempts (+) SetToBag({<<key, i>>})
<1>1. r = IF k = 0 \/ BudgetExceeded(acc.attempts, key, i, routes[k].max)
          THEN [acc EXCEPT !.frame.rejected = Append(@, i)]
          ELSE [acc EXCEPT !.attempts = tries, !.frame.routed = PutInBucket(@, routes[k], i)]
  BY DEF RouteItem
<1>2. \/ r = [frame |-> reject, attempts |-> acc.attempts]
      \/ k # 0 /\ r = [frame |-> put, attempts |-> tries]
  <2> HIDE DEF k, key, tries, r
  <2>1. CASE r = [acc EXCEPT !.frame.rejected = Append(@, i)]
    BY <2>1
  <2>2. CASE r = [acc EXCEPT !.attempts = tries, !.frame.routed = PutInBucket(@, routes[k], i)] /\ k # 0
    BY <2>2
  <2> QED
    BY <1>1, <2>1, <2>2
<1>3. k # 0 => routes[k] \in ToSet(routes)
  <2>1. Len(routes) \in Nat /\ DOMAIN routes = 1..Len(routes)
    BY SeqIs DEF IsForeach
  <2>2. k = 0 \/ k \in DOMAIN routes
    BY <2>1, RoutePlace
  <2> HIDE DEF k
  <2> QED
    BY <2>2 DEF ToSet
<1> HIDE DEF r, k, tries, key
<1>4. /\ f.queue \in Seq(Seq(Items)) /\ f.routed \in Seq(Buckets(routes))
      /\ f.unchanged \in Seq(Items) /\ f.accepted \in Seq(Items)
      /\ f.rejected \in Seq(Items) /\ f.skipped \in Seq(Items)
      /\ f.what = "foreach"
      /\ Open(f, FALSE) = Members(f.queue) \cup Members(Loads(f.routed))
                          \cup ToSet(f.rejected) \cup ToSet(f.unchanged)
      /\ Done(f) = ToSet(f.accepted) \cup ToSet(f.skipped)
  BY ForeachIs
<1>5. CASE r = [frame |-> reject, attempts |-> acc.attempts]
  <2> DEFINE more == Append(f.rejected, i)
  <2>1. /\ more \in Seq(Items) /\ ToSet(more) = ToSet(f.rejected) \cup {i}
        /\ IsInjective(f.rejected) /\ i \notin ToSet(f.rejected) => IsInjective(more)
    BY <1>4, AppendIs
  <2> HIDE DEF more
  <2>2. /\ IsForeach(reject) /\ reject.what = "foreach" /\ reject.rejected = more
        /\ reject.queue = f.queue /\ reject.routed = f.routed /\ reject.unchanged = f.unchanged
        /\ reject.accepted = f.accepted /\ reject.skipped = f.skipped
    BY <2>1 DEF IsForeach, more
  <2>3. g = reject /\ r = [frame |-> r.frame, attempts |-> r.attempts]
    BY <1>5
  <2> HIDE DEF g, reject, f
  <2>4. /\ Open(g, FALSE) = Open(f, FALSE) \cup {i}
        /\ Done(g) = Done(f)
    BY <1>4, <2>1, <2>2, <2>3, ForeachIs
  <2>5. i \notin Open(f, FALSE) /\ i \notin Done(f) /\ Tidy(f, FALSE)
    BY DEF Has, f
  <2>6. Tidy(g, FALSE)
    <3>1. /\ Disjoint(Members(f.queue), Members(Loads(f.routed)), ToSet(f.accepted),
                      ToSet(f.rejected), ToSet(f.skipped), ToSet(f.unchanged))
          /\ Neat(f.queue) /\ Neat(Loads(f.routed))
          /\ IsInjective(f.accepted) /\ IsInjective(f.rejected)
          /\ IsInjective(f.skipped) /\ IsInjective(f.unchanged)
      BY <1>4, <2>5 DEF Tidy
    <3>2. Disjoint(Members(f.queue), Members(Loads(f.routed)), ToSet(f.accepted),
                   ToSet(f.rejected) \cup {i}, ToSet(f.skipped), ToSet(f.unchanged))
      BY <1>4, <2>5, <3>1, DisjointMore
    <3>3. i \notin ToSet(f.rejected)
      BY <1>4, <2>5
    <3> QED
      BY <2>1, <2>2, <2>3, <3>1, <3>2, <3>3 DEF Tidy
  <2>7. Has(g, FALSE) = Has(f, FALSE) \cup {i}
    BY <2>4 DEF Has
  <2>8. IsForeach(g)
    BY <2>2, <2>3
  <2> QED
    BY <2>3, <2>4, <2>6, <2>7, <2>8 DEF g, f, r
<1>6. CASE k # 0 /\ r = [frame |-> put, attempts |-> tries]
  <2> DEFINE more == PutInBucket(f.routed, routes[k], i)
  <2>1. /\ more \in Seq(Buckets(routes))
        /\ Members(Loads(more)) = Members(Loads(f.routed)) \cup {i}
        /\ Neat(Loads(f.routed)) /\ i \notin Members(Loads(f.routed)) => Neat(Loads(more))
    BY <1>3, <1>4, <1>6, PutIs
  <2> HIDE DEF more
  <2>2. /\ IsForeach(put) /\ put.what = "foreach" /\ put.routed = more
        /\ put.queue = f.queue /\ put.rejected = f.rejected /\ put.unchanged = f.unchanged
        /\ put.accepted = f.accepted /\ put.skipped = f.skipped
    BY <2>1 DEF IsForeach, more
  <2>3. g = put /\ r = [frame |-> r.frame, attempts |-> r.attempts]
    BY <1>6
  <2> HIDE DEF g, put, f
  <2>4. /\ Open(g, FALSE) = Open(f, FALSE) \cup {i}
        /\ Done(g) = Done(f)
    <3>1. /\ Open(g, FALSE) = Members(g.queue) \cup Members(Loads(g.routed))
                              \cup ToSet(g.rejected) \cup ToSet(g.unchanged)
          /\ Done(g) = ToSet(g.accepted) \cup ToSet(g.skipped)
      BY <2>2, <2>3, ForeachIs
    <3>2. Open(g, FALSE) = Members(f.queue) \cup (Members(Loads(f.routed)) \cup {i})
                           \cup ToSet(f.rejected) \cup ToSet(f.unchanged)
      BY <2>1, <2>2, <2>3, <3>1
    <3>3. Done(g) = Done(f)
      BY <1>4, <2>2, <2>3, <3>1
    <3> QED
      BY <1>4, <3>2, <3>3
  <2>5. i \notin Open(f, FALSE) /\ i \notin Done(f) /\ Tidy(f, FALSE)
    BY DEF Has, f
  <2>6. Tidy(g, FALSE)
    <3>1. /\ Disjoint(Members(f.queue), Members(Loads(f.routed)), ToSet(f.accepted),
                      ToSet(f.rejected), ToSet(f.skipped), ToSet(f.unchanged))
          /\ Neat(f.queue) /\ Neat(Loads(f.routed))
          /\ IsInjective(f.accepted) /\ IsInjective(f.rejected)
          /\ IsInjective(f.skipped) /\ IsInjective(f.unchanged)
      BY <1>4, <2>5 DEF Tidy
    <3>2. Disjoint(Members(f.queue), Members(Loads(f.routed)) \cup {i}, ToSet(f.accepted),
                   ToSet(f.rejected), ToSet(f.skipped), ToSet(f.unchanged))
      BY <1>4, <2>5, <3>1, DisjointMore
    <3>3. i \notin Members(Loads(f.routed))
      BY <1>4, <2>5
    <3> QED
      BY <2>1, <2>2, <2>3, <3>1, <3>2, <3>3 DEF Tidy
  <2>7. Has(g, FALSE) = Has(f, FALSE) \cup {i}
    BY <2>4 DEF Has
  <2>8. IsForeach(g)
    BY <2>2, <2>3
  <2> QED
    BY <2>3, <2>4, <2>6, <2>7, <2>8 DEF g, f, r
<1> QED
  BY <1>2, <1>5, <1>6

\* Every rejected item of a batch joins the frame.
LEMMA RouteAllIs ==
    ASSUME NEW frame, IsForeach(frame), Tidy(frame, FALSE), NEW items \in Seq(Items),
           IsInjective(items), ToSet(items) \cap Has(frame, FALSE) = {}
    PROVE  LET g == RouteAll(frame, items).frame
           IN  /\ IsForeach(g) /\ Tidy(g, FALSE)
               /\ Has(g, FALSE) = Has(frame, FALSE) \cup ToSet(items)
               /\ Open(g, FALSE) \subseteq Open(frame, FALSE) \cup ToSet(items)
<1> DEFINE N == Len(items)
           base == [frame |-> frame, attempts |-> attempts]
           Is(f, m) == f = [n \in 0..m |-> IF n = 0 THEN base ELSE RouteItem(f[n - 1], items[n])]
           Reached == {m \in Nat : \E f : Is(f, m)}
<1>1. N \in Nat /\ DOMAIN items = 1..N /\ \A k \in 1..N : items[k] \in Items
  BY SeqIs
<1>2. Reached = Nat
  <2> HIDE DEF base
  <2>1. 0 \in Reached
    <3> DEFINE f == [n \in 0..0 |-> base]
    <3>1. Is(f, 0)
      OBVIOUS
    <3> HIDE DEF Is, f
    <3> QED
      BY <3>1
  <2>2. ASSUME NEW m \in Reached
        PROVE  m + 1 \in Reached
    <3>1. PICK f : Is(f, m)
      OBVIOUS
    <3> DEFINE g == [n \in 0..(m + 1) |-> IF n = 0 THEN base ELSE RouteItem(f[n - 1], items[n])]
    <3>2. m \in Nat
      OBVIOUS
    <3>3. \A n \in 0..m : f[n] = g[n]
      BY <3>1, <3>2
    <3>4. \A n \in 0..(m + 1) : n # 0 => n - 1 \in 0..m
      BY <3>2
    <3>5. ASSUME NEW n \in 0..(m + 1)
          PROVE  g[n] = IF n = 0 THEN base ELSE RouteItem(g[n - 1], items[n])
      <4>1. g[n] = IF n = 0 THEN base ELSE RouteItem(f[n - 1], items[n])
        OBVIOUS
      <4>2. n # 0 => f[n - 1] = g[n - 1]
        <5> HIDE DEF g, Is
        <5> QED
          BY <3>3, <3>4
      <4> HIDE DEF g, Is
      <4>3. CASE n = 0
        BY <4>1, <4>3
      <4>4. CASE n # 0
        BY <4>1, <4>2, <4>4
      <4> QED
        BY <4>3, <4>4
    <3>6. g = [n \in 0..(m + 1) |-> g[n]]
      OBVIOUS
    <3>7. Is(g, m + 1)
      <4> HIDE DEF g
      <4> QED
        BY <3>5, <3>6
    <3> HIDE DEF Is, g
    <3>8. \E h : Is(h, m + 1)
      BY <3>7
    <3> QED
      BY <3>2, <3>8
  <2> HIDE DEF Is
  <2>3. Reached \in SUBSET Nat
    OBVIOUS
  <2> HIDE DEF Reached
  <2> QED
    BY <2>1, <2>2, <2>3, SetInduction
<1> DEFINE routed == CHOOSE f : Is(f, N)
<1>3. Is(routed, N)
  <2> HIDE DEF Is, N
  <2>1. \E f : Is(f, N)
    BY <1>1, <1>2
  <2> QED
    BY <2>1
<1>4. RouteAll(frame, items) = routed[N]
  BY DEF RouteAll
<1> HIDE DEF routed, N
<1>5. routed[0] = base /\ \A n \in 1..N : routed[n] = RouteItem(routed[n - 1], items[n])
  <2> HIDE DEF base
  <2>1. \A n \in 0..N : routed[n] = IF n = 0 THEN base ELSE RouteItem(routed[n - 1], items[n])
    BY <1>3
  <2>2. 0 \in 0..N /\ \A n \in 1..N : n \in 0..N /\ n # 0
    BY <1>1
  <2> HIDE DEF Is
  <2> QED
    BY <2>1, <2>2
<1> HIDE DEF Is
<1> DEFINE First_(n) == {items[k] : k \in 1..n}
           Good(r, n) == /\ r = [frame |-> r.frame, attempts |-> r.attempts]
                         /\ IsForeach(r.frame) /\ Tidy(r.frame, FALSE)
                         /\ Has(r.frame, FALSE) = Has(frame, FALSE) \cup First_(n)
                         /\ Open(r.frame, FALSE) \subseteq Open(frame, FALSE) \cup First_(n)
           Goods == {n \in Nat : n <= N => Good(routed[n], n)}
<1>6. 0 \in Goods
  <2>1. First_(0) = {} /\ base.frame = frame /\ base = [frame |-> base.frame, attempts |-> base.attempts]
    OBVIOUS
  <2> HIDE DEF base, First_
  <2>2. Good(base, 0)
    BY <2>1
  <2> QED
    BY <1>5, <2>2
<1>7. ASSUME NEW n \in Goods, n + 1 <= N
      PROVE  Good(routed[n + 1], n + 1)
  <2> HIDE DEF Good
  <2>1. n \in Nat /\ n <= N /\ n + 1 \in 1..N /\ (n + 1) - 1 = n
    BY <1>1, <1>7
  <2>2. Good(routed[n], n)
    BY <2>1
  <2>3. routed[n + 1] = RouteItem(routed[n], items[n + 1])
    BY <1>5, <2>1
  <2>4. items[n + 1] \in Items /\ items[n + 1] \in ToSet(items)
    BY <1>1, <2>1 DEF ToSet
  <2>5. items[n + 1] \notin First_(n)
    <3> SUFFICES ASSUME NEW k \in 1..n, items[n + 1] = items[k]
                 PROVE  FALSE
      OBVIOUS
    <3>1. k \in 1..N /\ k # n + 1
      BY <1>1, <2>1
    <3> QED
      BY <1>1, <2>1, <3>1 DEF IsInjective
  <2>6. First_(n + 1) = First_(n) \cup {items[n + 1]}
    <3>1. 1..(n + 1) = (1..n) \cup {n + 1}
      BY <2>1
    <3> QED
      BY <3>1
  <2> HIDE DEF First_
  <2> DEFINE acc == routed[n]
             i == items[n + 1]
             r == routed[n + 1]
  <2>7. /\ acc = [frame |-> acc.frame, attempts |-> acc.attempts]
        /\ IsForeach(acc.frame) /\ Tidy(acc.frame, FALSE)
        /\ Has(acc.frame, FALSE) = Has(frame, FALSE) \cup First_(n)
        /\ Open(acc.frame, FALSE) \subseteq Open(frame, FALSE) \cup First_(n)
    BY <2>2 DEF Good
  <2>8. i \in Items /\ i \notin Has(acc.frame, FALSE) /\ r = RouteItem(acc, i)
    BY <2>3, <2>4, <2>5, <2>7
  <2> HIDE DEF acc, i, r
  <2>9. /\ r = [frame |-> r.frame, attempts |-> r.attempts]
        /\ IsForeach(r.frame) /\ Tidy(r.frame, FALSE)
        /\ Has(r.frame, FALSE) = Has(acc.frame, FALSE) \cup {i}
        /\ Open(r.frame, FALSE) \subseteq Open(acc.frame, FALSE) \cup {i}
    BY <2>7, <2>8, RouteItemIs
  <2>10. First_(n + 1) = First_(n) \cup {i}
    BY <2>6 DEF i
  <2>11. Good(r, n + 1)
    BY <2>7, <2>9, <2>10 DEF Good
  <2> QED
    BY <2>11 DEF r
<1>8. Goods = Nat
  <2> HIDE DEF Good
  <2>1. Goods \in SUBSET Nat /\ \A n \in Goods : n + 1 \in Goods
    BY <1>7
  <2> HIDE DEF Goods
  <2> QED
    BY <1>6, <2>1, SetInduction
<1>9. Good(routed[N], N)
  <2> HIDE DEF Good
  <2> QED
    BY <1>1, <1>8
<1>10. First_(N) = ToSet(items)
  BY <1>1 DEF ToSet
<1> HIDE DEF First_
<1> QED
  BY <1>4, <1>9, <1>10

-----------------------------------------------------------------------------
(* Frames that take the place of the innermost ones.                       *)

\* The places of the result.
LEMMA SwapPlaces ==
    ASSUME NEW E, NEW st \in Seq(E), NEW n \in 1..Len(st), NEW new \in Seq(E), new # <<>>
    PROVE  LET st2 == new \o SubSeq(st, n + 1, Len(st))
               m == Len(new)
           IN  /\ st2 \in Seq(E) /\ m \in Nat \ {0} /\ DOMAIN st2 = 1..(m + (Len(st) - n))
               /\ Len(st2) = m + (Len(st) - n)
               /\ \A k \in 1..m : st2[k] = new[k]
               /\ \A k \in DOMAIN st2 : k \notin 1..m =>
                    /\ k - m + n \in (n + 1)..Len(st) /\ k # 1
                    /\ st2[k] = st[k - m + n]
<1> DEFINE rest == SubSeq(st, n + 1, Len(st))
           m == Len(new)
           L == Len(st)
           st2 == new \o rest
<1>1. L \in Nat /\ (\A k \in 1..L : st[k] \in E) /\ n \in 1..L
  BY SeqIs
<1>2. m \in Nat \ {0} /\ DOMAIN new = 1..m
  BY SeqIs, EmptySeq
<1>3. rest \in Seq(E) /\ Len(rest) = L - n /\ \A k \in 1..(L - n) : rest[k] = st[n + k]
  <2>1. n + 1 \in 1..(L + 1) /\ L \in Int /\ n + 1 \in Int
    BY <1>1
  <2>2. \A i \in (n + 1)..L : st[i] \in E
    BY <1>1
  <2> DEFINE a == n + 1
  <2>3. /\ SubSeq(st, a, L) \in Seq(E)
        /\ Len(SubSeq(st, a, L)) = IF a <= L THEN L - a + 1 ELSE 0
        /\ \A i \in 1..(L - a + 1) : SubSeq(st, a, L)[i] = st[a + i - 1]
    <3>1. a \in Int /\ L \in Int /\ \A i \in a..L : st[i] \in E
      BY <2>1, <2>2
    <3> HIDE DEF a, L
    <3> QED
      BY <3>1, SubSeqProperties
  <2>4. rest = SubSeq(st, a, L)
    OBVIOUS
  <2> HIDE DEF rest, L
  <2>5. Len(rest) = L - n /\ L - a + 1 = L - n
    BY <1>1, <2>3, <2>4
  <2>6. \A k \in 1..(L - n) : a + k - 1 = n + k
    BY <1>1
  <2> QED
    BY <2>3, <2>4, <2>5, <2>6
<1> HIDE DEF rest, L
<1>4. /\ st2 \in Seq(E) /\ Len(st2) = m + (L - n)
      /\ \A k \in 1..(m + (L - n)) : st2[k] = IF k <= m THEN new[k] ELSE rest[k - m]
  <2>1. /\ st2 \in Seq(E) /\ Len(st2) = m + Len(rest)
        /\ \A k \in 1..(m + Len(rest)) : st2[k] = IF k <= m THEN new[k] ELSE rest[k - m]
    BY <1>3, ConcatProperties
  <2> HIDE DEF st2, m
  <2> QED
    BY <1>3, <2>1
<1>5. DOMAIN st2 = 1..(m + (L - n))
  BY <1>4, LenProperties
<1> HIDE DEF st2, m
<1>6. ASSUME NEW k \in 1..m
      PROVE  st2[k] = new[k]
  <2>1. k \in 1..(m + (L - n)) /\ k <= m
    BY <1>1, <1>2
  <2> QED
    BY <1>4, <2>1
<1>7. ASSUME NEW k \in DOMAIN st2, k \notin 1..m
      PROVE  /\ k - m + n \in (n + 1)..L /\ k # 1
             /\ st2[k] = st[k - m + n]
  <2>1. k \in 1..(m + (L - n)) /\ ~(k <= m) /\ k - m \in 1..(L - n) /\ n + (k - m) = k - m + n
    BY <1>1, <1>2, <1>5, <1>7
  <2>2. k - m + n \in (n + 1)..L /\ k # 1
    BY <1>1, <1>2, <2>1
  <2>3. st2[k] = rest[k - m]
    BY <1>4, <2>1
  <2>4. rest[k - m] = st[n + (k - m)]
    BY <1>3, <2>1
  <2> QED
    BY <2>1, <2>2, <2>3, <2>4
<1> QED
  BY <1>2, <1>4, <1>5, <1>6, <1>7 DEF st2, m, L, rest

\* Where the frames are when new ones take the place of the first n.
LEMMA NewPlaces ==
    ASSUME NEW E, NEW st \in Seq(E), NEW n \in 1..Len(st), NEW new \in Seq(E), new # <<>>
    PROVE  /\ new \o SubSeq(st, n + 1, Len(st)) \in Seq(E)
           /\ DOMAIN (new \o SubSeq(st, n + 1, Len(st))) = 1..(Len(new) + (Len(st) - n))
           /\ Len(new \o SubSeq(st, n + 1, Len(st))) = Len(new) + (Len(st) - n)
           /\ \A k \in 1..Len(new) : (new \o SubSeq(st, n + 1, Len(st)))[k] = new[k]
           /\ \A k \in 1..(Len(new) + (Len(st) - n)) : k \notin 1..Len(new) =>
                (new \o SubSeq(st, n + 1, Len(st)))[k] = st[k - Len(new) + n]
BY SwapPlaces

\* Where the places of the result were, and where those of the rest are.
LEMMA SwapArithmetic ==
    ASSUME NEW L \in Nat, NEW m \in Nat \ {0}, NEW n \in 1..L
    PROVE  LET M == m + (L - n)
               was(k) == k - m + n
               is(k) == k - n + m
           IN  /\ M \in 1..M /\ 1 \in 1..M /\ m \in 1..m
               /\ n = L => M = m
               /\ n # L => M \notin 1..m /\ was(M) = L
               /\ \A k \in 1..m : k \in 1..M
               /\ \A k \in (n + 1)..L : k \in 1..L /\ k # 1 /\ k \notin 1..n /\ n # L
               /\ \A k \in 1..M : k \notin 1..m => was(k) \in (n + 1)..L /\ k # 1
               /\ \A k \in 1..M : k + 1 \in 1..m => k \in 1..m
               /\ \A k \in 1..M : k + 1 \in 1..M /\ k \in 1..m /\ k + 1 \notin 1..m =>
                    k = m /\ was(k + 1) = n + 1 /\ n + 1 \in 1..L
               /\ \A k \in 1..M : was(k + 1) = was(k) + 1
               /\ \A j, k \in 1..M : j # k => was(j) # was(k)
               /\ \A k \in 1..L : k \notin 1..n =>
                    is(k) \in 1..M /\ is(k) \notin 1..m /\ is(k) # 1 /\ k # 1 /\ was(is(k)) = k
OBVIOUS

\* The frames of a run are what they should be, and have nothing twice.
Work(st, sts) == Frames(st) /\ Separate(st) /\ OpenStay(st, sts)

\* The frames new may take the place of the n innermost ones of st, which had old:
\* what these had, those have, and only what these had gets a status.
Replace(new, st, n, old, sts, sts2) ==
    /\ new # <<>> /\ new \in Seq(ToSet(new))
    /\ \A k \in DOMAIN new : IsFrame(new[k])
    /\ \A k \in DOMAIN new : k + 1 \in DOMAIN new => LiesOn(new[k], new[k + 1])
    /\ n = Len(st) => new[Len(new)].what = "scope"
    /\ n + 1 \in DOMAIN st => LiesOn(new[Len(new)], st[n + 1])
    /\ Separate(new) /\ OpenStay(new, sts2)
    /\ \A k \in 1..n : Has(st[k], k = 1) \subseteq old
    /\ \A e \in old : \E k \in 1..n : e \in Has(st[k], k = 1)
    /\ old \subseteq Holds(new) /\ (n = Len(st) \/ Holds(new) \subseteq old)
    /\ sts2 \subseteq sts \cup old

\* Frames that replace the innermost ones leave the work what it should be.
LEMMA Swap ==
    ASSUME NEW st, NEW sts, NEW sts2, NEW n \in 1..Len(st), NEW new, NEW old,
           Work(st, sts), Replace(new, st, n, old, sts, sts2)
    PROVE  LET st2 == new \o SubSeq(st, n + 1, Len(st))
           IN  Work(st2, sts2) /\ Holds(st) \subseteq Holds(st2) /\ st2 # <<>>
<1> DEFINE E == ToSet(st) \cup ToSet(new)
           st2 == new \o SubSeq(st, n + 1, Len(st))
           m == Len(new)
           L == Len(st)
           was(k) == k - m + n
<1>a. Frames(st) /\ Separate(st) /\ OpenStay(st, sts)
  BY DEF Work
<1>b. /\ \A k \in DOMAIN new : IsFrame(new[k])
      /\ \A k \in DOMAIN new : k + 1 \in DOMAIN new => LiesOn(new[k], new[k + 1])
      /\ n = Len(st) => new[Len(new)].what = "scope"
      /\ n + 1 \in DOMAIN st => LiesOn(new[Len(new)], st[n + 1])
  BY DEF Replace
<1>c. /\ \A k \in 1..n : Has(st[k], k = 1) \subseteq old
      /\ \A e \in old : \E k \in 1..n : e \in Has(st[k], k = 1)
  BY DEF Replace
<1>d. new # <<>> /\ Separate(new) /\ OpenStay(new, sts2)
  BY DEF Replace
<1>e. old \subseteq Holds(new) /\ (n = Len(st) \/ Holds(new) \subseteq old) /\ sts2 \subseteq sts \cup old
  BY DEF Replace
<1>1. st \in Seq(E) /\ new \in Seq(E)
  BY SeqMonotonic DEF Work, Frames, Replace
<1>2. /\ L \in Nat /\ DOMAIN st = 1..L /\ m \in Nat \ {0} /\ DOMAIN new = 1..m
  <2>1. Len(st) \in Nat /\ DOMAIN st = 1..Len(st) /\ Len(new) \in Nat /\ DOMAIN new = 1..Len(new)
    BY <1>1, SeqIs
  <2>2. Len(new) # 0
    BY <1>1, <1>d, EmptySeq
  <2> QED
    BY <2>1, <2>2
<1> DEFINE M == m + (L - n)
           is(k) == k - n + m
<1>3. /\ st2 \in Seq(E) /\ DOMAIN st2 = 1..M /\ Len(st2) = M
      /\ \A k \in 1..m : st2[k] = new[k]
      /\ \A k \in 1..M : k \notin 1..m => st2[k] = st[was(k)]
  <2>1. n \in 1..Len(st)
    OBVIOUS
  <2> HIDE DEF E
  <2>2. /\ st2 \in Seq(E) /\ DOMAIN st2 = 1..M /\ Len(st2) = M
        /\ \A k \in 1..m : st2[k] = new[k]
        /\ \A k \in 1..M : k \notin 1..m => st2[k] = st[was(k)]
    <3>1. new # <<>>
      BY <1>d
    <3>2. st \in Seq(E) /\ new \in Seq(E)
      BY <1>1
    <3>3. /\ new \o SubSeq(st, n + 1, Len(st)) \in Seq(E)
          /\ DOMAIN (new \o SubSeq(st, n + 1, Len(st))) = 1..(Len(new) + (Len(st) - n))
          /\ Len(new \o SubSeq(st, n + 1, Len(st))) = Len(new) + (Len(st) - n)
          /\ \A k \in 1..Len(new) : (new \o SubSeq(st, n + 1, Len(st)))[k] = new[k]
          /\ \A k \in 1..(Len(new) + (Len(st) - n)) : k \notin 1..Len(new) =>
               (new \o SubSeq(st, n + 1, Len(st)))[k] = st[k - Len(new) + n]
      BY <2>1, <3>1, <3>2, NewPlaces
    <3> QED
      BY <3>3
  <2> HIDE DEF st2, m, M, was
  <2> QED
    BY <2>2
<1>3a. n \in 1..L
  OBVIOUS
<1>3b. n = L \/ Holds(new) \subseteq old
  BY <1>e
<1> HIDE DEF st2, E, m, L
<1>4. /\ M \in 1..M /\ 1 \in 1..M /\ m \in 1..m
      /\ n = L => M = m
      /\ n # L => M \notin 1..m /\ was(M) = L
      /\ \A k \in 1..m : k \in 1..M
      /\ \A k \in (n + 1)..L : k \in 1..L /\ k # 1 /\ k \notin 1..n /\ n # L
      /\ \A k \in 1..M : k \notin 1..m => was(k) \in (n + 1)..L /\ k # 1
      /\ \A k \in 1..M : k + 1 \in 1..m => k \in 1..m
      /\ \A k \in 1..M : k + 1 \in 1..M /\ k \in 1..m /\ k + 1 \notin 1..m =>
           k = m /\ was(k + 1) = n + 1 /\ n + 1 \in 1..L
      /\ \A k \in 1..M : was(k + 1) = was(k) + 1
      /\ \A j, k \in 1..M : j # k => was(j) # was(k)
      /\ \A k \in 1..L : k \notin 1..n =>
           is(k) \in 1..M /\ is(k) \notin 1..m /\ is(k) # 1 /\ k # 1 /\ was(is(k)) = k
  BY <1>2, <1>3a, SwapArithmetic
<1>4a. \A k \in 1..n : k \in 1..L
  BY <1>2, <1>3a
<1> HIDE DEF M, was, is
<1>5. ASSUME NEW r \in (n + 1)..L
      PROVE  Has(st[r], FALSE) \cap Holds(new) = {} /\ Has(st[r], FALSE) \cap old = {}
  <2>1. r \in DOMAIN st /\ (r = 1) = FALSE /\ \A k \in 1..n : k \in DOMAIN st /\ k # r
    BY <1>2, <1>4, <1>4a
  <2>2. \A x, y \in DOMAIN st : x # y => Has(st[x], x = 1) \cap Has(st[y], y = 1) = {}
    BY <1>a DEF Separate
  <2>3. Has(st[r], FALSE) = Has(st[r], r = 1)
    BY <2>1
  <2>4. ASSUME NEW k \in 1..n
        PROVE  Has(st[r], FALSE) \cap Has(st[k], k = 1) = {}
    <3>1. k \in DOMAIN st /\ k # r
      BY <2>1
    <3>2. Has(st[r], r = 1) \cap Has(st[k], k = 1) = {}
      BY <2>1, <2>2, <3>1
    <3> QED
      BY <2>3, <3>2
  <2>5. Has(st[r], FALSE) \cap old = {}
    <3>1. \A e \in old : \E k \in 1..n : e \in Has(st[k], k = 1)
      BY <1>c
    <3> QED
      BY <2>4, <3>1
  <2>6. Holds(new) \subseteq old
    BY <1>3b, <1>4
  <2> QED
    BY <2>5, <2>6
<1>6. ASSUME NEW k \in DOMAIN st2
      PROVE  \/ k \in DOMAIN new /\ st2[k] = new[k] /\ Has(st2[k], k = 1) \subseteq Holds(new)
             \/ /\ k \notin DOMAIN new /\ was(k) \in (n + 1)..L /\ was(k) \in DOMAIN st
                /\ st2[k] = st[was(k)] /\ (k = 1) = FALSE /\ (was(k) = 1) = FALSE
  <2>1. CASE k \in 1..m
    <3>1. k \in DOMAIN new /\ st2[k] = new[k]
      BY <1>2, <1>3, <2>1
    <3> QED
      BY <3>1 DEF Holds
  <2>2. CASE k \notin 1..m
    <3>1. k \in 1..M /\ k \notin DOMAIN new
      BY <1>2, <1>3, <2>2
    <3>2. was(k) \in (n + 1)..L /\ k # 1 /\ st2[k] = st[was(k)]
      BY <1>3, <1>4, <2>2, <3>1
    <3>3. was(k) \in 1..L /\ was(k) # 1
      BY <1>4, <3>2
    <3> QED
      BY <1>2, <3>1, <3>2, <3>3
  <2> QED
    BY <2>1, <2>2
<1>7. \A k \in DOMAIN st2 : IsFrame(st2[k])
  <2>1. \A k \in DOMAIN st : IsFrame(st[k])
    BY <1>a DEF Frames
  <2> QED
    BY <1>6, <1>b, <2>1
<1>8. ASSUME NEW k \in DOMAIN st2, k + 1 \in DOMAIN st2
      PROVE  LiesOn(st2[k], st2[k + 1])
  <2>1. \A j \in DOMAIN st : j + 1 \in DOMAIN st => LiesOn(st[j], st[j + 1])
    BY <1>a DEF Frames
  <2>2. CASE k + 1 \in 1..m
    <3>1. k \in 1..m
      BY <1>3, <1>4, <2>2
    <3> QED
      BY <1>2, <1>3, <1>b, <2>2, <3>1
  <2>3. CASE k \in 1..m /\ k + 1 \notin 1..m
    <3>1. k = m /\ was(k + 1) = n + 1 /\ n + 1 \in 1..L
      BY <1>3, <1>4, <1>8, <2>3
    <3>2. st2[k] = new[k] /\ st2[k + 1] = st[was(k + 1)]
      BY <1>3, <1>8, <2>3
    <3>3. st2[k] = new[m] /\ st2[k + 1] = st[n + 1] /\ n + 1 \in DOMAIN st
      BY <1>2, <3>1, <3>2
    <3> QED
      BY <1>b, <3>3 DEF m
  <2>4. CASE k \notin 1..m /\ k + 1 \notin 1..m
    <3>1. /\ st2[k] = st[was(k)] /\ was(k) \in DOMAIN st
          /\ st2[k + 1] = st[was(k + 1)] /\ was(k + 1) \in DOMAIN st
      BY <1>2, <1>6, <1>8, <2>4
    <3>2. was(k + 1) = was(k) + 1
      BY <1>3, <1>4
    <3> QED
      BY <2>1, <3>1, <3>2
  <2> QED
    BY <2>2, <2>3, <2>4, <1>3
<1>9. st2 # <<>> /\ st2[Len(st2)].what = "scope"
  <2>1. M \in DOMAIN st2 /\ 1 \in DOMAIN st2 /\ m \in 1..m /\ Len(st2) = M
    BY <1>3, <1>4
  <2>2. CASE n = L
    <3>1. M = m /\ st2[m] = new[m]
      BY <1>3, <1>4, <2>2
    <3>2. new[m].what = "scope"
      BY <1>b, <2>2 DEF m, L
    <3> QED
      BY <2>1, <3>1, <3>2, EmptyIs
  <2>3. CASE n # L
    <3>1. M \notin 1..m /\ was(M) = L
      BY <1>4, <2>3
    <3>2. st2[M] = st[L]
      BY <1>3, <1>4, <3>1
    <3>3. st # <<>>
      BY <1>2, <1>3a, EmptyIs
    <3>4. st[L].what = "scope"
      BY <1>a, <3>3 DEF Frames, L
    <3> QED
      BY <2>1, <3>2, <3>4, EmptyIs
  <2> QED
    BY <2>2, <2>3
<1>10. Frames(st2)
  <2>1. st2 \in Seq(ToSet(st2))
    <3>1. st2 \in [1..Len(st2) -> ToSet(st2)]
      <4>1. DOMAIN st2 = 1..Len(st2) /\ st2 \in [DOMAIN st2 -> E]
        BY <1>3, LenProperties
      <4>2. \A k \in DOMAIN st2 : st2[k] \in ToSet(st2)
        BY DEF ToSet
      <4> QED
        BY <4>1, <4>2
    <3>2. Len(st2) \in Nat
      BY <1>3, LenProperties
    <3> QED
      BY <3>1, <3>2, SeqDef
  <2> QED
    BY <1>7, <1>8, <1>9, <2>1 DEF Frames
<1>11. ASSUME NEW k \in DOMAIN st2
       PROVE  Tidy(st2[k], k = 1) /\ Open(st2[k], k = 1) \cap sts2 = {}
  <2>1. CASE k \in DOMAIN new /\ st2[k] = new[k]
    BY <1>d, <2>1 DEF Separate, OpenStay
  <2>2. CASE /\ was(k) \in (n + 1)..L
             /\ st2[k] = st[was(k)] /\ (k = 1) = FALSE /\ (was(k) = 1) = FALSE
    <3> DEFINE r == was(k)
    <3>1. r \in DOMAIN st /\ st2[k] = st[r] /\ (k = 1) = FALSE /\ (r = 1) = FALSE /\ r \in (n + 1)..L
      BY <1>2, <1>4, <2>2
    <3> HIDE DEF r, was
    <3>2. Tidy(st[r], r = 1) /\ Open(st[r], r = 1) \cap sts = {}
      BY <1>a, <3>1 DEF Separate, OpenStay
    <3>3. Tidy(st[r], FALSE) /\ Open(st[r], FALSE) \cap sts = {}
      BY <3>1, <3>2
    <3>4. Open(st[r], FALSE) \subseteq Has(st[r], FALSE)
      BY DEF Has
    <3>5. Open(st[r], FALSE) \cap sts2 = {}
      BY <1>5, <1>e, <3>1, <3>3, <3>4
    <3> QED
      BY <3>1, <3>3, <3>5
  <2> QED
    BY <1>6, <2>1, <2>2
<1>12. ASSUME NEW j \in DOMAIN st2, NEW k \in DOMAIN st2, j # k
       PROVE  Has(st2[j], j = 1) \cap Has(st2[k], k = 1) = {}
  <2>1. CASE j \in DOMAIN new /\ st2[j] = new[j] /\ k \in DOMAIN new /\ st2[k] = new[k]
    BY <2>1, <1>d, <1>12 DEF Separate
  <2>2. \A r \in (n + 1)..L : Has(st[r], FALSE) \cap Holds(new) = {}
    BY <1>5
  <2>3. ASSUME NEW a \in DOMAIN st2, NEW b \in DOMAIN st2, Has(st2[a], a = 1) \subseteq Holds(new),
               was(b) \in (n + 1)..L, st2[b] = st[was(b)], (b = 1) = FALSE
        PROVE  Has(st2[a], a = 1) \cap Has(st2[b], b = 1) = {}
    BY <2>2, <2>3
  <2>4. CASE /\ was(j) \in (n + 1)..L /\ st2[j] = st[was(j)] /\ (j = 1) = FALSE /\ (was(j) = 1) = FALSE
             /\ was(k) \in (n + 1)..L /\ st2[k] = st[was(k)] /\ (k = 1) = FALSE /\ (was(k) = 1) = FALSE
    <3>1. was(j) \in DOMAIN st /\ was(k) \in DOMAIN st
      BY <1>2, <1>4, <2>4
    <3>2. was(j) # was(k)
      BY <1>3, <1>4, <1>12
    <3>3. \A x, y \in DOMAIN st : x # y => Has(st[x], x = 1) \cap Has(st[y], y = 1) = {}
      BY <1>a DEF Separate
    <3>4. Has(st[was(j)], was(j) = 1) \cap Has(st[was(k)], was(k) = 1) = {}
      BY <3>1, <3>2, <3>3
    <3> QED
      BY <2>4, <3>4
  <2> HIDE DEF was
  <2> QED
    BY <1>6, <2>1, <2>3, <2>4
<1>13. Holds(st) \subseteq Holds(st2)
  <2>1. Holds(new) \subseteq Holds(st2)
    <3>1. \A k \in DOMAIN new : k \in DOMAIN st2 /\ st2[k] = new[k]
      BY <1>2, <1>3, <1>4
    <3> QED
      BY <3>1 DEF Holds
  <2>2. ASSUME NEW k \in DOMAIN st, k \notin 1..n
        PROVE  Has(st[k], k = 1) \subseteq Holds(st2)
    <3> DEFINE j == is(k)
    <3>1. j \in DOMAIN st2 /\ j \notin 1..m /\ was(j) = k /\ (j = 1) = (k = 1)
      BY <1>2, <1>3, <1>4, <2>2
    <3>2. st2[j] = st[k]
      BY <1>3, <3>1
    <3> HIDE DEF j
    <3> QED
      BY <3>1, <3>2 DEF Holds
  <2>3. ASSUME NEW e \in Holds(st)
        PROVE  e \in Holds(st2)
    <3>1. PICK k \in DOMAIN st : e \in Has(st[k], k = 1)
      BY DEF Holds
    <3>2. CASE k \in 1..n
      BY <1>c, <1>e, <2>1, <3>1, <3>2
    <3>3. CASE k \notin 1..n
      BY <2>2, <3>1, <3>3
    <3> QED
      BY <3>2, <3>3
  <2> QED
    BY <2>3
<1>14. Work(st2, sts2)
  BY <1>10, <1>11, <1>12 DEF Work, Separate, OpenStay
<1> QED
  BY <1>9, <1>13, <1>14 DEF st2

\* The two innermost frames.
LEMMA TopIs ==
    ASSUME NEW st, NEW sts, Work(st, sts), st # <<>>
    PROVE  /\ Len(st) \in Nat /\ DOMAIN st = 1..Len(st) /\ Head(st) = st[1]
           /\ 1 \in DOMAIN st /\ st \in Seq(ToSet(st))
           /\ IsFrame(st[1]) /\ Tidy(st[1], TRUE) /\ Open(st[1], TRUE) \cap sts = {}
           /\ Len(st) = 1 \/ 2 \in DOMAIN st
           /\ Len(st) = 1 => st[1].what = "scope"
           /\ 2 \in DOMAIN st =>
                /\ Len(st) > 1
                /\ IsFrame(st[2]) /\ Tidy(st[2], FALSE) /\ Open(st[2], FALSE) \cap sts = {}
                /\ LiesOn(st[1], st[2])
                /\ Has(st[1], TRUE) \cap Has(st[2], FALSE) = {}
                /\ 3 \in DOMAIN st => LiesOn(st[2], st[3])
                /\ Len(st) = 2 => st[2].what = "scope"
<1>1. /\ Len(st) \in Nat /\ DOMAIN st = 1..Len(st) /\ Head(st) = st[1] /\ Len(st) # 0
      /\ st \in Seq(ToSet(st))
  BY SeqIs, EmptySeq DEF Work, Frames
<1>2. /\ 1 \in DOMAIN st /\ (Len(st) = 1 \/ 2 \in DOMAIN st) /\ (2 \in DOMAIN st => Len(st) > 1)
      /\ 1 + 1 = 2 /\ 2 + 1 = 3
  BY <1>1
<1>3. /\ \A k \in DOMAIN st : IsFrame(st[k])
      /\ \A k \in DOMAIN st : k + 1 \in DOMAIN st => LiesOn(st[k], st[k + 1])
      /\ st[Len(st)].what = "scope"
  BY DEF Work, Frames
<1>4. /\ \A k \in DOMAIN st : Tidy(st[k], k = 1)
      /\ \A k \in DOMAIN st : Open(st[k], k = 1) \cap sts = {}
      /\ \A j, k \in DOMAIN st : j # k => Has(st[j], j = 1) \cap Has(st[k], k = 1) = {}
  BY DEF Work, Separate, OpenStay
<1>5. (1 = 1) = TRUE /\ (2 = 1) = FALSE
  OBVIOUS
<1>6. IsFrame(st[1]) /\ Tidy(st[1], TRUE) /\ Open(st[1], TRUE) \cap sts = {}
  <2>1. IsFrame(st[1]) /\ Tidy(st[1], 1 = 1) /\ Open(st[1], 1 = 1) \cap sts = {}
    BY <1>2, <1>3, <1>4
  <2> QED
    BY <2>1, <1>5
<1>7. ASSUME 2 \in DOMAIN st
      PROVE  /\ IsFrame(st[2]) /\ Tidy(st[2], FALSE) /\ Open(st[2], FALSE) \cap sts = {}
             /\ LiesOn(st[1], st[2])
             /\ Has(st[1], TRUE) \cap Has(st[2], FALSE) = {}
             /\ 3 \in DOMAIN st => LiesOn(st[2], st[3])
  <2>1. IsFrame(st[2]) /\ Tidy(st[2], 2 = 1) /\ Open(st[2], 2 = 1) \cap sts = {}
    BY <1>3, <1>4, <1>7
  <2>2. Has(st[1], 1 = 1) \cap Has(st[2], 2 = 1) = {}
    BY <1>2, <1>4, <1>7
  <2>3. LiesOn(st[1], st[2]) /\ (3 \in DOMAIN st => LiesOn(st[2], st[3]))
    BY <1>2, <1>3, <1>7
  <2> QED
    BY <2>1, <2>2, <2>3, <1>5
<1> QED
  BY <1>1, <1>2, <1>3, <1>6, <1>7

\* One frame, and two, as a stack of their own.
LEMMA OneIs ==
    ASSUME NEW f, NEW sts, IsFrame(f), Tidy(f, TRUE), Open(f, TRUE) \cap sts = {}
    PROVE  /\ <<f>> # <<>> /\ <<f>> \in Seq(ToSet(<<f>>)) /\ DOMAIN <<f>> = {1}
           /\ Len(<<f>>) = 1 /\ <<f>>[1] = f
           /\ Separate(<<f>>) /\ OpenStay(<<f>>, sts)
           /\ Holds(<<f>>) = Has(f, TRUE)
<1> DEFINE s == <<f>>
<1>1. s # <<>> /\ s \in Seq({f}) /\ DOMAIN s = {1} /\ Len(s) = 1 /\ s[1] = f
  OBVIOUS
<1> HIDE DEF s
<1>2. ToSet(s) = {f}
  BY <1>1 DEF ToSet
<1>3. (1 = 1) = TRUE
  OBVIOUS
<1>4. Separate(s)
  BY <1>1, <1>3 DEF Separate
<1>5. OpenStay(s, sts)
  BY <1>1, <1>3 DEF OpenStay
<1>6. Holds(s) = Has(f, TRUE)
  BY <1>1, <1>3 DEF Holds
<1> QED
  BY <1>1, <1>2, <1>4, <1>5, <1>6 DEF s

\* Two frames that may be the innermost ones.
Pair(f, g, sts) ==
    /\ IsFrame(f) /\ Tidy(f, TRUE) /\ Open(f, TRUE) \cap sts = {}
    /\ IsFrame(g) /\ Tidy(g, FALSE) /\ Open(g, FALSE) \cap sts = {}
    /\ Has(f, TRUE) \cap Has(g, FALSE) = {}

\* Two frames apart from each other make a stack.
LEMMA TwoIs ==
    ASSUME NEW f, NEW g, NEW sts, Pair(f, g, sts), NEW s,
           s \in Seq({f, g}), DOMAIN s = {1, 2}, s[1] = f, s[2] = g
    PROVE  /\ s \in Seq(ToSet(s))
           /\ Separate(s) /\ OpenStay(s, sts)
           /\ Holds(s) = Has(f, TRUE) \cup Has(g, FALSE)
<1>1. s \in Seq({f, g}) /\ DOMAIN s = {1, 2} /\ s[1] = f /\ s[2] = g
  OBVIOUS
<1>2. ToSet(s) = {f, g}
  BY <1>1 DEF ToSet
<1>3. (1 = 1) = TRUE /\ (2 = 1) = FALSE
  OBVIOUS
<1>4. Separate(s)
  <2>1. \A k \in DOMAIN s : Tidy(s[k], k = 1)
    BY <1>1, <1>3 DEF Pair
  <2>2. \A j, k \in DOMAIN s : j # k => Has(s[j], j = 1) \cap Has(s[k], k = 1) = {}
    BY <1>1, <1>3 DEF Pair
  <2> QED
    BY <2>1, <2>2 DEF Separate
<1>5. OpenStay(s, sts)
  BY <1>1, <1>3 DEF OpenStay, Pair
<1>6. Holds(s) = Has(f, TRUE) \cup Has(g, FALSE)
  <2>1. Holds(s) = Has(s[1], 1 = 1) \cup Has(s[2], 2 = 1)
    BY <1>1 DEF Holds
  <2> QED
    BY <1>1, <1>3, <2>1
<1> QED
  BY <1>1, <1>2, <1>4, <1>5, <1>6

\* What the work goes on with.
Continues(st, st2, sts2) == Work(st2, sts2) /\ st2 # <<>> /\ Holds(st) \subseteq Holds(st2)

\* A frame changes.
Becomes(f, st, sts, sts2) ==
    /\ IsFrame(f) /\ f.what = st[1].what
    /\ 2 \in DOMAIN st => LiesOn(f, st[2])
    /\ Tidy(f, TRUE) /\ Open(f, TRUE) \cap sts2 = {}
    /\ Has(f, TRUE) = Has(st[1], TRUE)
    /\ sts2 \subseteq sts \cup Has(st[1], TRUE)

\* A frame that becomes another leaves the stack in order.
LEMMA SwapOne ==
    ASSUME NEW st, NEW sts, NEW sts2, Work(st, sts), st # <<>>, NEW f, Becomes(f, st, sts, sts2)
    PROVE  Continues(st, <<f>> \o Tail(st), sts2)
<1> DEFINE new == <<f>>
           old == Has(st[1], TRUE)
           st2 == new \o SubSeq(st, 1 + 1, Len(st))
<1>1. /\ Len(st) \in Nat /\ DOMAIN st = 1..Len(st) /\ 1 \in DOMAIN st
      /\ st \in Seq(ToSet(st))
      /\ Len(st) = 1 => st[1].what = "scope"
  BY TopIs
<1>2. /\ new # <<>> /\ new \in Seq(ToSet(new)) /\ DOMAIN new = {1} /\ Len(new) = 1 /\ new[1] = f
      /\ Separate(new) /\ OpenStay(new, sts2) /\ Holds(new) = Has(f, TRUE)
  BY OneIs DEF Becomes
<1>3. /\ \A k \in 1..1 : Has(st[k], k = 1) \subseteq old
      /\ \A e \in old : \E k \in 1..1 : e \in Has(st[k], k = 1)
  <2>1. \A k \in 1..1 : k = 1 /\ (k = 1) = TRUE
    OBVIOUS
  <2>2. 1 \in 1..1
    OBVIOUS
  <2>3. \A k \in 1..1 : Has(st[k], k = 1) = old
    BY <2>1
  <2> QED
    BY <2>2, <2>3
<1> HIDE DEF new, old, st2
<1>4. /\ \A k \in DOMAIN new : IsFrame(new[k])
      /\ \A k \in DOMAIN new : k + 1 \in DOMAIN new => LiesOn(new[k], new[k + 1])
  BY <1>2 DEF Becomes
<1>4a. 1 \in 1..Len(st) /\ 1 + 1 = 2
  BY <1>1
<1>4b. /\ 1 = Len(st) => new[Len(new)].what = "scope"
       /\ 1 + 1 \in DOMAIN st => LiesOn(new[Len(new)], st[1 + 1])
  BY <1>1, <1>2, <1>4a DEF Becomes
<1>4c. old \subseteq Holds(new) /\ Holds(new) \subseteq old /\ sts2 \subseteq sts \cup old
  BY <1>2 DEF old, Becomes
<1>5. Replace(new, st, 1, old, sts, sts2)
  BY <1>2, <1>3, <1>4, <1>4b, <1>4c DEF Replace
<1>5a. Work(st2, sts2) /\ Holds(st) \subseteq Holds(st2) /\ st2 # <<>>
  BY <1>4a, <1>5, Swap DEF st2
<1>6. st2 = <<f>> \o Tail(st)
  BY <1>1, TailIsSubSeq DEF st2, new
<1> QED
  BY <1>5a, <1>6 DEF Continues

\* A frame changes and calls another.
Calls(f, g, st, sts, sts2) ==
    /\ Pair(f, g, sts2)
    /\ g.what = st[1].what /\ LiesOn(f, g)
    /\ 2 \in DOMAIN st => LiesOn(g, st[2])
    /\ Has(st[1], TRUE) \subseteq Has(f, TRUE) \cup Has(g, FALSE)
    /\ Len(st) = 1 \/ Has(f, TRUE) \cup Has(g, FALSE) \subseteq Has(st[1], TRUE)
    /\ sts2 \subseteq sts \cup Has(st[1], TRUE)

\* So does a frame that calls: the new one lies on it.
LEMMA SwapForTwo ==
    ASSUME NEW st, NEW sts, NEW sts2, Work(st, sts), st # <<>>, NEW f, NEW g,
           Calls(f, g, st, sts, sts2)
    PROVE  Continues(st, <<f, g>> \o SubSeq(st, 2, Len(st)), sts2)
<1> DEFINE new == <<f, g>>
           old == Has(st[1], TRUE)
           st2 == new \o SubSeq(st, 1 + 1, Len(st))
<1>1. /\ Len(st) \in Nat /\ DOMAIN st = 1..Len(st) /\ 1 \in DOMAIN st
      /\ Len(st) = 1 => st[1].what = "scope"
  BY TopIs
<1>2. /\ new # <<>> /\ new \in Seq(ToSet(new)) /\ DOMAIN new = {1, 2} /\ Len(new) = 2
      /\ new[1] = f /\ new[2] = g
      /\ Separate(new) /\ OpenStay(new, sts2) /\ Holds(new) = Has(f, TRUE) \cup Has(g, FALSE)
  <2>1. Pair(f, g, sts2)
    BY DEF Calls
  <2>2. /\ new \in Seq({f, g}) /\ DOMAIN new = {1, 2} /\ new[1] = f /\ new[2] = g
        /\ new # <<>> /\ Len(new) = 2
    OBVIOUS
  <2> HIDE DEF new
  <2>3. new \in Seq(ToSet(new))
    BY ONLY <2>1, <2>2, TwoIs
  <2>4. Separate(new)
    BY ONLY <2>1, <2>2, TwoIs
  <2>5. OpenStay(new, sts2)
    BY ONLY <2>1, <2>2, TwoIs
  <2>6. Holds(new) = Has(f, TRUE) \cup Has(g, FALSE)
    BY ONLY <2>1, <2>2, TwoIs
  <2> QED
    BY <2>2, <2>3, <2>4, <2>5, <2>6
<1>3. /\ \A k \in 1..1 : Has(st[k], k = 1) \subseteq old
      /\ \A e \in old : \E k \in 1..1 : e \in Has(st[k], k = 1)
  <2>1. \A k \in 1..1 : k = 1 /\ (k = 1) = TRUE
    OBVIOUS
  <2>2. 1 \in 1..1
    OBVIOUS
  <2>3. \A k \in 1..1 : Has(st[k], k = 1) = old
    BY <2>1
  <2> QED
    BY <2>2, <2>3
<1> HIDE DEF new, old, st2
<1>4. /\ \A k \in DOMAIN new : IsFrame(new[k])
      /\ \A k \in DOMAIN new : k + 1 \in DOMAIN new => LiesOn(new[k], new[k + 1])
  BY <1>2 DEF Calls, Pair
<1>4a. 1 \in 1..Len(st) /\ 1 + 1 = 2
  BY <1>1
<1>4b. /\ 1 = Len(st) => new[Len(new)].what = "scope"
       /\ 1 + 1 \in DOMAIN st => LiesOn(new[Len(new)], st[1 + 1])
  BY <1>1, <1>2, <1>4a DEF Calls
<1>4c. /\ old \subseteq Holds(new) /\ (1 = Len(st) \/ Holds(new) \subseteq old)
       /\ sts2 \subseteq sts \cup old
  BY <1>2 DEF old, Calls
<1>5. Replace(new, st, 1, old, sts, sts2)
  BY <1>2, <1>3, <1>4, <1>4b, <1>4c DEF Replace
<1>5a. Work(st2, sts2) /\ Holds(st) \subseteq Holds(st2) /\ st2 # <<>>
  BY <1>4a, <1>5, Swap DEF st2
<1>6. st2 = <<f, g>> \o SubSeq(st, 2, Len(st))
  BY DEF st2, new
<1> QED
  BY <1>5a, <1>6 DEF Continues

\* A frame returns to the one below it.
Returns(f, st, sts, sts2) ==
    /\ 2 \in DOMAIN st
    /\ IsFrame(f) /\ f.what = st[2].what
    /\ 3 \in DOMAIN st => LiesOn(f, st[3])
    /\ Tidy(f, TRUE) /\ Open(f, TRUE) \cap sts2 = {}
    /\ Has(f, TRUE) = Has(st[1], TRUE) \cup Has(st[2], FALSE)
    /\ sts2 \subseteq sts \cup Has(st[1], TRUE)

\* So does a frame that returns to the one below.
LEMMA SwapTwo ==
    ASSUME NEW st, NEW sts, NEW sts2, Work(st, sts), st # <<>>, NEW f, Returns(f, st, sts, sts2)
    PROVE  Continues(st, <<f>> \o SubSeq(st, 3, Len(st)), sts2)
<1> DEFINE new == <<f>>
           old == Has(st[1], TRUE) \cup Has(st[2], FALSE)
           st2 == new \o SubSeq(st, 2 + 1, Len(st))
<1>1. /\ Len(st) \in Nat /\ DOMAIN st = 1..Len(st) /\ 1 \in DOMAIN st
      /\ Len(st) = 2 => st[2].what = "scope"
  BY TopIs
<1>2. /\ new # <<>> /\ new \in Seq(ToSet(new)) /\ DOMAIN new = {1} /\ Len(new) = 1 /\ new[1] = f
      /\ Separate(new) /\ OpenStay(new, sts2) /\ Holds(new) = Has(f, TRUE)
  BY OneIs DEF Returns
<1>3. /\ \A k \in 1..2 : Has(st[k], k = 1) \subseteq old
      /\ \A e \in old : \E k \in 1..2 : e \in Has(st[k], k = 1)
  <2>1. \A k \in 1..2 : k = 1 \/ k = 2
    OBVIOUS
  <2>2. 1 \in 1..2 /\ 2 \in 1..2 /\ (1 = 1) = TRUE /\ (2 = 1) = FALSE
    OBVIOUS
  <2>3. Has(st[1], 1 = 1) = Has(st[1], TRUE) /\ Has(st[2], 2 = 1) = Has(st[2], FALSE)
    BY <2>2
  <2>4. \A k \in 1..2 : Has(st[k], k = 1) \subseteq old
    BY <2>1, <2>3
  <2>5. \A e \in old : \E k \in 1..2 : e \in Has(st[k], k = 1)
    BY <2>2, <2>3
  <2> QED
    BY <2>4, <2>5
<1> HIDE DEF new, old, st2
<1>4. /\ \A k \in DOMAIN new : IsFrame(new[k])
      /\ \A k \in DOMAIN new : k + 1 \in DOMAIN new => LiesOn(new[k], new[k + 1])
  BY <1>2 DEF Returns
<1>4a. 2 \in 1..Len(st) /\ 2 + 1 = 3
  BY <1>1 DEF Returns
<1>4b. /\ 2 = Len(st) => new[Len(new)].what = "scope"
       /\ 2 + 1 \in DOMAIN st => LiesOn(new[Len(new)], st[2 + 1])
  BY <1>1, <1>2, <1>4a DEF Returns
<1>4c. old \subseteq Holds(new) /\ Holds(new) \subseteq old /\ sts2 \subseteq sts \cup old
  BY <1>2 DEF old, Returns
<1>5. Replace(new, st, 2, old, sts, sts2)
  BY <1>2, <1>3, <1>4, <1>4b, <1>4c DEF Replace
<1>5a. Work(st2, sts2) /\ Holds(st) \subseteq Holds(st2) /\ st2 # <<>>
  BY <1>4a, <1>5, Swap DEF st2
<1>6. st2 = <<f>> \o SubSeq(st, 3, Len(st))
  BY DEF st2, new
<1> QED
  BY <1>5a, <1>6 DEF Continues

-----------------------------------------------------------------------------
(* What a step makes of its scope.                                         *)

\* Three lists that have nothing twice, and nothing of S.
Outside(acc, rej, skip, S) ==
    /\ acc \in Seq(Items) /\ rej \in Seq(Items) /\ skip \in Seq(Items)
    /\ IsInjective(acc) /\ IsInjective(rej) /\ IsInjective(skip)
    /\ ToSet(acc) \cap ToSet(rej) = {} /\ ToSet(acc) \cap ToSet(skip) = {}
    /\ ToSet(rej) \cap ToSet(skip) = {}
    /\ (ToSet(acc) \cup ToSet(rej) \cup ToSet(skip)) \cap S = {}

\* Three sets in the places of six.
LEMMA ApartAre ==
    ASSUME NEW O, NEW A, NEW S
    PROVE  Disjoint(O, {}, A, {}, S, {}) <=>
             O \cap A = {} /\ O \cap S = {} /\ A \cap S = {}
BY DEF Disjoint

After(f, g, acc, rej, skip) ==
    /\ IsScope(f) /\ f.body = g.body /\ f.pc = g.pc + 1 /\ f.items = rej
    /\ f.accepted = g.accepted \o acc /\ f.skipped = g.skipped \o skip
    /\ Tidy(f, TRUE) /\ Open(f, TRUE) = ToSet(rej)
    /\ Has(f, TRUE) = Done(g) \cup ToSet(acc) \cup ToSet(rej) \cup ToSet(skip)

\* runScope() after a step: the scope has what the step decided on and goes on
\* with what it rejected.
LEMMA AfterIs ==
    ASSUME NEW g, IsScope(g), Tidy(g, FALSE), NEW acc, NEW rej, NEW skip,
           Outside(acc, rej, skip, Done(g))
    PROVE  After(AfterStep(g, Outcome(acc, rej, skip)), g, acc, rej, skip)
<1> DEFINE f == AfterStep(g, Outcome(acc, rej, skip))
           as == g.accepted \o acc
           ss == g.skipped \o skip
<1>1. /\ g.what = "scope" /\ g.body \in DOMAIN Steps /\ g.pc \in Nat \ {0}
      /\ g.items \in Seq(Items) /\ g.accepted \in Seq(Items) /\ g.skipped \in Seq(Items)
      /\ Done(g) = ToSet(g.accepted) \cup ToSet(g.skipped)
  BY ScopeIs
<1>2. Tidy(g, FALSE) /\ IsScope(g)
  OBVIOUS
<1>3. /\ acc \in Seq(Items) /\ rej \in Seq(Items) /\ skip \in Seq(Items)
      /\ IsInjective(acc) /\ IsInjective(rej) /\ IsInjective(skip)
      /\ ToSet(acc) \cap ToSet(rej) = {} /\ ToSet(acc) \cap ToSet(skip) = {}
      /\ ToSet(rej) \cap ToSet(skip) = {}
      /\ (ToSet(acc) \cup ToSet(rej) \cup ToSet(skip)) \cap Done(g) = {}
  BY DEF Outside
<1>4. /\ IsInjective(g.accepted) /\ IsInjective(g.skipped)
      /\ ToSet(g.accepted) \cap ToSet(g.skipped) = {}
  BY <1>1, <1>2 DEF Tidy, Disjoint
<1>5. /\ as \in Seq(Items) /\ ToSet(as) = ToSet(g.accepted) \cup ToSet(acc)
      /\ IsInjective(as)
  <2>1. ToSet(g.accepted) \cap ToSet(acc) = {}
    BY <1>1, <1>3
  <2> QED
    BY <1>1, <1>3, <1>4, <2>1, ConcatIs
<1>6. /\ ss \in Seq(Items) /\ ToSet(ss) = ToSet(g.skipped) \cup ToSet(skip)
      /\ IsInjective(ss)
  <2>1. ToSet(g.skipped) \cap ToSet(skip) = {}
    BY <1>1, <1>3
  <2> QED
    BY <1>1, <1>3, <1>4, <2>1, ConcatIs
<1>7. f = [g EXCEPT !.accepted = as, !.skipped = ss, !.items = rej, !.pc = g.pc + 1]
  BY DEF AfterStep, Outcome
<1> HIDE DEF as, ss, f
<1>8. /\ IsScope(f) /\ f.body = g.body /\ f.pc = g.pc + 1 /\ f.items = rej
      /\ f.accepted = as /\ f.skipped = ss
  <2>1. g \in [what : {"scope"}, body : DOMAIN Steps, pc : Nat \ {0}, items : Seq(Items),
               accepted : Seq(Items), skipped : Seq(Items), model : {g.model}, retries : {g.retries}]
    BY <1>2 DEF IsScope
  <2>2. g.pc + 1 \in Nat \ {0}
    BY <1>1
  <2>3. /\ f.body = g.body /\ f.pc = g.pc + 1 /\ f.items = rej
        /\ f.accepted = as /\ f.skipped = ss /\ f.model = g.model /\ f.retries = g.retries
    BY <1>7, <2>1
  <2>4. f \in [what : {"scope"}, body : DOMAIN Steps, pc : Nat \ {0}, items : Seq(Items),
               accepted : Seq(Items), skipped : Seq(Items), model : {g.model}, retries : {g.retries}]
    BY <1>3, <1>5, <1>6, <1>7, <2>1, <2>2
  <2> QED
    BY <2>3, <2>4 DEF IsScope
<1>9. /\ f.what = "scope" /\ Open(f, TRUE) = ToSet(rej)
      /\ Done(f) = ToSet(as) \cup ToSet(ss)
  BY <1>8, ScopeIs
<1>10. Tidy(f, TRUE)
  <2>1. /\ ToSet(rej) \cap ToSet(as) = {} /\ ToSet(rej) \cap ToSet(ss) = {}
        /\ ToSet(as) \cap ToSet(ss) = {}
    BY <1>1, <1>3, <1>4, <1>5, <1>6
  <2>2. Disjoint(ToSet(rej), {}, ToSet(as), {}, ToSet(ss), {})
    BY <2>1 DEF Disjoint
  <2>3. Open(f, TRUE) = ToSet(rej) /\ f.accepted = as /\ f.skipped = ss /\ f.items = rej
    BY <1>8, <1>9
  <2>4. Disjoint(Open(f, TRUE), {}, ToSet(f.accepted), {}, ToSet(f.skipped), {})
    BY <2>2, <2>3
  <2> QED
    BY <1>3, <1>5, <1>6, <1>8, <1>9, <2>4 DEF Tidy
<1>11. Has(f, TRUE) = Done(g) \cup ToSet(acc) \cup ToSet(rej) \cup ToSet(skip)
  BY <1>1, <1>5, <1>6, <1>9 DEF Has
<1> QED
  BY <1>8, <1>9, <1>10, <1>11 DEF f, as, ss, After

Aborted(f, g) ==
    /\ IsScope(f) /\ f.body = g.body /\ f.pc = Len(Steps[g.body]) + 1
    /\ Tidy(f, TRUE) /\ Open(f, TRUE) = {} /\ Has(f, TRUE) = Has(g, TRUE)

\* A gate that fires false leaves nothing in play, and the scope at its end.
LEMMA AbortIs ==
    ASSUME NEW g, IsScope(g), Tidy(g, TRUE)
    PROVE  Aborted(Abort(g), g)
<1> DEFINE f == Abort(g)
           ss == g.skipped \o g.items
           n == Len(Steps[g.body]) + 1
<1>1. /\ g.what = "scope" /\ g.body \in DOMAIN Steps /\ g.pc \in Nat \ {0}
      /\ g.items \in Seq(Items) /\ g.accepted \in Seq(Items) /\ g.skipped \in Seq(Items)
      /\ Done(g) = ToSet(g.accepted) \cup ToSet(g.skipped)
      /\ Open(g, TRUE) = ToSet(g.items)
  BY ScopeIs
<1>2. Tidy(g, TRUE) /\ IsScope(g)
  OBVIOUS
<1>3. /\ IsInjective(g.accepted) /\ IsInjective(g.skipped) /\ IsInjective(g.items)
      /\ ToSet(g.items) \cap ToSet(g.accepted) = {} /\ ToSet(g.items) \cap ToSet(g.skipped) = {}
      /\ ToSet(g.accepted) \cap ToSet(g.skipped) = {}
  <2>1. /\ IsInjective(g.accepted) /\ IsInjective(g.skipped) /\ IsInjective(g.items)
        /\ Disjoint(Open(g, TRUE), {}, ToSet(g.accepted), {}, ToSet(g.skipped), {})
    BY <1>1, <1>2 DEF Tidy
  <2>2. Disjoint(ToSet(g.items), {}, ToSet(g.accepted), {}, ToSet(g.skipped), {})
    BY <1>1, <2>1
  <2> QED
    BY <2>1, <2>2 DEF Disjoint
<1>4. /\ ss \in Seq(Items) /\ ToSet(ss) = ToSet(g.skipped) \cup ToSet(g.items)
      /\ IsInjective(ss)
  <2>1. ToSet(g.skipped) \cap ToSet(g.items) = {}
    BY <1>3
  <2> QED
    BY <1>1, <1>3, <2>1, ConcatIs
<1>5. n \in Nat \ {0}
  <2>1. Steps[g.body] \in Seq(ToSet(Steps[g.body]))
    BY <1>1, StepsAssumption
  <2>2. Len(Steps[g.body]) \in Nat
    BY <2>1, LenProperties
  <2> QED
    BY <2>2
<1>6. f = [g EXCEPT !.skipped = ss, !.items = <<>>, !.pc = n]
  BY DEF Abort
<1>7. <<>> \in Seq(Items)
  OBVIOUS
<1> HIDE DEF ss, f, n
<1>8. /\ IsScope(f) /\ f.body = g.body /\ f.pc = n /\ f.items = <<>>
      /\ f.accepted = g.accepted /\ f.skipped = ss
  BY <1>1, <1>2, <1>4, <1>5, <1>6, <1>7 DEF IsScope
<1>9. /\ f.what = "scope" /\ Open(f, TRUE) = {}
      /\ Done(f) = ToSet(g.accepted) \cup ToSet(ss)
  BY <1>8, ScopeIs, EmptyIs
<1>10. Tidy(f, TRUE)
  <2>1. ToSet(g.accepted) \cap ToSet(ss) = {}
    BY <1>3, <1>4
  <2>2. Disjoint({}, {}, ToSet(g.accepted), {}, ToSet(ss), {})
    BY <2>1 DEF Disjoint
  <2>3. Disjoint(Open(f, TRUE), {}, ToSet(f.accepted), {}, ToSet(f.skipped), {})
    BY <1>8, <1>9, <2>2
  <2> QED
    BY <1>3, <1>4, <1>8, <1>9, <2>3, EmptyIs DEF Tidy
<1>11. Has(f, TRUE) = Has(g, TRUE)
  BY <1>1, <1>4, <1>9 DEF Has
<1> QED
  BY <1>8, <1>9, <1>10, <1>11 DEF f, n, Aborted

\* A scope that need not keep its items apart from what it decided.
LEMMA TidyBelow ==
    ASSUME NEW g, IsScope(g), Tidy(g, TRUE)
    PROVE  Tidy(g, FALSE)
<1>1. /\ g.what = "scope" /\ Open(g, FALSE) = {}
  BY ScopeIs
<1>2. /\ IsInjective(g.accepted) /\ IsInjective(g.skipped)
      /\ ToSet(g.accepted) \cap ToSet(g.skipped) = {}
  BY <1>1 DEF Tidy, Disjoint
<1>3. Disjoint(Open(g, FALSE), {}, ToSet(g.accepted), {}, ToSet(g.skipped), {})
  BY <1>1, <1>2 DEF Disjoint
<1> QED
  BY <1>1, <1>2, <1>3 DEF Tidy

-----------------------------------------------------------------------------
(* Stacks.                                                                 *)

\* A push, and a frame that changes under a push, as stacks with two new frames.
LEMMA StackShapes ==
    ASSUME NEW E, NEW st \in Seq(E), st # <<>>, NEW f, NEW g
    PROVE  /\ <<f>> \o st = <<f, Head(st)>> \o SubSeq(st, 2, Len(st))
           /\ <<f>> \o (<<g>> \o Tail(st)) = <<f, g>> \o SubSeq(st, 2, Len(st))
<1>1. /\ Len(st) \in Nat \ {0} /\ Head(st) \in E /\ Tail(st) \in Seq(E)
      /\ Tail(st) = SubSeq(st, 2, Len(st))
      /\ st = <<Head(st)>> \o Tail(st)
  <2>1. /\ Len(st) \in Nat \ {0} /\ Head(st) \in E /\ Tail(st) \in Seq(E)
    BY EmptySeq, LenProperties, HeadTailProperties
  <2>2. Tail(st) = SubSeq(st, 2, Len(st))
    BY TailIsSubSeq
  <2>3. st = <<Head(st)>> \o Tail(st)
    OBVIOUS
  <2> QED
    BY <2>1, <2>2, <2>3
<1>2. ASSUME NEW h, NEW t \in Seq(E)
      PROVE  <<f>> \o (<<h>> \o t) = <<f, h>> \o t
  OBVIOUS
<1> QED
  BY <1>1, <1>2

\* Work that goes on keeps the invariant.
LEMMA Stays ==
    ASSUME PlaceInv, stack # <<>>, Continues(stack, stack', statuses'),
           planned' = planned, outcome' = outcome,
           Bound(stack', bindings', statuses')
    PROVE  PlaceInv'
<1>1. outcome = None /\ ToSet(planned) \subseteq Holds(stack)
  BY DEF PlaceInv
<1>2. Frames(stack') /\ Separate(stack') /\ OpenStay(stack', statuses')
  BY DEF Work, Continues
<1>3. ToSet(planned') \subseteq Holds(stack')
  BY <1>1 DEF Continues
<1> QED
  BY <1>1, <1>2, <1>3 DEF PlaceInv

\* The second of them, for the stack of a run.
LEMMA CallShape ==
    ASSUME NEW st, st \in Seq(ToSet(st)), st # <<>>, NEW f, NEW g
    PROVE  <<f>> \o (<<g>> \o Tail(st)) = <<f, g>> \o SubSeq(st, 2, Len(st))
BY StackShapes

\* A step that moves no item keeps the invariant.
LEMMA NothingMoves ==
    ASSUME PlaceInv, UNCHANGED <<planned, stack, bindings, statuses, outcome>>
    PROVE  PlaceInv'
<1>1. /\ Frames(stack') /\ Separate(stack') /\ OpenStay(stack', statuses')
      /\ Bound(stack', bindings', statuses')
      /\ stack' # <<>> => ToSet(planned') \subseteq Holds(stack')
  BY DEF PlaceInv
<1>2. outcome' # None => stack' = <<>> /\ Parted(outcome)'
  <2>1. outcome # None => stack = <<>> /\ Parted(outcome)
    BY DEF PlaceInv
  <2>2. Parted(outcome)' = Parted(outcome)
    BY DEF Parted
  <2> QED
    BY <2>1, <2>2
<1> QED
  BY <1>1, <1>2 DEF PlaceInv

\* What PlaceInv says of a run in progress.
LEMMA InProgress ==
    ASSUME PlaceInv, stack # <<>>
    PROVE  /\ Work(stack, statuses) /\ outcome = None /\ Top = stack[1]
           /\ Bound(stack, bindings, statuses) /\ stack \in Seq(ToSet(stack))
<1>1. Work(stack, statuses) /\ outcome = None /\ Bound(stack, bindings, statuses)
  BY DEF PlaceInv, Work
<1>2. Head(stack) = stack[1] /\ stack \in Seq(ToSet(stack))
  BY <1>1, TopIs
<1> QED
  BY <1>1, <1>2 DEF Top

\* The frame of a given kind.
LEMMA KindIs ==
    ASSUME NEW f, IsFrame(f)
    PROVE  /\ f.what = "scope" => IsScope(f)
           /\ f.what = "loop" => IsLoop(f)
           /\ f.what = "foreach" => IsForeach(f)
BY DEF IsFrame

\* The innermost frame changes, those below stay.
LEMMA BecomeIs ==
    ASSUME NEW E, NEW st \in Seq(E), st # <<>>, NEW f
    PROVE  /\ Len(<<f>> \o Tail(st)) = Len(st) /\ (<<f>> \o Tail(st))[1] = f
<1> DEFINE F == E \cup {f}
<1>1. Tail(st) \in Seq(F) /\ Len(Tail(st)) = Len(st) - 1 /\ Len(st) \in Nat \ {0}
  <2>1. st \in Seq(F)
    BY SeqMonotonic
  <2> HIDE DEF F
  <2> QED
    BY <2>1, HeadTailProperties, EmptySeq, LenProperties
<1>2. <<f>> \in Seq(F) /\ Len(<<f>>) = 1 /\ <<f>>[1] = f
  OBVIOUS
<1> HIDE DEF F
<1>3. Len(<<f>> \o Tail(st)) = 1 + Len(Tail(st)) /\ (<<f>> \o Tail(st))[1] = f
  <2> DEFINE s == <<f>>
  <2> HIDE DEF s
  <2>1. s \in Seq(F) /\ Len(s) = 1 /\ s[1] = f
    BY <1>2 DEF s
  <2>2. /\ Len(s \o Tail(st)) = Len(s) + Len(Tail(st))
        /\ \A i \in 1..(Len(s) + Len(Tail(st))) :
             (s \o Tail(st))[i] = IF i <= Len(s) THEN s[i] ELSE Tail(st)[i - Len(s)]
    BY <1>1, <2>1, ConcatProperties
  <2>3. 1 \in 1..(Len(s) + Len(Tail(st))) /\ 1 <= Len(s)
    BY <1>1, <2>1
  <2>4. (s \o Tail(st))[1] = s[1]
    BY <2>2, <2>3
  <2> QED
    BY <2>1, <2>2, <2>4 DEF s
<1> QED
  BY <1>1, <1>3

\* Bindings hold good after a step of the innermost scope.
LEMMA TopBound ==
    ASSUME NEW st, NEW sts, NEW bound, Bound(st, bound, sts), IsScope(st[1]),
           NEW st2, NEW bound2, Len(st2) = Len(st), st2[1].body = st[1].body,
           st2[1].pc = st[1].pc + 1, st[1].pc <= Len(Steps[st[1].body]),
           Steps[st[1].body][st[1].pc].kind \in Plain =>
             st2[1].accepted = st[1].accepted /\ st2[1].skipped = st[1].skipped,
           DOMAIN bound2 = Names,
           \A b \in Names : bound2[b] = bound[b] \/
             (bound2[b] \in Seq(Items) /\ IsInjective(bound2[b]) /\ ToSet(bound2[b]) \cap sts = {})
    PROVE  Bound(st2, bound2, sts)
<1>1. ASSUME Len(st2) = 1, PlainSoFar(st2[1])
      PROVE  Len(st) = 1 /\ PlainSoFar(st[1]) /\ Steps[st[1].body][st[1].pc].kind \in Plain
  <2> DEFINE pc == st[1].pc
             steps == Steps[st[1].body]
  <2>1. pc \in Nat \ {0} /\ st[1].what = "scope"
    BY ScopeIs
  <2>2. \A j \in 1..(st2[1].pc - 1) : Steps[st2[1].body][j].kind \in Plain
    BY <1>1 DEF PlainSoFar
  <2>3. st2[1].pc - 1 = pc
    BY <2>1
  <2>4. \A j \in 1..pc : steps[j].kind \in Plain
    BY <2>2, <2>3
  <2>5. pc \in 1..pc /\ \A j \in 1..(pc - 1) : j \in 1..pc
    BY <2>1
  <2>6. steps[pc].kind \in Plain /\ \A j \in 1..(pc - 1) : steps[j].kind \in Plain
    BY <2>4, <2>5
  <2> QED
    BY <1>1, <2>1, <2>6 DEF PlainSoFar
<1>2. ASSUME Len(st2) = 1, PlainSoFar(st2[1])
      PROVE  /\ st2[1].accepted = <<>> /\ st2[1].skipped = <<>>
             /\ \A b \in Names : bound2[b] # None =>
                  bound2[b] \in Seq(Items) /\ IsInjective(bound2[b]) /\ ToSet(bound2[b]) \cap sts = {}
  <2>1. Len(st) = 1 /\ PlainSoFar(st[1]) /\ Steps[st[1].body][st[1].pc].kind \in Plain
    BY <1>1, <1>2
  <2>2. /\ st[1].accepted = <<>> /\ st[1].skipped = <<>>
        /\ \A b \in Names : bound[b] # None =>
             bound[b] \in Seq(Items) /\ IsInjective(bound[b]) /\ ToSet(bound[b]) \cap sts = {}
    BY <2>1 DEF Bound
  <2> QED
    BY <2>1, <2>2
<1> QED
  BY <1>2 DEF Bound

\* The innermost scope hands its items on.
LEMMA TopSteps ==
    ASSUME PlaceInv, stack # <<>>, Top.what = "scope",
           NEW acc, NEW rej, NEW skip, Outside(acc, rej, skip, {}),
           ToSet(acc) \cup ToSet(rej) \cup ToSet(skip) = ToSet(Top.items),
           stack' = Become(AfterStep(Top, Outcome(acc, rej, skip))), statuses' = statuses
    PROVE  /\ Continues(stack, stack', statuses')
           /\ IsScope(stack[1]) /\ Len(stack') = Len(stack)
           /\ stack'[1].body = stack[1].body /\ stack'[1].pc = stack[1].pc + 1
           /\ stack'[1].accepted = stack[1].accepted \o acc
           /\ stack'[1].skipped = stack[1].skipped \o skip
<1> DEFINE g == stack[1]
           f == AfterStep(g, Outcome(acc, rej, skip))
<1>1. /\ Work(stack, statuses) /\ Top = g /\ stack \in Seq(ToSet(stack))
  BY InProgress
<1>2. /\ IsFrame(g) /\ Tidy(g, TRUE) /\ Open(g, TRUE) \cap statuses = {}
      /\ 2 \in DOMAIN stack => LiesOn(g, stack[2])
  BY <1>1, TopIs
<1>3. IsScope(g) /\ g.what = "scope"
  BY <1>1, <1>2, KindIs
<1> HIDE DEF g, f
<1>4. Open(g, TRUE) = ToSet(g.items)
  BY <1>3, ScopeIs
<1>5. Open(g, TRUE) \cap Done(g) = {}
  <2>1. Disjoint(Open(g, TRUE), {}, ToSet(g.accepted), {}, ToSet(g.skipped), {})
    BY <1>2, <1>3 DEF Tidy
  <2>2. Done(g) = ToSet(g.accepted) \cup ToSet(g.skipped)
    BY <1>3, ScopeIs
  <2> QED
    BY <2>1, <2>2, ApartAre
<1>6. Outside(acc, rej, skip, Done(g)) /\ Tidy(g, FALSE)
  <2>1. ToSet(acc) \cup ToSet(rej) \cup ToSet(skip) = ToSet(g.items)
    BY <1>1
  <2>2. (ToSet(acc) \cup ToSet(rej) \cup ToSet(skip)) \cap Done(g) = {}
    BY <1>4, <1>5, <2>1
  <2>3. Tidy(g, FALSE)
    BY <1>2, <1>3, TidyBelow
  <2> QED
    BY <2>2, <2>3 DEF Outside
<1>6a. After(f, g, acc, rej, skip)
  BY <1>3, <1>6, AfterIs DEF f
<1>7. /\ IsScope(f) /\ f.body = g.body /\ f.pc = g.pc + 1 /\ f.items = rej
      /\ f.accepted = g.accepted \o acc /\ f.skipped = g.skipped \o skip
      /\ Tidy(f, TRUE) /\ Open(f, TRUE) = ToSet(rej)
      /\ Has(f, TRUE) = Done(g) \cup ToSet(acc) \cup ToSet(rej) \cup ToSet(skip)
  BY <1>6a DEF After
<1>8. IsFrame(f) /\ f.what = "scope"
  BY <1>7, ScopeIs
<1>9. Has(f, TRUE) = Has(g, TRUE) /\ Open(f, TRUE) \cap statuses = {}
  <2>1. ToSet(acc) \cup ToSet(rej) \cup ToSet(skip) = Open(g, TRUE)
    BY <1>1, <1>4
  <2>2. Has(g, TRUE) = Open(g, TRUE) \cup Done(g)
    BY Zenon DEF Has
  <2>3. Has(f, TRUE) = Done(g) \cup ToSet(acc) \cup ToSet(rej) \cup ToSet(skip)
        /\ Open(f, TRUE) = ToSet(rej)
    BY <1>7, Zenon
  <2>4. Has(f, TRUE) = Has(g, TRUE)
    BY <2>1, <2>2, <2>3
  <2>5. Open(f, TRUE) \cap statuses = {}
    BY <1>2, <2>1, <2>3
  <2> QED
    BY <2>4, <2>5
<1>10. 2 \in DOMAIN stack => LiesOn(f, stack[2])
  BY <1>2, <1>3, <1>7, <1>8 DEF LiesOn
<1>11. stack' = <<f>> \o Tail(stack)
  BY <1>1 DEF Become, f
<1>12. Continues(stack, stack', statuses)
  <2>1. Becomes(f, stack, statuses, statuses)
    BY <1>3, <1>7, <1>8, <1>9, <1>10 DEF Becomes, g
  <2> QED
    BY <1>1, <1>11, <2>1, SwapOne
<1>13. Len(stack') = Len(stack) /\ stack'[1] = f
  BY <1>1, <1>11, BecomeIs
<1> QED
  BY <1>3, <1>7, <1>12, <1>13 DEF g

-----------------------------------------------------------------------------
(* Every action keeps the invariant.                                       *)

\* The innermost scope, and the step where it stands.
LEMMA AtIs ==
    ASSUME PlaceInv, NEW kind, At(kind)
    PROVE  /\ stack # <<>> /\ Top.what = "scope" /\ Top = stack[1] /\ IsScope(stack[1])
           /\ stack[1].body \in DOMAIN Steps /\ stack[1].pc \in 1..Len(Steps[stack[1].body])
           /\ DOMAIN Steps[stack[1].body] = 1..Len(Steps[stack[1].body])
           /\ Step = Steps[stack[1].body][stack[1].pc] /\ Step.kind = kind
           /\ Step \in ToSet(Steps[stack[1].body])
           /\ StandsAt(stack[1], kind)
           /\ stack[1].items \in Seq(Items) /\ IsInjective(stack[1].items)
           /\ ToSet(stack[1].items) \cap statuses = {}
           /\ DOMAIN bindings = Names
<1> DEFINE g == stack[1]
<1>1. stack # <<>> /\ Top.what = "scope" /\ ~Ended(Top) /\ Step.kind = kind
  BY DEF At
<1>2. Work(stack, statuses) /\ Top = g /\ Bound(stack, bindings, statuses)
  BY <1>1, InProgress
<1>3. IsFrame(g) /\ Tidy(g, TRUE) /\ Open(g, TRUE) \cap statuses = {}
  BY <1>1, <1>2, TopIs
<1>4. IsScope(g) /\ g.what = "scope"
  BY <1>1, <1>2, <1>3, KindIs
<1>5. /\ g.body \in DOMAIN Steps /\ g.pc \in Nat \ {0} /\ g.items \in Seq(Items)
      /\ Open(g, TRUE) = ToSet(g.items)
  BY <1>4, ScopeIs
<1>6. Len(Steps[g.body]) \in Nat /\ DOMAIN Steps[g.body] = 1..Len(Steps[g.body])
  <2>1. Steps[g.body] \in Seq(ToSet(Steps[g.body]))
    BY <1>5, StepsAssumption
  <2> QED
    BY <2>1, LenProperties
<1>7. ~(g.pc > Len(Steps[g.body]))
  BY <1>1, <1>2 DEF Ended
<1>8. Step = Steps[g.body][g.pc]
  BY <1>2 DEF Step
<1>9. g.pc \in 1..Len(Steps[g.body]) /\ g.pc <= Len(Steps[g.body])
  BY <1>5, <1>6, <1>7
<1>10. Step \in ToSet(Steps[g.body])
  BY <1>6, <1>8, <1>9 DEF ToSet
<1>11. StandsAt(g, kind)
  BY <1>1, <1>4, <1>8, <1>9 DEF StandsAt
<1>12. IsInjective(g.items) /\ DOMAIN bindings = Names
  BY <1>2, <1>3, <1>4 DEF Tidy, Bound
<1> QED
  BY <1>1, <1>2, <1>3, <1>4, <1>5, <1>6, <1>8, <1>9, <1>10, <1>11, <1>12

\* A step of a scope that divides its items among accepted, rejected and skipped,
\* and may bind names to items without a status, keeps the invariant.
LEMMA HandsOn ==
    ASSUME PlaceInv, NEW kind, At(kind),
           NEW acc, NEW rej, NEW skip, Outside(acc, rej, skip, {}),
           ToSet(acc) \cup ToSet(rej) \cup ToSet(skip) = ToSet(Top.items),
           stack' = Become(AfterStep(Top, Outcome(acc, rej, skip))),
           kind \in Plain => acc = <<>> /\ skip = <<>>,
           UNCHANGED <<planned, statuses, outcome>>, DOMAIN bindings' = Names,
           \A b \in Names : bindings'[b] = bindings[b] \/
             /\ bindings'[b] \in Seq(Items) /\ IsInjective(bindings'[b])
             /\ ToSet(bindings'[b]) \cap statuses = {}
    PROVE  PlaceInv'
<1>1. /\ stack # <<>> /\ Top.what = "scope" /\ IsScope(stack[1])
      /\ stack[1].pc \in 1..Len(Steps[stack[1].body])
      /\ Step = Steps[stack[1].body][stack[1].pc] /\ Step.kind = kind
      /\ DOMAIN Steps[stack[1].body] = 1..Len(Steps[stack[1].body])
  BY AtIs
<1>2. /\ Continues(stack, stack', statuses')
      /\ Len(stack') = Len(stack)
      /\ stack'[1].body = stack[1].body /\ stack'[1].pc = stack[1].pc + 1
      /\ stack'[1].accepted = stack[1].accepted \o acc
      /\ stack'[1].skipped = stack[1].skipped \o skip
  BY <1>1, TopSteps
<1>3. Bound(stack, bindings, statuses)
  BY <1>1, InProgress
<1>4. stack[1].accepted \in Seq(Items) /\ stack[1].skipped \in Seq(Items)
  BY <1>1, ScopeIs
<1>5. Steps[stack[1].body][stack[1].pc].kind \in Plain =>
        stack'[1].accepted = stack[1].accepted /\ stack'[1].skipped = stack[1].skipped
  <2>1. stack[1].accepted \o <<>> = stack[1].accepted /\ stack[1].skipped \o <<>> = stack[1].skipped
    BY <1>4
  <2>2. Steps[stack[1].body][stack[1].pc].kind = kind
    BY <1>1, Zenon
  <2> QED
    BY <1>2, <2>1, <2>2, Zenon
<1>6. stack[1].pc <= Len(Steps[stack[1].body])
  BY <1>1
<1>7. Bound(stack', bindings', statuses)
  BY <1>1, <1>2, <1>3, <1>5, <1>6, TopBound
<1> QED
  BY <1>1, <1>2, <1>7, Stays

\* A step that leaves every item in play.
LEMMA Passes ==
    ASSUME PlaceInv, NEW kind, At(kind), stack' = Become(AfterStep(Top, Pass)),
           UNCHANGED <<planned, statuses, outcome>>, DOMAIN bindings' = Names,
           \A b \in Names : bindings'[b] = bindings[b] \/
             /\ bindings'[b] \in Seq(Items) /\ IsInjective(bindings'[b])
             /\ ToSet(bindings'[b]) \cap statuses = {}
    PROVE  PlaceInv'
<1>1. Top = stack[1] /\ stack[1].items \in Seq(Items) /\ IsInjective(stack[1].items)
  BY AtIs
<1>2. Outside(<<>>, Top.items, <<>>, {})
  <2>1. <<>> \in Seq(Items) /\ ToSet(<<>>) = {} /\ IsInjective(<<>>)
    BY EmptyIs
  <2> QED
    BY <1>1, <2>1 DEF Outside
<1>3. ToSet(<<>>) \cup ToSet(Top.items) \cup ToSet(<<>>) = ToSet(Top.items)
  BY EmptyIs
<1>4. stack' = Become(AfterStep(Top, Outcome(<<>>, Top.items, <<>>)))
  BY DEF Pass
<1> QED
  BY <1>2, <1>3, <1>4, HandsOn

\* shell and transform: the items stay in play.
LEMMA PlainStepKeeps ==
    ASSUME PlaceInv, PlainStep
    PROVE  PlaceInv'
<1>1. PICK kind \in {"shell", "transform"} : At(kind)
  BY DEF PlainStep
<1>2. stack' = Become(AfterStep(Top, Pass)) /\ Keeps
  BY DEF PlainStep
<1>3. UNCHANGED <<planned, statuses, outcome, bindings>>
  BY <1>2 DEF Keeps
<1>4. DOMAIN bindings' = Names /\ \A b \in Names : bindings'[b] = bindings[b]
  BY <1>1, <1>3, AtIs
<1> QED
  BY <1>1, <1>2, <1>3, <1>4, Passes

\* select: the name is bound to items without a status, the scope goes on.
LEMMA SelectStepKeeps ==
    ASSUME PlaceInv, SelectStep
    PROVE  PlaceInv'
<1> DEFINE found == Without(Step.selected, statuses)
<1>1. /\ At("select") /\ bindings' = [bindings EXCEPT ![Step.into] = found]
      /\ stack' = Become(AfterStep(Top, Pass)) /\ UNCHANGED <<planned, statuses, outcome>>
  BY DEF SelectStep
<1>2. /\ stack[1].body \in DOMAIN Steps /\ Step \in ToSet(Steps[stack[1].body])
      /\ Step.kind = "select" /\ DOMAIN bindings = Names
  BY <1>1, AtIs
<1>3. Step.selected \in Seq(Items) /\ IsInjective(Step.selected)
  BY <1>2, StepsAssumption
<1>4. found \in Seq(Items) /\ IsInjective(found) /\ ToSet(found) \cap statuses = {}
  BY <1>3, WithoutIs
<1> HIDE DEF found
<1>5. /\ DOMAIN bindings' = Names
      /\ \A b \in Names : bindings'[b] = bindings[b] \/ bindings'[b] = found
  BY <1>1, <1>2
<1>6. \A b \in Names : bindings'[b] = bindings[b] \/
             /\ bindings'[b] \in Seq(Items) /\ IsInjective(bindings'[b])
             /\ ToSet(bindings'[b]) \cap statuses = {}
  BY <1>4, <1>5
<1> QED
  BY <1>1, <1>5, <1>6, Passes

\* verify: what passes is accepted, the rest stays in play.
LEMMA VerifyStepKeeps ==
    ASSUME PlaceInv, VerifyStep
    PROVE  PlaceInv'
<1>1. At("verify") /\ Keeps
  BY DEF VerifyStep
<1>2. PICK S \in SUBSET ToSet(Top.items) :
         stack' = Become(AfterStep(Top, Outcome(Of(Top.items, S), Without(Top.items, S), <<>>)))
  BY DEF VerifyStep
<1>3. Top.items \in Seq(Items) /\ IsInjective(Top.items) /\ DOMAIN bindings = Names
  BY <1>1, AtIs
<1> DEFINE acc == Of(Top.items, S)
           rej == Without(Top.items, S)
<1>4. /\ acc \in Seq(Items) /\ IsInjective(acc) /\ ToSet(acc) = S
      /\ rej \in Seq(Items) /\ IsInjective(rej) /\ ToSet(rej) = ToSet(Top.items) \ S
  <2>1. acc \in Seq(Items) /\ IsInjective(acc) /\ ToSet(acc) = ToSet(Top.items) \cap S
    BY <1>3, OfIs
  <2>2. rej \in Seq(Items) /\ IsInjective(rej) /\ ToSet(rej) = ToSet(Top.items) \ S
    BY <1>3, WithoutIs
  <2> QED
    BY <2>1, <2>2
<1> HIDE DEF acc, rej
<1>5. <<>> \in Seq(Items) /\ ToSet(<<>>) = {} /\ IsInjective(<<>>)
  BY EmptyIs
<1>6. Outside(acc, rej, <<>>, {})
  BY <1>4, <1>5 DEF Outside
<1>7. ToSet(acc) \cup ToSet(rej) \cup ToSet(<<>>) = ToSet(Top.items)
  BY <1>4, <1>5
<1>8. stack' = Become(AfterStep(Top, Outcome(acc, rej, <<>>)))
  BY <1>2 DEF acc, rej
<1>9. "verify" \notin Plain
  BY DEF Plain
<1>10. UNCHANGED <<planned, statuses, outcome>> /\ DOMAIN bindings' = Names
       /\ \A b \in Names : bindings'[b] = bindings[b]
  BY <1>1, <1>3 DEF Keeps
<1> QED
  BY <1>1, <1>6, <1>7, <1>8, <1>9, <1>10, HandsOn

\* A gate that fires false.
LEMMA AbortKeeps ==
    ASSUME PlaceInv, At("gate"), stack' = Become(Abort(Top)), Keeps
    PROVE  PlaceInv'
<1> DEFINE g == stack[1]
           f == Abort(g)
<1>1. /\ stack # <<>> /\ Top = g /\ IsScope(g) /\ g.body \in DOMAIN Steps
      /\ DOMAIN bindings = Names /\ Work(stack, statuses) /\ stack \in Seq(ToSet(stack))
  BY AtIs, InProgress
<1>2. Tidy(g, TRUE) /\ (2 \in DOMAIN stack => LiesOn(g, stack[2])) /\ g.what = "scope"
  BY <1>1, TopIs, ScopeIs
<1> HIDE DEF g, f
<1>3. Aborted(f, g)
  BY <1>1, <1>2, AbortIs DEF f
<1>4. /\ IsScope(f) /\ f.body = g.body /\ f.pc = Len(Steps[g.body]) + 1
      /\ Tidy(f, TRUE) /\ Open(f, TRUE) = {} /\ Has(f, TRUE) = Has(g, TRUE)
  BY <1>3 DEF Aborted
<1>5. IsFrame(f) /\ f.what = "scope"
  BY <1>4, ScopeIs
<1>6. Becomes(f, stack, statuses, statuses)
  BY <1>2, <1>4, <1>5 DEF Becomes, LiesOn, g
<1>7. stack' = <<f>> \o Tail(stack)
  BY <1>1 DEF Become, f
<1>8. Continues(stack, stack', statuses)
  BY <1>1, <1>6, <1>7, SwapOne
<1>9. stack'[1] = f
  BY <1>1, <1>7, BecomeIs
<1>10. Len(Steps[g.body]) \in Nat
  <2>1. Steps[g.body] \in Seq(ToSet(Steps[g.body]))
    BY <1>1, StepsAssumption
  <2> QED
    BY <2>1, LenProperties
<1>11. ~(f.pc <= Len(Steps[f.body]))
  BY <1>4, <1>10
<1>12. Bound(stack', bindings', statuses)
  <2>1. ~PlainSoFar(stack'[1])
    BY <1>9, <1>11 DEF PlainSoFar
  <2>2. DOMAIN bindings' = Names
    BY <1>1 DEF Keeps
  <2> QED
    BY <2>1, <2>2 DEF Bound
<1> QED
  BY <1>1, <1>8, <1>12, Stays DEF Keeps

\* gate: all stay in play, or all are skipped.
LEMMA GateStepKeeps ==
    ASSUME PlaceInv, GateStep
    PROVE  PlaceInv'
<1>1. At("gate") /\ Keeps
  BY DEF GateStep
<1>2. stack' = Become(AfterStep(Top, Pass)) \/ stack' = Become(Abort(Top))
  BY DEF GateStep
<1>3. /\ UNCHANGED <<planned, statuses, outcome>> /\ DOMAIN bindings' = Names
      /\ \A b \in Names : bindings'[b] = bindings[b]
  BY <1>1, AtIs DEF Keeps
<1>4. CASE stack' = Become(AfterStep(Top, Pass))
  BY <1>1, <1>3, <1>4, Passes
<1>5. CASE stack' = Become(Abort(Top))
  BY <1>1, <1>5, AbortKeeps
<1> QED
  BY <1>2, <1>4, <1>5

\* A run that fails leaves its items where they are.
LEMMA FailKeeps ==
    ASSUME PlaceInv, Fail
    PROVE  PlaceInv'
BY NothingMoves DEF Fail

\* agent: the items stay in play whatever the turn costs.
LEMMA AgentStepKeeps ==
    ASSUME PlaceInv, AgentStep
    PROVE  PlaceInv'
<1>1. At("agent")
  BY DEF AgentStep
<1>2. CASE Fail
  BY <1>2, FailKeeps
<1>3. CASE /\ stack' = Become(AfterStep(Top, Pass))
           /\ UNCHANGED <<planned, statuses, outcome, bindings>>
  <2>1. DOMAIN bindings' = Names /\ \A b \in Names : bindings'[b] = bindings[b]
    BY <1>1, <1>3, AtIs
  <2> QED
    BY <1>1, <1>3, <2>1, Passes
<1> QED
  BY <1>2, <1>3 DEF AgentStep, Skip, Refused, Overdraw, Keeps

\* Frames that lie on others bind nothing.
LEMMA Deep ==
    ASSUME NEW st, NEW bound, NEW sts, DOMAIN bound = Names, Len(st) # 1
    PROVE  Bound(st, bound, sts)
BY DEF Bound

\* A scope that lies on another frame is not the only one.
LEMMA PairLength ==
    ASSUME NEW E, NEW st \in Seq(E), st # <<>>, NEW f, NEW g
    PROVE  Len(<<f, g>> \o SubSeq(st, 2, Len(st))) # 1
<1> DEFINE F == E \cup {f, g}
           s == <<f, g>>
           t == SubSeq(st, 2, Len(st))
<1>1. t \in Seq(F)
  <2>1. t = Tail(st) /\ Tail(st) \in Seq(E)
    BY TailIsSubSeq, HeadTailProperties
  <2> QED
    BY <2>1, SeqMonotonic
<1>2. s \in Seq(F) /\ Len(s) = 2
  OBVIOUS
<1> HIDE DEF F, s, t
<1>3. Len(s \o t) = Len(s) + Len(t) /\ Len(t) \in Nat
  BY <1>1, <1>2, ConcatProperties, LenProperties
<1>4. Len(s \o t) # 1
  BY <1>2, <1>3
<1> QED
  BY <1>4 DEF s, t

\* A call keeps the invariant.
LEMMA CallKeeps ==
    ASSUME PlaceInv, stack # <<>>, NEW f, NEW g, Calls(f, g, stack, statuses, statuses),
           stack' = <<f, g>> \o SubSeq(stack, 2, Len(stack)),
           UNCHANGED <<planned, bindings, statuses, outcome>>
    PROVE  PlaceInv'
<1>1. Work(stack, statuses) /\ stack \in Seq(ToSet(stack)) /\ Bound(stack, bindings, statuses)
  BY InProgress
<1>2. Continues(stack, stack', statuses)
  BY <1>1, SwapForTwo
<1>3. Len(stack') # 1
  BY <1>1, PairLength
<1>4. Bound(stack', bindings', statuses)
  BY <1>1, <1>3, Deep DEF Bound
<1> QED
  BY <1>2, <1>4, Stays

\* agentLoop: the loop has the items of its scope.
LEMMA LoopStepKeeps ==
    ASSUME PlaceInv, LoopStep
    PROVE  PlaceInv'
<1>1. At("agentLoop")
  BY DEF LoopStep
<1>2. CASE Fail
  BY <1>2, FailKeeps
<1>3. CASE Skip
  <2>1. stack' = Become(AfterStep(Top, Pass)) /\ UNCHANGED <<planned, statuses, outcome, bindings>>
    BY <1>3 DEF Skip, Keeps
  <2>2. DOMAIN bindings' = Names /\ \A b \in Names : bindings'[b] = bindings[b]
    BY <1>1, <2>1, AtIs
  <2> QED
    BY <1>1, <2>1, <2>2, Passes
<1> DEFINE f == [what |-> "loop", inPlay |-> Top.items, accepted |-> <<>>,
                 turns |-> 0, retries |-> Retries, final |-> FALSE]
           g == stack[1]
<1>4. CASE stack' = Push(f) /\ Keeps
  <2>1. /\ stack # <<>> /\ Top = g /\ IsScope(g) /\ StandsAt(g, "agentLoop")
        /\ g.items \in Seq(Items) /\ IsInjective(g.items) /\ ToSet(g.items) \cap statuses = {}
    BY <1>1, AtIs
  <2>2. Work(stack, statuses) /\ stack \in Seq(ToSet(stack))
    BY <2>1, InProgress
  <2>3. Tidy(g, TRUE) /\ (2 \in DOMAIN stack => LiesOn(g, stack[2]))
    BY <2>1, <2>2, TopIs
  <2>4. /\ IsLoop(f) /\ f.what = "loop" /\ f.inPlay = g.items /\ f.accepted = <<>>
    BY <2>1 DEF IsLoop
  <2> HIDE DEF f, g
  <2>5. /\ IsFrame(f) /\ Open(f, TRUE) = ToSet(g.items) /\ Done(f) = {}
    BY <2>4, LoopIs, EmptyIs
  <2>6. /\ g.what = "scope" /\ IsFrame(g) /\ Open(g, TRUE) = ToSet(g.items) /\ Open(g, FALSE) = {}
        /\ Done(g) = ToSet(g.accepted) \cup ToSet(g.skipped)
    BY <2>1, ScopeIs
  <2>7. Tidy(g, FALSE)
    BY <2>1, <2>3, TidyBelow
  <2>8. ToSet(g.items) \cap Done(g) = {}
    <3>1. Disjoint(Open(g, TRUE), {}, ToSet(g.accepted), {}, ToSet(g.skipped), {})
      BY <2>3, <2>6 DEF Tidy
    <3> QED
      BY <2>6, <3>1 DEF Disjoint
  <2>9. Tidy(f, TRUE)
    <3>1. Disjoint(ToSet(f.inPlay), {}, ToSet(f.accepted), {}, {}, {})
      BY <2>4, EmptyIs DEF Disjoint
    <3> QED
      BY <2>1, <2>4, <3>1, EmptyIs DEF Tidy
  <2>10. /\ Has(f, TRUE) = ToSet(g.items) /\ Has(g, FALSE) = Done(g)
         /\ Has(g, TRUE) = ToSet(g.items) \cup Done(g)
    BY <2>5, <2>6 DEF Has
  <2>11. Pair(f, g, statuses)
    BY <2>1, <2>5, <2>6, <2>7, <2>8, <2>9, <2>10 DEF Pair
  <2>12. LiesOn(f, g)
    BY <2>1, <2>4 DEF LiesOn
  <2>13. Calls(f, g, stack, statuses, statuses)
    BY <2>3, <2>10, <2>11, <2>12 DEF Calls, g
  <2>14. stack' = <<f, g>> \o SubSeq(stack, 2, Len(stack))
    BY <1>4, <2>1, <2>2, StackShapes DEF Push, Top
  <2> QED
    BY <1>4, <2>1, <2>13, <2>14, CallKeeps DEF Keeps
<1> QED
  BY <1>2, <1>3, <1>4 DEF LoopStep, Refused

-----------------------------------------------------------------------------
(* The agent loop.                                                         *)

\* A return to the scope below.
LEMMA ReturnKeeps ==
    ASSUME PlaceInv, stack # <<>>, NEW f, NEW sts2, Returns(f, stack, statuses, sts2),
           stack' = <<f>> \o SubSeq(stack, 3, Len(stack)), statuses' = sts2, ~PlainSoFar(f),
           UNCHANGED <<planned, bindings, outcome>>
    PROVE  PlaceInv'
<1>1. Work(stack, statuses) /\ stack \in Seq(ToSet(stack)) /\ Bound(stack, bindings, statuses)
  BY InProgress
<1>2. Continues(stack, stack', sts2)
  BY <1>1, SwapTwo
<1>3. stack'[1] = f
  <2> DEFINE E == ToSet(stack) \cup {f}
             s == <<f>>
             t == SubSeq(stack, 3, Len(stack))
  <2>1. t \in Seq(E)
    <3>1. stack \in Seq(E) /\ Len(stack) \in Nat /\ \A k \in 1..Len(stack) : stack[k] \in E
      BY <1>1, SeqIs
    <3>2. \A k \in 3..Len(stack) : stack[k] \in E
      BY <3>1
    <3> HIDE DEF E
    <3> QED
      BY <3>1, <3>2, SubSeqProperties
  <2>2. s \in Seq(E) /\ Len(s) = 1 /\ s[1] = f
    OBVIOUS
  <2> HIDE DEF E, s, t
  <2>3. (s \o t)[1] = s[1]
    <3>1. \A i \in 1..(Len(s) + Len(t)) : (s \o t)[i] = IF i <= Len(s) THEN s[i] ELSE t[i - Len(s)]
      BY <2>1, <2>2, ConcatProperties
    <3>2. Len(t) \in Nat
      BY <2>1, LenProperties
    <3>3. 1 \in 1..(Len(s) + Len(t)) /\ 1 <= Len(s)
      BY <2>2, <3>2
    <3> QED
      BY <3>1, <3>3
  <2>4. stack' = s \o t
    BY DEF s, t
  <2> QED
    BY <2>2, <2>3, <2>4
<1>4. Bound(stack', bindings', statuses')
  BY <1>1, <1>3 DEF Bound
<1> QED
  BY <1>2, <1>4, Stays

\* A scope that went past a step that is not plain.
LEMMA Past ==
    ASSUME NEW f, NEW g, IsScope(g), NEW kind, StandsAt(g, kind), kind \notin Plain,
           f.body = g.body, f.pc = g.pc + 1
    PROVE  ~PlainSoFar(f)
<1>1. g.pc \in Nat \ {0} /\ Steps[g.body][g.pc].kind \notin Plain
  BY ScopeIs DEF StandsAt
<1>2. g.pc \in 1..(f.pc - 1)
  BY <1>1
<1> QED
  BY <1>1, <1>2 DEF PlainSoFar

\* The innermost loop, and the scope it serves.
LEMMA InLoopIs ==
    ASSUME PlaceInv, NEW final, InLoop(final)
    PROVE  /\ stack # <<>> /\ Top = stack[1] /\ Below = stack[2] /\ 2 \in DOMAIN stack
           /\ Work(stack, statuses) /\ DOMAIN bindings = Names
           /\ IsLoop(stack[1]) /\ IsFrame(stack[1])
           /\ stack[1].inPlay \in Seq(Items) /\ stack[1].accepted \in Seq(Items)
           /\ IsInjective(stack[1].inPlay) /\ IsInjective(stack[1].accepted)
           /\ ToSet(stack[1].inPlay) \cap ToSet(stack[1].accepted) = {}
           /\ ToSet(stack[1].inPlay) \cap statuses = {}
           /\ Has(stack[1], TRUE) = ToSet(stack[1].inPlay) \cup ToSet(stack[1].accepted)
           /\ IsScope(stack[2]) /\ StandsAt(stack[2], "agentLoop") /\ Tidy(stack[2], FALSE)
           /\ Has(stack[2], FALSE) = Done(stack[2])
           /\ stack[2].items \in Seq(Items) /\ IsInjective(stack[2].items)
           /\ ToSet(stack[1].inPlay) \subseteq ToSet(stack[2].items)
           /\ Has(stack[1], TRUE) \cap Done(stack[2]) = {}
           /\ 3 \in DOMAIN stack => LiesOn(stack[2], stack[3])
<1> DEFINE f == stack[1]
           g == stack[2]
<1>1. stack # <<>> /\ Top.what = "loop"
  BY DEF InLoop
<1>2. Work(stack, statuses) /\ Top = f /\ Bound(stack, bindings, statuses)
  BY <1>1, InProgress
<1>3. /\ IsFrame(f) /\ Tidy(f, TRUE) /\ Open(f, TRUE) \cap statuses = {}
      /\ Len(stack) = 1 \/ 2 \in DOMAIN stack
      /\ Len(stack) = 1 => f.what = "scope"
  BY <1>1, <1>2, TopIs
<1>4. IsLoop(f) /\ f.what = "loop" /\ 2 \in DOMAIN stack
  BY <1>1, <1>2, <1>3, KindIs
<1>5. /\ IsFrame(g) /\ Tidy(g, FALSE) /\ LiesOn(f, g)
      /\ Has(f, TRUE) \cap Has(g, FALSE) = {}
      /\ 3 \in DOMAIN stack => LiesOn(g, stack[3])
  BY <1>1, <1>2, <1>4, TopIs
<1>6. StandsAt(g, "agentLoop") /\ IsInjective(g.items) /\ ToSet(f.inPlay) \subseteq ToSet(g.items)
  BY <1>4, <1>5 DEF LiesOn
<1>7. IsScope(g)
  BY <1>5, <1>6, KindIs DEF StandsAt
<1>8. /\ f.inPlay \in Seq(Items) /\ f.accepted \in Seq(Items)
      /\ Open(f, TRUE) = ToSet(f.inPlay) /\ Done(f) = ToSet(f.accepted)
  BY <1>4, LoopIs
<1>9. g.items \in Seq(Items) /\ Open(g, FALSE) = {}
  BY <1>7, ScopeIs
<1>10. /\ IsInjective(f.inPlay) /\ IsInjective(f.accepted)
       /\ ToSet(f.inPlay) \cap ToSet(f.accepted) = {}
  BY <1>3, <1>4 DEF Tidy, Disjoint
<1>11. Has(f, TRUE) = ToSet(f.inPlay) \cup ToSet(f.accepted) /\ Has(g, FALSE) = Done(g)
  BY <1>8, <1>9 DEF Has
<1>12. DOMAIN bindings = Names
  BY <1>2 DEF Bound
<1> QED
  BY <1>1, <1>2, <1>3, <1>4, <1>5, <1>6, <1>7, <1>8, <1>9, <1>10, <1>11, <1>12 DEF Below

\* What a turn leaves in play and what it decides: together what the loop had.
Turn(left, taken, sts2) ==
    /\ left \in Seq(Items) /\ taken \in Seq(Items) /\ IsInjective(left) /\ IsInjective(taken)
    /\ ToSet(left) \cap ToSet(taken) = {}
    /\ ToSet(left) \subseteq ToSet(stack[1].inPlay)
    /\ ToSet(left) \cup ToSet(taken) = ToSet(stack[1].inPlay) \cup ToSet(stack[1].accepted)
    /\ ToSet(left) \cap sts2 = {} /\ sts2 \subseteq statuses \cup ToSet(stack[1].inPlay)

\* A loop that returns hands its scope what it accepted and what is left in play.
LEMMA LoopReturns ==
    ASSUME PlaceInv, NEW final, InLoop(final), NEW left, NEW taken, NEW sts2,
           Turn(left, taken, sts2), stack' = Return(taken, left), statuses' = sts2,
           UNCHANGED <<planned, bindings, outcome>>
    PROVE  PlaceInv'
<1> DEFINE g == stack[2]
           f == AfterStep(g, Outcome(taken, left, <<>>))
<1>1. /\ stack # <<>> /\ Below = g /\ 2 \in DOMAIN stack
      /\ Has(stack[1], TRUE) = ToSet(stack[1].inPlay) \cup ToSet(stack[1].accepted)
      /\ IsScope(g) /\ StandsAt(g, "agentLoop") /\ Tidy(g, FALSE)
      /\ Has(g, FALSE) = Done(g) /\ Has(stack[1], TRUE) \cap Done(g) = {}
      /\ 3 \in DOMAIN stack => LiesOn(g, stack[3])
  BY InLoopIs
<1>2. /\ left \in Seq(Items) /\ taken \in Seq(Items) /\ IsInjective(left) /\ IsInjective(taken)
      /\ ToSet(left) \cap ToSet(taken) = {}
      /\ ToSet(left) \cup ToSet(taken) = Has(stack[1], TRUE)
      /\ ToSet(left) \cap sts2 = {} /\ sts2 \subseteq statuses \cup Has(stack[1], TRUE)
  BY <1>1 DEF Turn
<1>3. <<>> \in Seq(Items) /\ ToSet(<<>>) = {} /\ IsInjective(<<>>)
  BY EmptyIs
<1>4. Outside(taken, left, <<>>, Done(g))
  BY <1>1, <1>2, <1>3 DEF Outside
<1> HIDE DEF g, f
<1>5. After(f, g, taken, left, <<>>)
  BY <1>1, <1>4, AfterIs DEF f
<1>6. /\ IsScope(f) /\ f.body = g.body /\ f.pc = g.pc + 1
      /\ Tidy(f, TRUE) /\ Open(f, TRUE) = ToSet(left)
      /\ Has(f, TRUE) = Done(g) \cup ToSet(taken) \cup ToSet(left) \cup ToSet(<<>>)
  BY <1>5 DEF After
<1>7. IsFrame(f) /\ f.what = "scope" /\ g.what = "scope"
  BY <1>1, <1>6, ScopeIs
<1>8. 3 \in DOMAIN stack => LiesOn(f, stack[3])
  BY <1>1, <1>6, <1>7 DEF LiesOn
<1>9. Has(f, TRUE) = Has(stack[1], TRUE) \cup Has(g, FALSE)
  BY <1>1, <1>2, <1>3, <1>6
<1>10. Returns(f, stack, statuses, sts2)
  BY <1>1, <1>2, <1>6, <1>7, <1>8, <1>9 DEF Returns, g
<1>11. ~PlainSoFar(f)
  <2>1. "agentLoop" \notin Plain
    BY DEF Plain
  <2> QED
    BY <1>1, <1>6, <2>1, Past
<1>12. stack' = <<f>> \o SubSeq(stack, 3, Len(stack))
  BY <1>1 DEF Return, f
<1> QED
  BY <1>1, <1>10, <1>11, <1>12, ReturnKeeps

\* A loop that goes on keeps what is left in play and what it accepted.
LEMMA LoopGoes ==
    ASSUME PlaceInv, NEW final, InLoop(final), NEW left, NEW taken, NEW sts2,
           Turn(left, taken, sts2), NEW turns, NEW last,
           stack' = Become([Top EXCEPT !.inPlay = left, !.accepted = taken,
                                       !.turns = turns, !.final = last]),
           statuses' = sts2, UNCHANGED <<planned, bindings, outcome>>
    PROVE  PlaceInv'
<1> DEFINE g == stack[1]
           f == [g EXCEPT !.inPlay = left, !.accepted = taken, !.turns = turns, !.final = last]
<1>1. /\ stack # <<>> /\ Top = g /\ 2 \in DOMAIN stack /\ Work(stack, statuses)
      /\ DOMAIN bindings = Names /\ IsLoop(g)
      /\ Has(g, TRUE) = ToSet(g.inPlay) \cup ToSet(g.accepted)
      /\ StandsAt(stack[2], "agentLoop") /\ IsInjective(stack[2].items)
      /\ ToSet(g.inPlay) \subseteq ToSet(stack[2].items)
  BY InLoopIs
<1>2. /\ left \in Seq(Items) /\ taken \in Seq(Items) /\ IsInjective(left) /\ IsInjective(taken)
      /\ ToSet(left) \cap ToSet(taken) = {} /\ ToSet(left) \subseteq ToSet(g.inPlay)
      /\ ToSet(left) \cup ToSet(taken) = Has(g, TRUE)
      /\ ToSet(left) \cap sts2 = {} /\ sts2 \subseteq statuses \cup Has(g, TRUE)
  BY <1>1 DEF Turn
<1>3. /\ IsLoop(f) /\ f.what = "loop" /\ f.inPlay = left /\ f.accepted = taken /\ g.what = "loop"
  <2>1. g \in [what : {"loop"}, inPlay : Seq(Items), accepted : Seq(Items), turns : {g.turns},
               retries : {g.retries}, final : {g.final}]
    BY <1>1 DEF IsLoop
  <2>2. /\ f.inPlay = left /\ f.accepted = taken /\ f.turns = turns /\ f.retries = g.retries
        /\ f.final = last /\ f.what = "loop"
    BY <2>1
  <2>3. f \in [what : {"loop"}, inPlay : Seq(Items), accepted : Seq(Items), turns : {turns},
               retries : {g.retries}, final : {last}]
    BY <1>2, <2>1
  <2> HIDE DEF f
  <2> QED
    BY <2>1, <2>2, <2>3 DEF IsLoop
<1>3a. stack' = <<f>> \o Tail(stack)
  BY <1>1 DEF Become
<1> HIDE DEF f, g
<1>4. IsFrame(f) /\ Open(f, TRUE) = ToSet(left) /\ Done(f) = ToSet(taken)
  BY <1>3, LoopIs
<1>5. Has(f, TRUE) = Has(g, TRUE)
  BY <1>2, <1>4 DEF Has
<1>6. Tidy(f, TRUE)
  <2>1. Disjoint(ToSet(f.inPlay), {}, ToSet(f.accepted), {}, {}, {})
    BY <1>2, <1>3 DEF Disjoint
  <2> QED
    BY <1>2, <1>3, <2>1 DEF Tidy
<1>7. LiesOn(f, stack[2])
  BY <1>1, <1>2, <1>3 DEF LiesOn
<1>8. Becomes(f, stack, statuses, sts2)
  BY <1>2, <1>3, <1>4, <1>5, <1>6, <1>7 DEF Becomes, g
<1>9. Continues(stack, stack', sts2)
  BY <1>1, <1>3a, <1>8, SwapOne
<1>10. stack'[1] = f
  <2>1. stack \in Seq(ToSet(stack))
    BY <1>1, InProgress
  <2> QED
    BY <1>1, <1>3a, <2>1, BecomeIs
<1>11. Bound(stack', bindings', statuses')
  BY <1>1, <1>3, <1>10 DEF Bound, PlainSoFar
<1> QED
  BY <1>1, <1>9, <1>11, Stays

\* What the agent declares finished, or a verdict accepts, leaves play.
LEMMA TurnIs ==
    ASSUME PlaceInv, NEW final, InLoop(final), NEW left, NEW gone, NEW sts2,
           left \in Seq(Items), gone \in Seq(Items), IsInjective(left), IsInjective(gone),
           ToSet(left) = ToSet(stack[1].inPlay) \ ToSet(gone),
           ToSet(gone) \subseteq ToSet(stack[1].inPlay),
           sts2 \subseteq statuses \cup ToSet(gone)
    PROVE  Turn(left, stack[1].accepted \o gone, sts2)
<1> DEFINE g == stack[1]
           taken == g.accepted \o gone
<1>1. /\ g.inPlay \in Seq(Items) /\ g.accepted \in Seq(Items) /\ IsInjective(g.accepted)
      /\ ToSet(g.inPlay) \cap ToSet(g.accepted) = {} /\ ToSet(g.inPlay) \cap statuses = {}
  BY InLoopIs
<1>2. ToSet(g.accepted) \cap ToSet(gone) = {}
  BY <1>1
<1>3. taken \in Seq(Items) /\ IsInjective(taken) /\ ToSet(taken) = ToSet(g.accepted) \cup ToSet(gone)
  BY <1>1, <1>2, ConcatIs
<1> HIDE DEF taken
<1>4. ToSet(left) \cap sts2 = {} /\ sts2 \subseteq statuses \cup ToSet(g.inPlay)
  BY <1>1
<1>5. /\ ToSet(left) \cap ToSet(taken) = {}
      /\ ToSet(left) \cup ToSet(taken) = ToSet(g.inPlay) \cup ToSet(g.accepted)
  BY <1>1, <1>3
<1>6. Turn(left, taken, sts2)
  BY <1>3, <1>4, <1>5 DEF Turn
<1> QED
  BY <1>6 DEF taken

\* The final turn: what it does not accept is rejected.
LEMMA FinalTurnKeeps ==
    ASSUME PlaceInv, FinalTurn
    PROVE  PlaceInv'
<1>1. InLoop(TRUE) /\ UNCHANGED <<planned, bindings, outcome>>
  BY DEF FinalTurn
<1>2. PICK F \in SUBSET ToSet(Top.inPlay) :
         /\ Finalize(Of(Top.inPlay, F), F)
         /\ stack' = Return(Top.accepted \o Of(Top.inPlay, F), DrainFinish(Top.inPlay, F))
  BY DEF FinalTurn
<1>3. Top = stack[1] /\ stack[1].inPlay \in Seq(Items) /\ IsInjective(stack[1].inPlay)
  BY <1>1, InLoopIs
<1> DEFINE inPlay == stack[1].inPlay
           gone == Of(inPlay, F)
           left == DrainFinish(inPlay, F)
           sts2 == statuses \cup F
<1>4. gone \in Seq(Items) /\ IsInjective(gone) /\ ToSet(gone) = F
  <2>1. gone \in Seq(Items) /\ IsInjective(gone) /\ ToSet(gone) = ToSet(inPlay) \cap F
    BY <1>3, OfIs
  <2> QED
    BY <1>3, <2>1
<1>5. left \in Seq(Items) /\ IsInjective(left) /\ ToSet(left) = ToSet(inPlay) \ F
  BY <1>3, WithoutIs DEF DrainFinish
<1>6. stack' = Return(stack[1].accepted \o gone, left) /\ statuses' = sts2
  BY <1>2, <1>3 DEF Finalize
<1>7. ToSet(gone) \subseteq ToSet(inPlay)
  BY <1>3, <1>4
<1> HIDE DEF gone, left, sts2
<1>8. Turn(left, stack[1].accepted \o gone, sts2)
  <2>1. sts2 \subseteq statuses \cup ToSet(gone)
    BY <1>4 DEF sts2
  <2>2. ToSet(left) = ToSet(inPlay) \ ToSet(gone)
    BY <1>4, <1>5
  <2> HIDE DEF inPlay
  <2> QED
    BY <1>1, <1>4, <1>5, <1>7, <2>1, <2>2, TurnIs DEF inPlay
<1> QED
  BY <1>1, <1>6, <1>8, LoopReturns

\* Three sequences after each other.
LEMMA ThreeTogether ==
    ASSUME NEW E, NEW s \in Seq(E), NEW t \in Seq(E), NEW u \in Seq(E)
    PROVE  s \o t \o u = s \o (t \o u)
BY ConcatAssociative

\* A turn: finish calls, then the verdict; what leaves play is accepted once.
LEMMA LoopTurnKeeps ==
    ASSUME PlaceInv, LoopTurn, Sloppy = FALSE
    PROVE  PlaceInv'
<1>1. InLoop(FALSE) /\ UNCHANGED <<planned, bindings, outcome>>
  BY DEF LoopTurn
<1>2. /\ Top = stack[1] /\ Below = stack[2]
      /\ stack[1].inPlay \in Seq(Items) /\ IsInjective(stack[1].inPlay)
      /\ stack[1].accepted \in Seq(Items)
      /\ stack[2].items \in Seq(Items) /\ IsInjective(stack[2].items)
      /\ ToSet(stack[1].inPlay) \subseteq ToSet(stack[2].items)
      /\ Top.inPlay = stack[1].inPlay
  BY <1>1, InLoopIs
<1> DEFINE inPlay == Top.inPlay
           open(F) == DrainFinish(inPlay, F)
           left(F, A) == Without(open(F), A)
           taken(F, A) == Top.accepted \o Of(inPlay, F) \o Of(Below.items, A)
           Moves(F, A, promoted, final, feedback) ==
             /\ statuses' = statuses \cup F \cup promoted
             /\ stack' = IF LoopGoesOn(left(F, A), final, Top.turns + 1)
                            \/ (left(F, A) # <<>> /\ final /\ feedback)
                         THEN Become([Top EXCEPT !.inPlay = left(F, A), !.accepted = taken(F, A),
                                                 !.turns = Top.turns + 1, !.final = final])
                         ELSE Return(taken(F, A), left(F, A))
<1>3a. PICK F \in SUBSET ToSet(inPlay) :
         \E A \in SUBSET MayAccept(open(F)), final, feedback \in BOOLEAN :
           \E promoted \in {A, {}} : Moves(F, A, promoted, final, feedback)
  <2> HIDE DEF Moves
  <2>1. \E F \in SUBSET ToSet(inPlay) :
         \E A \in SUBSET MayAccept(open(F)), final, feedback \in BOOLEAN :
           \E promoted \in {A, {}} : Moves(F, A, promoted, final, feedback)
    BY ZenonT(240) DEF LoopTurn, Moves
  <2> QED
    BY <2>1
<1>3b. PICK A \in SUBSET MayAccept(open(F)), final \in BOOLEAN, feedback \in BOOLEAN :
         \E promoted \in {A, {}} : Moves(F, A, promoted, final, feedback)
  BY <1>3a
<1>3. PICK promoted \in {A, {}} : Moves(F, A, promoted, final, feedback)
  BY <1>3b
<1> DEFINE drained == Of(inPlay, F)
           judged == Of(stack[2].items, A)
           gone == drained \o judged
           rest == left(F, A)
           all == taken(F, A)
           sts2 == statuses \cup F \cup promoted
<1>4. /\ drained \in Seq(Items) /\ IsInjective(drained) /\ ToSet(drained) = F
  <2>1. drained \in Seq(Items) /\ IsInjective(drained) /\ ToSet(drained) = ToSet(inPlay) \cap F
    BY <1>2, OfIs
  <2> QED
    BY <1>3, <2>1
<1>5. open(F) \in Seq(Items) /\ IsInjective(open(F)) /\ ToSet(open(F)) = ToSet(inPlay) \ F
  BY <1>2, WithoutIs DEF DrainFinish
<1>6. A \subseteq ToSet(inPlay) \ F
  BY <1>3, <1>5 DEF MayAccept
<1>7. rest \in Seq(Items) /\ IsInjective(rest) /\ ToSet(rest) = (ToSet(inPlay) \ F) \ A
  <2> HIDE DEF open
  <2> QED
    BY <1>5, WithoutIs
<1>8. judged \in Seq(Items) /\ IsInjective(judged) /\ ToSet(judged) = A
  <2>1. judged \in Seq(Items) /\ IsInjective(judged) /\ ToSet(judged) = ToSet(stack[2].items) \cap A
    BY <1>2, OfIs
  <2> QED
    BY <1>2, <1>6, <2>1
<1>9. /\ stack' = IF LoopGoesOn(rest, final, Top.turns + 1) \/ (rest # <<>> /\ final /\ feedback)
                  THEN Become([Top EXCEPT !.inPlay = rest, !.accepted = all,
                                          !.turns = Top.turns + 1, !.final = final])
                  ELSE Return(all, rest)
      /\ statuses' = sts2
  BY <1>3
<1>10. all = stack[1].accepted \o drained \o judged
  BY <1>2
<1>11. sts2 \subseteq statuses \cup F \cup A
  BY <1>3
<1> HIDE DEF drained, judged, gone, rest, all, sts2, inPlay, left, open, taken
<1>12. gone \in Seq(Items) /\ IsInjective(gone) /\ ToSet(gone) = F \cup A
  <2>1. ToSet(drained) \cap ToSet(judged) = {}
    BY <1>4, <1>6, <1>8
  <2>2. /\ drained \o judged \in Seq(Items) /\ IsInjective(drained \o judged)
        /\ ToSet(drained \o judged) = ToSet(drained) \cup ToSet(judged)
    BY <1>4, <1>8, <2>1, ConcatIs
  <2> QED
    BY <1>4, <1>8, <2>2 DEF gone
<1>13. all = stack[1].accepted \o gone
  <2> DEFINE old == stack[1].accepted
  <2>1. old \in Seq(Items) /\ drained \in Seq(Items) /\ judged \in Seq(Items)
    BY <1>2, <1>4, <1>8
  <2> HIDE DEF old, Moves
  <2>2. old \o drained \o judged = old \o (drained \o judged)
    BY <2>1, ThreeTogether
  <2> QED
    BY <1>10, <2>2 DEF gone, old
<1>14. Turn(rest, all, sts2)
  <2>1. sts2 \subseteq statuses \cup ToSet(gone)
    BY <1>11, <1>12
  <2>2. ToSet(rest) = ToSet(inPlay) \ ToSet(gone)
    BY <1>7, <1>12
  <2>3. ToSet(gone) \subseteq ToSet(inPlay)
    BY <1>6, <1>12
  <2> QED
    BY <1>1, <1>7, <1>12, <1>13, <2>1, <2>2, <2>3, <1>2, TurnIs DEF inPlay
<1>15. CASE stack' = Return(all, rest)
  BY <1>1, <1>9, <1>14, <1>15, LoopReturns
<1>16. CASE stack' = Become([Top EXCEPT !.inPlay = rest, !.accepted = all,
                                        !.turns = Top.turns + 1, !.final = final])
  BY <1>1, <1>9, <1>14, <1>16, LoopGoes
<1> QED
  BY <1>9, <1>15, <1>16

\* A turn that overdraws the budget fails the run.
LEMMA LoopOverdrawsKeeps ==
    ASSUME PlaceInv, LoopOverdraws
    PROVE  PlaceInv'
BY FailKeeps DEF LoopOverdraws, Overdraw

-----------------------------------------------------------------------------
(* foreach.                                                                *)

\* No buckets have no items.
LEMMA NoLoads ==
    Loads(<<>>) = <<>> /\ Members(<<>>) = {} /\ Neat(<<>>)
<1>1. Members(<<>>) = {} /\ Neat(<<>>)
  BY EmptyIs DEF Members, Neat, Apart
<1>2. Loads(<<>>) = <<>>
  <2> DEFINE s == <<>>
             t == Loads(s)
  <2>1. DOMAIN t = {} /\ t = [b \in DOMAIN t |-> t[b]]
    BY EmptyIs DEF Loads
  <2>2. DOMAIN s = {} /\ s = [b \in DOMAIN s |-> s[b]]
    OBVIOUS
  <2> HIDE DEF s, t
  <2>3. s = t
    BY <2>1, <2>2
  <2> QED
    BY <2>3 DEF s, t
<1> QED
  BY <1>1, <1>2

\* The items of a foreach are the scope's own, or those of a binding.
LEMMA SourceIs ==
    ASSUME PlaceInv, BindsFirst, At("foreach"), Source # None
    PROVE  /\ Source \in Seq(Items) /\ IsInjective(Source)
           /\ Unchanged \in Seq(Items) /\ IsInjective(Unchanged)
           /\ ToSet(Source) \cap statuses = {} /\ ToSet(Unchanged) \cap ToSet(Source) = {}
           /\ ToSet(Unchanged) \subseteq ToSet(stack[1].items)
           /\ ToSet(stack[1].items) \subseteq ToSet(Source) \cup ToSet(Unchanged)
           /\ ToSet(Source) \cap Done(stack[1]) = {}
           /\ Len(stack) = 1 \/ ToSet(Source) \subseteq ToSet(stack[1].items)
<1> DEFINE g == stack[1]
           step == Steps[g.body][g.pc]
<1>1. /\ stack # <<>> /\ Top = g /\ IsScope(g) /\ g.body \in DOMAIN Steps
      /\ g.pc \in 1..Len(Steps[g.body]) /\ DOMAIN Steps[g.body] = 1..Len(Steps[g.body])
      /\ Step = step /\ step.kind = "foreach" /\ step \in ToSet(Steps[g.body])
      /\ g.items \in Seq(Items) /\ IsInjective(g.items) /\ ToSet(g.items) \cap statuses = {}
  BY AtIs
<1>2. Work(stack, statuses) /\ Bound(stack, bindings, statuses)
  BY <1>1, InProgress
<1>3. /\ Tidy(g, TRUE) /\ (2 \in DOMAIN stack => LiesOn(g, stack[2]))
      /\ Len(stack) = 1 \/ 2 \in DOMAIN stack
  BY <1>1, <1>2, TopIs
<1>4. /\ g.what = "scope" /\ Open(g, TRUE) = ToSet(g.items)
      /\ Done(g) = ToSet(g.accepted) \cup ToSet(g.skipped)
  BY <1>1, ScopeIs
<1>5. ToSet(g.items) \cap Done(g) = {}
  BY <1>3, <1>4 DEF Tidy, Disjoint
<1> HIDE DEF g, step
<1>6. CASE step.from = None
  <2>1. Source = g.items /\ Unchanged = <<>>
    BY <1>1, <1>6 DEF Source, Unchanged
  <2>2. <<>> \in Seq(Items) /\ ToSet(<<>>) = {} /\ IsInjective(<<>>)
    BY EmptyIs
  <2> QED
    BY <1>1, <1>5, <2>1, <2>2 DEF g
<1>7. CASE step.from # None
  <2> DEFINE found == bindings[step.from]
  <2>1. Source = found /\ Unchanged = Without(g.items, ToSet(found))
    BY <1>1, <1>7 DEF Source, Unchanged
  <2>2. g.body \notin Nested /\ \A j \in 1..(g.pc - 1) : Steps[g.body][j].kind \in Plain
    BY <1>1, <1>7 DEF BindsFirst, step
  <2>3. Len(stack) = 1
    BY <1>3, <1>4, <2>2 DEF LiesOn
  <2>4. PlainSoFar(g)
    BY <1>1, <1>4, <2>2 DEF PlainSoFar
  <2>5. step.from \in Names
    BY <1>1, <1>7 DEF Names
  <2>6. /\ g.accepted = <<>> /\ g.skipped = <<>>
        /\ found \in Seq(Items) /\ IsInjective(found) /\ ToSet(found) \cap statuses = {}
    BY <1>2, <2>1, <2>3, <2>4, <2>5 DEF Bound, g
  <2> HIDE DEF found
  <2>7. /\ Unchanged \in Seq(Items) /\ IsInjective(Unchanged)
        /\ ToSet(Unchanged) = ToSet(g.items) \ ToSet(found)
    BY <1>1, <2>1, WithoutIs
  <2>8. Done(g) = {}
    BY <1>4, <2>6, EmptyIs
  <2> QED
    BY <2>1, <2>3, <2>6, <2>7, <2>8 DEF g
<1> QED
  BY <1>6, <1>7

\* foreach: its batches have the items of its scope, or those of a binding.
LEMMA ForeachStepKeeps ==
    ASSUME PlaceInv, BindsFirst, ForeachStep
    PROVE  PlaceInv'
<1>1. At("foreach")
  BY DEF ForeachStep
<1>2. CASE Fail
  BY <1>2, FailKeeps
<1> DEFINE queue == Partition(Source, Step.batch, Step.keyed)
           f == [what |-> "foreach", step |-> Step, queue |-> queue,
                 routed |-> <<>>, unchanged |-> Unchanged,
                 accepted |-> <<>>, rejected |-> <<>>, skipped |-> <<>>,
                 model |-> Top.model, retries |-> Top.retries]
           g == stack[1]
<1>3. CASE Source # None /\ stack' = Push(f) /\ Keeps
  <2>1. /\ stack # <<>> /\ Top = g /\ IsScope(g) /\ StandsAt(g, "foreach")
        /\ g.body \in DOMAIN Steps /\ Step \in ToSet(Steps[g.body]) /\ Step.kind = "foreach"
    BY <1>1, AtIs
  <2>2. Work(stack, statuses) /\ stack \in Seq(ToSet(stack))
    BY <2>1, InProgress
  <2>3. Tidy(g, TRUE) /\ (2 \in DOMAIN stack => LiesOn(g, stack[2]))
    BY <2>1, <2>2, TopIs
  <2>4. /\ Source \in Seq(Items) /\ IsInjective(Source)
        /\ Unchanged \in Seq(Items) /\ IsInjective(Unchanged)
        /\ ToSet(Source) \cap statuses = {} /\ ToSet(Unchanged) \cap ToSet(Source) = {}
        /\ ToSet(Unchanged) \subseteq ToSet(g.items)
        /\ ToSet(g.items) \subseteq ToSet(Source) \cup ToSet(Unchanged)
        /\ ToSet(Source) \cap Done(g) = {}
        /\ Len(stack) = 1 \/ ToSet(Source) \subseteq ToSet(g.items)
    BY <1>1, <1>3, SourceIs
  <2>5. /\ Step.body \in DOMAIN Steps \cap Nested /\ Step.batch \in Nat \ {0}
        /\ Step.routes \in Seq(ToSet(Step.routes))
    <3>1. /\ Step.body \in DOMAIN Steps /\ Step.batch \in Nat \ {0}
          /\ Step.routes \in Seq(ToSet(Step.routes))
      BY <2>1, StepsAssumption
    <3>2. Step.body \in Nested
      BY <2>1 DEF Nested
    <3> QED
      BY <3>1, <3>2
  <2>6. queue \in Seq(Seq(Items)) /\ Members(queue) = ToSet(Source) /\ Neat(queue)
    BY <2>4, <2>5, PartitionIs
  <2> HIDE DEF queue
  <2>7. /\ f.what = "foreach" /\ f.step = Step /\ f.queue = queue /\ f.routed = <<>>
        /\ f.unchanged = Unchanged /\ f.accepted = <<>> /\ f.rejected = <<>> /\ f.skipped = <<>>
    OBVIOUS
  <2>8. IsForeach(f)
    <3>1. <<>> \in Seq(Items) /\ <<>> \in Seq(Buckets(Step.routes))
      OBVIOUS
    <3>2. f \in [what : {"foreach"}, step : {Step}, queue : Seq(Seq(Items)),
                 routed : Seq(Buckets(Step.routes)), unchanged : Seq(Items), accepted : Seq(Items),
                 rejected : Seq(Items), skipped : Seq(Items), model : {f.model}, retries : {f.retries}]
      BY <2>4, <2>6, <3>1
    <3> HIDE DEF f
    <3> QED
      BY <2>5, <2>7, <3>2 DEF IsForeach
  <2> HIDE DEF f, g
  <2>9. IsFrame(f) /\ Open(f, TRUE) = ToSet(Source) \cup ToSet(Unchanged) /\ Done(f) = {}
    <3>1. /\ IsFrame(f) /\ Open(f, TRUE) = Members(f.queue) \cup Members(Loads(f.routed))
                                            \cup ToSet(f.rejected) \cup ToSet(f.unchanged)
          /\ Done(f) = ToSet(f.accepted) \cup ToSet(f.skipped)
      BY <2>8, ForeachIs
    <3> QED
      BY <2>6, <2>7, <3>1, NoLoads, EmptyIs
  <2>10. /\ g.what = "scope" /\ IsFrame(g) /\ Open(g, TRUE) = ToSet(g.items) /\ Open(g, FALSE) = {}
         /\ Done(g) = ToSet(g.accepted) \cup ToSet(g.skipped)
    BY <2>1, ScopeIs
  <2>11. Tidy(g, FALSE)
    BY <2>1, <2>3, TidyBelow
  <2>12. ToSet(g.items) \cap Done(g) = {}
    BY <2>3, <2>10 DEF Tidy, Disjoint
  <2>13. Tidy(f, TRUE)
    <3>1. Disjoint(Members(queue), {}, {}, {}, {}, ToSet(Unchanged))
      BY <2>4, <2>6 DEF Disjoint
    <3>2. Disjoint(Members(f.queue), Members(Loads(f.routed)), ToSet(f.accepted),
                   ToSet(f.rejected), ToSet(f.skipped), ToSet(f.unchanged))
      BY <2>7, <3>1, NoLoads, EmptyIs
    <3> QED
      BY <2>4, <2>6, <2>7, <3>2, NoLoads, EmptyIs DEF Tidy
  <2>14. /\ Has(f, TRUE) = ToSet(Source) \cup ToSet(Unchanged)
         /\ Has(g, FALSE) = Done(g) /\ Has(g, TRUE) = ToSet(g.items) \cup Done(g)
    BY <2>9, <2>10 DEF Has
  <2>15. Pair(f, g, statuses)
    <3>1. Has(f, TRUE) \cap Has(g, FALSE) = {}
      BY <2>4, <2>12, <2>14
    <3>2. ToSet(g.items) \cap statuses = {}
      BY <1>1, AtIs DEF g
    <3>3. Open(f, TRUE) \cap statuses = {}
      BY <2>4, <2>9, <3>2
    <3> QED
      BY <3>3, <2>4, <2>9, <2>10, <2>11, <2>13, <3>1 DEF Pair
  <2>16. LiesOn(f, g)
    BY <2>1, <2>7 DEF LiesOn
  <2>17. /\ Has(g, TRUE) \subseteq Has(f, TRUE) \cup Has(g, FALSE)
         /\ Len(stack) = 1 \/ Has(f, TRUE) \cup Has(g, FALSE) \subseteq Has(g, TRUE)
    BY <2>4, <2>14
  <2>18. Calls(f, g, stack, statuses, statuses)
    BY <2>3, <2>15, <2>16, <2>17 DEF Calls, g
  <2>19. stack' = <<f, g>> \o SubSeq(stack, 2, Len(stack))
    BY <1>3, <2>1, <2>2, StackShapes DEF Push, Top
  <2> QED
    BY <1>3, <2>1, <2>18, <2>19, CallKeeps DEF Keeps
<1> QED
  BY <1>2, <1>3 DEF ForeachStep

\* The innermost foreach, and the scope it serves.
LEMMA InForeachIs ==
    ASSUME PlaceInv, InForeach
    PROVE  /\ stack # <<>> /\ Top = stack[1] /\ Below = stack[2] /\ 2 \in DOMAIN stack
           /\ Work(stack, statuses) /\ stack \in Seq(ToSet(stack)) /\ DOMAIN bindings = Names
           /\ IsForeach(stack[1]) /\ Tidy(stack[1], TRUE) /\ Open(stack[1], TRUE) \cap statuses = {}
           /\ IsScope(stack[2]) /\ StandsAt(stack[2], "foreach") /\ Tidy(stack[2], FALSE)
           /\ LiesOn(stack[1], stack[2])
           /\ Has(stack[2], FALSE) = Done(stack[2])
           /\ Has(stack[1], TRUE) \cap Done(stack[2]) = {}
           /\ 3 \in DOMAIN stack => LiesOn(stack[2], stack[3])
<1> DEFINE f == stack[1]
           g == stack[2]
<1>1. stack # <<>> /\ Top.what = "foreach"
  BY DEF InForeach
<1>2. /\ Work(stack, statuses) /\ Top = f /\ Bound(stack, bindings, statuses)
      /\ stack \in Seq(ToSet(stack))
  BY <1>1, InProgress
<1>3. /\ IsFrame(f) /\ Tidy(f, TRUE) /\ Open(f, TRUE) \cap statuses = {}
      /\ Len(stack) = 1 \/ 2 \in DOMAIN stack
      /\ Len(stack) = 1 => f.what = "scope"
  BY <1>1, <1>2, TopIs
<1>4. IsForeach(f) /\ f.what = "foreach" /\ 2 \in DOMAIN stack
  BY <1>1, <1>2, <1>3, KindIs
<1>5. /\ IsFrame(g) /\ Tidy(g, FALSE) /\ LiesOn(f, g)
      /\ Has(f, TRUE) \cap Has(g, FALSE) = {}
      /\ 3 \in DOMAIN stack => LiesOn(g, stack[3])
  BY <1>1, <1>2, <1>4, TopIs
<1>6. StandsAt(g, "foreach")
  BY <1>4, <1>5 DEF LiesOn
<1>7. IsScope(g)
  BY <1>5, <1>6, KindIs DEF StandsAt
<1>8. Open(g, FALSE) = {}
  BY <1>7, ScopeIs
<1>9. Has(g, FALSE) = Done(g)
  BY <1>8 DEF Has
<1>10. DOMAIN bindings = Names
  BY <1>2 DEF Bound
<1> QED
  BY <1>1, <1>2, <1>3, <1>4, <1>5, <1>6, <1>7, <1>9, <1>10 DEF Below

\* What a foreach that is tidy has apart.
LEMMA TidyForeach ==
    ASSUME NEW f, IsForeach(f), NEW top
    PROVE  Tidy(f, top) <=>
             /\ Neat(f.queue) /\ Neat(Loads(f.routed))
             /\ IsInjective(f.accepted) /\ IsInjective(f.rejected)
             /\ IsInjective(f.skipped) /\ IsInjective(f.unchanged)
             /\ Disjoint(Members(f.queue), Members(Loads(f.routed)), ToSet(f.accepted),
                         ToSet(f.rejected), ToSet(f.skipped), ToSet(f.unchanged))
<1>1. f.what = "foreach"
  BY ForeachIs
<1> QED
  BY <1>1 DEF Tidy

\* A scope that begins.
Begins(f, body, items) ==
    /\ IsScope(f) /\ IsFrame(f) /\ f.what = "scope" /\ f.body = body /\ f.pc = 1
    /\ f.items = items /\ f.accepted = <<>> /\ f.skipped = <<>>
    /\ Tidy(f, TRUE) /\ Open(f, TRUE) = ToSet(items) /\ Has(f, TRUE) = ToSet(items)

\* A scope that begins has its items in play and decided on none.
LEMMA ScopeBegins ==
    ASSUME NEW body \in DOMAIN Steps, NEW items \in Seq(Items), IsInjective(items),
           NEW model, NEW retries
    PROVE  Begins(Scope(body, items, model, retries), body, items)
<1> DEFINE f == Scope(body, items, model, retries)
<1>1. /\ IsScope(f) /\ f.what = "scope" /\ f.body = body /\ f.pc = 1
      /\ f.items = items /\ f.accepted = <<>> /\ f.skipped = <<>>
  BY DEF Scope, IsScope
<1> HIDE DEF f
<1>2. IsFrame(f) /\ Open(f, TRUE) = ToSet(items) /\ Done(f) = {}
  BY <1>1, ScopeIs, EmptyIs
<1>3. Tidy(f, TRUE)
  BY <1>1, <1>2, EmptyIs DEF Tidy, Disjoint
<1>4. Has(f, TRUE) = ToSet(items)
  BY <1>2 DEF Has
<1> QED
  BY <1>1, <1>2, <1>3, <1>4 DEF f, Begins

\* What setup() leaves of a batch goes back to the queue.
LEMMA DrawIs ==
    ASSUME NEW queue \in Seq(Seq(Items)), queue # <<>>, Neat(queue),
           NEW size \in 0..Len(Head(queue))
    PROVE  LET batch == SubSeq(Head(queue), 1, size)
               rest == Excess(queue, Head(queue), size)
           IN  /\ batch \in Seq(Items) /\ IsInjective(batch)
               /\ rest \in Seq(Seq(Items)) /\ Neat(rest)
               /\ ToSet(batch) \cap Members(rest) = {}
               /\ ToSet(batch) \cup Members(rest) = Members(queue)
<1> DEFINE head == Head(queue)
           tail == Tail(queue)
           batch == SubSeq(head, 1, size)
           left == SubSeq(head, size + 1, Len(head))
           rest == Excess(queue, head, size)
<1>1. /\ head \in Seq(Items) /\ tail \in Seq(Seq(Items))
      /\ Members(queue) = ToSet(head) \cup Members(tail)
      /\ IsInjective(head) /\ Neat(tail) /\ ToSet(head) \cap Members(tail) = {}
  BY HeadIs
<1>2. Len(head) \in Nat
  BY <1>1, LenProperties
<1>3. /\ batch \in Seq(Items) /\ left \in Seq(Items)
      /\ ToSet(batch) \cup ToSet(left) = ToSet(head)
      /\ IsInjective(batch) /\ IsInjective(left) /\ ToSet(batch) \cap ToSet(left) = {}
  BY <1>1, CutIs
<1>4. CASE size < Len(head)
  <2>1. rest = <<left>> \o tail
    BY <1>4 DEF Excess
  <2> HIDE DEF rest, left, tail, batch, head
  <2>2. ToSet(left) \cap Members(tail) = {}
    BY <1>1, <1>3
  <2>3. /\ rest \in Seq(Seq(Items)) /\ Members(rest) = ToSet(left) \cup Members(tail) /\ Neat(rest)
    BY <1>1, <1>3, <2>1, <2>2, FrontIs
  <2> QED
    BY <1>1, <1>3, <2>3 DEF rest, batch, head
<1>5. CASE ~(size < Len(head))
  <2>1. rest = tail
    BY <1>5 DEF Excess
  <2>2. size = Len(head)
    BY <1>2, <1>5
  <2>3. batch = head
    BY <1>1, <2>2, SubSeqFull
  <2> HIDE DEF rest, left, tail, batch, head
  <2> QED
    BY <1>1, <2>1, <2>3 DEF rest, batch, head
<1> QED
  BY <1>4, <1>5

\* A batch is drawn from the queue, after setup() divided it, into a scope.
LEMMA DrawBatchKeeps ==
    ASSUME PlaceInv, DrawBatch
    PROVE  PlaceInv'
<1> DEFINE g == stack[1]
<1>1. InForeach /\ Top.queue # <<>> /\ Keeps
  BY DEF DrawBatch
<1>2. /\ stack # <<>> /\ Top = g /\ 2 \in DOMAIN stack
      /\ Work(stack, statuses) /\ stack \in Seq(ToSet(stack))
      /\ IsForeach(g) /\ Tidy(g, TRUE) /\ Open(g, TRUE) \cap statuses = {}
      /\ LiesOn(g, stack[2])
  BY <1>1, InForeachIs
<1>3. PICK size \in IF g.step.setup THEN 1..Len(Head(g.queue)) ELSE {Len(Head(g.queue))} :
        \E model \in {g.model} \cup g.step.models, retries \in {g.retries} \cup g.step.caps :
          stack' = <<Scope(g.step.body, SubSeq(Head(g.queue), 1, size), model, retries)>>
                   \o Become([g EXCEPT !.queue = Excess(@, Head(g.queue), size)])
  <2> DEFINE Moves(top, size, model, retries) ==
               stack' = <<Scope(top.step.body, SubSeq(Head(top.queue), 1, size), model, retries)>>
                        \o Become([top EXCEPT !.queue = Excess(@, Head(top.queue), size)])
  <2>1. \E size \in IF Top.step.setup THEN 1..Len(Head(Top.queue)) ELSE {Len(Head(Top.queue))} :
        \E model \in {Top.model} \cup Top.step.models, retries \in {Top.retries} \cup Top.step.caps :
          Moves(Top, size, model, retries)
    BY ZenonT(30) DEF DrawBatch
  <2> HIDE DEF Moves
  <2>2. \E size \in IF g.step.setup THEN 1..Len(Head(g.queue)) ELSE {Len(Head(g.queue))} :
        \E model \in {g.model} \cup g.step.models, retries \in {g.retries} \cup g.step.caps :
          Moves(g, size, model, retries)
    BY <1>2, <2>1
  <2> QED
    BY <2>2 DEF Moves
<1>4. PICK model \in {g.model} \cup g.step.models, retries \in {g.retries} \cup g.step.caps :
          stack' = <<Scope(g.step.body, SubSeq(Head(g.queue), 1, size), model, retries)>>
                   \o Become([g EXCEPT !.queue = Excess(@, Head(g.queue), size)])
  BY <1>3
<1> HIDE DEF g
<1>5. /\ g.queue \in Seq(Seq(Items)) /\ g.queue # <<>> /\ g.what = "foreach"
      /\ Neat(g.queue) /\ Neat(Loads(g.routed))
      /\ IsInjective(g.accepted) /\ IsInjective(g.rejected)
      /\ IsInjective(g.skipped) /\ IsInjective(g.unchanged)
      /\ Disjoint(Members(g.queue), Members(Loads(g.routed)), ToSet(g.accepted),
                  ToSet(g.rejected), ToSet(g.skipped), ToSet(g.unchanged))
      /\ Open(g, TRUE) = Members(g.queue) \cup Members(Loads(g.routed))
                         \cup ToSet(g.rejected) \cup ToSet(g.unchanged)
      /\ Done(g) = ToSet(g.accepted) \cup ToSet(g.skipped)
  BY <1>1, <1>2, ForeachIs, TidyForeach
<1>6. g.step.body \in DOMAIN Steps \cap Nested
  BY <1>2 DEF IsForeach
<1> DEFINE batch == SubSeq(Head(g.queue), 1, size)
           rest == Excess(g.queue, Head(g.queue), size)
           f == Scope(g.step.body, batch, model, retries)
           h == [g EXCEPT !.queue = rest]
<1>7. /\ batch \in Seq(Items) /\ IsInjective(batch)
      /\ rest \in Seq(Seq(Items)) /\ Neat(rest)
      /\ ToSet(batch) \cap Members(rest) = {}
      /\ ToSet(batch) \cup Members(rest) = Members(g.queue)
  <2>1. Head(g.queue) \in Seq(Items)
    BY <1>5, HeadIs
  <2>2. Len(Head(g.queue)) \in Nat
    BY <2>1, LenProperties
  <2>3. size \in 0..Len(Head(g.queue))
    BY <1>3, <2>2
  <2> QED
    BY <1>5, <2>3, DrawIs
<1>8. stack' = <<f>> \o (<<h>> \o Tail(stack))
  BY <1>4 DEF Become
<1> HIDE DEF batch, rest
<1>9. /\ IsFrame(f) /\ f.what = "scope" /\ f.body = g.step.body
      /\ Tidy(f, TRUE) /\ Open(f, TRUE) = ToSet(batch) /\ Has(f, TRUE) = ToSet(batch)
  <2>1. Begins(f, g.step.body, batch)
    BY <1>6, <1>7, ScopeBegins
  <2> QED
    BY <2>1 DEF Begins
<1>10. /\ IsForeach(h) /\ h.what = "foreach" /\ h.step = g.step /\ h.queue = rest
       /\ h.routed = g.routed /\ h.accepted = g.accepted /\ h.rejected = g.rejected
       /\ h.skipped = g.skipped /\ h.unchanged = g.unchanged
  BY <1>2, <1>7 DEF IsForeach
<1> HIDE DEF f, h
<1>11. /\ IsFrame(h) /\ Open(h, FALSE) = Members(rest) \cup Members(Loads(g.routed))
                                           \cup ToSet(g.rejected) \cup ToSet(g.unchanged)
       /\ Done(h) = Done(g)
  BY <1>5, <1>10, ForeachIs
<1>12. Tidy(h, FALSE)
  <2>1. Disjoint(Members(rest), Members(Loads(g.routed)), ToSet(g.accepted),
                 ToSet(g.rejected), ToSet(g.skipped), ToSet(g.unchanged))
    BY <1>5, <1>7 DEF Disjoint
  <2> QED
    BY <1>5, <1>7, <1>10, <2>1, TidyForeach
<1>13. /\ ToSet(batch) \cap Has(h, FALSE) = {}
       /\ Has(g, TRUE) = ToSet(batch) \cup Has(h, FALSE)
  <2>1. ToSet(batch) \cap (Members(Loads(g.routed)) \cup ToSet(g.rejected)
                           \cup ToSet(g.unchanged) \cup Done(g)) = {}
    BY <1>5, <1>7 DEF Disjoint
  <2> QED
    BY <1>5, <1>7, <1>11, <2>1 DEF Has
<1>14. Open(f, TRUE) \cap statuses = {} /\ Open(h, FALSE) \cap statuses = {}
  BY <1>2, <1>5, <1>7, <1>9, <1>11
<1>15. Pair(f, h, statuses)
  BY <1>9, <1>11, <1>12, <1>13, <1>14 DEF Pair
<1>16. LiesOn(f, h) /\ LiesOn(h, stack[2])
  BY <1>2, <1>5, <1>6, <1>9, <1>10 DEF LiesOn
<1>17. Calls(f, h, stack, statuses, statuses)
  BY <1>5, <1>9, <1>10, <1>13, <1>15, <1>16 DEF Calls, g
<1>18. stack' = <<f, h>> \o SubSeq(stack, 2, Len(stack))
  <2>1. stack \in Seq(ToSet(stack)) /\ stack # <<>>
    BY <1>2
  <2>2. <<f>> \o (<<h>> \o Tail(stack)) = <<f, h>> \o SubSeq(stack, 2, Len(stack))
    BY <2>1, CallShape
  <2> QED
    BY <1>8, <2>2
<1> QED
  BY <1>1, <1>2, <1>17, <1>18, CallKeeps DEF Keeps

\* The first bucket.
LEMMA BucketIs ==
    ASSUME NEW routes, NEW routed \in Seq(Buckets(routes)), routed # <<>>, Neat(Loads(routed))
    PROVE  LET items == Head(routed).items
               rest == Tail(routed)
           IN  /\ rest \in Seq(Buckets(routes)) /\ items \in Seq(Items) /\ IsInjective(items)
               /\ Neat(Loads(rest)) /\ ToSet(items) \cap Members(Loads(rest)) = {}
               /\ ToSet(items) \cup Members(Loads(rest)) = Members(Loads(routed))
<1> DEFINE rest == Tail(routed)
           q == Loads(routed)
           c == Loads(rest)
<1>1. /\ q \in Seq(Seq(Items)) /\ DOMAIN q = DOMAIN routed
      /\ Len(routed) \in Nat /\ DOMAIN routed = 1..Len(routed)
      /\ \A b \in DOMAIN routed : routed[b] \in Buckets(routes) /\ q[b] = routed[b].items
  BY LoadsIs
<1>2. /\ rest \in Seq(Buckets(routes)) /\ Len(rest) = Len(routed) - 1 /\ Len(routed) # 0
      /\ Head(routed) = routed[1] /\ \A b \in 1..(Len(routed) - 1) : rest[b] = routed[b + 1]
  BY HeadTailProperties, EmptySeq
<1> HIDE DEF rest
<1>3. /\ c \in Seq(Seq(Items)) /\ DOMAIN c = DOMAIN rest
      /\ Len(rest) \in Nat /\ DOMAIN rest = 1..Len(rest)
      /\ \A b \in DOMAIN rest : c[b] = rest[b].items
  BY <1>2, LoadsIs
<1> HIDE DEF q, c
<1>4. q # <<>> /\ Head(q) = q[1] /\ Len(q) = Len(routed)
      /\ Tail(q) \in Seq(Seq(Items)) /\ Len(Tail(q)) = Len(routed) - 1
      /\ \A b \in 1..(Len(routed) - 1) : Tail(q)[b] = q[b + 1]
  <2>1. Len(q) \in Nat /\ DOMAIN q = 1..Len(q)
    BY <1>1, LenProperties
  <2>2. Len(q) = Len(routed)
    BY <1>1, <2>1
  <2>3. q # <<>>
    BY <1>1, <1>2, <2>2, EmptySeq
  <2> QED
    BY <1>1, <2>2, <2>3, HeadTailProperties
<1>5. Head(q) = Head(routed).items
  <2>1. 1 \in DOMAIN routed
    BY <1>1, <1>2
  <2> QED
    BY <1>1, <1>2, <1>4, <2>1
<1>6. Tail(q) = c
  <2> DEFINE t == Tail(q)
  <2>1. DOMAIN t = 1..(Len(routed) - 1) /\ t = [b \in DOMAIN t |-> t[b]]
    BY <1>4, LenProperties
  <2>2. DOMAIN c = 1..(Len(routed) - 1) /\ c = [b \in DOMAIN c |-> c[b]]
    BY <1>2, <1>3, LenProperties
  <2>3. ASSUME NEW b \in 1..(Len(routed) - 1)
        PROVE  t[b] = c[b]
    <3>1. b + 1 \in DOMAIN routed
      BY <1>1
    <3>2. t[b] = q[b + 1] /\ c[b] = rest[b].items /\ rest[b] = routed[b + 1]
      BY <1>2, <1>3, <1>4, <2>2
    <3> QED
      BY <1>1, <3>1, <3>2
  <2> HIDE DEF t
  <2>4. t = c
    BY <2>1, <2>2, <2>3
  <2> QED
    BY <2>4 DEF t
<1>7. /\ Head(q) \in Seq(Items) /\ Members(q) = ToSet(Head(q)) \cup Members(Tail(q))
      /\ IsInjective(Head(q)) /\ Neat(Tail(q)) /\ ToSet(Head(q)) \cap Members(Tail(q)) = {}
  <2>1. Neat(q)
    BY DEF q
  <2> QED
    BY <1>1, <1>4, <2>1, HeadIs
<1> QED
  BY <1>2, <1>5, <1>6, <1>7 DEF q, c, rest

\* A bucket is emptied into the scope of its fragment.
LEMMA StartFragmentKeeps ==
    ASSUME PlaceInv, StartFragment
    PROVE  PlaceInv'
<1> DEFINE g == stack[1]
           bucket == Head(g.routed)
           model == IF bucket.model # None THEN bucket.model ELSE g.model
           f == Scope(bucket.to, bucket.items, model, None)
           h == [g EXCEPT !.routed = Tail(g.routed)]
<1>1. InForeach /\ Top.routed # <<>>
  BY DEF StartFragment
<1>2. /\ stack # <<>> /\ Top = g /\ 2 \in DOMAIN stack
      /\ Work(stack, statuses) /\ stack \in Seq(ToSet(stack))
      /\ IsForeach(g) /\ Tidy(g, TRUE) /\ Open(g, TRUE) \cap statuses = {}
      /\ LiesOn(g, stack[2])
  BY <1>1, InForeachIs
<1>3. CASE Fail
  BY <1>3, FailKeeps
<1>4. CASE bucket.to \in Fragments /\ stack' = <<f>> \o (<<h>> \o Tail(stack)) /\ Keeps
  <2> HIDE DEF g
  <2>1. /\ g.routed \in Seq(Buckets(g.step.routes)) /\ g.routed # <<>> /\ g.what = "foreach"
        /\ Neat(g.queue) /\ Neat(Loads(g.routed))
        /\ IsInjective(g.accepted) /\ IsInjective(g.rejected)
        /\ IsInjective(g.skipped) /\ IsInjective(g.unchanged)
        /\ Disjoint(Members(g.queue), Members(Loads(g.routed)), ToSet(g.accepted),
                    ToSet(g.rejected), ToSet(g.skipped), ToSet(g.unchanged))
        /\ Open(g, TRUE) = Members(g.queue) \cup Members(Loads(g.routed))
                           \cup ToSet(g.rejected) \cup ToSet(g.unchanged)
        /\ Done(g) = ToSet(g.accepted) \cup ToSet(g.skipped)
    BY <1>1, <1>2, ForeachIs, TidyForeach
  <2> DEFINE items == bucket.items
             rest == Tail(g.routed)
  <2>2. /\ rest \in Seq(Buckets(g.step.routes)) /\ items \in Seq(Items) /\ IsInjective(items)
        /\ Neat(Loads(rest)) /\ ToSet(items) \cap Members(Loads(rest)) = {}
        /\ ToSet(items) \cup Members(Loads(rest)) = Members(Loads(g.routed))
    BY <2>1, BucketIs
  <2>3. bucket.to \in DOMAIN Steps \cap Nested
    BY <1>4, PlanAssumption DEF Nested
  <2> HIDE DEF bucket, items, rest, model
  <2>4. /\ IsFrame(f) /\ f.what = "scope" /\ f.body = bucket.to
        /\ Tidy(f, TRUE) /\ Open(f, TRUE) = ToSet(items) /\ Has(f, TRUE) = ToSet(items)
    <3>1. Begins(f, bucket.to, items)
      BY <2>2, <2>3, ScopeBegins DEF items
    <3> QED
      BY <3>1 DEF Begins
  <2>5. /\ IsForeach(h) /\ h.what = "foreach" /\ h.step = g.step /\ h.queue = g.queue
        /\ h.routed = rest /\ h.accepted = g.accepted /\ h.rejected = g.rejected
        /\ h.skipped = g.skipped /\ h.unchanged = g.unchanged
    BY <1>2, <2>2 DEF IsForeach, rest
  <2> HIDE DEF f, h
  <2>6. /\ IsFrame(h) /\ Open(h, FALSE) = Members(g.queue) \cup Members(Loads(rest))
                                            \cup ToSet(g.rejected) \cup ToSet(g.unchanged)
        /\ Done(h) = Done(g)
    BY <2>1, <2>5, ForeachIs
  <2>7. Tidy(h, FALSE)
    <3>1. Disjoint(Members(g.queue), Members(Loads(rest)), ToSet(g.accepted),
                   ToSet(g.rejected), ToSet(g.skipped), ToSet(g.unchanged))
      BY <2>1, <2>2 DEF Disjoint
    <3> QED
      BY <2>1, <2>2, <2>5, <3>1, TidyForeach
  <2>8. /\ ToSet(items) \cap Has(h, FALSE) = {}
        /\ Has(g, TRUE) = ToSet(items) \cup Has(h, FALSE)
    <3>1. ToSet(items) \cap (Members(g.queue) \cup ToSet(g.rejected)
                             \cup ToSet(g.unchanged) \cup Done(g)) = {}
      BY <2>1, <2>2 DEF Disjoint
    <3> QED
      BY <2>1, <2>2, <2>6, <3>1 DEF Has
  <2>9. Open(f, TRUE) \cap statuses = {} /\ Open(h, FALSE) \cap statuses = {}
    BY <1>2, <2>1, <2>2, <2>4, <2>6
  <2>10. Pair(f, h, statuses)
    BY <2>4, <2>6, <2>7, <2>8, <2>9 DEF Pair
  <2>11. LiesOn(f, h) /\ LiesOn(h, stack[2])
    BY <1>2, <2>1, <2>3, <2>4, <2>5 DEF LiesOn
  <2>12. Calls(f, h, stack, statuses, statuses)
    BY <2>1, <2>4, <2>5, <2>8, <2>10, <2>11 DEF Calls, g
  <2>13. stack' = <<f, h>> \o SubSeq(stack, 2, Len(stack))
    <3>1. stack \in Seq(ToSet(stack)) /\ stack # <<>>
      BY <1>2
    <3>2. <<f>> \o (<<h>> \o Tail(stack)) = <<f, h>> \o SubSeq(stack, 2, Len(stack))
      BY <3>1, CallShape
    <3> QED
      BY <1>4, <3>2
  <2> QED
    BY <1>2, <1>4, <2>12, <2>13, CallKeeps DEF Keeps
<1> QED
  BY <1>2, <1>3, <1>4 DEF StartFragment, Become

\* A foreach without batches and loads hands its three sets to its scope.
LEMMA EndForeachKeeps ==
    ASSUME PlaceInv, EndForeach
    PROVE  PlaceInv'
<1> DEFINE t == stack[1]
           g == stack[2]
           rej == t.unchanged \o t.rejected
           f == AfterStep(g, Outcome(t.accepted, rej, t.skipped))
<1>1. InForeach /\ Top.queue = <<>> /\ Top.routed = <<>> /\ Keeps
  BY DEF EndForeach
<1>2. /\ stack # <<>> /\ Top = t /\ Below = g /\ 2 \in DOMAIN stack
      /\ Work(stack, statuses) /\ stack \in Seq(ToSet(stack))
      /\ IsForeach(t) /\ Tidy(t, TRUE) /\ Open(t, TRUE) \cap statuses = {}
      /\ IsScope(g) /\ StandsAt(g, "foreach") /\ Tidy(g, FALSE)
      /\ Has(g, FALSE) = Done(g) /\ Has(t, TRUE) \cap Done(g) = {}
      /\ 3 \in DOMAIN stack => LiesOn(g, stack[3])
  BY <1>1, InForeachIs
<1>3. stack' = <<f>> \o SubSeq(stack, 3, Len(stack))
  BY <1>2 DEF EndForeach
<1> HIDE DEF t, g
<1>4. /\ t.queue = <<>> /\ t.routed = <<>>
      /\ t.accepted \in Seq(Items) /\ t.rejected \in Seq(Items)
      /\ t.skipped \in Seq(Items) /\ t.unchanged \in Seq(Items)
      /\ IsInjective(t.accepted) /\ IsInjective(t.rejected)
      /\ IsInjective(t.skipped) /\ IsInjective(t.unchanged)
      /\ Disjoint(Members(t.queue), Members(Loads(t.routed)), ToSet(t.accepted),
                  ToSet(t.rejected), ToSet(t.skipped), ToSet(t.unchanged))
      /\ Open(t, TRUE) = Members(t.queue) \cup Members(Loads(t.routed))
                         \cup ToSet(t.rejected) \cup ToSet(t.unchanged)
      /\ Done(t) = ToSet(t.accepted) \cup ToSet(t.skipped)
  BY <1>1, <1>2, ForeachIs, TidyForeach
<1>5. /\ Open(t, TRUE) = ToSet(t.rejected) \cup ToSet(t.unchanged)
      /\ Has(t, TRUE) = ToSet(t.rejected) \cup ToSet(t.unchanged) \cup Done(t)
  BY <1>4, NoLoads DEF Has
<1>6. rej \in Seq(Items) /\ IsInjective(rej) /\ ToSet(rej) = ToSet(t.unchanged) \cup ToSet(t.rejected)
  <2>1. ToSet(t.unchanged) \cap ToSet(t.rejected) = {}
    BY <1>4 DEF Disjoint
  <2> QED
    BY <1>4, <2>1, ConcatIs
<1> HIDE DEF rej
<1>7. Outside(t.accepted, rej, t.skipped, Done(g))
  <2>1. /\ ToSet(t.accepted) \cap ToSet(rej) = {} /\ ToSet(t.accepted) \cap ToSet(t.skipped) = {}
        /\ ToSet(rej) \cap ToSet(t.skipped) = {}
    BY <1>4, <1>6 DEF Disjoint
  <2>2. (ToSet(t.accepted) \cup ToSet(rej) \cup ToSet(t.skipped)) \cap Done(g) = {}
    BY <1>2, <1>4, <1>5, <1>6
  <2> QED
    BY <1>4, <1>6, <2>1, <2>2 DEF Outside
<1> HIDE DEF f
<1>8. After(f, g, t.accepted, rej, t.skipped)
  BY <1>2, <1>7, AfterIs DEF f
<1>9. /\ IsScope(f) /\ f.body = g.body /\ f.pc = g.pc + 1
      /\ Tidy(f, TRUE) /\ Open(f, TRUE) = ToSet(rej)
      /\ Has(f, TRUE) = Done(g) \cup ToSet(t.accepted) \cup ToSet(rej) \cup ToSet(t.skipped)
  BY <1>8 DEF After
<1>10. IsFrame(f) /\ f.what = "scope" /\ g.what = "scope"
  BY <1>2, <1>9, ScopeIs
<1>11. 3 \in DOMAIN stack => LiesOn(f, stack[3])
  BY <1>2, <1>9, <1>10 DEF LiesOn
<1>12. Has(f, TRUE) = Has(t, TRUE) \cup Has(g, FALSE)
  BY <1>2, <1>4, <1>5, <1>6, <1>9
<1>13. Open(f, TRUE) \cap statuses = {}
  BY <1>2, <1>5, <1>6, <1>9
<1>14. Returns(f, stack, statuses, statuses)
  BY <1>2, <1>9, <1>10, <1>11, <1>12, <1>13 DEF Returns, t, g
<1>15. ~PlainSoFar(f)
  <2>1. "foreach" \notin Plain
    BY DEF Plain
  <2> QED
    BY <1>2, <1>9, <2>1, Past
<1> QED
  BY <1>1, <1>2, <1>3, <1>14, <1>15, ReturnKeeps DEF Keeps

\* A body, or a fragment, that ended, and its foreach.
LEMMA EndedIs ==
    ASSUME PlaceInv, status = "running", Len(stack) > 1, Top.what = "scope", Ended(Top)
    PROVE  /\ stack # <<>> /\ Top = stack[1] /\ Below = stack[2] /\ 2 \in DOMAIN stack
           /\ Work(stack, statuses) /\ stack \in Seq(ToSet(stack)) /\ DOMAIN bindings = Names
           /\ IsScope(stack[1]) /\ Tidy(stack[1], TRUE) /\ Open(stack[1], TRUE) \cap statuses = {}
           /\ IsForeach(stack[2]) /\ Tidy(stack[2], FALSE)
           /\ Open(stack[2], FALSE) \cap statuses = {}
           /\ Has(stack[1], TRUE) \cap Has(stack[2], FALSE) = {}
           /\ 3 \in DOMAIN stack => LiesOn(stack[2], stack[3])
<1> DEFINE f == stack[1]
           g == stack[2]
<1>1. stack # <<>>
  <2>1. Len(<<>>) = 0
    OBVIOUS
  <2> QED
    BY <2>1
<1>2. /\ Work(stack, statuses) /\ Top = f /\ Bound(stack, bindings, statuses)
      /\ stack \in Seq(ToSet(stack))
  BY <1>1, InProgress
<1>3. /\ IsFrame(f) /\ Tidy(f, TRUE) /\ Open(f, TRUE) \cap statuses = {}
      /\ Len(stack) = 1 \/ 2 \in DOMAIN stack
  BY <1>1, <1>2, TopIs
<1>4. IsScope(f) /\ f.what = "scope" /\ 2 \in DOMAIN stack
  BY <1>2, <1>3, KindIs
<1>5. /\ IsFrame(g) /\ Tidy(g, FALSE) /\ Open(g, FALSE) \cap statuses = {} /\ LiesOn(f, g)
      /\ Has(f, TRUE) \cap Has(g, FALSE) = {}
      /\ 3 \in DOMAIN stack => LiesOn(g, stack[3])
  BY <1>1, <1>2, <1>4, TopIs
<1>6. g.what = "foreach"
  BY <1>4, <1>5 DEF LiesOn
<1>7. IsForeach(g)
  BY <1>5, <1>6, KindIs
<1>8. DOMAIN bindings = Names
  BY <1>2 DEF Bound
<1> QED
  BY <1>1, <1>2, <1>3, <1>4, <1>5, <1>7, <1>8 DEF Below

\* A body returns to its foreach: each rejected item goes to one bucket, or is
\* rejected for good; a fragment returns likewise, and is routed no more.
LEMMA ScopeReturnsKeeps ==
    ASSUME PlaceInv, ScopeReturns
    PROVE  PlaceInv'
<1> DEFINE f == stack[1]
           g == stack[2]
           joined == [g EXCEPT !.accepted = @ \o f.accepted, !.skipped = @ \o f.skipped]
           routed == RouteAll(joined, f.items).frame
           given == [joined EXCEPT !.rejected = @ \o f.items]
<1>1. status = "running" /\ Len(stack) > 1 /\ Top.what = "scope" /\ Ended(Top)
  BY DEF ScopeReturns
<1>2. /\ stack # <<>> /\ Top = f /\ Below = g /\ 2 \in DOMAIN stack
      /\ Work(stack, statuses) /\ stack \in Seq(ToSet(stack)) /\ DOMAIN bindings = Names
      /\ IsScope(f) /\ Tidy(f, TRUE) /\ Open(f, TRUE) \cap statuses = {}
      /\ IsForeach(g) /\ Tidy(g, FALSE) /\ Open(g, FALSE) \cap statuses = {}
      /\ Has(f, TRUE) \cap Has(g, FALSE) = {}
      /\ 3 \in DOMAIN stack => LiesOn(g, stack[3])
  BY <1>1, EndedIs
<1>3. /\ \/ stack' = <<routed>> \o SubSeq(stack, 3, Len(stack))
         \/ stack' = <<given>> \o SubSeq(stack, 3, Len(stack))
      /\ UNCHANGED <<planned, bindings, statuses, outcome>>
  BY <1>2 DEF ScopeReturns
<1> HIDE DEF f, g
<1>4. /\ f.what = "scope" /\ f.items \in Seq(Items) /\ f.accepted \in Seq(Items)
      /\ f.skipped \in Seq(Items) /\ Open(f, TRUE) = ToSet(f.items)
      /\ Done(f) = ToSet(f.accepted) \cup ToSet(f.skipped)
  BY <1>2, ScopeIs
<1>5. /\ IsInjective(f.items) /\ IsInjective(f.accepted) /\ IsInjective(f.skipped)
      /\ Disjoint(ToSet(f.items), {}, ToSet(f.accepted), {}, ToSet(f.skipped), {})
  BY <1>2, <1>4 DEF Tidy
<1>6. /\ g.queue \in Seq(Seq(Items)) /\ g.routed \in Seq(Buckets(g.step.routes))
      /\ g.unchanged \in Seq(Items) /\ g.accepted \in Seq(Items)
      /\ g.rejected \in Seq(Items) /\ g.skipped \in Seq(Items) /\ g.what = "foreach"
      /\ Neat(g.queue) /\ Neat(Loads(g.routed))
      /\ IsInjective(g.accepted) /\ IsInjective(g.rejected)
      /\ IsInjective(g.skipped) /\ IsInjective(g.unchanged)
      /\ Disjoint(Members(g.queue), Members(Loads(g.routed)), ToSet(g.accepted),
                  ToSet(g.rejected), ToSet(g.skipped), ToSet(g.unchanged))
      /\ Open(g, FALSE) = Members(g.queue) \cup Members(Loads(g.routed))
                          \cup ToSet(g.rejected) \cup ToSet(g.unchanged)
      /\ Done(g) = ToSet(g.accepted) \cup ToSet(g.skipped)
  BY <1>2, ForeachIs, TidyForeach
<1> DEFINE as == g.accepted \o f.accepted
           ss == g.skipped \o f.skipped
<1>7. /\ Has(f, TRUE) = ToSet(f.items) \cup ToSet(f.accepted) \cup ToSet(f.skipped)
      /\ Has(g, FALSE) = Members(g.queue) \cup Members(Loads(g.routed)) \cup ToSet(g.rejected)
                         \cup ToSet(g.unchanged) \cup ToSet(g.accepted) \cup ToSet(g.skipped)
  BY <1>4, <1>6 DEF Has
<1>8. /\ as \in Seq(Items) /\ IsInjective(as) /\ ToSet(as) = ToSet(g.accepted) \cup ToSet(f.accepted)
      /\ ss \in Seq(Items) /\ IsInjective(ss) /\ ToSet(ss) = ToSet(g.skipped) \cup ToSet(f.skipped)
  <2>1. ToSet(g.accepted) \cap ToSet(f.accepted) = {} /\ ToSet(g.skipped) \cap ToSet(f.skipped) = {}
    BY <1>2, <1>7
  <2>2. as \in Seq(Items) /\ IsInjective(as) /\ ToSet(as) = ToSet(g.accepted) \cup ToSet(f.accepted)
    BY <1>4, <1>5, <1>6, <2>1, ConcatIs
  <2>3. ss \in Seq(Items) /\ IsInjective(ss) /\ ToSet(ss) = ToSet(g.skipped) \cup ToSet(f.skipped)
    BY <1>4, <1>5, <1>6, <2>1, ConcatIs
  <2> QED
    BY <2>2, <2>3
<1>9. joined = [g EXCEPT !.accepted = as, !.skipped = ss]
  OBVIOUS
<1> HIDE DEF as, ss, routed, given, joined
<1>10. /\ IsForeach(joined) /\ joined.what = "foreach" /\ joined.step = g.step
       /\ joined.queue = g.queue /\ joined.routed = g.routed /\ joined.accepted = as
       /\ joined.rejected = g.rejected /\ joined.skipped = ss /\ joined.unchanged = g.unchanged
  BY <1>2, <1>8, <1>9 DEF IsForeach
<1>11. /\ Open(joined, FALSE) = Open(g, FALSE) /\ Done(joined) = ToSet(as) \cup ToSet(ss)
  BY <1>6, <1>10, ForeachIs
<1>12. Tidy(joined, FALSE)
  <2>1. Disjoint(Members(g.queue), Members(Loads(g.routed)), ToSet(as),
                 ToSet(g.rejected), ToSet(ss), ToSet(g.unchanged))
    BY <1>2, <1>5, <1>6, <1>7, <1>8 DEF Disjoint
  <2> QED
    BY <1>6, <1>8, <1>10, <2>1, TidyForeach
<1>13. /\ ToSet(f.items) \cap Has(joined, FALSE) = {}
       /\ Has(joined, FALSE) \cup ToSet(f.items) = Has(f, TRUE) \cup Has(g, FALSE)
       /\ (Open(joined, FALSE) \cup ToSet(f.items)) \cap statuses = {}
  <2>1. Has(joined, FALSE) = Open(g, FALSE) \cup ToSet(as) \cup ToSet(ss)
    BY <1>11 DEF Has
  <2>2. ToSet(f.items) \cap (ToSet(f.accepted) \cup ToSet(f.skipped)) = {}
    BY <1>5 DEF Disjoint
  <2>3. ToSet(f.items) \cap Has(joined, FALSE) = {}
    BY <1>2, <1>6, <1>7, <1>8, <2>1, <2>2
  <2>4. Has(joined, FALSE) \cup ToSet(f.items) = Has(f, TRUE) \cup Has(g, FALSE)
    BY <1>6, <1>7, <1>8, <2>1
  <2>5. (Open(joined, FALSE) \cup ToSet(f.items)) \cap statuses = {}
    BY <1>2, <1>4, <1>11
  <2> QED
    BY <2>3, <2>4, <2>5
\* Whatever frame has it all now goes on.
<1>14. ASSUME NEW h, IsForeach(h), Tidy(h, FALSE),
              Has(h, FALSE) = Has(joined, FALSE) \cup ToSet(f.items),
              Open(h, FALSE) \subseteq Open(joined, FALSE) \cup ToSet(f.items),
              stack' = <<h>> \o SubSeq(stack, 3, Len(stack))
       PROVE  PlaceInv'
  <2>1. /\ IsFrame(h) /\ h.what = "foreach" /\ Open(h, TRUE) = Open(h, FALSE)
    BY <1>14, ForeachIs
  <2>2. Tidy(h, TRUE)
    BY <1>14, TidyForeach
  <2>3. Has(h, TRUE) = Has(f, TRUE) \cup Has(g, FALSE)
    BY <1>13, <1>14, <2>1 DEF Has
  <2>4. Open(h, TRUE) \cap statuses = {}
    BY <1>13, <1>14, <2>1
  <2>5. 3 \in DOMAIN stack => LiesOn(h, stack[3])
    BY <1>2, <1>6, <2>1 DEF LiesOn
  <2>6. Returns(h, stack, statuses, statuses)
    BY <1>2, <1>6, <2>1, <2>2, <2>3, <2>4, <2>5 DEF Returns, f, g
  <2>7. ~PlainSoFar(h)
    BY <2>1 DEF PlainSoFar
  <2> QED
    BY <1>2, <1>3, <1>14, <2>6, <2>7, ReturnKeeps
<1>15. CASE stack' = <<routed>> \o SubSeq(stack, 3, Len(stack))
  <2>1. /\ IsForeach(routed) /\ Tidy(routed, FALSE)
        /\ Has(routed, FALSE) = Has(joined, FALSE) \cup ToSet(f.items)
        /\ Open(routed, FALSE) \subseteq Open(joined, FALSE) \cup ToSet(f.items)
    BY <1>4, <1>5, <1>10, <1>12, <1>13, RouteAllIs DEF routed
  <2> QED
    BY <1>14, <1>15, <2>1
<1>16. CASE stack' = <<given>> \o SubSeq(stack, 3, Len(stack))
  <2> DEFINE rs == g.rejected \o f.items
  <2>1. rs \in Seq(Items) /\ IsInjective(rs) /\ ToSet(rs) = ToSet(g.rejected) \cup ToSet(f.items)
    <3>1. ToSet(g.rejected) \cap ToSet(f.items) = {}
      BY <1>2, <1>7
    <3> QED
      BY <1>4, <1>5, <1>6, <3>1, ConcatIs
  <2>2. given = [joined EXCEPT !.rejected = rs]
    BY <1>10 DEF given
  <2> HIDE DEF rs
  <2>3. /\ IsForeach(given) /\ given.what = "foreach" /\ given.step = g.step
        /\ given.queue = g.queue /\ given.routed = g.routed /\ given.accepted = as
        /\ given.rejected = rs /\ given.skipped = ss /\ given.unchanged = g.unchanged
    BY <1>10, <2>1, <2>2 DEF IsForeach
  <2>4. /\ Open(given, FALSE) = Open(g, FALSE) \cup ToSet(f.items)
        /\ Done(given) = ToSet(as) \cup ToSet(ss)
    <3>1. /\ Open(given, FALSE) = Members(given.queue) \cup Members(Loads(given.routed))
                                  \cup ToSet(given.rejected) \cup ToSet(given.unchanged)
          /\ Done(given) = ToSet(given.accepted) \cup ToSet(given.skipped)
      BY <2>3, ForeachIs
    <3> QED
      BY <1>6, <2>1, <2>3, <3>1
  <2>5. Tidy(given, FALSE)
    <3>1. Disjoint(Members(g.queue), Members(Loads(g.routed)), ToSet(as),
                   ToSet(rs), ToSet(ss), ToSet(g.unchanged))
      BY <1>2, <1>5, <1>6, <1>7, <1>8, <2>1 DEF Disjoint
    <3> QED
      BY <1>6, <1>8, <2>1, <2>3, <3>1, TidyForeach
  <2>6. Has(given, FALSE) = Has(joined, FALSE) \cup ToSet(f.items)
    BY <1>11, <2>4 DEF Has
  <2> QED
    BY <1>11, <1>14, <1>16, <2>3, <2>4, <2>5, <2>6
<1> QED
  BY <1>3, <1>15, <1>16

-----------------------------------------------------------------------------
(* Pipelines.                                                              *)

\* No frames.
LEMMA NoFrames ==
    ASSUME NEW bound, NEW sts, DOMAIN bound = Names
    PROVE  Frames(<<>>) /\ Separate(<<>>) /\ OpenStay(<<>>, sts) /\ Bound(<<>>, bound, sts)
<1>1. DOMAIN <<>> = {} /\ Len(<<>>) = 0 /\ <<>> \in Seq(ToSet(<<>>))
  OBVIOUS
<1>2. Frames(<<>>)
  BY <1>1 DEF Frames
<1>3. Separate(<<>>)
  BY <1>1 DEF Separate
<1>4. OpenStay(<<>>, sts)
  BY <1>1 DEF OpenStay
<1>5. Bound(<<>>, bound, sts)
  <2>1. Len(<<>>) # 1
    BY <1>1
  <2> QED
    BY <2>1, Deep
<1> QED
  BY <1>2, <1>3, <1>4, <1>5

\* A pipeline starts with what it planned.
LEMMA StartPipelineKeeps ==
    ASSUME PlaceInv, StartPipeline
    PROVE  PlaceInv'
<1> DEFINE p == Head(agenda).pipeline
           items == Without(Plan[p], statuses)
           f == Scope(p, items, Default, None)
<1>1. CASE Fail
  BY <1>1, FailKeeps
<1>2. CASE /\ p \in Pipelines
           /\ planned' = items /\ stack' = <<Scope(p, planned', Default, None)>>
           /\ bindings' = [b \in DOMAIN bindings |-> None]
           /\ outcome' = None /\ UNCHANGED statuses
  <2>1. Plan[p] \in Seq(Items) /\ IsInjective(Plan[p]) /\ p \in DOMAIN Steps
    BY <1>2, PlanAssumption
  <2>2. items \in Seq(Items) /\ IsInjective(items) /\ ToSet(items) = ToSet(Plan[p]) \ statuses
    BY <2>1, WithoutIs
  <2>3. stack' = <<f>>
    BY <1>2
  <2> HIDE DEF p, items
  <2>4. Begins(f, p, items)
    BY <2>1, <2>2, ScopeBegins
  <2> HIDE DEF f
  <2>5. /\ IsFrame(f) /\ f.what = "scope" /\ f.accepted = <<>> /\ f.skipped = <<>>
        /\ Tidy(f, TRUE) /\ Open(f, TRUE) = ToSet(items) /\ Has(f, TRUE) = ToSet(items)
    BY <2>4 DEF Begins
  <2>6. Open(f, TRUE) \cap statuses = {}
    BY <2>2, <2>5
  <2> DEFINE s == <<f>>
  <2>7. /\ s # <<>> /\ s \in Seq(ToSet(s)) /\ DOMAIN s = {1} /\ Len(s) = 1 /\ s[1] = f
        /\ Separate(s) /\ OpenStay(s, statuses) /\ Holds(s) = Has(f, TRUE)
    BY <2>5, <2>6, OneIs
  <2>8. stack' = s
    BY <2>3
  <2> HIDE DEF s
  <2>9. Frames(s)
    BY <2>5, <2>7 DEF Frames
  <2>10. Bound(s, bindings', statuses)
    <3>1. DOMAIN bindings = Names
      BY DEF PlaceInv, Bound
    <3>2. DOMAIN bindings' = Names /\ \A b \in Names : bindings'[b] = None
      BY <1>2, <3>1
    <3> QED
      BY <2>5, <2>7, <3>2 DEF Bound
  <2>11. ToSet(planned') \subseteq Holds(stack')
    BY <1>2, <2>5, <2>7, <2>8
  <2> QED
    BY <1>2, <2>7, <2>8, <2>9, <2>10, <2>11 DEF PlaceInv
<1> QED
  BY <1>1, <1>2 DEF StartPipeline

\* A pipeline's outcome is what its outermost scope decided on, and the rest.
LEMMA EndPipelineKeeps ==
    ASSUME PlaceInv, EndPipeline
    PROVE  PlaceInv'
<1> DEFINE g == stack[1]
           out == Outcome(g.accepted, g.items, g.skipped)
<1>1. Len(stack) = 1 /\ stack' = <<>> /\ UNCHANGED <<planned, bindings, statuses>>
  BY DEF EndPipeline
<1>2. stack # <<>>
  <2>1. Len(<<>>) # 1
    OBVIOUS
  <2> QED
    BY <1>1, <2>1
<1>3. /\ Work(stack, statuses) /\ Top = g /\ Bound(stack, bindings, statuses)
  BY <1>2, InProgress
<1>4. /\ IsFrame(g) /\ g.what = "scope" /\ Tidy(g, TRUE) /\ DOMAIN stack = 1..Len(stack)
  BY <1>1, <1>2, <1>3, TopIs
<1>5. IsScope(g)
  BY <1>4, KindIs
<1>6. /\ g.items \in Seq(Items) /\ g.accepted \in Seq(Items) /\ g.skipped \in Seq(Items)
      /\ Open(g, TRUE) = ToSet(g.items) /\ Done(g) = ToSet(g.accepted) \cup ToSet(g.skipped)
  BY <1>5, ScopeIs
<1>7. /\ IsInjective(g.accepted) /\ IsInjective(g.items) /\ IsInjective(g.skipped)
      /\ ToSet(g.accepted) \cap ToSet(g.items) = {}
      /\ ToSet(g.accepted) \cap ToSet(g.skipped) = {}
      /\ ToSet(g.items) \cap ToSet(g.skipped) = {}
  <2>1. /\ IsInjective(g.accepted) /\ IsInjective(g.items) /\ IsInjective(g.skipped)
        /\ Disjoint(Open(g, TRUE), {}, ToSet(g.accepted), {}, ToSet(g.skipped), {})
    BY <1>4 DEF Tidy
  <2>2. Disjoint(ToSet(g.items), {}, ToSet(g.accepted), {}, ToSet(g.skipped), {})
    BY <1>6, <2>1, Zenon
  <2>3. /\ ToSet(g.items) \cap ToSet(g.accepted) = {} /\ ToSet(g.items) \cap ToSet(g.skipped) = {}
        /\ ToSet(g.accepted) \cap ToSet(g.skipped) = {}
    BY <2>2, ApartAre, Zenon
  <2> QED
    BY <2>1, <2>3
<1>8. ToSet(planned) \subseteq Has(g, TRUE)
  <2>1. ToSet(planned) \subseteq Holds(stack)
    BY <1>2 DEF PlaceInv
  <2>2. DOMAIN stack = {1} /\ (1 = 1) = TRUE
    BY <1>1, <1>4
  <2>3. Holds(stack) = Has(g, TRUE)
    BY <2>2 DEF Holds
  <2> QED
    BY <2>1, <2>3
<1>9. outcome' = out
  BY <1>3 DEF EndPipeline
<1>10. /\ out \in [accepted : Seq(Items), rejected : Seq(Items), skipped : Seq(Items)]
       /\ out.accepted = g.accepted /\ out.rejected = g.items /\ out.skipped = g.skipped
  BY <1>6 DEF Outcome
<1> HIDE DEF out, g
<1>11. Parted(outcome)'
  BY <1>1, <1>6, <1>7, <1>8, <1>9, <1>10 DEF Parted, Has
<1>12. Frames(stack') /\ Separate(stack') /\ OpenStay(stack', statuses')
       /\ Bound(stack', bindings', statuses')
  <2>1. DOMAIN bindings' = Names
    BY <1>1, <1>3 DEF Bound
  <2> QED
    BY <1>1, <2>1, NoFrames
<1> QED
  BY <1>1, <1>11, <1>12 DEF PlaceInv

\* The invariant holds when a run begins.
LEMMA PlaceInvInit ==
    ASSUME Init
    PROVE  PlaceInv
<1>1. stack = <<>> /\ outcome = None /\ bindings = [b \in Names |-> None]
  BY DEF Init
<1>2. Frames(stack) /\ Separate(stack) /\ OpenStay(stack, statuses) /\ Bound(stack, bindings, statuses)
  BY <1>1, NoFrames
<1> QED
  BY <1>1, <1>2 DEF PlaceInv

\* Every action keeps the invariant.
LEMMA PlaceInvNext ==
    ASSUME PlaceInv, BindsFirst, Sloppy = FALSE, [Next]_vars
    PROVE  PlaceInv'
<1>1. CASE UNCHANGED vars
  BY <1>1, NothingMoves DEF vars
<1>2. CASE Throw
  BY <1>2, FailKeeps DEF Throw
<1>3. CASE PlainStep
  BY <1>3, PlainStepKeeps
<1>4. CASE VerifyStep
  BY <1>4, VerifyStepKeeps
<1>5. CASE SelectStep
  BY <1>5, SelectStepKeeps
<1>6. CASE GateStep
  BY <1>6, GateStepKeeps
<1>7. CASE AgentStep
  BY <1>7, AgentStepKeeps
<1>8. CASE LoopStep
  BY <1>8, LoopStepKeeps
<1>9. CASE LoopTurn
  BY <1>9, LoopTurnKeeps
<1>10. CASE FinalTurn
  BY <1>10, FinalTurnKeeps
<1>11. CASE LoopOverdraws
  BY <1>11, LoopOverdrawsKeeps
<1>12. CASE ForeachStep
  BY <1>12, ForeachStepKeeps
<1>13. CASE DrawBatch
  BY <1>13, DrawBatchKeeps
<1>14. CASE ScopeReturns
  BY <1>14, ScopeReturnsKeeps
<1>15. CASE StartFragment
  BY <1>15, StartFragmentKeeps
<1>16. CASE EndForeach
  BY <1>16, EndForeachKeeps
<1>17. CASE StartPipeline
  BY <1>17, StartPipelineKeeps
<1>18. CASE EndPipeline
  BY <1>18, EndPipelineKeeps
<1>19. CASE Dispatch
  BY <1>19, NothingMoves DEF Dispatch
<1>20. CASE End
  BY <1>20, NothingMoves DEF End
<1> QED
  BY <1>1, <1>2, <1>3, <1>4, <1>5, <1>6, <1>7, <1>8, <1>9, <1>10, <1>11, <1>12, <1>13,
     <1>14, <1>15, <1>16, <1>17, <1>18, <1>19, <1>20 DEF Next, Execute

-----------------------------------------------------------------------------
(* Where every item is.                                                    *)

\* A sequence without repetition has each of its members once.
LEMMA CountIs ==
    ASSUME NEW s, IsInjective(s), NEW i
    PROVE  /\ Count(s, i) <= 1
           /\ i \in ToSet(s) => Count(s, i) = 1
<1> DEFINE K == {k \in DOMAIN s : s[k] = i}
<1>1. CASE K = {}
  <2>1. Cardinality(K) = 0
    BY <1>1, FS_EmptySet
  <2>2. i \notin ToSet(s)
    BY <1>1 DEF ToSet
  <2> QED
    BY <2>1, <2>2 DEF Count
<1>2. CASE K # {}
  <2>1. PICK k \in DOMAIN s : s[k] = i
    BY <1>2
  <2>2. K = {k}
    BY <2>1 DEF IsInjective
  <2>3. Cardinality(K) = 1
    BY <2>2, FS_Singleton
  <2> QED
    BY <2>3 DEF Count
<1> QED
  BY <1>1, <1>2

\* The lists of a frame have what the frame has, each item once.
LEMMA HereIs ==
    ASSUME PlaceInv, NEW k \in DOMAIN stack
    PROVE  /\ Undecided(k) \in Seq(Items) /\ ToSet(Undecided(k)) \subseteq Open(stack[k], k = 1)
           /\ Undecided(k) \o Decided(k) \in Seq(Items)
           /\ IsInjective(Undecided(k) \o Decided(k))
           /\ ToSet(Undecided(k) \o Decided(k)) = Has(stack[k], k = 1)
<1> DEFINE f == stack[k]
           u == Undecided(k)
           d == Decided(k)
           top == k = 1
<1>1. IsFrame(f) /\ Tidy(f, top)
  BY DEF PlaceInv, Frames, Separate
<1>2. u = CASE f.what = "scope" -> IF top THEN f.items ELSE <<>>
            [] f.what = "loop" -> f.inPlay
            [] f.what = "foreach" -> FlattenSeq(f.queue) \o FlattenSeq(Loads(f.routed))
  BY DEF Undecided, Loads
<1>3. d = CASE f.what = "scope" -> f.accepted \o f.skipped
            [] f.what = "loop" -> f.accepted
            [] f.what = "foreach" -> f.accepted \o f.rejected \o f.skipped \o f.unchanged
  BY DEF Decided
<1>4. top \in BOOLEAN
  OBVIOUS
<1>5. \/ f.what = "scope" /\ IsScope(f)
      \/ f.what = "loop" /\ IsLoop(f)
      \/ f.what = "foreach" /\ IsForeach(f)
  BY <1>1 DEF IsFrame
<1> HIDE DEF f, u, d, top
<1>6. SUFFICES /\ u \in Seq(Items) /\ d \in Seq(Items) /\ IsInjective(u) /\ IsInjective(d)
               /\ ToSet(u) \cap ToSet(d) = {} /\ ToSet(u) \cup ToSet(d) = Has(f, top)
               /\ ToSet(u) \subseteq Open(f, top)
  <2> DEFINE all == u \o d
  <2>1. all \in Seq(Items) /\ IsInjective(all) /\ ToSet(all) = Has(f, top)
    <3>1. u \in Seq(Items) /\ d \in Seq(Items)
      BY <1>6
    <3>2. IsInjective(u) /\ IsInjective(d) /\ ToSet(u) \cap ToSet(d) = {}
      BY <1>6
    <3>3. all \in Seq(Items) /\ ToSet(all) = ToSet(u) \cup ToSet(d)
      BY <3>1, ConcatIs
    <3>4. IsInjective(all)
      BY <3>1, <3>2, ConcatIs
    <3>5. ToSet(u) \cup ToSet(d) = Has(f, top)
      BY <1>6
    <3> QED
      BY <3>3, <3>4, <3>5
  <2>2. u \in Seq(Items) /\ ToSet(u) \subseteq Open(f, top)
    BY <1>6
  <2> QED
    BY <2>1, <2>2, Zenon DEF f, u, d, top
<1>7. CASE f.what = "scope" /\ IsScope(f)
  <2>1. /\ f.items \in Seq(Items) /\ f.accepted \in Seq(Items) /\ f.skipped \in Seq(Items)
        /\ Open(f, top) = (IF top THEN ToSet(f.items) ELSE {})
        /\ Done(f) = ToSet(f.accepted) \cup ToSet(f.skipped)
    BY <1>7, ScopeIs
  <2>2. /\ IsInjective(f.accepted) /\ IsInjective(f.skipped) /\ (top => IsInjective(f.items))
        /\ Disjoint(Open(f, top), {}, ToSet(f.accepted), {}, ToSet(f.skipped), {})
    BY <1>1, <1>7 DEF Tidy
  <2>3. u = (IF top THEN f.items ELSE <<>>) /\ d = f.accepted \o f.skipped
    BY <1>2, <1>3, <1>7
  <2>4. u \in Seq(Items) /\ IsInjective(u) /\ ToSet(u) = Open(f, top)
    <3>1. CASE top
      <4>1. u = f.items /\ Open(f, top) = ToSet(f.items)
        BY <2>1, <2>3, <3>1
      <4> QED
        BY <2>1, <2>2, <3>1, <4>1
    <3>2. CASE ~top
      <4>1. u = <<>> /\ Open(f, top) = {}
        BY <2>1, <2>3, <3>2
      <4>2. <<>> \in Seq(Items) /\ IsInjective(<<>>) /\ ToSet(<<>>) = {}
        BY EmptyIs
      <4> QED
        BY <4>1, <4>2
    <3> QED
      BY <3>1, <3>2
  <2>5. d \in Seq(Items) /\ IsInjective(d) /\ ToSet(d) = Done(f)
    <3>1. ToSet(f.accepted) \cap ToSet(f.skipped) = {}
      BY <2>2 DEF Disjoint
    <3> QED
      BY <2>1, <2>2, <2>3, <3>1, ConcatIs
  <2>6. ToSet(u) \cap ToSet(d) = {}
    BY <2>1, <2>2, <2>4, <2>5 DEF Disjoint
  <2> QED
    BY <2>4, <2>5, <2>6 DEF Has
<1>8. CASE f.what = "loop" /\ IsLoop(f)
  <2>1. /\ f.inPlay \in Seq(Items) /\ f.accepted \in Seq(Items)
        /\ Open(f, top) = ToSet(f.inPlay) /\ Done(f) = ToSet(f.accepted)
    BY <1>8, LoopIs
  <2>2. /\ IsInjective(f.inPlay) /\ IsInjective(f.accepted)
        /\ ToSet(f.inPlay) \cap ToSet(f.accepted) = {}
    BY <1>1, <1>8 DEF Tidy, Disjoint
  <2>3. u = f.inPlay /\ d = f.accepted
    BY <1>2, <1>3, <1>8
  <2> QED
    BY <2>1, <2>2, <2>3 DEF Has
<1>9. CASE f.what = "foreach" /\ IsForeach(f)
  <2>1. /\ f.queue \in Seq(Seq(Items)) /\ f.routed \in Seq(Buckets(f.step.routes))
        /\ f.unchanged \in Seq(Items) /\ f.accepted \in Seq(Items)
        /\ f.rejected \in Seq(Items) /\ f.skipped \in Seq(Items)
        /\ Open(f, top) = Members(f.queue) \cup Members(Loads(f.routed))
                          \cup ToSet(f.rejected) \cup ToSet(f.unchanged)
        /\ Done(f) = ToSet(f.accepted) \cup ToSet(f.skipped)
        /\ Neat(f.queue) /\ Neat(Loads(f.routed))
        /\ IsInjective(f.accepted) /\ IsInjective(f.rejected)
        /\ IsInjective(f.skipped) /\ IsInjective(f.unchanged)
        /\ Disjoint(Members(f.queue), Members(Loads(f.routed)), ToSet(f.accepted),
                    ToSet(f.rejected), ToSet(f.skipped), ToSet(f.unchanged))
    BY <1>1, <1>9, ForeachIs, TidyForeach
  <2> DEFINE q == FlattenSeq(f.queue)
             r == FlattenSeq(Loads(f.routed))
  <2>2. /\ q \in Seq(Items) /\ ToSet(q) = Members(f.queue) /\ IsInjective(q)
        /\ r \in Seq(Items) /\ ToSet(r) = Members(Loads(f.routed)) /\ IsInjective(r)
    BY <2>1, LoadsIs, FlattenIs
  <2>3. u = q \o r /\ d = f.accepted \o f.rejected \o f.skipped \o f.unchanged
    BY <1>2, <1>3, <1>9
  <2> HIDE DEF q, r
  <2>4. u \in Seq(Items) /\ IsInjective(u) /\ ToSet(u) = ToSet(q) \cup ToSet(r)
    <3>1. ToSet(q) \cap ToSet(r) = {}
      BY <2>1, <2>2 DEF Disjoint
    <3> QED
      BY <2>2, <2>3, <3>1, ConcatIs
  <2>5. /\ d \in Seq(Items) /\ IsInjective(d)
        /\ ToSet(d) = ToSet(f.accepted) \cup ToSet(f.rejected) \cup ToSet(f.skipped)
                      \cup ToSet(f.unchanged)
    <3> DEFINE a == f.accepted \o f.rejected
               b == a \o f.skipped
    <3>1. a \in Seq(Items) /\ IsInjective(a) /\ ToSet(a) = ToSet(f.accepted) \cup ToSet(f.rejected)
      <4>1. ToSet(f.accepted) \cap ToSet(f.rejected) = {}
        BY <2>1 DEF Disjoint
      <4> QED
        BY <2>1, <4>1, ConcatIs
    <3> HIDE DEF a
    <3>2. b \in Seq(Items) /\ IsInjective(b) /\ ToSet(b) = ToSet(a) \cup ToSet(f.skipped)
      <4>1. ToSet(a) \cap ToSet(f.skipped) = {}
        BY <2>1, <3>1 DEF Disjoint
      <4> QED
        BY <2>1, <3>1, <4>1, ConcatIs
    <3> HIDE DEF b
    <3>3. d = b \o f.unchanged
      BY <2>3 DEF a, b
    <3>4. ToSet(b) \cap ToSet(f.unchanged) = {}
      BY <2>1, <3>1, <3>2 DEF Disjoint
    <3> QED
      BY <2>1, <3>1, <3>2, <3>3, <3>4, ConcatIs
  <2>6. ToSet(u) \cap ToSet(d) = {}
    BY <2>1, <2>2, <2>4, <2>5 DEF Disjoint
  <2>7. ToSet(u) \cup ToSet(d) = Has(f, top) /\ ToSet(u) \subseteq Open(f, top)
    BY <2>1, <2>2, <2>4, <2>5 DEF Has
  <2> QED
    BY <2>4, <2>5, <2>6, <2>7
<1> QED
  BY <1>5, <1>7, <1>8, <1>9

\* The invariant says where every item is.
LEMMA PlacesAreOne ==
    ASSUME PlaceInv
    PROVE  EachItemHasOnePlace
<1> DEFINE q == [k \in DOMAIN stack |-> Undecided(k) \o Decided(k)]
           flat == FlattenSeq(q)
           out == IF outcome = None THEN <<>>
                  ELSE outcome.accepted \o outcome.rejected \o outcome.skipped
<1>1. /\ stack \in Seq(ToSet(stack)) /\ Len(stack) \in Nat /\ DOMAIN stack = 1..Len(stack)
  BY SeqIs DEF PlaceInv, Frames
<1>2. /\ q \in Seq(Seq(Items)) /\ Neat(q) /\ Members(q) = Holds(stack)
  <2>1. \A k \in DOMAIN stack : /\ q[k] \in Seq(Items) /\ IsInjective(q[k])
                                /\ ToSet(q[k]) = Has(stack[k], k = 1)
    BY HereIs
  <2>2. DOMAIN q = DOMAIN stack /\ q = [k \in DOMAIN q |-> q[k]]
    OBVIOUS
  <2> HIDE DEF q
  <2>3. q \in Seq(Seq(Items))
    <3>1. q \in [1..Len(stack) -> Seq(Items)]
      BY <1>1, <2>1, <2>2
    <3> QED
      BY <1>1, <3>1, SeqDef
  <2>4. \A j, k \in DOMAIN stack : j # k => Has(stack[j], j = 1) \cap Has(stack[k], k = 1) = {}
    BY DEF PlaceInv, Separate
  <2>5. Neat(q)
    <3>1. ASSUME NEW a \in DOMAIN q
          PROVE  IsInjective(q[a])
      BY <2>1, <2>2, <3>1
    <3>2. ASSUME NEW a \in DOMAIN q, NEW b \in DOMAIN q, a # b
          PROVE  ToSet(q[a]) \cap ToSet(q[b]) = {}
      <4>1. a \in DOMAIN stack /\ b \in DOMAIN stack
        BY <2>2
      <4>2. ToSet(q[a]) = Has(stack[a], a = 1) /\ ToSet(q[b]) = Has(stack[b], b = 1)
        BY <2>1, <4>1
      <4>3. Has(stack[a], a = 1) \cap Has(stack[b], b = 1) = {}
        BY <2>4, <3>2, <4>1
      <4> QED
        BY <4>2, <4>3
    <3> QED
      BY <3>1, <3>2 DEF Neat, Apart
  <2>6. Members(q) = Holds(stack)
    BY <2>1, <2>2 DEF Members, Holds
  <2> QED
    BY <2>3, <2>5, <2>6
<1> HIDE DEF q
<1>3. flat \in Seq(Items) /\ ToSet(flat) = Holds(stack) /\ IsInjective(flat)
  BY <1>2, FlattenIs
<1>4. Everywhere = flat \o out
  BY DEF Everywhere, q
<1> HIDE DEF flat
<1>5. ASSUME stack # <<>>
      PROVE  IsInjective(Everywhere) /\ ToSet(planned) \subseteq ToSet(Everywhere)
  <2>1. outcome = None /\ ToSet(planned) \subseteq Holds(stack)
    BY <1>5 DEF PlaceInv
  <2>2. Everywhere = flat
    BY <1>3, <1>4, <2>1
  <2> QED
    BY <1>3, <2>1, <2>2
<1>6. ASSUME outcome # None
      PROVE  IsInjective(Everywhere) /\ ToSet(planned) \subseteq ToSet(Everywhere)
  <2>1. stack = <<>> /\ Parted(outcome)
    BY <1>6 DEF PlaceInv
  <2>2. Holds(stack) = {}
    BY <2>1 DEF Holds
  <2> DEFINE a == outcome.accepted
             r == outcome.rejected
             s == outcome.skipped
  <2>3. /\ a \in Seq(Items) /\ r \in Seq(Items) /\ s \in Seq(Items)
        /\ IsInjective(a) /\ IsInjective(r) /\ IsInjective(s)
        /\ ToSet(a) \cap ToSet(r) = {} /\ ToSet(a) \cap ToSet(s) = {} /\ ToSet(r) \cap ToSet(s) = {}
        /\ ToSet(planned) \subseteq ToSet(a) \cup ToSet(r) \cup ToSet(s)
    BY <2>1 DEF Parted
  <2>4. out = (a \o r) \o s
    BY <1>6
  <2> HIDE DEF a, r, s, out
  <2>5. a \o r \in Seq(Items) /\ IsInjective(a \o r) /\ ToSet(a \o r) = ToSet(a) \cup ToSet(r)
    BY <2>3, ConcatIs
  <2>6. out \in Seq(Items) /\ IsInjective(out) /\ ToSet(out) = ToSet(a) \cup ToSet(r) \cup ToSet(s)
    <3> DEFINE ar == a \o r
    <3>1. ToSet(ar) \cap ToSet(s) = {} /\ ar \in Seq(Items) /\ IsInjective(ar)
      BY <2>3, <2>5
    <3> HIDE DEF ar
    <3>2. ar \o s \in Seq(Items) /\ IsInjective(ar \o s) /\ ToSet(ar \o s) = ToSet(ar) \cup ToSet(s)
      BY <2>3, <3>1, ConcatIs
    <3> QED
      BY <2>4, <2>5, <3>2 DEF ar
  <2>7. ToSet(flat) \cap ToSet(out) = {}
    BY <1>3, <2>2
  <2>8. IsInjective(Everywhere) /\ ToSet(Everywhere) = ToSet(flat) \cup ToSet(out)
    BY <1>3, <1>4, <2>6, <2>7, ConcatIs
  <2> QED
    BY <2>3, <2>6, <2>8
<1>7. ASSUME stack # <<>> \/ outcome # None, NEW i \in Items
      PROVE  /\ Count(Everywhere, i) <= 1
             /\ i \in ToSet(planned) => Count(Everywhere, i) = 1
  BY <1>5, <1>6, <1>7, CountIs
<1>8. ASSUME NEW k \in DOMAIN stack
      PROVE  ToSet(Undecided(k)) \cap statuses = {}
  <2>1. Open(stack[k], k = 1) \cap statuses = {}
    BY DEF PlaceInv, OpenStay
  <2> QED
    BY <2>1, HereIs
<1> QED
  BY <1>7, <1>8 DEF EachItemHasOnePlace

\* Every item a run planned is in one place, whatever hooks, verifiers and agents
\* answer, if verdicts accept only what is in play and a foreach over a binding
\* comes before whatever decides on items.
THEOREM ItemsHaveOnePlace ==
    ASSUME BindsFirst, Sloppy = FALSE
    PROVE  Spec => []EachItemHasOnePlace
<1>1. Init => PlaceInv
  BY PlaceInvInit
<1>2. PlaceInv /\ [Next]_vars => PlaceInv'
  BY PlaceInvNext
<1>3. PlaceInv => EachItemHasOnePlace
  BY PlacesAreOne
<1> QED
  BY <1>1, <1>2, <1>3, PTL DEF Spec
=============================================================================
