--------------------------- MODULE EngineV1Proofs ---------------------------
(***************************************************************************)
(* The optimization cycle of the V1 engine, for any variants and loads and *)
(* any setup that SetupOK admits.                                          *)
(***************************************************************************)
EXTENDS EngineV1, FiniteTheorems

Phases == {"idle", "prepare", "collect", "analyze", "enforce", "limit", "apply"}

\* The types of the variables
TypeInv ==
  /\ setup \in Setups
  /\ \A f \in {spec, status, ready} : f \in [Variants -> Nat]
  /\ gauge \in [Variants -> Nat \cup {NoSeries}]
  /\ target \in [Variants -> Nat \cup {NoDecision}]
  /\ active \subseteq Variants
  /\ phase \in Phases

\* s is a state of variant v, as BuildVariantStates makes them.
StateOf(v, s) ==
  /\ s.status \in Nat /\ s.cur \in Nat /\ s.pending \in Nat
  /\ s.desired = 0 /\ s.min = MinReplicas[v] /\ s.max = MaxReplicas[v]

\* The snapshots of a cycle are of its active variants.
CycleInv ==
  /\ phase \in {"idle", "prepare", "collect", "analyze"} => target = Undecided
  /\ phase \in {"collect", "analyze"} =>
       DOMAIN fetched \subseteq active /\ \A v \in DOMAIN fetched : StateOf(v, fetched[v])
  /\ phase \in {"analyze", "enforce", "limit"} =>
       DOMAIN state \subseteq active /\ \A v \in DOMAIN state : StateOf(v, state[v])
  /\ phase \in {"analyze", "enforce"} =>
       Analysed(metrics) \subseteq DOMAIN state /\ Analysed(metrics) # {}
  /\ phase \in {"enforce", "limit"} => Decided \subseteq DOMAIN state /\ Decided # {}

\* s is the state that v is in now, as far as the cycle counts on it.
Fresh(v, s) ==
  /\ s.status = status[v] /\ s.cur = status[v]
  /\ s.pending = 0 => status[v] <= ready[v]

\* A variant is never asked for more than one replica above the ready ones, and
\* for none while its scale target has not followed the last decision.
PaceInv(v) ==
  /\ MinReplicas[v] <= spec[v] /\ MinReplicas[v] <= ready[v]
  /\ spec[v] <= ready[v] + 1 /\ status[v] <= ready[v] + 1
  /\ gauge[v] # NoSeries =>
       /\ Clamp(v, gauge[v]) <= ready[v] + 1
       /\ spec[v] = 0 => Clamp(v, gauge[v]) = 0
       /\ status[v] # spec[v] => Clamp(v, gauge[v]) <= spec[v]

\* In a prompt cluster the snapshots of a cycle are up to date, and so is what
\* the decisions are measured against.
PromptInv ==
  Prompt =>
    /\ \A v \in Variants : PaceInv(v)
    /\ phase # "idle" => \A v \in active : status[v] = spec[v] /\ spec[v] > 0
    /\ phase \in {"collect", "analyze"} => \A v \in DOMAIN fetched : Fresh(v, fetched[v])
    /\ phase \in {"analyze", "enforce", "limit"} => \A v \in DOMAIN state : Fresh(v, state[v])
    /\ \A v \in Variants : target[v] <= ready[v] + 1

\* Every read succeeds, and nobody starts from zero or is put to sleep.
Awake == Faults = {} /\ ~ScaleToZero /\ StartsUp

\* Where every read succeeds, a variant that started with replicas keeps some,
\* is active and reports, so that 0 is never decided for it or published.
ZeroInv ==
  Awake =>
    /\ \A v \in Variants : gauge[v] # 0 /\ target[v] # 0
    /\ \A v \in Variants : Start[v] > 0 => spec[v] > 0 /\ ready[v] > 0
    /\ phase # "idle" => \A v \in active : spec[v] > 0
    /\ phase \in {"prepare", "collect", "analyze"} =>
         \A v \in Variants : Start[v] > 0 => v \in active
    /\ phase \in {"collect", "analyze"} =>
         DOMAIN fetched = active /\ \A v \in active : fetched[v].cur > 0
    /\ phase \in {"analyze", "enforce", "limit"} => \A v \in DOMAIN state : state[v].cur > 0
    /\ phase = "analyze" => \A v \in Variants : Start[v] > 0 => v \in Analysed(metrics)

\* An orderly cluster whose variants start with replicas and keep some.
Kept == Orderly /\ ~ScaleToZero /\ \A v \in Variants : Start[v] > 0

Higher(m, n) == IF m < n THEN n ELSE m

\* The most replicas that v has or can be given before the next decision
Peak(v) ==
  Higher(spec[v], Higher(IF gauge[v] = NoSeries THEN 0 ELSE Clamp(v, gauge[v]),
                         IF target[v] = NoDecision THEN 0 ELSE Clamp(v, target[v])))
Peaks == [v \in Variants |-> Peak(v)]

\* n replicas of a role do not overshoot.
Allowed(role, n) ==
  n <= Total(Start, role) \/ \E l \in Loads : ~Enough(l, role, n - 1)

\* The variants of a role
RoleOf(role) == {v \in Variants : Role[v] = role}

\* A role scales up, once its replicas are ready, if some load needs more.
ScalesWithCause ==
  \E l \in Loads : \A role \in Roles :
    (\A v \in RoleOf(role) : state[v].pending = 0) /\ ShouldScaleUp(RoleMetrics(role))
      => ~Enough(l, role, Total(spec, role))

\* The replicas that a role has, is signalled or is about to be signalled do not
\* overshoot; a cycle decides from signals that were followed.
OverInv ==
  Kept =>
    /\ \A v \in Variants : ready[v] <= status[v]
    /\ phase \in {"prepare", "collect", "analyze"} =>
         \A v \in Variants : gauge[v] # NoSeries => Clamp(v, gauge[v]) = spec[v]
    /\ phase = "analyze" => ScalesWithCause
    /\ \A role \in Roles : Allowed(role, Total(Peaks, role))

\* Leaves go to Zenon; those with arithmetic name SMT.
USE Zenon

-----------------------------------------------------------------------------
(* The analyzer. *)

Priced(cost) == \A v \in Variants : cost[v] \in Nat

\* Somebody is the cheapest, whatever the costs.
LEMMA CheapestByIn ==
  ASSUME NEW vs \in SUBSET Variants, vs # {}, NEW cost, Priced(cost)
  PROVE  CheapestBy(cost, vs) \in vs
<1> DEFINE R == {p \in Variants \X Variants :
                   cost[p[1]] < cost[p[2]] \/ (cost[p[1]] = cost[p[2]] /\ p[1] < p[2])}
<1>1. \A v, u \in Variants : <<v, u>> \in R <=>
        cost[v] < cost[u] \/ (cost[v] = cost[u] /\ v < u)
  OBVIOUS
<1>2. \A v \in Variants : v \in Nat /\ cost[v] \in Nat
  BY ConfigAssumption DEF Priced
<1>3. \A v, u \in Variants : v # u => <<v, u>> \in R \/ <<u, v>> \in R
  BY <1>1, <1>2, SMT
<1>4. \A v, u, w \in Variants : <<v, u>> \in R /\ <<u, w>> \in R => <<v, w>> \in R
  BY <1>1, <1>2, SMT
<1>5. IsFiniteSet(vs)
  BY ConfigAssumption, FS_Subset
<1> HIDE DEF R
<1>6. \E v \in vs : \A u \in vs \ {v} : <<v, u>> \in R
  BY <1>3, <1>4, <1>5, FiniteTop
<1>7. \E v \in vs : \A u \in vs \ {v} :
        cost[v] < cost[u] \/ (cost[v] = cost[u] /\ v < u)
  BY <1>1, <1>6
<1> QED BY <1>7 DEF CheapestBy

\* The variant that is scaled up is one of those that may be.
LEMMA CheapestIn ==
  ASSUME NEW vs \in SUBSET Variants, vs # {}
  PROVE  Cheapest(vs) \in vs
<1>1. Priced(Cost)
  BY ConfigAssumption DEF Priced
<1> QED BY <1>1, CheapestByIn DEF Cheapest

\* Somebody is the most expensive.
LEMMA MostExpensiveIn ==
  ASSUME NEW vs \in SUBSET Variants, vs # {}
  PROVE  MostExpensive(vs) \in vs
<1> DEFINE R == {p \in Variants \X Variants :
                   Cost[p[1]] > Cost[p[2]] \/ (Cost[p[1]] = Cost[p[2]] /\ p[1] > p[2])}
<1>1. \A v, u \in Variants : <<v, u>> \in R <=>
        Cost[v] > Cost[u] \/ (Cost[v] = Cost[u] /\ v > u)
  OBVIOUS
<1>2. \A v \in Variants : v \in Nat /\ Cost[v] \in Nat
  BY ConfigAssumption
<1>3. \A v, u \in Variants : v # u => <<v, u>> \in R \/ <<u, v>> \in R
  BY <1>1, <1>2, SMT
<1>4. \A v, u, w \in Variants : <<v, u>> \in R /\ <<u, w>> \in R => <<v, w>> \in R
  BY <1>1, <1>2, SMT
<1>5. IsFiniteSet(vs)
  BY ConfigAssumption, FS_Subset
<1> HIDE DEF R
<1>6. \E v \in vs : \A u \in vs \ {v} : <<v, u>> \in R
  BY <1>3, <1>4, <1>5, FiniteTop
<1>7. \E v \in vs : \A u \in vs \ {v} :
        Cost[v] > Cost[u] \/ (Cost[v] = Cost[u] /\ v > u)
  BY <1>1, <1>6
<1> QED BY <1>7 DEF MostExpensive

\* What CalculateSaturationTargets makes of the state of a variant: nothing
\* new in a transition; otherwise one replica more at most, unless some are
\* pending, and one less at most, but not none.
LEMMA TargetBounds ==
  ASSUME NEW M, NEW S, Analysed(M) \subseteq Variants,
         \A v \in Analysed(M) :
           /\ S[v].cur \in Nat /\ S[v].pending \in Nat /\ S[v].desired = 0
           /\ S[v].min \in Nat /\ S[v].max \in Nat,
         NEW v \in Analysed(M)
  PROVE  LET t == CalculateSaturationTargets(M, S)[v] IN
           /\ t \in Nat
           /\ S[v].cur > 0 => t > 0
           /\ InTransition(M, S) => t = S[v].cur
           /\ t <= S[v].cur \/ t <= S[v].min \/ (S[v].pending = 0 /\ t = S[v].cur + 1)
<1> DEFINE base == [u \in Analysed(M) |-> S[u].cur]
           up == {u \in Analysed(M) : S[u].pending = 0}
           down == {u \in Analysed(M) : base[u] > 1}
           a == ScaleUpTargets(M, S, base)
           b == ScaleDownTargets(M, base)
           scaled == IF ShouldScaleUp(M) THEN a ELSE IF IsScaleDownSafe(M) THEN b ELSE base
<1>1. /\ ~InTransition(M, S) =>
           CalculateSaturationTargets(M, S)[v] = WithinBounds(S[v], scaled[v])
      /\ InTransition(M, S) => CalculateSaturationTargets(M, S)[v] = S[v].cur
  BY DEF CalculateSaturationTargets, Rescaling
<1>2. /\ a[v] = base[v] \/ (S[v].pending = 0 /\ a[v] = base[v] + 1)
  <2>1. CASE up = {}
    BY <2>1 DEF ScaleUpTargets
  <2>2. CASE up # {}
    <3>1. Cheapest(up) \in up
      BY <2>2, CheapestIn
    <3>2. a = [base EXCEPT ![Cheapest(up)] = @ + 1]
      BY <2>2 DEF ScaleUpTargets
    <3> QED BY <3>1, <3>2
  <2> QED BY <2>1, <2>2
<1>3. b[v] = base[v] \/ (base[v] > 1 /\ b[v] = base[v] - 1)
  <2>1. CASE down = {}
    BY <2>1 DEF ScaleDownTargets
  <2>2. CASE down # {}
    <3>1. MostExpensive(down) \in down
      BY <2>2, MostExpensiveIn
    <3>2. b = [base EXCEPT ![MostExpensive(down)] = @ - 1]
      BY <2>2 DEF ScaleDownTargets
    <3> QED BY <3>1, <3>2
  <2> QED BY <2>1, <2>2
<1>4. base[v] = S[v].cur /\ S[v].cur \in Nat /\ S[v].min \in Nat /\ S[v].max \in Nat
  OBVIOUS
<1>5. scaled[v] = a[v] \/ scaled[v] = b[v] \/ scaled[v] = base[v]
  OBVIOUS
<1> HIDE DEF scaled, a, b, base
<1> DEFINE t == WithinBounds(S[v], scaled[v])
<1>6. /\ scaled[v] \in Nat
      /\ S[v].cur > 0 => scaled[v] > 0
      /\ scaled[v] <= S[v].cur \/ (S[v].pending = 0 /\ scaled[v] = S[v].cur + 1)
  BY <1>2, <1>3, <1>4, <1>5, SMT
<1>7. /\ t \in Nat
      /\ S[v].cur > 0 => t > 0
      /\ t <= S[v].cur \/ t <= S[v].min \/ (S[v].pending = 0 /\ t = S[v].cur + 1)
  BY <1>4, <1>6, SMT DEF WithinBounds
<1> QED BY <1>1, <1>4, <1>7, SMT

\* The variant that gets one replica more when a role group scales up
Raised(M, S) == Cheapest({v \in Analysed(M) : S[v].pending = 0})

\* CalculateSaturationTargets raises one variant at most, and only if the
\* headroom is short and nobody is in transition.
LEMMA OneRaised ==
  ASSUME NEW M, NEW S, Analysed(M) \subseteq Variants,
         \A v \in Analysed(M) :
           /\ S[v].cur \in Nat /\ S[v].pending \in Nat /\ S[v].desired = 0
           /\ S[v].min \in Nat /\ S[v].max \in Nat,
         NEW v \in Analysed(M)
  PROVE  LET t == CalculateSaturationTargets(M, S)[v] IN
           \/ t <= S[v].cur \/ t <= S[v].min
           \/ /\ v = Raised(M, S) /\ t = S[v].cur + 1
              /\ ShouldScaleUp(M) /\ ~InTransition(M, S)
<1> DEFINE base == [u \in Analysed(M) |-> S[u].cur]
           up == {u \in Analysed(M) : S[u].pending = 0}
           a == ScaleUpTargets(M, S, base)
<1> DEFINE t == CalculateSaturationTargets(M, S)[v]
<1>1. Raised(M, S) = Cheapest(up)
  BY DEF Raised
<1>2. /\ t \in Nat /\ (InTransition(M, S) => t = S[v].cur)
      /\ t <= S[v].cur \/ t <= S[v].min \/ t = S[v].cur + 1
  BY TargetBounds, SMT
<1>3. S[v].cur \in Nat /\ S[v].min \in Nat /\ S[v].max \in Nat
  OBVIOUS
<1>4. CASE InTransition(M, S)
  BY <1>2, <1>3, <1>4, SMT
<1>5. CASE ~InTransition(M, S) /\ ShouldScaleUp(M)
  <2>1. t = WithinBounds(S[v], a[v])
    BY <1>5 DEF CalculateSaturationTargets, Rescaling
  <2>2. v # Cheapest(up) => a[v] = S[v].cur
    BY DEF ScaleUpTargets
  <2>3. v # Cheapest(up) => t <= S[v].cur \/ t <= S[v].min
    BY <1>3, <2>1, <2>2, SMT DEF WithinBounds
  <2> QED BY <1>1, <1>2, <1>5, <2>3
<1>6. CASE ~InTransition(M, S) /\ ~ShouldScaleUp(M)
  <2> DEFINE b == ScaleDownTargets(M, base)
  <2>1. t = WithinBounds(S[v], IF IsScaleDownSafe(M) THEN b[v] ELSE base[v])
    BY <1>6 DEF CalculateSaturationTargets, Rescaling
  <2>2. b[v] \in {base[v], base[v] - 1}
    BY DEF ScaleDownTargets
  <2>3. base[v] = S[v].cur
    OBVIOUS
  <2> HIDE DEF base, b, t
  <2>4. t <= S[v].cur \/ t <= S[v].min
    BY <1>3, <2>1, <2>2, <2>3, SMT DEF WithinBounds
  <2> QED BY <2>4 DEF t
<1> QED BY <1>4, <1>5, <1>6

\* The headroom of n replicas that share a load evenly is short only if the
\* load asks for more than n.
LEMMA ShortOfHeadroom ==
  ASSUME NEW M, NEW n \in Nat \ {0}, IsFiniteSet(DOMAIN M), Cardinality(DOMAIN M) = n,
         NEW kv \in Nat, NEW queue \in Nat,
         \A r \in DOMAIN M : M[r].kv = kv \div n /\ M[r].queue = queue \div n,
         ShouldScaleUp(M)
  PROVE  \/ kv > (KvCacheThreshold - KvSpareTrigger) * n
         \/ queue > (QueueLengthThreshold - QueueSpareTrigger) * n
<1> DEFINE k == kv \div n
           q == queue \div n
<1>0. /\ KvCacheThreshold \in Nat /\ QueueLengthThreshold \in Nat
      /\ KvSpareTrigger \in Nat \ {0} /\ QueueSpareTrigger \in Nat \ {0}
  BY ThresholdsAssumption
<1>1. k \in Nat /\ q \in Nat
  BY SMT
<1>2. SUFFICES k > KvCacheThreshold - KvSpareTrigger \/ q > QueueLengthThreshold - QueueSpareTrigger
  BY <1>0, ShareAbove, SMT
<1>3. \A r \in DOMAIN M : M[r].kv = k /\ M[r].queue = q
  OBVIOUS
<1> HIDE DEF k, q
<1>4. CASE k >= KvCacheThreshold \/ q >= QueueLengthThreshold
  BY <1>0, <1>1, <1>4, SMT
<1>5. CASE ~(k >= KvCacheThreshold \/ q >= QueueLengthThreshold)
  <2> DEFINE f == [r \in NonSaturated(M) |-> KvCacheThreshold - M[r].kv]
             g == [r \in NonSaturated(M) |-> QueueLengthThreshold - M[r].queue]
  <2>1. NonSaturated(M) = DOMAIN M
    BY <1>3, <1>5 DEF NonSaturated, IsSaturated
  <2>2. /\ DOMAIN f = DOMAIN M /\ \A r \in DOMAIN M : f[r] = KvCacheThreshold - k
        /\ DOMAIN g = DOMAIN M /\ \A r \in DOMAIN M : g[r] = QueueLengthThreshold - q
    BY <1>3, <2>1
  <2>3. TotalSpareKv(M) = SumFunction(f) /\ TotalSpareQueue(M) = SumFunction(g)
    BY DEF TotalSpareKv, TotalSpareQueue
  <2> HIDE DEF f, g
  <2>4. /\ TotalSpareKv(M) = SumOf(f, DOMAIN M)
        /\ TotalSpareQueue(M) = SumOf(g, DOMAIN M)
    BY <2>2, <2>3, SumOfFold DEF SumFunction
  <2>5. KvCacheThreshold - k \in Int /\ QueueLengthThreshold - q \in Int
    BY <1>0, <1>1, SMT
  <2>6. SumOf(f, DOMAIN M) = (KvCacheThreshold - k) * n
    BY <2>2, <2>5, SumConstant
  <2>7. SumOf(g, DOMAIN M) = (QueueLengthThreshold - q) * n
    BY <2>2, <2>5, SumConstant
  <2>8. \/ (KvCacheThreshold - k) * n < KvSpareTrigger * n
        \/ (QueueLengthThreshold - q) * n < QueueSpareTrigger * n
    BY <2>1, <2>4, <2>6, <2>7 DEF ShouldScaleUp
  <2>9. \A c, d \in Int : c * n < d * n => c < d
    BY SMT
  <2> QED BY <1>0, <1>1, <2>5, <2>8, <2>9, SMT
<1> QED BY <1>4, <1>5

-----------------------------------------------------------------------------
(* The snapshots of a cycle. *)

\* What SetupOK says of the setup of this behaviour
LEMMA SetupFacts ==
  ASSUME setup \in Setups, NEW v \in Variants
  PROVE  /\ MinReplicas[v] \in Nat /\ MaxReplicas[v] \in Nat /\ Start[v] \in Nat
         /\ Start \in [Variants -> Nat]
         /\ PodLimit \in Nat /\ PodLimit > 0
         /\ MinReplicas[v] <= Start[v]
         /\ MinReplicas[v] <= (IF MaxReplicas[v] > 0 THEN MaxReplicas[v] ELSE PodLimit)
BY ConfigAssumption, SMT DEF SetupOK, MinReplicas, MaxReplicas, Start, PodLimit

\* Over takes its first argument where that is defined.
LEMMA OverFacts ==
  ASSUME NEW f, NEW g
  PROVE  /\ DOMAIN Over(f, g) = DOMAIN f \cup DOMAIN g
         /\ \A x \in DOMAIN f : Over(f, g)[x] = f[x]
         /\ \A x \in DOMAIN g \ DOMAIN f : Over(f, g)[x] = g[x]
BY DEF Over

\* A scaler stays within its bounds, and changes nothing else.
LEMMA ClampFacts ==
  ASSUME setup \in Setups, NEW v \in Variants, NEW n \in Nat
  PROVE  /\ Clamp(v, n) \in Nat /\ MinReplicas[v] <= Clamp(v, n)
         /\ Clamp(v, n) <= n \/ Clamp(v, n) = MinReplicas[v]
         /\ n > 0 => Clamp(v, n) > 0
BY SetupFacts, SMT DEF Clamp

\* What the engine reads of a scale target is a state of it.
LEMMA VariantStateFacts ==
  ASSUME TypeInv, NEW v \in Variants
  PROVE  /\ StateOf(v, VariantState(v))
         /\ VariantState(v).status = status[v]
         /\ VariantState(v).cur = IF status[v] = 0 THEN spec[v] ELSE status[v]
         /\ VariantState(v).pending = 0 => VariantState(v).cur <= ready[v]
<1>1. spec[v] \in Nat /\ status[v] \in Nat /\ ready[v] \in Nat
  BY DEF TypeInv
<1> QED BY <1>1, SMT DEF VariantState, StateOf

\* The variants that report in a role are those of the role that report.
LEMMA RoleAnalysed ==
  ASSUME NEW r
  PROVE  Analysed(RoleMetrics(r)) = {v \in Analysed(metrics) : Role[v] = r}
BY DEF Analysed, RoleMetrics

\* The decisions of analyzeRoleGroups
LEMMA AnalyzeTargets ==
  ASSUME TypeInv, CycleInv, AnalyzeRoleGroups
  PROVE  /\ target' \in [Variants -> Nat \cup {NoDecision}]
         /\ Decided' = Analysed(metrics) /\ Analysed(metrics) \subseteq DOMAIN state
         /\ \A v \in Analysed(metrics) :
              /\ target'[v] \in Nat
              /\ state[v].cur > 0 => target'[v] > 0
              /\ \A u \in Analysed(metrics) :
                   state[u].pending > 0 /\ Role[u] = Role[v] => target'[v] = state[v].cur
              /\ \/ target'[v] <= state[v].cur
                 \/ target'[v] <= state[v].min
                 \/ state[v].pending = 0 /\ target'[v] = state[v].cur + 1
<1>1. /\ Analysed(metrics) \subseteq DOMAIN state /\ DOMAIN state \subseteq Variants
      /\ \A u \in DOMAIN state : StateOf(u, state[u])
  BY DEF AnalyzeRoleGroups, CycleInv, TypeInv
<1>2. \A u \in DOMAIN state :
        /\ state[u].cur \in Nat /\ state[u].pending \in Nat /\ state[u].desired = 0
        /\ state[u].min \in Nat /\ state[u].max \in Nat
  BY <1>1, SetupFacts DEF StateOf, TypeInv
<1>3. ASSUME NEW v \in Analysed(metrics)
      PROVE  /\ target'[v] \in Nat
             /\ state[v].cur > 0 => target'[v] > 0
             /\ \A u \in Analysed(metrics) :
                  state[u].pending > 0 /\ Role[u] = Role[v] => target'[v] = state[v].cur
             /\ \/ target'[v] <= state[v].cur
                \/ target'[v] <= state[v].min
                \/ state[v].pending = 0 /\ target'[v] = state[v].cur + 1
  <2> DEFINE M == RoleMetrics(Role[v])
             t == CalculateSaturationTargets(M, state)[v]
  <2>1. Analysed(M) = {u \in Analysed(metrics) : Role[u] = Role[v]}
    BY RoleAnalysed
  <2>2. target'[v] = t
    BY <1>1, <1>3 DEF AnalyzeRoleGroups, RoleTargets
  <2> HIDE DEF M
  <2>3. /\ t \in Nat
        /\ state[v].cur > 0 => t > 0
        /\ InTransition(M, state) => t = state[v].cur
        /\ t <= state[v].cur \/ t <= state[v].min \/ (state[v].pending = 0 /\ t = state[v].cur + 1)
    <3>1. Analysed(M) \subseteq Variants /\ v \in Analysed(M)
      BY <1>1, <2>1
    <3>2. \A u \in Analysed(M) :
            /\ state[u].cur \in Nat /\ state[u].pending \in Nat /\ state[u].desired = 0
            /\ state[u].min \in Nat /\ state[u].max \in Nat
      BY <1>1, <1>2, <2>1
    <3> QED BY <3>1, <3>2, TargetBounds, SMT
  <2>4. \A u \in Analysed(metrics) :
          state[u].pending > 0 /\ Role[u] = Role[v] => InTransition(M, state)
    BY <2>1 DEF InTransition
  <2> QED BY <2>2, <2>3, <2>4
<1>4. target' \in [Variants -> Nat \cup {NoDecision}]
  <2>1. target' = [v \in Variants |-> IF v \in Analysed(metrics) THEN target'[v] ELSE NoDecision]
    BY <1>1 DEF AnalyzeRoleGroups
  <2> QED BY <1>3, <2>1
<1>5. Decided' = Analysed(metrics)
  <2>1. \A v \in Variants \ Analysed(metrics) : target'[v] = NoDecision
    BY DEF AnalyzeRoleGroups
  <2>2. \A v \in Analysed(metrics) : target'[v] # NoDecision
    BY <1>3, SMT DEF NoDecision
  <2> QED BY <1>1, <2>1, <2>2, SMT DEF Decided
<1> QED BY <1>1, <1>3, <1>4, <1>5

\* The metrics are of the variants that report, and the states of these are
\* the ones prepareModelData fetched.
LEMMA CollectMetricsFacts ==
  ASSUME TypeInv, CycleInv, CollectMetrics
  PROVE  \E again \in SUBSET active :
           /\ Analysed(metrics)' \in Readable(Reporting, "gaps") \ {{}}
           /\ again \in Readable(active \ DOMAIN fetched, "fetch")
           /\ (DOMAIN state)' = DOMAIN fetched \cup again
           /\ \A v \in DOMAIN fetched : state'[v] = fetched[v]
           /\ \A v \in again \ DOMAIN fetched : state'[v] = VariantState(v)
<1>1. PICK again \in Readable(active \ DOMAIN fetched, "fetch"),
           reporting \in Readable(Reporting, "gaps") \ {{}} :
        /\ state' = Over(fetched, [v \in again |-> VariantState(v)])
        /\ metrics' = [r \in UNION {{v} \X (1..ready[v]) : v \in reporting} |-> Metric(r[1])]
  BY DEF CollectMetrics
<1>2. again \in SUBSET active
  BY <1>1 DEF Readable
<1>3. reporting \subseteq Reporting
  BY <1>1 DEF Readable
<1>4. \A v \in reporting : ready[v] \in Nat /\ ready[v] > 0
  BY <1>3 DEF Reporting, TypeInv, CycleInv, CollectMetrics
<1> DEFINE D == UNION {{v} \X (1..ready[v]) : v \in reporting}
<1>5. \A r \in D : r[1] \in reporting
  BY SMT
<1>6. \A v \in reporting : <<v, 1>> \in D
  BY <1>4, SMT
<1>7. metrics' = [r \in D |-> Metric(r[1])]
  BY <1>1
<1>8. \A r \in D : metrics'[r].variant = r[1]
  BY <1>7 DEF Metric
<1>9. Analysed(metrics)' = {metrics'[r].variant : r \in D}
  BY <1>7 DEF Analysed
<1> HIDE DEF D
<1>10. Analysed(metrics)' = reporting
  <2>1. \A v \in reporting : v \in Analysed(metrics)'
    <3>1. SUFFICES ASSUME NEW v \in reporting PROVE v \in Analysed(metrics)'
      OBVIOUS
    <3>2. <<v, 1>> \in D /\ metrics'[<<v, 1>>].variant = v
      BY <1>6, <1>8
    <3> QED BY <3>2, <1>9
  <2>2. \A v \in Analysed(metrics)' : v \in reporting
    BY <1>5, <1>8, <1>9
  <2> QED BY <2>1, <2>2
<1>11. /\ (DOMAIN state)' = DOMAIN fetched \cup again
       /\ \A v \in DOMAIN fetched : state'[v] = fetched[v]
       /\ \A v \in again \ DOMAIN fetched : state'[v] = VariantState(v)
  <2> DEFINE g == [v \in again |-> VariantState(v)]
  <2>1. state' = Over(fetched, g) /\ DOMAIN g = again /\ \A v \in again : g[v] = VariantState(v)
    BY <1>1
  <2> HIDE DEF g
  <2>2. /\ DOMAIN Over(fetched, g) = DOMAIN fetched \cup again
        /\ \A v \in DOMAIN fetched : Over(fetched, g)[v] = fetched[v]
        /\ \A v \in again \ DOMAIN fetched : Over(fetched, g)[v] = VariantState(v)
    BY <2>1 DEF Over
  <2> QED BY <2>1, <2>2
<1> QED BY <1>1, <1>2, <1>10, <1>11

\* ensureMinimumReplicasOnDecisions decides for the same variants, and gives
\* one replica to one of them at most.
LEMMA AtLeastOneFacts ==
  ASSUME TypeInv, Decided # {}
  PROVE  /\ AtLeastOne \in [Variants -> Nat \cup {NoDecision}]
         /\ \A v \in Variants : AtLeastOne[v] = NoDecision <=> target[v] = NoDecision
         /\ \A v \in Variants : AtLeastOne[v] = target[v] \/ AtLeastOne[v] = 1
<1>1. target \in [Variants -> Nat \cup {NoDecision}]
  BY DEF TypeInv
<1> DEFINE cost == [v \in Variants |-> IF Cost[v] <= 0 THEN DefaultVariantCost ELSE Cost[v]]
<1>2. Decided \subseteq Variants
  BY DEF Decided
<1>3. Priced(cost)
  BY ConfigAssumption, SMT DEF DefaultVariantCost, Priced
<1> HIDE DEF cost
<1>4. CheapestBy(cost, Decided) \in Decided
  BY <1>2, <1>3, CheapestByIn
<1>5. AtLeastOne = IF \E v \in Decided : target[v] > 0 THEN target
                   ELSE [target EXCEPT ![CheapestBy(cost, Decided)] = 1]
  BY DEF AtLeastOne, cost
<1> QED BY <1>1, <1>2, <1>4, <1>5, SMT DEF Decided, NoDecision

\* No cycle is running at first.
LEMMA InitBase == Init => TypeInv /\ CycleInv
<1> SUFFICES ASSUME Init PROVE TypeInv /\ CycleInv
  OBVIOUS
<1>1. setup \in Setups /\ phase = "idle" /\ active = {} /\ target = Undecided
  BY DEF Init
<1>2. Start \in [Variants -> Nat]
  BY <1>1, ConfigAssumption DEF SetupOK, Start
<1>3. spec = Start /\ status = Start /\ ready = Start /\ gauge = [v \in Variants |-> NoSeries]
  BY DEF Init
<1>4. target \in [Variants -> Nat \cup {NoDecision}] /\ gauge \in [Variants -> Nat \cup {NoSeries}]
  BY <1>1, <1>3 DEF Undecided
<1> QED BY <1>1, <1>2, <1>3, <1>4 DEF TypeInv, CycleInv, Phases

\* One step per action; the cluster leaves a cycle's snapshots alone.
LEMMA NextBase == TypeInv /\ CycleInv /\ [Next]_vars => (TypeInv /\ CycleInv)'
<1> SUFFICES ASSUME TypeInv, CycleInv, [Next]_vars PROVE (TypeInv /\ CycleInv)'
  OBVIOUS
<1> DEFINE seen == <<setup, phase, active, fetched, state, metrics, target>>
<1>0. ASSUME UNCHANGED seen PROVE CycleInv'
  BY <1>0, SMT DEF CycleInv, Decided, Undecided, StateOf, MinReplicas, MaxReplicas, Analysed
<1>t. /\ setup \in Setups /\ phase \in Phases /\ active \subseteq Variants
      /\ spec \in [Variants -> Nat] /\ status \in [Variants -> Nat] /\ ready \in [Variants -> Nat]
      /\ gauge \in [Variants -> Nat \cup {NoSeries}]
      /\ target \in [Variants -> Nat \cup {NoDecision}]
  BY DEF TypeInv
<1>w. ASSUME UNCHANGED <<setup, spec, status, ready>>, phase' \in Phases, active' \subseteq Variants,
             gauge' \in [Variants -> Nat \cup {NoSeries}],
             target' \in [Variants -> Nat \cup {NoDecision}]
      PROVE  TypeInv'
  BY <1>t, <1>w DEF TypeInv
<1>1. CASE Collect
  <2>1. active' \subseteq Variants
    BY <1>1 DEF Collect, Readable
  <2>2. phase = "idle" /\ phase' = "prepare" /\ UNCHANGED <<setup, target, gauge, spec, status, ready>>
    BY <1>1 DEF Collect, world
  <2> QED BY <1>t, <1>w, <2>1, <2>2 DEF CycleInv, Phases, Undecided
<1>2. CASE SkipModel
  BY <1>2, <1>t, <1>w DEF SkipModel, CycleInv, Phases, world
<1>3. CASE FetchScaleTargets
  <2>1. PICK got \in Readable(active, "fetch") : fetched' = [v \in got |-> VariantState(v)]
    BY <1>3 DEF FetchScaleTargets
  <2>2. got \subseteq active
    BY <2>1 DEF Readable
  <2>3. /\ phase = "prepare" /\ phase' = "collect"
        /\ UNCHANGED <<setup, target, gauge, active, spec, status, ready>>
    BY <1>3 DEF FetchScaleTargets, world
  <2>4. \A v \in got : StateOf(v, fetched'[v])
    BY <1>t, <2>1, <2>2, VariantStateFacts
  <2>5. \A v \in got : StateOf(v, fetched[v])'
    BY <2>3, <2>4 DEF StateOf, MinReplicas, MaxReplicas
  <2> QED BY <1>t, <1>w, <2>1, <2>2, <2>3, <2>5 DEF CycleInv, Phases, Undecided
<1>4. CASE PrepareFails
  <2>1. /\ phase' = "apply" /\ gauge' = Over(SafetyNet(active, Nothing), gauge)
        /\ UNCHANGED <<setup, target, active, spec, status, ready>>
    BY <1>4 DEF PrepareFails, world
  <2>2. gauge' \in [Variants -> Nat \cup {NoSeries}]
    <3>1. gauge' = [v \in Variants |-> IF v \in active THEN SafetyNet(active, Nothing)[v] ELSE gauge[v]]
      BY <1>t, <2>1 DEF Over, SafetyNet
    <3>2. \A v \in active : SafetyNet(active, Nothing)[v] = 0
      BY SMT DEF SafetyNet, Nothing
    <3> QED BY <1>t, <3>1, <3>2, SMT
  <2> QED BY <1>t, <1>w, <2>1, <2>2 DEF CycleInv, Phases
<1>5. CASE CollectMetrics
  <2>1. /\ phase = "collect" /\ phase' = "analyze"
        /\ UNCHANGED <<setup, target, gauge, active, fetched, spec, status, ready>>
    BY <1>5 DEF CollectMetrics, world
  <2>2. PICK again \in SUBSET active :
           /\ Analysed(metrics)' \in Readable(Reporting, "gaps") \ {{}}
           /\ again \in Readable(active \ DOMAIN fetched, "fetch")
           /\ (DOMAIN state)' = DOMAIN fetched \cup again
           /\ \A v \in DOMAIN fetched : state'[v] = fetched[v]
           /\ \A v \in again \ DOMAIN fetched : state'[v] = VariantState(v)
    BY <1>5, CollectMetricsFacts
  <2>3. Analysed(metrics)' \subseteq DOMAIN fetched /\ Analysed(metrics)' # {}
    BY <2>2 DEF Readable, Reporting
  <2>4. DOMAIN fetched \subseteq active /\ \A v \in DOMAIN fetched : StateOf(v, fetched[v])
    BY <2>1 DEF CycleInv
  <2>5. \A v \in (DOMAIN state)' : StateOf(v, state'[v])
    BY <1>t, <2>2, <2>4, VariantStateFacts
  <2>6. /\ \A v \in (DOMAIN state)' : StateOf(v, state[v])'
        /\ \A v \in (DOMAIN fetched)' : StateOf(v, fetched[v])'
    BY <2>1, <2>4, <2>5 DEF StateOf, MinReplicas, MaxReplicas
  <2> QED BY <1>t, <1>w, <2>1, <2>2, <2>3, <2>4, <2>6 DEF CycleInv, Phases, Undecided
<1>6. CASE AnalyzeRoleGroups
  <2>1. /\ phase = "analyze" /\ phase' = "enforce" /\ gauge' = Over(SafetyNet(Dark, fetched), gauge)
        /\ UNCHANGED <<setup, active, fetched, state, metrics, spec, status, ready>>
    BY <1>6 DEF AnalyzeRoleGroups, world
  <2>2. /\ target' \in [Variants -> Nat \cup {NoDecision}]
        /\ Decided' = Analysed(metrics) /\ Analysed(metrics) \subseteq DOMAIN state
    BY <1>6, AnalyzeTargets
  <2>3. /\ DOMAIN state \subseteq active /\ Analysed(metrics) # {}
        /\ \A v \in DOMAIN state : StateOf(v, state[v])
        /\ \A v \in DOMAIN fetched : StateOf(v, fetched[v])
    BY <2>1 DEF CycleInv
  <2>4. gauge' \in [Variants -> Nat \cup {NoSeries}]
    <3>1. Dark \subseteq Variants
      BY <1>t, <2>3 DEF Dark, InRole
    <3>2. gauge' = [v \in Variants |-> IF v \in Dark THEN SafetyNet(Dark, fetched)[v] ELSE gauge[v]]
      BY <1>t, <2>1, <3>1 DEF Over, SafetyNet
    <3>3. \A v \in Dark : SafetyNet(Dark, fetched)[v] \in Nat
      BY <2>3 DEF SafetyNet, StateOf
    <3> QED BY <1>t, <3>2, <3>3
  <2>5. \A v \in DOMAIN state : StateOf(v, state[v])'
    BY <2>1, <2>3 DEF StateOf, MinReplicas, MaxReplicas
  <2>6. Analysed(metrics)' = Analysed(metrics)
    BY <2>1 DEF Analysed
  <2> QED BY <1>t, <1>w, <2>1, <2>2, <2>3, <2>4, <2>5, <2>6 DEF CycleInv, Phases
<1>7. CASE EnforceZero
  <2>1. /\ phase = "enforce" /\ phase' = "limit" /\ target' = ToZero
        /\ UNCHANGED <<setup, gauge, active, state, spec, status, ready>>
    BY <1>7 DEF EnforceZero, world
  <2>2. target' \in [Variants -> Nat \cup {NoDecision}] /\ Decided' = Decided
    BY <2>1, SMT DEF ToZero, Decided, NoDecision
  <2>3. (\A v \in DOMAIN state : StateOf(v, state[v]))'
    BY <2>1 DEF CycleInv, StateOf, MinReplicas, MaxReplicas
  <2> QED BY <1>t, <1>w, <2>1, <2>2, <2>3 DEF CycleInv, Phases
<1>8. CASE Enforce
  <2>1. /\ phase = "enforce" /\ phase' = "limit" /\ target' \in {AtLeastOne, target}
        /\ UNCHANGED <<setup, gauge, active, state, spec, status, ready>>
    BY <1>8 DEF Enforce, world
  <2>2. Decided # {}
    BY <2>1 DEF CycleInv
  <2>3. target' \in [Variants -> Nat \cup {NoDecision}] /\ Decided' = Decided
    BY <1>t, <2>1, <2>2, AtLeastOneFacts DEF Decided
  <2>4. (\A v \in DOMAIN state : StateOf(v, state[v]))'
    BY <2>1 DEF CycleInv, StateOf, MinReplicas, MaxReplicas
  <2> QED BY <1>t, <1>w, <2>1, <2>3, <2>4 DEF CycleInv, Phases
<1>9. CASE Limit
  <2>1. phase' = "apply" /\ UNCHANGED <<setup, gauge, active, spec, status, ready>>
    BY <1>9 DEF Limit, world
  <2>2. target' \in [Variants -> Nat \cup {NoDecision}]
    <3>1. CASE ~Limiter
      BY <1>9, <1>t, <3>1 DEF Limit
    <3>2. CASE Limiter
      <4>1. PICK t \in [Decided -> Counts] : target' = Over(t, target)
        BY <1>9, <3>2 DEF Limit
      <4>2. \A v \in Decided : t[v] \in Nat
        BY <4>1, SMT DEF Counts
      <4>3. target' = [v \in Variants |-> IF v \in Decided THEN t[v] ELSE target[v]]
        BY <1>t, <4>1 DEF Over, Decided
      <4> QED BY <1>t, <4>2, <4>3
    <3> QED BY <3>1, <3>2
  <2> QED BY <1>t, <1>w, <2>1, <2>2 DEF CycleInv, Phases
<1>10. ASSUME NEW v \in Variants, NEW n \in Nat, phase = "apply", Publish(v, n)
       PROVE  (TypeInv /\ CycleInv)'
  <2>1. gauge' \in [Variants -> Nat \cup {NoSeries}] /\ active' \subseteq Variants
    BY <1>t, <1>10 DEF Publish
  <2>2. \/ phase' = "idle" /\ target' = Undecided
        \/ phase' = "apply" /\ target' = target
    BY <1>10 DEF Publish
  <2>3. UNCHANGED <<setup, spec, status, ready>>
    BY <1>10 DEF Publish, world
  <2>4. target' \in [Variants -> Nat \cup {NoDecision}]
    BY <1>t, <2>2 DEF Undecided
  <2> QED BY <1>w, <2>1, <2>2, <2>3, <2>4 DEF CycleInv, Phases, Undecided
<1>11. ASSUME NEW v \in Variants, Apply(v) PROVE (TypeInv /\ CycleInv)'
  <2>1. (IF target[v] # NoDecision THEN target[v] ELSE spec[v]) \in Nat
    BY <1>t
  <2> QED BY <1>10, <1>11, <2>1 DEF Apply
<1>12. ASSUME NEW v \in Variants, ApplyUnread(v) PROVE (TypeInv /\ CycleInv)'
  BY <1>10, <1>12 DEF ApplyUnread
<1>13. ASSUME NEW v \in Variants, ScalerSync(v) PROVE (TypeInv /\ CycleInv)'
  <2>1. UNCHANGED <<setup, status, ready, gauge, cycle>> /\ gauge[v] \in Nat
    BY <1>13, <1>t DEF ScalerSync
  <2>2. spec' \in [Variants -> Nat]
    BY <1>13, <1>t, <2>1, ClampFacts DEF ScalerSync
  <2> QED BY <1>0, <2>1, <2>2 DEF cycle, TypeInv
<1>14. ASSUME NEW v \in Variants, PodsSettle(v) PROVE (TypeInv /\ CycleInv)'
  <2>1. UNCHANGED <<setup, spec, gauge, cycle>>
    BY <1>14 DEF PodsSettle
  <2>2. status' \in [Variants -> Nat] /\ ready' \in [Variants -> Nat]
    BY <1>14, <1>t DEF PodsSettle
  <2> QED BY <1>0, <2>1, <2>2 DEF cycle, TypeInv
<1>15. ASSUME NEW v \in Variants, PodReady(v) PROVE (TypeInv /\ CycleInv)'
  <2>1. UNCHANGED <<setup, spec, status, gauge, cycle>>
    BY <1>15 DEF PodReady
  <2>2. ready' \in [Variants -> Nat]
    BY <1>15, <1>t, SMT DEF PodReady
  <2> QED BY <1>0, <2>1, <2>2 DEF cycle, TypeInv
<1>16. ASSUME NEW v \in Variants, Wake(v) PROVE (TypeInv /\ CycleInv)'
  <2>1. UNCHANGED <<setup, status, ready, gauge, cycle>>
    BY <1>16 DEF Wake
  <2>2. spec' \in [Variants -> Nat]
    BY <1>16, <1>t DEF Wake
  <2> QED BY <1>0, <2>1, <2>2 DEF cycle, TypeInv
<1>17. CASE LoadChange
  BY <1>0, <1>17 DEF LoadChange, cycle, TypeInv
<1>18. CASE UNCHANGED vars
  BY <1>0, <1>18 DEF vars, TypeInv
<1> QED BY <1>1, <1>2, <1>3, <1>4, <1>5, <1>6, <1>7, <1>8, <1>9, <1>11, <1>12, <1>13, <1>14,
           <1>15, <1>16, <1>17, <1>18 DEF Next

\* Theorem about the cycle of the V1 engine: its state is well typed, and the
\* snapshots and decisions of a cycle are of its active variants only.
THEOREM SpecBase == Spec => [](TypeInv /\ CycleInv)
<1> QED BY InitBase, NextBase, PTL DEF Spec

-----------------------------------------------------------------------------
(* The pace of scale-ups. *)

\* A limiter does not raise a decision, but for the minimum, nor take the
\* last replica.
LEMMA LimitedFacts ==
  ASSUME TypeInv, NEW v \in Decided, StateOf(v, state[v]), NEW x \in LimitedTargets(v)
  PROVE  /\ x <= target[v] \/ x <= MinReplicas[v]
         /\ target[v] > 0 /\ state[v].cur > 0 => x > 0
<1>1. v \in Variants /\ target[v] \in Nat
  BY DEF Decided, TypeInv
<1>2. /\ state[v].cur \in Nat /\ state[v].min \in Nat /\ state[v].max \in Nat
      /\ state[v].min = MinReplicas[v]
  BY <1>1, SetupFacts DEF StateOf, TypeInv
<1> DEFINE s == state[v]
           ceiling == IF s.max > 0 /\ target[v] > s.max THEN s.max ELSE target[v]
<1>3. /\ ceiling \in Nat /\ ceiling <= target[v]
      /\ target[v] > 0 => ceiling > 0
  BY <1>1, <1>2, SMT
<1>4. \/ x = target[v]
      \/ x = ceiling
      \/ \E n \in s.cur..ceiling : x = IF n < s.min THEN s.min ELSE n
  BY DEF LimitedTargets
<1> HIDE DEF ceiling
<1>5. CASE \E n \in s.cur..ceiling : x = IF n < s.min THEN s.min ELSE n
  <2>1. PICK n \in s.cur..ceiling : x = IF n < s.min THEN s.min ELSE n
    BY <1>5
  <2>2. n \in Int /\ s.cur <= n /\ n <= ceiling
    BY <1>2, <1>3, <2>1, SMT
  <2> QED BY <1>1, <1>2, <1>3, <2>1, <2>2, SMT
<1> QED BY <1>1, <1>2, <1>3, <1>4, <1>5, SMT

\* Nothing changes the setup.
LEMMA SetupFixed == [Next]_vars => setup' = setup
BY DEF Next, vars, world, Collect, SkipModel, FetchScaleTargets, PrepareFails, CollectMetrics,
   AnalyzeRoleGroups, EnforceZero, Enforce, Limit, Apply, ApplyUnread, Publish, ScalerSync,
   PodsSettle, PodReady, Wake, LoadChange

\* The replicas are all ready and within their bounds at first.
LEMMA InitPrompt == Init => PromptInv
<1> SUFFICES ASSUME Init PROVE PromptInv
  OBVIOUS
<1>1. setup \in Setups /\ phase = "idle" /\ target = Undecided
  BY DEF Init
<1>2. spec = Start /\ status = Start /\ ready = Start /\ gauge = [v \in Variants |-> NoSeries]
  BY DEF Init
<1>3. \A v \in Variants : PaceInv(v)
  BY <1>1, <1>2, SetupFacts, SMT DEF PaceInv
<1>4. \A v \in Variants : target[v] <= ready[v] + 1
  BY <1>1, <1>2, SetupFacts, SMT DEF Undecided, NoDecision
<1> QED BY <1>1, <1>3, <1>4 DEF PromptInv

\* A step of the engine, of the scaler or of the cluster keeps the pace.
LEMMA NextPrompt == TypeInv /\ CycleInv /\ PromptInv /\ [Next]_vars => PromptInv'
<1> SUFFICES ASSUME TypeInv, CycleInv, PromptInv, [Next]_vars, Prompt' PROVE PromptInv'
  BY DEF PromptInv
<1>t. /\ setup \in Setups /\ active \subseteq Variants
      /\ spec \in [Variants -> Nat] /\ status \in [Variants -> Nat] /\ ready \in [Variants -> Nat]
      /\ gauge \in [Variants -> Nat \cup {NoSeries}]
      /\ target \in [Variants -> Nat \cup {NoDecision}]
  BY DEF TypeInv
<1>s. setup' = setup /\ Prompt
  BY SetupFixed DEF Prompt
<1>c. /\ MinReplicas' = MinReplicas
      /\ \A v \in Variants : Clamp(v, gauge[v])' = Clamp(v, gauge'[v])
  BY <1>s DEF Clamp, MinReplicas, MaxReplicas, PodLimit
<1>p. /\ \A v \in Variants : PaceInv(v)
      /\ phase # "idle" => \A v \in active : status[v] = spec[v] /\ spec[v] > 0
      /\ phase \in {"collect", "analyze"} => \A v \in DOMAIN fetched : Fresh(v, fetched[v])
      /\ phase \in {"analyze", "enforce", "limit"} => \A v \in DOMAIN state : Fresh(v, state[v])
      /\ \A v \in Variants : target[v] <= ready[v] + 1
  BY <1>s DEF PromptInv
<1>k. ASSUME UNCHANGED <<spec, status, ready>>, NEW v \in Variants, gauge'[v] = gauge[v]
      PROVE  PaceInv(v)'
  BY <1>k, <1>c, <1>p DEF PaceInv
<1>g. ASSUME UNCHANGED <<spec, status, ready>>, NEW v \in active, phase # "idle",
             gauge'[v] \in Nat, gauge'[v] <= ready[v] + 1
      PROVE  PaceInv(v)'
  <2>1. v \in Variants /\ status[v] = spec[v] /\ spec[v] > 0 /\ PaceInv(v) /\ ready[v] \in Nat
    BY <1>g, <1>p, <1>t
  <2>2. MinReplicas[v] \in Nat /\ MinReplicas[v] <= ready[v]
    BY <1>t, <2>1, SetupFacts DEF PaceInv
  <2>3. Clamp(v, gauge'[v]) <= ready[v] + 1
    <3>1. /\ Clamp(v, gauge'[v]) \in Nat
          /\ Clamp(v, gauge'[v]) <= gauge'[v] \/ Clamp(v, gauge'[v]) = MinReplicas[v]
      BY <1>g, <1>t, <2>1, ClampFacts
    <3> QED BY <1>g, <2>1, <2>2, <3>1, SMT
  <2> QED BY <1>g, <1>c, <2>1, <2>3, SMT DEF PaceInv
<1>n. \A v \in Variants : NoDecision <= ready[v] + 1 /\ 0 <= ready[v] + 1 /\ 1 <= ready[v] + 1
  BY <1>t, SMT DEF NoDecision
<1>1. CASE Collect
  <2>1. /\ phase' = "prepare" /\ UNCHANGED <<gauge, spec, status, ready, target>>
        /\ \A v \in Variants : Settled(v)
    BY <1>1, <1>s DEF Collect, world
  <2>2. \A v \in active' : v \in Variants /\ spec[v] > 0
    BY <1>1 DEF Collect, Readable
  <2>3. \A v \in active' : status[v] = spec[v] /\ spec[v] > 0
    BY <2>1, <2>2 DEF Settled
  <2> QED BY <1>k, <1>p, <2>1, <2>3 DEF PromptInv
<1>2. CASE SkipModel
  <2>1. phase = "prepare" /\ phase' = "apply" /\ UNCHANGED <<gauge, spec, status, ready, target, active>>
    BY <1>2 DEF SkipModel, world
  <2> QED BY <1>k, <1>p, <2>1 DEF PromptInv
<1>f. ASSUME NEW v \in active, phase # "idle" PROVE Fresh(v, VariantState(v))
  <2>1. v \in Variants /\ status[v] = spec[v] /\ spec[v] > 0 /\ status[v] \in Nat /\ ready[v] \in Nat
    BY <1>f, <1>p, <1>t
  <2> QED BY <2>1, VariantStateFacts DEF Fresh
<1>3. CASE FetchScaleTargets
  <2>1. phase = "prepare" /\ phase' = "collect" /\ UNCHANGED <<gauge, spec, status, ready, target, active>>
    BY <1>3 DEF FetchScaleTargets, world
  <2>2. PICK got \in Readable(active, "fetch") : fetched' = [v \in got |-> VariantState(v)]
    BY <1>3 DEF FetchScaleTargets
  <2>3. got \subseteq active
    BY <2>2 DEF Readable
  <2>4. \A v \in (DOMAIN fetched)' : Fresh(v, fetched'[v])
    BY <1>f, <2>1, <2>2, <2>3
  <2>5. \A v \in (DOMAIN fetched)' : Fresh(v, fetched[v])'
    BY <2>1, <2>4 DEF Fresh
  <2> QED BY <1>k, <1>p, <2>1, <2>5 DEF PromptInv
<1>4. CASE PrepareFails
  <2>1. /\ phase = "collect" /\ phase' = "apply" /\ UNCHANGED <<spec, status, ready, target, active>>
        /\ gauge' = Over(SafetyNet(active, Nothing), gauge)
    BY <1>4 DEF PrepareFails, world
  <2>2. /\ \A v \in active : gauge'[v] = 0
        /\ \A v \in Variants \ active : gauge'[v] = gauge[v]
    BY <1>t, <2>1, SMT DEF Over, SafetyNet, Nothing
  <2>3. \A v \in Variants : PaceInv(v)'
    BY <1>k, <1>g, <1>n, <1>t, <2>1, <2>2, SMT
  <2> QED BY <1>p, <2>1, <2>3 DEF PromptInv
<1>5. CASE CollectMetrics
  <2>1. /\ phase = "collect" /\ phase' = "analyze"
        /\ UNCHANGED <<gauge, spec, status, ready, target, active, fetched>>
    BY <1>5 DEF CollectMetrics, world
  <2>2. PICK again \in SUBSET active :
           /\ (DOMAIN state)' = DOMAIN fetched \cup again
           /\ \A v \in DOMAIN fetched : state'[v] = fetched[v]
           /\ \A v \in again \ DOMAIN fetched : state'[v] = VariantState(v)
    BY <1>5, CollectMetricsFacts
  <2>3. \A v \in (DOMAIN state)' : Fresh(v, state'[v])
    BY <1>f, <1>p, <2>1, <2>2
  <2>4. (\A v \in DOMAIN state : Fresh(v, state[v]))' /\ (\A v \in DOMAIN fetched : Fresh(v, fetched[v]))'
    BY <1>p, <2>1, <2>3 DEF Fresh
  <2> QED BY <1>k, <1>p, <2>1, <2>4 DEF PromptInv
<1>m. \A v \in Variants : MinReplicas[v] \in Nat /\ MinReplicas[v] <= ready[v] /\ ready[v] \in Nat
  BY <1>t, <1>p, SetupFacts DEF PaceInv
<1>6. CASE AnalyzeRoleGroups
  <2>1. /\ phase = "analyze" /\ phase' = "enforce"
        /\ UNCHANGED <<active, fetched, state, spec, status, ready>>
        /\ gauge' = Over(SafetyNet(Dark, fetched), gauge)
        /\ \A v \in Variants \ Analysed(metrics) : target'[v] = NoDecision
    BY <1>6 DEF AnalyzeRoleGroups, world
  <2>2. /\ DOMAIN state \subseteq active /\ Dark \subseteq DOMAIN state
        /\ \A v \in DOMAIN state : state[v].min = MinReplicas[v]
    BY <2>1 DEF CycleInv, StateOf, Dark, InRole
  <2>3. \A v \in Dark : gauge'[v] \in {status[v], 0}
    BY <1>p, <2>1 DEF Over, SafetyNet, Fresh
  <2>4. \A v \in Variants \ Dark : gauge'[v] = gauge[v]
    BY <1>t, <2>1 DEF Over, SafetyNet
  <2>5. \A v \in Variants : status[v] \in Nat /\ status[v] <= ready[v] + 1
    BY <1>p, <1>t DEF PaceInv
  <2>6. \A v \in Variants : PaceInv(v)'
    <3>1. SUFFICES ASSUME NEW v \in Variants PROVE PaceInv(v)'
      OBVIOUS
    <3>2. CASE v \in Dark
      BY <1>g, <1>n, <2>1, <2>2, <2>3, <2>5, <3>2, SMT
    <3>3. CASE v \notin Dark
      BY <1>k, <2>1, <2>4, <3>3
    <3> QED BY <3>2, <3>3
  <2>7. ASSUME NEW v \in Analysed(metrics) PROVE target'[v] <= ready[v] + 1
    <3>1. /\ v \in DOMAIN state /\ target'[v] \in Nat
          /\ \/ target'[v] <= state[v].cur
             \/ target'[v] <= state[v].min
             \/ state[v].pending = 0 /\ target'[v] = state[v].cur + 1
      BY <1>6, <2>7, AnalyzeTargets
    <3>2. v \in Variants /\ Fresh(v, state[v]) /\ state[v].min = MinReplicas[v]
      BY <1>p, <1>t, <2>1, <2>2, <3>1
    <3>3. state[v].cur = status[v] /\ (state[v].pending = 0 => status[v] <= ready[v])
      BY <3>2 DEF Fresh
    <3> QED BY <1>m, <2>5, <3>1, <3>2, <3>3, SMT
  <2>8. \A v \in Variants : target'[v] <= ready'[v] + 1
    BY <1>n, <2>1, <2>7
  <2>9. (\A v \in DOMAIN state : Fresh(v, state[v]))'
    BY <1>p, <2>1 DEF Fresh
  <2> QED BY <1>p, <2>1, <2>6, <2>8, <2>9 DEF PromptInv
<1>7. CASE EnforceZero
  <2>1. /\ phase = "enforce" /\ phase' = "limit" /\ target' = ToZero
        /\ UNCHANGED <<gauge, spec, status, ready, active, state>>
    BY <1>7 DEF EnforceZero, world
  <2>2. \A v \in Variants : target'[v] <= ready'[v] + 1
    BY <1>n, <2>1 DEF ToZero
  <2>3. (\A v \in DOMAIN state : Fresh(v, state[v]))'
    BY <1>p, <2>1 DEF Fresh
  <2> QED BY <1>k, <1>p, <2>1, <2>2, <2>3 DEF PromptInv
<1>8. CASE Enforce
  <2>1. /\ phase = "enforce" /\ phase' = "limit" /\ target' \in {AtLeastOne, target}
        /\ UNCHANGED <<gauge, spec, status, ready, active, state>>
    BY <1>8 DEF Enforce, world
  <2>2. \A v \in Variants : target'[v] \in {target[v], 1}
    BY <2>1, AtLeastOneFacts DEF CycleInv
  <2>3. \A v \in Variants : target'[v] <= ready'[v] + 1
    BY <1>n, <1>p, <2>1, <2>2
  <2>4. (\A v \in DOMAIN state : Fresh(v, state[v]))'
    BY <1>p, <2>1 DEF Fresh
  <2> QED BY <1>k, <1>p, <2>1, <2>3, <2>4 DEF PromptInv
<1>9. CASE Limit
  <2>1. /\ phase = "limit" /\ phase' = "apply" /\ UNCHANGED <<gauge, spec, status, ready, active>>
    BY <1>9 DEF Limit, world
  <2>2. \A v \in Variants : target'[v] <= ready'[v] + 1
    <3>1. CASE ~Limiter
      BY <1>9, <1>p, <2>1, <3>1 DEF Limit
    <3>2. CASE Limiter
      <4>1. PICK t \in [Decided -> Counts] : /\ \A v \in Decided : t[v] \in LimitedTargets(v)
                                             /\ target' = Over(t, target)
        BY <1>9, <3>2 DEF Limit
      <4>2. \A v \in Variants \ Decided : target'[v] = target[v]
        BY <1>t, <4>1 DEF Over
      <4>3. ASSUME NEW v \in Decided PROVE target'[v] <= ready[v] + 1
        <5>1. target'[v] = t[v] /\ t[v] \in Nat /\ v \in Variants
          BY <4>1, <4>3, SMT DEF Over, Counts, Decided
        <5>2. StateOf(v, state[v])
          BY <2>1, <4>3 DEF CycleInv
        <5>3. t[v] <= target[v] \/ t[v] <= MinReplicas[v]
          BY <4>1, <4>3, <5>2, LimitedFacts
        <5>4. target[v] <= ready[v] + 1 /\ target[v] \in Int
          BY <1>p, <1>t, <5>1, SMT DEF NoDecision
        <5> QED BY <1>m, <5>1, <5>3, <5>4, SMT
      <4> QED BY <1>p, <2>1, <4>2, <4>3
    <3> QED BY <3>1, <3>2
  <2> QED BY <1>k, <1>p, <2>1, <2>2 DEF PromptInv
<1>10. ASSUME NEW v \in active, NEW n \in Nat, phase = "apply", n <= ready[v] + 1, Publish(v, n)
       PROVE  PromptInv'
  <2>1. /\ UNCHANGED <<spec, status, ready>> /\ active' = active \ {v}
        /\ gauge' = [gauge EXCEPT ![v] = n]
    BY <1>10 DEF Publish, world
  <2>2. \/ phase' = "idle" /\ target' = Undecided
        \/ phase' = "apply" /\ target' = target
    BY <1>10 DEF Publish
  <2>3. gauge'[v] = n /\ \A u \in Variants \ {v} : gauge'[u] = gauge[u]
    BY <1>10, <1>t, <2>1
  <2>4. \A u \in Variants : PaceInv(u)'
    BY <1>10, <1>g, <1>k, <2>1, <2>3
  <2>5. \A u \in Variants : target'[u] <= ready'[u] + 1
    BY <1>n, <1>p, <2>1, <2>2 DEF Undecided
  <2> QED BY <1>10, <1>p, <2>1, <2>2, <2>4, <2>5 DEF PromptInv
<1>11. ASSUME NEW v \in Variants, Apply(v) PROVE PromptInv'
  <2> DEFINE n == IF target[v] # NoDecision THEN target[v] ELSE spec[v]
  <2>1. n \in Nat /\ n <= ready[v] + 1
    BY <1>t, <1>p DEF PaceInv
  <2> QED BY <1>10, <1>11, <2>1 DEF Apply
<1>12. ASSUME NEW v \in Variants, ApplyUnread(v) PROVE PromptInv'
  BY <1>10, <1>12, <1>n DEF ApplyUnread
<1>i. ASSUME phase = "idle", UNCHANGED cycle, ready' \in [Variants -> Nat], \A v \in Variants : PaceInv(v)'
      PROVE  PromptInv'
  <2>1. target' = Undecided /\ phase' = "idle"
    BY <1>i DEF CycleInv, cycle
  <2>2. \A v \in Variants : target'[v] <= ready'[v] + 1
    BY <1>i, <2>1, SMT DEF Undecided, NoDecision
  <2> QED BY <1>i, <2>1, <2>2 DEF PromptInv
<1>13. ASSUME NEW v \in Variants, ScalerSync(v) PROVE PromptInv'
  <2>1. /\ phase = "idle" /\ UNCHANGED <<status, ready, gauge, cycle>>
        /\ spec' = [spec EXCEPT ![v] = Clamp(v, gauge[v])] /\ gauge[v] # NoSeries
    BY <1>13, <1>s DEF ScalerSync, BetweenCycles
  <2>2. PaceInv(v)'
    <3>1. spec'[v] = Clamp(v, gauge[v]) /\ PaceInv(v) /\ gauge[v] \in Nat
      BY <1>t, <1>p, <2>1
    <3>2. Clamp(v, gauge[v]) \in Nat /\ MinReplicas[v] <= Clamp(v, gauge[v])
      BY <1>t, <3>1, ClampFacts
    <3> QED BY <1>c, <2>1, <3>1, <3>2, SMT DEF PaceInv
  <2>3. ASSUME NEW u \in Variants \ {v} PROVE PaceInv(u)'
    <3>1. spec'[u] = spec[u] /\ PaceInv(u)
      BY <1>t, <1>p, <2>1
    <3> QED BY <1>c, <2>1, <3>1 DEF PaceInv
  <2> QED BY <1>i, <1>t, <2>1, <2>2, <2>3
<1>14. ASSUME NEW v \in Variants, PodsSettle(v) PROVE PromptInv'
  <2>1. /\ phase = "idle" /\ UNCHANGED <<spec, gauge, cycle>> /\ status[v] # spec[v]
        /\ status' = [status EXCEPT ![v] = spec[v]]
        /\ ready' = [ready EXCEPT ![v] = IF @ < spec[v] THEN @ ELSE spec[v]]
    BY <1>14, <1>s DEF PodsSettle, BetweenCycles
  <2>2. PaceInv(v)'
    <3>1. /\ status'[v] = spec[v] /\ ready'[v] = (IF ready[v] < spec[v] THEN ready[v] ELSE spec[v])
          /\ PaceInv(v) /\ ready[v] \in Nat /\ spec[v] \in Nat
      BY <1>t, <1>p, <2>1
    <3>2. gauge[v] # NoSeries => Clamp(v, gauge[v]) \in Nat
      BY <1>t, ClampFacts
    <3>3. (ready'[v] = ready[v] /\ ready[v] < spec[v]) \/ ready'[v] = spec[v]
      BY <3>1
    <3> QED BY <1>c, <1>m, <2>1, <3>1, <3>2, <3>3, SMT DEF PaceInv
  <2>3. ASSUME NEW u \in Variants \ {v} PROVE PaceInv(u)'
    <3>1. status'[u] = status[u] /\ ready'[u] = ready[u] /\ PaceInv(u)
      BY <1>t, <1>p, <2>1
    <3> QED BY <1>c, <2>1, <3>1 DEF PaceInv
  <2>4. ready' \in [Variants -> Nat]
    BY <1>t, <2>1
  <2> QED BY <1>i, <2>1, <2>2, <2>3, <2>4
<1>15. ASSUME NEW v \in Variants, PodReady(v) PROVE PromptInv'
  <2>1. UNCHANGED <<spec, status, gauge, cycle>> /\ ready' = [ready EXCEPT ![v] = @ + 1]
    BY <1>15 DEF PodReady
  <2>2. \A u \in Variants : ready'[u] \in Nat /\ ready[u] \in Nat /\ ready[u] <= ready'[u]
    BY <1>t, <2>1, SMT
  <2>3. ASSUME NEW u \in Variants PROVE PaceInv(u)'
    <3>1. /\ PaceInv(u) /\ spec[u] \in Nat /\ status[u] \in Nat /\ MinReplicas[u] \in Nat
          /\ gauge[u] # NoSeries => Clamp(u, gauge[u]) \in Nat
      BY <1>m, <1>p, <1>t, ClampFacts
    <3> QED BY <1>c, <2>1, <2>2, <3>1, SMT DEF PaceInv
  <2>4. ASSUME NEW u \in Variants, NEW s, Fresh(u, s) PROVE Fresh(u, s)'
    <3>1. status[u] \in Nat
      BY <1>t
    <3> QED BY <2>1, <2>2, <2>4, <3>1, SMT DEF Fresh
  <2>5. ASSUME NEW u \in Variants PROVE target'[u] <= ready'[u] + 1
    <3>1. target[u] <= ready[u] + 1 /\ target[u] \in Int /\ target'[u] = target[u]
      BY <1>p, <1>t, <2>1, SMT DEF NoDecision, cycle
    <3> QED BY <2>2, <3>1, SMT
  <2>6. UNCHANGED <<phase, active, fetched, state>>
    BY <2>1 DEF cycle
  <2>7. /\ phase \in {"collect", "analyze"} => DOMAIN fetched \subseteq Variants
        /\ phase \in {"analyze", "enforce", "limit"} => DOMAIN state \subseteq Variants
    BY <1>t DEF CycleInv
  <2>8. /\ phase \in {"collect", "analyze"} => (\A u \in DOMAIN fetched : Fresh(u, fetched[u]))'
        /\ phase \in {"analyze", "enforce", "limit"} => (\A u \in DOMAIN state : Fresh(u, state[u]))'
    <3>1. ASSUME phase \in {"collect", "analyze"}, NEW u \in DOMAIN fetched PROVE Fresh(u, fetched[u])'
      BY <1>p, <2>4, <2>6, <2>7, <3>1
    <3>2. ASSUME phase \in {"analyze", "enforce", "limit"}, NEW u \in DOMAIN state PROVE Fresh(u, state[u])'
      BY <1>p, <2>4, <2>6, <2>7, <3>2
    <3> QED BY <2>6, <3>1, <3>2
  <2> QED BY <1>p, <2>1, <2>3, <2>5, <2>6, <2>8 DEF PromptInv
<1>16. ASSUME NEW v \in Variants, Wake(v) PROVE PromptInv'
  <2>1. UNCHANGED <<status, ready, gauge, cycle>> /\ spec[v] = 0 /\ spec' = [spec EXCEPT ![v] = 1]
    BY <1>16 DEF Wake
  <2>2. PaceInv(v)'
    <3>1. spec'[v] = 1 /\ PaceInv(v) /\ spec[v] = 0
      BY <1>t, <1>p, <2>1
    <3>2. gauge[v] # NoSeries => Clamp(v, gauge[v]) = 0
      BY <3>1 DEF PaceInv
    <3> QED BY <1>c, <1>m, <1>n, <2>1, <3>1, <3>2, SMT DEF PaceInv
  <2>3. ASSUME NEW u \in Variants \ {v} PROVE PaceInv(u)'
    <3>1. spec'[u] = spec[u] /\ PaceInv(u)
      BY <1>t, <1>p, <2>1
    <3> QED BY <1>c, <2>1, <3>1 DEF PaceInv
  <2>4. phase # "idle" => \A u \in active : status[u] = spec'[u] /\ spec'[u] > 0
    BY <1>p, <1>t, <2>1, SMT
  <2>5. UNCHANGED <<phase, active, fetched, state, target>>
    BY <2>1 DEF cycle
  <2> QED BY <1>p, <2>1, <2>2, <2>3, <2>4, <2>5 DEF PromptInv, Fresh
<1>17. CASE LoadChange \/ UNCHANGED vars
  <2>1. UNCHANGED <<spec, status, ready, gauge, phase, active, fetched, state, target>>
    BY <1>17 DEF LoadChange, vars, cycle
  <2> QED BY <1>k, <1>p, <2>1 DEF PromptInv, Fresh
<1> QED BY <1>1, <1>2, <1>3, <1>4, <1>5, <1>6, <1>7, <1>8, <1>9, <1>11, <1>12, <1>13, <1>14,
           <1>15, <1>16, <1>17 DEF Next

\* Scale-ups do not cascade, whatever fails.
THEOREM ScaleUpsDoNotCascade == Spec => []NoCascade
<1>1. TypeInv /\ PromptInv => NoCascade
  <2> SUFFICES ASSUME TypeInv, PromptInv, Prompt, NEW v \in Variants
               PROVE  status[v] - ready[v] <= 1
    BY DEF NoCascade
  <2>1. status[v] \in Nat /\ ready[v] \in Nat
    BY DEF TypeInv
  <2>2. status[v] <= ready[v] + 1
    BY DEF PromptInv, PaceInv
  <2> QED BY <2>1, <2>2, SMT
<1> QED BY <1>1, InitPrompt, NextPrompt, SpecBase, PTL DEF Spec

-----------------------------------------------------------------------------
(* A signal of zero. *)

\* Nothing is decided or published at first.
LEMMA InitZero == Init => ZeroInv
<1> SUFFICES ASSUME Init PROVE ZeroInv
  OBVIOUS
<1>1. phase = "idle" /\ target = Undecided
  BY DEF Init
<1>2. spec = Start /\ ready = Start /\ gauge = [v \in Variants |-> NoSeries]
  BY DEF Init
<1>3. \A v \in Variants : gauge[v] # 0 /\ target[v] # 0
  BY <1>1, <1>2, SMT DEF Undecided, NoDecision, NoSeries
<1> QED BY <1>1, <1>2, <1>3 DEF ZeroInv

\* Every role reports.
LEMMA NobodyDark ==
  ASSUME ZeroInv, Awake, phase = "analyze"
  PROVE  Dark = {}
<1>1. ASSUME NEW q \in Roles PROVE RoleMetrics(q) # Nothing
  <2>1. PICK v \in Variants : Role[v] = q /\ Start[v] > 0
    BY DEF Awake, StartsUp
  <2>2. PICK r \in DOMAIN metrics : metrics[r].variant = v
    BY <2>1 DEF Analysed, ZeroInv
  <2>3. r \in DOMAIN RoleMetrics(q)
    BY <2>1, <2>2 DEF RoleMetrics
  <2>4. DOMAIN Nothing = {}
    BY SMT DEF Nothing
  <2> QED BY <2>3, <2>4
<1> QED BY <1>1 DEF Dark

\* No step decides 0 for a variant, publishes it or takes the last replica.
LEMMA NextZero == TypeInv /\ CycleInv /\ ZeroInv /\ [Next]_vars => ZeroInv'
<1> SUFFICES ASSUME TypeInv, CycleInv, ZeroInv, [Next]_vars, Awake' PROVE ZeroInv'
  BY DEF ZeroInv
<1>t. /\ setup \in Setups /\ active \subseteq Variants
      /\ spec \in [Variants -> Nat] /\ status \in [Variants -> Nat] /\ ready \in [Variants -> Nat]
      /\ gauge \in [Variants -> Nat \cup {NoSeries}]
      /\ target \in [Variants -> Nat \cup {NoDecision}]
  BY DEF TypeInv
<1>s. Start' = Start /\ Role' = Role /\ Roles' = Roles /\ Awake
  BY SetupFixed, SMT DEF Start, Role, Roles, Awake, StartsUp, Faults, ScaleToZero
<1>r. \A S, f : Readable(S, f) = {S}
  BY <1>s DEF Readable, Awake
<1>z. /\ \A v \in Variants : gauge[v] # 0 /\ target[v] # 0
      /\ \A v \in Variants : Start[v] > 0 => spec[v] > 0 /\ ready[v] > 0
      /\ phase # "idle" => \A v \in active : spec[v] > 0
      /\ phase \in {"prepare", "collect", "analyze"} =>
           \A v \in Variants : Start[v] > 0 => v \in active
      /\ phase \in {"collect", "analyze"} =>
           DOMAIN fetched = active /\ \A v \in active : fetched[v].cur > 0
      /\ phase \in {"analyze", "enforce", "limit"} => \A v \in DOMAIN state : state[v].cur > 0
      /\ phase = "analyze" => \A v \in Variants : Start[v] > 0 => v \in Analysed(metrics)
  BY <1>s DEF ZeroInv
<1>1. CASE Collect
  <2>1. phase' = "prepare" /\ UNCHANGED <<gauge, spec, ready, target>>
    BY <1>1 DEF Collect, world
  <2>2. active' = {v \in Variants : spec[v] > 0}
    BY <1>1, <1>r DEF Collect
  <2> QED BY <1>s, <1>z, <2>1, <2>2 DEF ZeroInv
<1>2. ~SkipModel
  BY <1>s DEF SkipModel, Awake
<1>3. CASE FetchScaleTargets
  <2>1. /\ phase = "prepare" /\ phase' = "collect" /\ UNCHANGED <<gauge, spec, ready, target, active>>
        /\ fetched' = [v \in active |-> VariantState(v)]
    BY <1>3, <1>r DEF FetchScaleTargets, world
  <2>2. \A v \in active : spec[v] > 0 /\ status[v] \in Nat /\ v \in Variants
    BY <1>z, <1>t, <2>1
  <2>3. \A v \in active : VariantState(v).cur > 0
    BY <2>2, VariantStateFacts, SMT
  <2>4. (DOMAIN fetched = active /\ \A v \in active : fetched[v].cur > 0)'
    BY <2>1, <2>3
  <2> QED BY <1>s, <1>z, <2>1, <2>4 DEF ZeroInv
<1>u. ASSUME phase = "collect", Variants # {} PROVE Reporting # {}
  <2>1. PICK v \in Variants : Start[v] > 0
    BY <1>u, <1>s DEF Awake, StartsUp, Roles
  <2> QED BY <1>u, <1>z, <2>1 DEF Reporting
<1>4. CASE PrepareFails
  <2>1. phase = "collect" /\ phase' = "apply" /\ UNCHANGED <<active, target>>
    BY <1>4 DEF PrepareFails
  <2>2. CASE Variants = {}
    BY <1>t, <2>1, <2>2 DEF ZeroInv
  <2>3. CASE Variants # {}
    BY <1>4, <1>r, <1>s, <1>u, <2>1, <2>3 DEF PrepareFails, Awake
  <2> QED BY <2>2, <2>3
<1>5. CASE CollectMetrics
  <2>1. /\ phase = "collect" /\ phase' = "analyze"
        /\ UNCHANGED <<gauge, spec, ready, target, active, fetched>>
    BY <1>5 DEF CollectMetrics, world
  <2>2. PICK again \in SUBSET active :
           /\ Analysed(metrics)' = Reporting
           /\ again = active \ DOMAIN fetched
           /\ (DOMAIN state)' = DOMAIN fetched \cup again
           /\ \A v \in DOMAIN fetched : state'[v] = fetched[v]
    BY <1>5, <1>r, CollectMetricsFacts
  <2>3. DOMAIN fetched = active /\ \A v \in active : fetched[v].cur > 0
    BY <1>z, <2>1
  <2>4. \A v \in (DOMAIN state)' : state'[v].cur > 0
    BY <2>2, <2>3
  <2>5. \A v \in Variants : Start[v] > 0 => v \in Analysed(metrics)'
    BY <1>z, <2>1, <2>2, <2>3 DEF Reporting
  <2> QED BY <1>s, <1>z, <2>1, <2>3, <2>4, <2>5 DEF ZeroInv
<1>6. CASE AnalyzeRoleGroups
  <2>1. /\ phase = "analyze" /\ phase' = "enforce" /\ UNCHANGED <<active, state, spec, ready>>
        /\ gauge' = Over(SafetyNet(Dark, fetched), gauge)
        /\ \A v \in Variants \ Analysed(metrics) : target'[v] = NoDecision
    BY <1>6 DEF AnalyzeRoleGroups, world
  <2>3. Dark = {}
    BY <1>s, <2>1, NobodyDark
  <2>4. \A v \in Variants : gauge'[v] = gauge[v]
    BY <1>t, <2>1, <2>3 DEF Over, SafetyNet
  <2>5. \A v \in Variants : target'[v] # 0
    <3>1. \A v \in Analysed(metrics) : v \in DOMAIN state /\ (state[v].cur > 0 => target'[v] > 0)
                                     /\ target'[v] \in Nat
      BY <1>6, AnalyzeTargets
    <3> QED BY <1>z, <2>1, <3>1, SMT DEF NoDecision
  <2> QED BY <1>s, <1>z, <2>1, <2>4, <2>5 DEF ZeroInv
<1>7. ~EnforceZero
  BY <1>s DEF EnforceZero, Awake
<1>8. CASE Enforce
  <2>1. /\ phase = "enforce" /\ phase' = "limit" /\ target' \in {AtLeastOne, target}
        /\ UNCHANGED <<gauge, spec, ready, active, state>>
    BY <1>8 DEF Enforce, world
  <2>2. \A v \in Variants : target'[v] \in {target[v], 1}
    BY <2>1, AtLeastOneFacts DEF CycleInv
  <2> QED BY <1>s, <1>z, <2>1, <2>2, SMT DEF ZeroInv
<1>9. CASE Limit
  <2>1. phase = "limit" /\ phase' = "apply" /\ UNCHANGED <<gauge, spec, ready, active>>
    BY <1>9 DEF Limit, world
  <2>2. \A v \in Variants : target'[v] # 0
    <3>1. CASE ~Limiter
      BY <1>9, <1>z, <3>1 DEF Limit
    <3>2. CASE Limiter
      <4>1. PICK t \in [Decided -> Counts] : /\ \A v \in Decided : t[v] \in LimitedTargets(v)
                                             /\ target' = Over(t, target)
        BY <1>9, <3>2 DEF Limit
      <4>2. \A v \in Variants \ Decided : target'[v] = target[v]
        BY <1>t, <4>1 DEF Over
      <4>3. ASSUME NEW v \in Decided PROVE target'[v] # 0
        <5>1. target'[v] = t[v] /\ v \in Variants
          BY <4>1, <4>3 DEF Over, Decided
        <5>2. StateOf(v, state[v]) /\ v \in DOMAIN state
          BY <2>1, <4>3 DEF CycleInv
        <5>3. target[v] > 0 /\ state[v].cur > 0 => t[v] > 0
          BY <4>1, <4>3, <5>2, LimitedFacts
        <5>4. target[v] > 0 /\ state[v].cur > 0
          BY <1>z, <1>t, <2>1, <5>1, <5>2, <4>3, SMT DEF Decided
        <5> QED BY <5>1, <5>3, <5>4, SMT
      <4> QED BY <1>z, <4>2, <4>3
    <3> QED BY <3>1, <3>2
  <2> QED BY <1>s, <1>z, <2>1, <2>2 DEF ZeroInv
<1>10. ASSUME NEW v \in Variants, Apply(v) PROVE ZeroInv'
  <2> DEFINE n == IF target[v] # NoDecision THEN target[v] ELSE spec[v]
  <2>1. phase = "apply" /\ v \in active /\ Publish(v, n)
    BY <1>10 DEF Apply
  <2>2. n # 0
    BY <1>z, <1>t, <2>1, SMT
  <2> HIDE DEF n
  <2>3. UNCHANGED <<spec, ready>> /\ active' = active \ {v} /\ gauge' = [gauge EXCEPT ![v] = n]
    BY <2>1 DEF Publish, world
  <2>4. \/ phase' = "idle" /\ target' = Undecided
        \/ phase' = "apply" /\ target' = target
    BY <2>1 DEF Publish
  <2>5. \A u \in Variants : gauge'[u] # 0 /\ target'[u] # 0
    BY <1>t, <1>z, <2>2, <2>3, <2>4, SMT DEF Undecided, NoDecision
  <2> QED BY <1>s, <1>z, <2>1, <2>3, <2>4, <2>5 DEF ZeroInv
<1>11. ASSUME NEW v \in Variants PROVE ~ApplyUnread(v)
  BY <1>s DEF ApplyUnread, Awake
<1>w. ASSUME UNCHANGED <<gauge, cycle>>,
             \A v \in Variants : spec[v] > 0 => spec'[v] > 0,
             \A v \in Variants : ready[v] > 0 /\ spec[v] > 0 => ready'[v] > 0
      PROVE  ZeroInv'
  <2>1. UNCHANGED <<phase, active, fetched, state, metrics, target>>
    BY <1>w DEF cycle
  <2>2. Analysed(metrics)' = Analysed(metrics)
    BY <2>1 DEF Analysed
  <2> QED BY <1>s, <1>t, <1>z, <1>w, <2>1, <2>2 DEF ZeroInv
<1>12. ASSUME NEW v \in Variants, ScalerSync(v) PROVE ZeroInv'
  <2>1. /\ UNCHANGED <<status, ready, gauge, cycle>>
        /\ spec' = [spec EXCEPT ![v] = Clamp(v, gauge[v])] /\ gauge[v] # NoSeries
    BY <1>12 DEF ScalerSync
  <2>2. gauge[v] \in Nat /\ gauge[v] > 0
    BY <1>t, <1>z, <2>1, SMT
  <2>3. Clamp(v, gauge[v]) > 0
    BY <1>t, <2>2, ClampFacts
  <2> QED BY <1>t, <1>w, <2>1, <2>3
<1>13. ASSUME NEW v \in Variants, PodsSettle(v) PROVE ZeroInv'
  <2>1. /\ UNCHANGED <<spec, gauge, cycle>>
        /\ ready' = [ready EXCEPT ![v] = IF @ < spec[v] THEN @ ELSE spec[v]]
    BY <1>13 DEF PodsSettle
  <2> QED BY <1>t, <1>w, <2>1
<1>14. ASSUME NEW v \in Variants, PodReady(v) PROVE ZeroInv'
  <2>1. UNCHANGED <<spec, gauge, cycle>> /\ ready' = [ready EXCEPT ![v] = @ + 1]
    BY <1>14 DEF PodReady
  <2> QED BY <1>t, <1>w, <2>1, SMT
<1>15. ASSUME NEW v \in Variants, Wake(v) PROVE ZeroInv'
  <2>1. UNCHANGED <<ready, gauge, cycle>> /\ spec' = [spec EXCEPT ![v] = 1]
    BY <1>15 DEF Wake
  <2> QED BY <1>t, <1>w, <2>1, SMT
<1>16. CASE LoadChange \/ UNCHANGED vars
  <2>1. UNCHANGED <<spec, ready, gauge, cycle>>
    BY <1>16 DEF LoadChange, vars, cycle
  <2> QED BY <1>w, <2>1
<1> QED BY <1>1, <1>2, <1>3, <1>4, <1>5, <1>6, <1>7, <1>8, <1>9, <1>10, <1>11, <1>12, <1>13, <1>14,
           <1>15, <1>16 DEF Next

\* Where every read succeeds and nobody starts from zero, no variant that has
\* replicas is signalled 0: a variant of the cycle is never one without
\* replicas, a role always reports, and neither the analyzer nor the limiter
\* takes the last replica.
THEOREM ZeroIsDecided == Spec => []ZeroIsADecisionWhenRead
<1>1. ZeroInv => ZeroIsADecisionWhenRead
  BY DEF ZeroInv, Awake, ZeroIsADecisionWhenRead, ZeroIsADecision
<1> QED BY <1>1, InitZero, NextZero, SpecBase, PTL DEF Spec

-----------------------------------------------------------------------------
(* Overshooting. *)

\* The total of a role is a sum over its finitely many variants.
LEMMA TotalSum ==
  ASSUME NEW count, NEW role
  PROVE  /\ Total(count, role) = SumOf(count, RoleOf(role))
         /\ IsFiniteSet(RoleOf(role)) /\ RoleOf(role) \subseteq Variants
<1>1. Total(count, role) = SumOf(count, RoleOf(role))
  BY DEF Total, SumOf, RoleOf, MapThenSumSet, MapThenFoldSet
<1>2. RoleOf(role) \in SUBSET Variants
  BY DEF RoleOf
<1> QED BY <1>1, <1>2, ConfigAssumption, FS_Subset

\* Totals after a step; a setup does not change.
LEMMA TotalNext ==
  ASSUME setup' = setup, NEW role
  PROVE  /\ RoleOf(role)' = RoleOf(role)
         /\ Total(Start, role)' = Total(Start, role)
         /\ Total(spec, role)' = Total(spec', role)
         /\ Total(Peaks, role)' = Total(Peaks', role)
<1>1. Role' = Role /\ Start' = Start
  BY DEF Role, Start
<1>2. RoleOf(role)' = RoleOf(role)
  BY <1>1 DEF RoleOf
<1>3. Total(Start, role)' = Total(Start, role)
  BY <1>1, SMT DEF Total, MapThenSumSet, MapThenFoldSet
<1>4. Total(spec, role)' = Total(spec', role)
  BY <1>1 DEF Total, MapThenSumSet, MapThenFoldSet
<1>5. Total(Peaks, role)' = Total(Peaks', role)
  BY <1>1 DEF Total, MapThenSumSet, MapThenFoldSet
<1> QED BY <1>2, <1>3, <1>4, <1>5

\* The total of counts is a count.
LEMMA TotalNatural ==
  ASSUME NEW count \in [Variants -> Nat], NEW role
  PROVE  Total(count, role) \in Nat
BY TotalSum, SumNatural

\* More replicas of every variant are more replicas of the role.
LEMMA TotalMonotone ==
  ASSUME NEW f \in [Variants -> Nat], NEW g \in [Variants -> Nat], NEW role,
         \A v \in RoleOf(role) : f[v] <= g[v]
  PROVE  Total(f, role) <= Total(g, role)
<1>1. \A v \in RoleOf(role) : f[v] \in Int /\ g[v] \in Int /\ f[v] <= g[v]
  BY TotalSum, SMT
<1>2. SumOf(f, RoleOf(role)) <= SumOf(g, RoleOf(role))
  BY <1>1, TotalSum, SumMonotone
<1> QED BY <1>2, TotalSum

\* One replica more of one variant
LEMMA TotalPlusOne ==
  ASSUME NEW f \in [Variants -> Nat], NEW g \in [Variants -> Nat], NEW role,
         \E x : \A v \in RoleOf(role) : g[v] <= f[v] \/ (v = x /\ g[v] <= f[v] + 1)
  PROVE  Total(g, role) <= Total(f, role) + 1
<1>x. PICK x : \A v \in RoleOf(role) : g[v] <= f[v] \/ (v = x /\ g[v] <= f[v] + 1)
  OBVIOUS
<1> DEFINE R == RoleOf(role)
           h == [v \in Variants |-> IF v = x THEN f[v] + 1 ELSE f[v]]
<1>0. IsFiniteSet(R) /\ R \subseteq Variants
  BY TotalSum
<1>1. h \in [Variants -> Nat] /\ \A v \in R : g[v] <= h[v]
  BY <1>0, <1>x, SMT
<1>2. \A v \in R : f[v] \in Int /\ h[v] \in Int /\ (v # x => h[v] = f[v]) /\ (v = x => h[v] = f[v] + 1)
  BY <1>0, SMT
<1> HIDE DEF h, R
<1>3. Total(g, role) <= Total(h, role)
  BY <1>1, TotalMonotone DEF R
<1>4. SumOf(h, R) <= SumOf(f, R) + 1
  <2>1. SumOf(f, R) \in Int
    BY <1>0, <1>2, SumType
  <2>2. CASE x \in R
    <3>1. SumOf(h, R) = SumOf(f, R) - f[x] + h[x]
      BY <1>0, <1>2, <2>2, SumChange, SMT
    <3> QED BY <1>2, <2>1, <2>2, <3>1, SMT
  <2>3. CASE x \notin R
    <3>1. SumOf(h, R) = SumOf(f, R)
      BY <1>0, <1>2, <2>3, SumSame
    <3> QED BY <2>1, <3>1, SMT
  <2> QED BY <2>2, <2>3
<1>5. Total(h, role) <= Total(f, role) + 1
  BY <1>4, TotalSum DEF R
<1>6. Total(g, role) \in Nat /\ Total(h, role) \in Nat /\ Total(f, role) \in Nat
  BY <1>1, TotalNatural
<1> QED BY <1>3, <1>5, <1>6, SMT

\* A load that needs more than n replicas needs more than fewer of them.
LEMMA AllowedFewer ==
  ASSUME setup \in Setups, NEW role \in Roles, NEW m \in Nat, NEW n \in Nat, m <= n,
         Total(Start, role) \in Nat, Total(Start, role) > 0, Allowed(role, n)
  PROVE  Allowed(role, m)
<1>1. SUFFICES ASSUME m > Total(Start, role) PROVE \E l \in Loads : ~Enough(l, role, m - 1)
  BY SMT DEF Allowed
<1>2. n > Total(Start, role)
  BY <1>1, SMT
<1>3. PICK l \in Loads : ~Enough(l, role, n - 1)
  BY <1>2, SMT DEF Allowed
<1>4. PICK v \in Variants : role = Role[v]
  BY DEF Roles
<1>5. l[role].kv \in Nat /\ l[role].queue \in Nat
  BY <1>3, <1>4, ConfigAssumption DEF SetupOK, Loads, Role
<1> DEFINE kv == l[role].kv * Unit
           queue == l[role].queue * Unit
           c == KvCacheThreshold - KvSpareTrigger
           d == QueueLengthThreshold - QueueSpareTrigger
<1>6. kv \in Nat /\ queue \in Nat
  BY <1>5, SMT DEF Unit
<1>7. c \in Int /\ d \in Int
  BY ThresholdsAssumption, SMT
<1>8. m - 1 \in Nat /\ n - 1 \in Nat /\ 1 <= m - 1 /\ m - 1 <= n - 1
  BY <1>1, SMT
<1>9. ~(kv <= c * (n - 1) /\ queue <= d * (n - 1))
  BY <1>3 DEF Enough
<1>10. SUFFICES ~(kv <= c * (m - 1) /\ queue <= d * (m - 1))
  BY <1>3 DEF Enough
<1> HIDE DEF kv, queue, c, d
<1>11. kv > c * (n - 1) \/ queue > d * (n - 1)
  BY <1>6, <1>7, <1>8, <1>9, SMT
<1>12. kv > c * (n - 1) => kv > c * (m - 1)
  BY <1>6, <1>7, <1>8, FewerHaveMore
<1>13. queue > d * (n - 1) => queue > d * (m - 1)
  BY <1>6, <1>7, <1>8, FewerHaveMore
<1> QED BY <1>6, <1>7, <1>8, <1>11, <1>12, <1>13, SMT

\* What the setup of an orderly cluster that keeps its replicas gives
LEMMA KeptFacts ==
  ASSUME setup \in Setups, Kept
  PROVE  /\ Awake /\ Prompt /\ Faults = {}
         /\ \A role \in Roles : Total(Start, role) \in Nat /\ Total(Start, role) > 0
<1>1. Awake /\ Prompt /\ Faults = {}
  BY DEF Kept, Orderly, Awake, StartsUp, Roles
<1>2. ASSUME NEW role \in Roles PROVE Total(Start, role) \in Nat /\ Total(Start, role) > 0
  <2>1. PICK v \in Variants : v \in RoleOf(role)
    BY <1>2 DEF Roles, RoleOf
  <2>2. Start \in [Variants -> Nat] /\ Start[v] > 0
    BY <2>1, SetupFacts DEF Kept
  <2>3. Start[v] <= SumOf(Start, RoleOf(role))
    BY <2>1, <2>2, TotalSum, SumMember
  <2>4. Total(Start, role) = SumOf(Start, RoleOf(role)) /\ Total(Start, role) \in Nat
    BY <2>2, TotalSum, TotalNatural
  <2>5. Start[v] \in Nat
    BY <2>2
  <2> QED BY <2>2, <2>3, <2>4, <2>5, SMT
<1> QED BY <1>1, <1>2

\* A load in the units of the thresholds is a natural number.
LEMMA Scaled ==
  ASSUME setup \in Setups, NEW l \in Loads, NEW role \in Roles
  PROVE  l[role].kv * Unit \in Nat /\ l[role].queue * Unit \in Nat
<1>1. PICK v \in Variants : role = Role[v]
  BY DEF Roles
<1>2. l[role].kv \in Nat /\ l[role].queue \in Nat
  BY <1>1, ConfigAssumption DEF SetupOK, Loads, Role
<1> QED BY <1>2, SMT DEF Unit

\* A role whose replicas are all ready when their metrics are collected
\* reports the load of its replicas, and all of it.
LEMMA CollectedCause ==
  ASSUME TypeInv, CycleInv, PromptInv, ZeroInv, OverInv, Kept, load \in Loads, CollectMetrics
  PROVE  ScalesWithCause'
<1>t. /\ setup \in Setups /\ active \subseteq Variants /\ setup' = setup
      /\ spec \in [Variants -> Nat] /\ status \in [Variants -> Nat] /\ ready \in [Variants -> Nat]
  BY DEF TypeInv, CollectMetrics, world
<1>k. Awake /\ Prompt /\ Faults = {}
  BY <1>t, KeptFacts
<1>r. \A S, f : Readable(S, f) = {S}
  BY <1>k DEF Readable
<1>1. phase = "collect" /\ spec' = spec /\ load \in Loads'
  BY <1>t DEF CollectMetrics, world, Loads
<1>2. /\ DOMAIN fetched = Variants /\ \A v \in Variants : ready[v] > 0
      /\ \A v \in Variants : status[v] = spec[v] /\ Fresh(v, fetched[v])
  <2>1. \A v \in Variants : v \in active /\ ready[v] > 0
    BY <1>1, <1>k DEF ZeroInv, Kept
  <2>2. DOMAIN fetched = active
    BY <1>1, <1>k DEF ZeroInv
  <2> QED BY <1>t, <1>1, <1>k, <2>1, <2>2 DEF PromptInv
<1>3. Reporting = Variants
  BY <1>2 DEF Reporting
<1>4. /\ state' = Over(fetched, [v \in {} |-> VariantState(v)])
      /\ metrics' = [r \in Blocks(ready, Variants) |-> Metric(r[1])]
  <2>1. PICK again \in Readable(active \ DOMAIN fetched, "fetch"),
             reporting \in Readable(Reporting, "gaps") \ {{}} :
          /\ state' = Over(fetched, [v \in again |-> VariantState(v)])
          /\ metrics' = [r \in UNION {{v} \X (1..ready[v]) : v \in reporting} |-> Metric(r[1])]
    BY DEF CollectMetrics
  <2>2. active \ DOMAIN fetched = {}
    BY <1>t, <1>2
  <2>3. again = {} /\ reporting = Variants
    BY <1>r, <1>3, <2>1, <2>2
  <2> QED BY <2>1, <2>3 DEF Blocks
<1>5. \A v \in Variants : state'[v] = fetched[v]
  BY <1>2, <1>4 DEF Over
<1>6. \A v \in Variants : ready[v] <= status[v]
  BY DEF OverInv
<1>7. SUFFICES ASSUME NEW role \in Roles, \A v \in RoleOf(role) : state'[v].pending = 0,
                      ShouldScaleUp(RoleMetrics(role)')
               PROVE  ~Enough(load, role, Total(spec, role))
  <2>1. Role' = Role /\ Roles' = Roles
    BY <1>t DEF Role, Roles
  <2>2. \A role : RoleOf(role)' = RoleOf(role) /\ Total(spec, role)' = Total(spec, role)
    BY <1>t, <1>1, TotalNext
  <2> QED BY <1>1, <2>1, <2>2 DEF ScalesWithCause, Enough
<1> DEFINE R == RoleOf(role)
           n == Total(ready, role)
           M == RoleMetrics(role)'
<1>8. DOMAIN M = Blocks(ready, R)
  <2>1. \A r \in Blocks(ready, Variants) : metrics'[r].variant = r[1]
    BY <1>4 DEF Metric
  <2>2. DOMAIN M = {r \in Blocks(ready, Variants) : Role[r[1]] = role}
    BY <1>t, <1>4, <2>1 DEF RoleMetrics, Role
  <2> QED BY <2>2, SMT DEF Blocks, RoleOf
<1>9. \A r \in DOMAIN M : /\ M[r].kv = (load[role].kv * Unit) \div n
                          /\ M[r].queue = (load[role].queue * Unit) \div n
  <2>1. SUFFICES ASSUME NEW r \in DOMAIN M
                 PROVE  /\ M[r].kv = (load[role].kv * Unit) \div n
                        /\ M[r].queue = (load[role].queue * Unit) \div n
    OBVIOUS
  <2>2. r \in Blocks(ready, Variants) /\ Role[r[1]] = role
    BY <1>8, <2>1, SMT DEF Blocks, RoleOf
  <2>3. M[r] = metrics'[r]
    BY <2>1 DEF RoleMetrics
  <2>4. metrics'[r] = Metric(r[1])
    BY <1>4, <2>2
  <2> QED BY <2>2, <2>3, <2>4, SMT DEF Metric
<1>10. IsFiniteSet(R) /\ R \subseteq Variants /\ n = SumOf(ready, R) /\ n \in Nat
  BY <1>t, TotalSum, TotalNatural
<1>11. n > 0
  <2>1. PICK v \in Variants : v \in R
    BY <1>7 DEF Roles, RoleOf
  <2>2. ready[v] <= SumOf(ready, R)
    BY <1>t, <1>10, <2>1, SumMember
  <2> QED BY <1>t, <1>2, <1>10, <2>2, SMT
<1>12. Total(spec, role) = n
  <2>1. \A v \in R : ready[v] \in Int /\ spec[v] = ready[v]
    <3>1. SUFFICES ASSUME NEW v \in R PROVE spec[v] = ready[v] /\ ready[v] \in Int
      OBVIOUS
    <3>2. status[v] = spec[v] /\ status[v] <= ready[v]
      BY <1>2, <1>5, <1>7, <1>10, <3>1 DEF Fresh
    <3> QED BY <1>t, <1>6, <1>10, <3>2, SMT
  <2>2. SumOf(spec, R) = SumOf(ready, R)
    BY <1>10, <2>1, SumSame
  <2> QED BY <1>10, <2>2, TotalSum
<1>13. load[role].kv * Unit \in Nat /\ load[role].queue * Unit \in Nat
  BY <1>t, Scaled
<1>14. IsFiniteSet(DOMAIN M) /\ Cardinality(DOMAIN M) = n
  BY <1>t, <1>8, <1>10, BlocksCardinality
<1> HIDE DEF M, n, R
<1>15. \/ load[role].kv * Unit > (KvCacheThreshold - KvSpareTrigger) * n
       \/ load[role].queue * Unit > (QueueLengthThreshold - QueueSpareTrigger) * n
  BY <1>7, <1>9, <1>10, <1>11, <1>13, <1>14, ShortOfHeadroom, SMT DEF M
<1>16. /\ (KvCacheThreshold - KvSpareTrigger) * n \in Int
       /\ (QueueLengthThreshold - QueueSpareTrigger) * n \in Int
  BY <1>10, ThresholdsAssumption, SMT
<1> QED BY <1>12, <1>13, <1>15, <1>16, SMT DEF Enough

\* What analyzeRoleGroups raises
LEMMA AnalyzeRaises ==
  ASSUME TypeInv, CycleInv, ZeroInv, Kept, AnalyzeRoleGroups, NEW role \in Roles, NEW v \in RoleOf(role)
  PROVE  LET M == RoleMetrics(role) IN
         /\ target'[v] \in Nat
         /\ \/ target'[v] <= state[v].cur \/ target'[v] <= state[v].min
            \/ /\ v = Raised(M, state) /\ target'[v] = state[v].cur + 1
               /\ ShouldScaleUp(M)
               /\ \A u \in RoleOf(role) : state[u].pending = 0
<1> DEFINE M == RoleMetrics(role)
           t == CalculateSaturationTargets(M, state)[v]
<1>1. /\ Analysed(metrics) \subseteq DOMAIN state /\ DOMAIN state \subseteq Variants
      /\ \A u \in DOMAIN state : StateOf(u, state[u])
  BY DEF AnalyzeRoleGroups, CycleInv, TypeInv
<1>2. \A u \in DOMAIN state :
        /\ state[u].cur \in Nat /\ state[u].pending \in Nat /\ state[u].desired = 0
        /\ state[u].min \in Nat /\ state[u].max \in Nat
  BY <1>1, SetupFacts DEF StateOf, TypeInv
<1>3. Awake /\ setup \in Setups
  BY KeptFacts DEF TypeInv
<1>4. \A u \in Variants : u \in Analysed(metrics)
  BY <1>3 DEF ZeroInv, Kept, AnalyzeRoleGroups
<1>5. Analysed(M) = RoleOf(role)
  BY <1>1, <1>4, RoleAnalysed DEF RoleOf
<1>6. v \in Variants /\ Role[v] = role /\ RoleOf(role) \subseteq Variants
  BY DEF RoleOf
<1>7. target'[v] = t /\ target'[v] \in Nat
  BY <1>4, <1>6, AnalyzeTargets DEF AnalyzeRoleGroups, RoleTargets
<1>8. Analysed(M) \subseteq Variants /\ v \in Analysed(M)
  BY <1>5, <1>6
<1>9. \A u \in Analysed(M) :
        /\ state[u].cur \in Nat /\ state[u].pending \in Nat /\ state[u].desired = 0
        /\ state[u].min \in Nat /\ state[u].max \in Nat
  BY <1>1, <1>2, <1>4, <1>8
<1> HIDE DEF M
<1>10. \/ t <= state[v].cur \/ t <= state[v].min
       \/ /\ v = Raised(M, state) /\ t = state[v].cur + 1
          /\ ShouldScaleUp(M) /\ ~InTransition(M, state)
  BY <1>8, <1>9, OneRaised
<1>11. ~InTransition(M, state) => \A u \in RoleOf(role) : ~(state[u].pending > 0)
  BY <1>5 DEF InTransition
<1>12. ~InTransition(M, state) => \A u \in RoleOf(role) : state[u].pending = 0
  BY <1>5, <1>9, <1>11, SMT
<1> QED BY <1>7, <1>10, <1>12 DEF M
\* A higher signal never makes the scaler go lower.
LEMMA ClampMonotone ==
  ASSUME setup \in Setups, NEW v \in Variants, NEW m \in Nat, NEW n \in Nat, m <= n
  PROVE  Clamp(v, m) <= Clamp(v, n)
BY SetupFacts, SMT DEF Clamp

\* A peak is a count, at least what the variant has and what it is signalled.
LEMMA PeakFacts ==
  ASSUME TypeInv
  PROVE  /\ Peaks \in [Variants -> Nat]
         /\ \A v \in Variants :
              /\ spec[v] <= Peaks[v]
              /\ gauge[v] # NoSeries => Clamp(v, gauge[v]) <= Peaks[v]
              /\ target[v] # NoDecision => Clamp(v, target[v]) <= Peaks[v]
<1>1. ASSUME NEW v \in Variants
      PROVE  /\ Peak(v) \in Nat /\ spec[v] <= Peak(v)
             /\ gauge[v] # NoSeries => Clamp(v, gauge[v]) <= Peak(v)
             /\ target[v] # NoDecision => Clamp(v, target[v]) <= Peak(v)
  <2>1. spec[v] \in Nat /\ (gauge[v] = NoSeries \/ gauge[v] \in Nat)
          /\ (target[v] = NoDecision \/ target[v] \in Nat)
    BY DEF TypeInv
  <2>2. \A n \in Nat : Clamp(v, n) \in Nat
    BY ClampFacts DEF TypeInv
  <2> QED BY <2>1, <2>2, SMT DEF Peak, Higher
<1> QED BY <1>1 DEF Peaks

\* Bounds on the peaks after a step
LEMMA PeakNext ==
  ASSUME setup \in Setups, setup' = setup, TypeInv'
  PROVE  /\ Peaks' \in [Variants -> Nat]
         /\ \A v \in Variants, n \in Nat :
              /\ spec'[v] <= n
              /\ gauge'[v] # NoSeries => Clamp(v, gauge'[v]) <= n
              /\ target'[v] # NoDecision => Clamp(v, target'[v]) <= n
              => Peaks'[v] <= n
<1>1. ASSUME NEW v \in Variants
      PROVE  /\ Peak(v)' \in Nat
             /\ \A n \in Nat :
                  /\ spec'[v] <= n
                  /\ gauge'[v] # NoSeries => Clamp(v, gauge'[v]) <= n
                  /\ target'[v] # NoDecision => Clamp(v, target'[v]) <= n
                  => Peak(v)' <= n
  <2>1. spec'[v] \in Nat /\ (gauge'[v] = NoSeries \/ gauge'[v] \in Nat)
          /\ (target'[v] = NoDecision \/ target'[v] \in Nat)
    BY DEF TypeInv
  <2>2. \A n \in Nat : Clamp(v, n) \in Nat
    BY ClampFacts
  <2>3. Peak(v)' = Higher(spec'[v], Higher(IF gauge'[v] = NoSeries THEN 0 ELSE Clamp(v, gauge'[v]),
                         IF target'[v] = NoDecision THEN 0 ELSE Clamp(v, target'[v])))
    BY DEF Peak, Clamp, MinReplicas, MaxReplicas, PodLimit, Higher
  <2> QED BY <2>1, <2>2, <2>3, SMT DEF Higher
<1> QED BY <1>1 DEF Peaks

\* The replicas at the start do not overshoot.
LEMMA InitOver == Init => OverInv
<1> SUFFICES ASSUME Init, Kept PROVE OverInv
  BY DEF OverInv
<1>1. phase = "idle" /\ target = Undecided /\ setup \in Setups
  BY DEF Init
<1>2. spec = Start /\ status = Start /\ ready = Start /\ gauge = [v \in Variants |-> NoSeries]
  BY DEF Init
<1>3. Start \in [Variants -> Nat]
  BY <1>1, ConfigAssumption DEF SetupOK, Start
<1>4. \A v \in Variants : Peak(v) = Start[v]
  <2>1. SUFFICES ASSUME NEW v \in Variants PROVE Peak(v) = Start[v]
    OBVIOUS
  <2>2. gauge[v] = NoSeries /\ target[v] = NoDecision /\ spec[v] = Start[v] /\ Start[v] \in Nat
    BY <1>1, <1>2, <1>3 DEF Undecided
  <2> QED BY <2>2, SMT DEF Peak, Higher
<1>5. Peaks = Start
  BY <1>3, <1>4 DEF Peaks
<1>6. \A role \in Roles : Allowed(role, Total(Peaks, role))
  <2>1. SUFFICES ASSUME NEW role \in Roles PROVE Allowed(role, Total(Start, role))
    BY <1>5
  <2>2. Total(Start, role) \in Nat
    BY <1>3, TotalNatural
  <2> QED BY <2>2, SMT DEF Allowed
<1>7. \A v \in Variants : ready[v] <= status[v]
  BY <1>2, <1>3, SMT
<1> QED BY <1>1, <1>6, <1>7 DEF OverInv

\* The replicas that a cycle asks for are allowed.
LEMMA AnalyzeOver ==
  ASSUME TypeInv, CycleInv, PromptInv, ZeroInv, OverInv, Kept, AnalyzeRoleGroups,
         TypeInv', setup' = setup, NEW role \in Roles
  PROVE  Allowed(role, Total(Peaks', role))
<1>t. /\ setup \in Setups /\ spec \in [Variants -> Nat] /\ active \subseteq Variants
      /\ gauge \in [Variants -> Nat \cup {NoSeries}]
  BY DEF TypeInv
<1>k. /\ Awake /\ Prompt
      /\ Total(Start, role) \in Nat /\ Total(Start, role) > 0
  BY <1>t, KeptFacts
<1>1. phase = "analyze" /\ spec' = spec /\ gauge' = Over(SafetyNet(Dark, fetched), gauge)
  BY DEF AnalyzeRoleGroups, world
<1>2. Dark = {}
  BY <1>1, <1>k, NobodyDark
<1>3. \A v \in Variants : gauge'[v] = gauge[v]
  BY <1>t, <1>1, <1>2 DEF Over, SafetyNet
<1>4. \A v \in Variants : /\ gauge[v] # NoSeries => Clamp(v, gauge[v]) = spec[v]
                          /\ v \in DOMAIN state /\ Fresh(v, state[v]) /\ StateOf(v, state[v])
                          /\ status[v] = spec[v] /\ MinReplicas[v] <= spec[v]
  <2>1. \A v \in Variants : v \in active /\ v \in Analysed(metrics)
    BY <1>1, <1>k DEF ZeroInv, Kept
  <2>2. \A v \in Variants : v \in DOMAIN state /\ StateOf(v, state[v])
    BY <1>1, <2>1 DEF CycleInv
  <2>3. \A v \in Variants : Fresh(v, state[v]) /\ status[v] = spec[v]
    BY <1>1, <1>k, <2>1, <2>2 DEF PromptInv
  <2>4. \A v \in Variants : MinReplicas[v] <= spec[v]
    BY <1>k DEF PromptInv, PaceInv
  <2>5. \A v \in Variants : gauge[v] # NoSeries => Clamp(v, gauge[v]) = spec[v]
    BY <1>1 DEF OverInv
  <2> QED BY <2>2, <2>3, <2>4, <2>5
<1>5. Peaks' \in [Variants -> Nat] /\ Peaks \in [Variants -> Nat]
  BY <1>t, PeakNext, PeakFacts
<1>6. RoleOf(role) \subseteq Variants
  BY DEF RoleOf
<1> DEFINE x == Raised(RoleMetrics(role), state)
           Cause == /\ ShouldScaleUp(RoleMetrics(role))
                    /\ \A u \in RoleOf(role) : state[u].pending = 0
<1>7. \A v \in RoleOf(role) : Peaks'[v] <= spec[v] \/ (Cause /\ v = x /\ Peaks'[v] <= spec[v] + 1)
  <2>1. SUFFICES ASSUME NEW v \in RoleOf(role)
                 PROVE  Peaks'[v] <= spec[v] \/ (Cause /\ v = x /\ Peaks'[v] <= spec[v] + 1)
    OBVIOUS
  <2> DEFINE t == target'[v]
  <2>2. /\ t \in Nat
        /\ t <= state[v].cur \/ t <= state[v].min \/ (Cause /\ v = x /\ t = state[v].cur + 1)
    BY AnalyzeRaises
  <2>3. v \in Variants /\ state[v].cur = spec[v] /\ state[v].min = MinReplicas[v]
    BY <1>4, <1>6 DEF Fresh, StateOf
  <2>4. MinReplicas[v] <= spec[v] /\ spec[v] \in Nat /\ MinReplicas[v] \in Nat
    BY <1>4, <1>t, <2>3, SetupFacts
  <2>5. Clamp(v, t) \in Nat /\ (Clamp(v, t) <= t \/ Clamp(v, t) = MinReplicas[v])
    BY <1>t, <2>2, <2>3, ClampFacts
  <2>6. \A n \in Nat : spec[v] <= n /\ Clamp(v, t) <= n => Peaks'[v] <= n
    BY <1>t, <1>1, <1>3, <1>4, <2>3, PeakNext
  <2> HIDE DEF t, Cause, x
  <2>7. t <= spec[v] \/ (Cause /\ v = x /\ t = spec[v] + 1)
    BY <2>2, <2>3, <2>4, SMT
  <2>8. Clamp(v, t) <= spec[v] \/ (Cause /\ v = x /\ Clamp(v, t) <= spec[v] + 1)
    BY <2>2, <2>4, <2>5, <2>7, SMT
  <2> QED BY <2>4, <2>6, <2>8, SMT
<1>8. Total(Peaks', role) \in Nat /\ Total(Peaks, role) \in Nat /\ Total(spec, role) \in Nat
  BY <1>t, <1>5, TotalNatural
<1> HIDE DEF x, Cause
<1>9. CASE ~Cause
  <2>1. \A v \in RoleOf(role) : Peaks'[v] <= spec[v] /\ spec[v] <= Peaks[v]
    BY <1>6, <1>7, <1>9, PeakFacts
  <2>2. \A v \in RoleOf(role) : Peaks'[v] \in Nat /\ spec[v] \in Nat /\ Peaks[v] \in Nat
    BY <1>5, <1>6, <1>t
  <2>3. \A v \in RoleOf(role) : Peaks'[v] <= Peaks[v]
    BY <2>1, <2>2, SMT
  <2>4. Total(Peaks', role) <= Total(Peaks, role)
    BY <1>5, <2>3, TotalMonotone
  <2>5. Allowed(role, Total(Peaks, role))
    BY DEF OverInv
  <2> QED BY <1>t, <1>k, <1>8, <2>4, <2>5, AllowedFewer
<1>10. CASE Cause
  <2>0. \A v \in RoleOf(role) : Peaks'[v] <= spec[v] \/ (v = x /\ Peaks'[v] <= spec[v] + 1)
    BY <1>7
  <2>1. Total(Peaks', role) <= Total(spec, role) + 1
    <3> DEFINE g == Peaks'
    <3>1. g \in [Variants -> Nat] /\ \A v \in RoleOf(role) : g[v] <= spec[v] \/ (v = x /\ g[v] <= spec[v] + 1)
      BY <1>5, <2>0
    <3> HIDE DEF g
    <3>2. \E y : \A v \in RoleOf(role) : g[v] <= spec[v] \/ (v = y /\ g[v] <= spec[v] + 1)
      BY <3>1, SMT
    <3>3. Total(g, role) <= Total(spec, role) + 1
      BY <1>t, <3>1, <3>2, TotalPlusOne
    <3> QED BY <3>3 DEF g
  <2>2. PICK l \in Loads : ~Enough(l, role, Total(spec, role))
    BY <1>1, <1>10 DEF OverInv, ScalesWithCause, Cause
  <2> DEFINE n == Total(spec, role) + 1
  <2>3. n - 1 = Total(spec, role) /\ n \in Nat
    BY <1>8, SMT
  <2> HIDE DEF n
  <2>4. ~Enough(l, role, n - 1)
    BY <2>2, <2>3
  <2>5. Allowed(role, n)
    BY <2>4 DEF Allowed
  <2>6. Total(Peaks', role) <= n
    BY <2>1 DEF n
  <2> QED BY <1>t, <1>k, <1>8, <2>3, <2>5, <2>6, AllowedFewer
<1> QED BY <1>9, <1>10
\* The load is one of those of the setup.
LoadInv == load \in Loads

\* The load changes to another load of the setup.
LEMMA NextLoad == LoadInv /\ [Next]_vars => LoadInv'
<1> SUFFICES ASSUME LoadInv, [Next]_vars PROVE LoadInv'
  OBVIOUS
<1>1. Loads' = Loads
  BY SetupFixed DEF Loads
<1>2. load' = load \/ load' \in Loads
  BY DEF Next, vars, world, Collect, SkipModel, FetchScaleTargets, PrepareFails, CollectMetrics,
         AnalyzeRoleGroups, EnforceZero, Enforce, Limit, Apply, ApplyUnread, Publish, ScalerSync,
         PodsSettle, PodReady, Wake, LoadChange
<1> QED BY <1>1, <1>2 DEF LoadInv

\* Only analyzeRoleGroups raises a peak; the scaler, the limiter and the
\* publication of a decision follow it.
LEMMA NextOver ==
  TypeInv /\ CycleInv /\ PromptInv /\ ZeroInv /\ LoadInv /\ OverInv /\ [Next]_vars /\ TypeInv' => OverInv'
<1> SUFFICES ASSUME TypeInv, CycleInv, PromptInv, ZeroInv, LoadInv, OverInv, [Next]_vars, TypeInv', Kept'
             PROVE  OverInv'
  BY DEF OverInv
<1>t. /\ setup \in Setups /\ active \subseteq Variants
      /\ spec \in [Variants -> Nat] /\ status \in [Variants -> Nat] /\ ready \in [Variants -> Nat]
      /\ gauge \in [Variants -> Nat \cup {NoSeries}]
      /\ target \in [Variants -> Nat \cup {NoDecision}]
  BY DEF TypeInv
<1>s. setup' = setup
  BY SetupFixed
<1>k. Kept
  BY <1>s DEF Kept, Orderly, Prompt, Faults, ScaleToZero, Start
<1>a. /\ Awake /\ Prompt /\ Faults = {}
      /\ \A role \in Roles : Total(Start, role) \in Nat /\ Total(Start, role) > 0
  BY <1>t, <1>k, KeptFacts
<1>r. \A S, f : Readable(S, f) = {S}
  BY <1>a DEF Readable
<1>o. /\ \A v \in Variants : ready[v] <= status[v]
      /\ phase \in {"prepare", "collect", "analyze"} =>
           \A v \in Variants : gauge[v] # NoSeries => Clamp(v, gauge[v]) = spec[v]
      /\ phase = "analyze" => ScalesWithCause
      /\ \A role \in Roles : Allowed(role, Total(Peaks, role))
  BY <1>k DEF OverInv
<1>z. /\ \A v \in Variants : gauge[v] # 0 /\ target[v] # 0
      /\ \A v \in Variants : spec[v] > 0 /\ ready[v] > 0
      /\ phase \in {"prepare", "collect", "analyze"} => \A v \in Variants : v \in active
  BY <1>a, <1>k DEF ZeroInv, Kept
<1>n. \A v \in Variants : MinReplicas[v] <= spec[v] /\ MinReplicas[v] \in Nat
  BY <1>a, <1>t, SetupFacts DEF PromptInv, PaceInv
<1>p. /\ Peaks \in [Variants -> Nat] /\ Peaks' \in [Variants -> Nat]
      /\ \A v \in Variants :
           /\ spec[v] <= Peaks[v]
           /\ gauge[v] # NoSeries => Clamp(v, gauge[v]) <= Peaks[v]
           /\ target[v] # NoDecision => Clamp(v, target[v]) <= Peaks[v]
  BY <1>t, <1>s, PeakFacts, PeakNext
\* What the step must show
<1>g. ASSUME \A v \in Variants : ready'[v] <= status'[v],
             phase' \in {"prepare", "collect", "analyze"} =>
               \A v \in Variants : gauge'[v] # NoSeries => Clamp(v, gauge'[v]) = spec'[v],
             phase' = "analyze" => ScalesWithCause',
             \A role \in Roles : Allowed(role, Total(Peaks', role))
      PROVE  OverInv'
  <2>1. \A v \in Variants : Clamp(v, gauge[v])' = Clamp(v, gauge'[v])
    BY <1>s DEF Clamp, MinReplicas, MaxReplicas, PodLimit
  <2>2. Roles' = Roles /\ Loads' = Loads
    BY <1>s DEF Roles, Role, Loads
  <2>3. \A role : Allowed(role, Total(Peaks, role))' <=> Allowed(role, Total(Peaks', role))
    BY <1>s, <2>2, TotalNext DEF Allowed, Enough
  <2> QED BY <1>g, <2>1, <2>2, <2>3 DEF OverInv
<1>m. ASSUME \A v \in Variants :
               /\ spec'[v] <= Peaks[v]
               /\ gauge'[v] # NoSeries => Clamp(v, gauge'[v]) <= Peaks[v]
               /\ target'[v] # NoDecision => Clamp(v, target'[v]) <= Peaks[v]
      PROVE  \A role \in Roles : Allowed(role, Total(Peaks', role))
  <2>1. SUFFICES ASSUME NEW role \in Roles PROVE Allowed(role, Total(Peaks', role))
    OBVIOUS
  <2>2. \A v \in Variants : Peaks'[v] <= Peaks[v]
    BY <1>t, <1>s, <1>p, <1>m, PeakNext
  <2>3. Total(Peaks', role) <= Total(Peaks, role)
    BY <1>p, <2>2, TotalMonotone, TotalSum
  <2>4. Total(Peaks', role) \in Nat /\ Total(Peaks, role) \in Nat
    BY <1>p, TotalNatural
  <2> QED BY <1>t, <1>a, <1>o, <2>3, <2>4, AllowedFewer
<1>u. ASSUME UNCHANGED <<spec, gauge, target>>
      PROVE  \A role \in Roles : Allowed(role, Total(Peaks', role))
  BY <1>m, <1>p, <1>u
<1>1. CASE Collect
  <2>1. /\ UNCHANGED <<spec, gauge, target, status, ready>> /\ phase' = "prepare"
        /\ \A v \in Variants : Settled(v)
    BY <1>1, <1>a DEF Collect, world
  <2>2. \A v \in Variants : gauge[v] # NoSeries => Clamp(v, gauge[v]) = spec[v]
    BY <1>z, <2>1 DEF Settled
  <2> QED BY <1>g, <1>o, <1>u, <2>1, <2>2
<1>2. ~SkipModel
  BY <1>a DEF SkipModel
<1>3. CASE FetchScaleTargets
  <2>1. /\ UNCHANGED <<spec, gauge, target, status, ready>> /\ phase = "prepare" /\ phase' = "collect"
    BY <1>3 DEF FetchScaleTargets, world
  <2> QED BY <1>g, <1>o, <1>u, <2>1
<1>4. CASE PrepareFails
  <2>1. phase = "collect" /\ phase' = "apply" /\ UNCHANGED <<status, ready>>
    BY <1>4 DEF PrepareFails, world
  <2>2. Reporting = {}
    BY <1>4, <1>a, <1>r DEF PrepareFails
  <2>3. DOMAIN fetched = active
    BY <1>a, <2>1 DEF ZeroInv
  <2>4. Variants = {}
    BY <1>z, <2>1, <2>2, <2>3 DEF Reporting
  <2>5. Roles = {}
    BY <2>4 DEF Roles
  <2> QED BY <1>g, <1>o, <2>1, <2>4, <2>5
<1>5. CASE CollectMetrics
  <2>1. /\ UNCHANGED <<spec, gauge, target, status, ready>> /\ phase = "collect" /\ phase' = "analyze"
    BY <1>5 DEF CollectMetrics, world
  <2>2. ScalesWithCause'
    BY <1>5, <1>k, CollectedCause DEF LoadInv
  <2> QED BY <1>g, <1>o, <1>u, <2>1, <2>2
<1>6. CASE AnalyzeRoleGroups
  <2>1. UNCHANGED <<status, ready>> /\ phase' = "enforce"
    BY <1>6 DEF AnalyzeRoleGroups, world
  <2>2. \A role \in Roles : Allowed(role, Total(Peaks', role))
    BY <1>6, <1>k, <1>s, AnalyzeOver
  <2> QED BY <1>g, <1>o, <2>1, <2>2
<1>7. ~EnforceZero
  BY <1>a DEF EnforceZero, Awake
<1>8. CASE Enforce
  <2>1. /\ phase = "enforce" /\ phase' = "limit" /\ target' \in {AtLeastOne, target}
        /\ UNCHANGED <<spec, gauge, status, ready>>
    BY <1>8 DEF Enforce, world
  <2>2. PICK v \in Variants : v \in Decided
    BY <2>1 DEF CycleInv, Decided
  <2>3. target[v] > 0
    BY <1>t, <1>z, <2>2, SMT DEF Decided
  <2>4. AtLeastOne = target
    BY <2>2, <2>3 DEF AtLeastOne
  <2> QED BY <1>g, <1>o, <1>u, <2>1, <2>4
<1>9. CASE Limit
  <2>1. phase = "limit" /\ phase' = "apply" /\ UNCHANGED <<spec, gauge, status, ready>>
    BY <1>9 DEF Limit, world
  <2>2. \A v \in Variants : target'[v] # NoDecision => Clamp(v, target'[v]) <= Peaks[v]
    <3>1. CASE ~Limiter
      BY <1>9, <1>p, <3>1 DEF Limit
    <3>2. CASE Limiter
      <4>1. PICK t \in [Decided -> Counts] : /\ \A v \in Decided : t[v] \in LimitedTargets(v)
                                             /\ target' = Over(t, target)
        BY <1>9, <3>2 DEF Limit
      <4>2. \A v \in Variants \ Decided : target'[v] = target[v]
        BY <1>t, <4>1 DEF Over
      <4>3. ASSUME NEW v \in Decided, target'[v] # NoDecision PROVE Clamp(v, target'[v]) <= Peaks[v]
        <5>1. target'[v] = t[v] /\ v \in Variants /\ target[v] \in Nat /\ target[v] # NoDecision
          BY <1>t, <4>1, <4>3 DEF Over, Decided
        <5>2. t[v] \in Nat
          BY <4>3, <5>1 DEF TypeInv
        <5>3. StateOf(v, state[v])
          BY <2>1, <4>3 DEF CycleInv
        <5>4. t[v] <= target[v] \/ t[v] <= MinReplicas[v]
          BY <4>1, <4>3, <5>3, LimitedFacts
        <5>5. t[v] <= target[v] => Clamp(v, t[v]) <= Clamp(v, target[v])
          BY <1>t, <5>1, <5>2, ClampMonotone
        <5>6. /\ Clamp(v, t[v]) \in Nat /\ Clamp(v, target[v]) \in Nat
              /\ Clamp(v, t[v]) <= t[v] \/ Clamp(v, t[v]) = MinReplicas[v]
          BY <1>t, <5>1, <5>2, ClampFacts
        <5>7. /\ Clamp(v, target[v]) <= Peaks[v] /\ spec[v] <= Peaks[v] /\ Peaks[v] \in Nat
              /\ MinReplicas[v] <= spec[v] /\ MinReplicas[v] \in Nat /\ spec[v] \in Nat
          BY <1>t, <1>n, <1>p, <5>1
        <5>8. Clamp(v, t[v]) <= Peaks[v]
          BY <5>2, <5>4, <5>5, <5>6, <5>7, SMT
        <5> QED BY <5>1, <5>8
      <4> QED BY <1>p, <4>2, <4>3
    <3> QED BY <3>1, <3>2
  <2>3. \A role \in Roles : Allowed(role, Total(Peaks', role))
    BY <1>m, <1>p, <2>1, <2>2
  <2> QED BY <1>g, <1>o, <2>1, <2>3
<1>10. ASSUME NEW v \in Variants, Apply(v) PROVE OverInv'
  <2> DEFINE n == IF target[v] # NoDecision THEN target[v] ELSE spec[v]
  <2>1. phase = "apply" /\ Publish(v, n)
    BY <1>10 DEF Apply
  <2>2. n \in Nat /\ Clamp(v, n) <= Peaks[v]
    <3>1. CASE target[v] # NoDecision
      BY <1>t, <1>p, <3>1
    <3>2. CASE target[v] = NoDecision
      <4>1. n = spec[v] /\ spec[v] \in Nat /\ Peaks[v] \in Nat /\ spec[v] <= Peaks[v]
        BY <1>t, <1>p, <3>2
      <4>2. Clamp(v, spec[v]) \in Nat /\ (Clamp(v, spec[v]) <= spec[v] \/ Clamp(v, spec[v]) = MinReplicas[v])
        BY <1>t, <4>1, ClampFacts
      <4>3. MinReplicas[v] <= spec[v] /\ MinReplicas[v] \in Nat
        BY <1>n
      <4> HIDE DEF n
      <4>4. Clamp(v, spec[v]) <= Peaks[v]
        BY <4>1, <4>2, <4>3, SMT
      <4> QED BY <4>1, <4>4
    <3> QED BY <3>1, <3>2
  <2> HIDE DEF n
  <2>3. UNCHANGED <<spec, status, ready>> /\ gauge' = [gauge EXCEPT ![v] = n]
    BY <2>1 DEF Publish, world
  <2>4. \/ phase' = "idle" /\ target' = Undecided
        \/ phase' = "apply" /\ target' = target
    BY <2>1 DEF Publish
  <2>5. \A u \in Variants : gauge'[u] # NoSeries => Clamp(u, gauge'[u]) <= Peaks[u]
    BY <1>t, <1>p, <2>2, <2>3
  <2>6. \A u \in Variants : target'[u] # NoDecision => Clamp(u, target'[u]) <= Peaks[u]
    BY <1>p, <2>4 DEF Undecided
  <2>7. \A role \in Roles : Allowed(role, Total(Peaks', role))
    BY <1>m, <1>p, <2>3, <2>5, <2>6
  <2> QED BY <1>g, <1>o, <2>3, <2>4, <2>7
<1>11. ASSUME NEW v \in Variants PROVE ~ApplyUnread(v)
  BY <1>a DEF ApplyUnread
<1>12. ASSUME NEW v \in Variants, ScalerSync(v) PROVE OverInv'
  <2>1. /\ UNCHANGED <<status, ready, gauge, target>> /\ phase' = "idle"
        /\ spec' = [spec EXCEPT ![v] = Clamp(v, gauge[v])] /\ gauge[v] # NoSeries
    BY <1>12, <1>a DEF ScalerSync, BetweenCycles, cycle
  <2>2. \A u \in Variants : spec'[u] <= Peaks[u]
    BY <1>t, <1>p, <2>1
  <2>3. \A role \in Roles : Allowed(role, Total(Peaks', role))
    BY <1>m, <1>p, <2>1, <2>2
  <2> QED BY <1>g, <1>o, <2>1, <2>3
<1>13. ASSUME NEW v \in Variants, PodsSettle(v) PROVE OverInv'
  <2>1. /\ UNCHANGED <<spec, gauge, target>> /\ phase' = "idle"
        /\ status' = [status EXCEPT ![v] = spec[v]]
        /\ ready' = [ready EXCEPT ![v] = IF @ < spec[v] THEN @ ELSE spec[v]]
    BY <1>13, <1>a DEF PodsSettle, BetweenCycles, cycle
  <2>2. \A u \in Variants : ready'[u] <= status'[u]
    BY <1>t, <1>o, <2>1, SMT
  <2> QED BY <1>g, <1>u, <2>1, <2>2
<1>w. ASSUME UNCHANGED <<spec, gauge, cycle>>, \A v \in Variants : ready'[v] <= status'[v]
      PROVE  OverInv'
  <2>1. UNCHANGED <<phase, state, metrics, target>>
    BY <1>w DEF cycle
  <2>2. ScalesWithCause' <=> ScalesWithCause
    <3>1. Role' = Role /\ Roles' = Roles /\ Loads' = Loads
      BY <1>s DEF Role, Roles, Loads
    <3>2. \A role : RoleMetrics(role)' = RoleMetrics(role)
      BY <2>1, <3>1 DEF RoleMetrics
    <3>3. \A role : RoleOf(role)' = RoleOf(role) /\ Total(spec, role)' = Total(spec, role)
      BY <1>s, <1>w, TotalNext
    <3> QED BY <2>1, <3>1, <3>2, <3>3 DEF ScalesWithCause, Enough
  <2> QED BY <1>g, <1>o, <1>u, <1>w, <2>1, <2>2
<1>14. ASSUME NEW v \in Variants, PodReady(v) PROVE OverInv'
  <2>1. /\ UNCHANGED <<spec, status, gauge, cycle>> /\ ready' = [ready EXCEPT ![v] = @ + 1]
        /\ ready[v] < status[v]
    BY <1>14 DEF PodReady
  <2>2. \A u \in Variants : ready'[u] <= status'[u]
    BY <1>t, <1>o, <2>1, SMT
  <2> QED BY <1>w, <2>1, <2>2
<1>15. ASSUME NEW v \in Variants PROVE ~Wake(v)
  BY <1>z, <1>t, SMT DEF Wake
<1>16. CASE LoadChange \/ UNCHANGED vars
  <2>1. UNCHANGED <<spec, status, ready, gauge, cycle>>
    BY <1>16 DEF LoadChange, vars, cycle
  <2> QED BY <1>o, <1>w, <2>1
<1> QED BY <1>1, <1>2, <1>3, <1>4, <1>5, <1>6, <1>7, <1>8, <1>9, <1>10, <1>11, <1>12, <1>13, <1>14,
           <1>15, <1>16 DEF Next

\* In an orderly cluster whose variants start with replicas and are not put to
\* sleep, a role never has more replicas than it began with or some load needs:
\* NoOvershoot, for any variants, bounds, costs, loads and thresholds. (A
\* variant that sleeps is woken by another engine, which does not look at the
\* replicas of the others.)
THEOREM NothingOvershoots ==
  Spec => [](~ScaleToZero /\ (\A v \in Variants : Start[v] > 0) => NoOvershoot)
<1>1. TypeInv /\ OverInv => (~ScaleToZero /\ (\A v \in Variants : Start[v] > 0) => NoOvershoot)
  <2> SUFFICES ASSUME TypeInv, OverInv, Kept, NEW role \in Roles, Total(spec, role) > Total(Start, role)
               PROVE  \E l \in Loads : ~Enough(l, role, Total(spec, role) - 1)
    BY DEF NoOvershoot, Kept
  <2>1. setup \in Setups /\ spec \in [Variants -> Nat]
    BY DEF TypeInv
  <2>2. Total(Start, role) \in Nat /\ Total(Start, role) > 0
    BY <2>1, KeptFacts
  <2>3. Peaks \in [Variants -> Nat] /\ \A v \in Variants : spec[v] <= Peaks[v]
    BY PeakFacts
  <2>4. Total(spec, role) <= Total(Peaks, role)
    BY <2>1, <2>3, TotalMonotone, TotalSum
  <2>5. Total(spec, role) \in Nat /\ Total(Peaks, role) \in Nat
    BY <2>1, <2>3, TotalNatural
  <2>6. Allowed(role, Total(Peaks, role))
    BY DEF OverInv
  <2>7. Allowed(role, Total(spec, role))
    BY <2>1, <2>2, <2>4, <2>5, <2>6, AllowedFewer
  <2> QED BY <2>2, <2>5, <2>7, SMT DEF Allowed
<1>2. Init => LoadInv
  BY DEF Init, LoadInv
<1> QED BY <1>1, <1>2, InitPrompt, NextPrompt, InitZero, NextZero, InitOver, NextOver, NextLoad,
           SpecBase, PTL DEF Spec
=============================================================================
