----------------------------- MODULE OptimizerV2 -----------------------------
(***************************************************************************)
(* The V2 optimization cycle (internal/engines/saturation, optimizeV2 from   *)
(* its requests on, and internal/engines/pipeline): requests of all models,  *)
(* GPU constraints, the cost-aware or the greedy optimizer with its rescale  *)
(* pass, and the replicas that result, cycle after cycle.                    *)
(*                                                                         *)
(* A behaviour keeps one "setup" and one demand.  The optimizer keeps no     *)
(* state between cycles, and every replica count is an initial state, so     *)
(* a change of demand is a new initial state.  A variant that is scaled to   *)
(* zero leaves the requests (ActiveVariantAutoscaling) and stays away.       *)
(***************************************************************************)
EXTENDS Rescale, Functions, TLC

CONSTANTS
  Setups,      \* what the operator has deployed and configured, see SetupOK
  Unit,        \* a unit of demand, in the measure of the capacities
  Up, Down     \* Unit/scaleUpThreshold and Unit/scaleDownBoundary

Analyzers == {Saturation, "throughput"}

SetupOK(s) ==
  LET V == DOMAIN s.role
  IN  /\ V \subseteq Nat /\ UNION Range(s.of) = V
      /\ \A f \in {s.gpus, s.min, s.max, s.cost} : DOMAIN f = V /\ Range(f) \subseteq Nat
      /\ \A v \in V : s.gpus[v] > 0 /\ s.max[v] # 0 => s.min[v] <= s.max[v]
      /\ DOMAIN s.of \subseteq Nat /\ DOMAIN s.priority = DOMAIN s.of /\ DOMAIN s.ns = DOMAIN s.of
      /\ s.optimizer \in {"cost", "greedy"}
      /\ DOMAIN s.prc = Analyzers /\ DOMAIN s.score = Analyzers
      /\ s.enabled \cup s.live \subseteq Analyzers
      /\ s.stored \subseteq V

ASSUME ConfigAssumption ==
  /\ Unit \in Nat /\ Up \in Nat /\ Down \in Nat /\ 0 < Unit /\ Unit <= Up /\ Up <= Down
  /\ \A s \in Setups : SetupOK(s)

VARIABLES
  setup, demand,      \* the scenario; [model -> [analyzer -> [role -> units]]]
  cur, ready,         \* replicas and ready replicas
  phase,              \* "idle", "rescale", "share" or "actuate"
  reqs,               \* [models of the cycle -> request]
  optimizer,          \* the optimizer of this cycle (selectV2Optimizer)
  avail, availNS,     \* budgets: [type -> GPUs] and [namespace -> [type -> GPUs]]
  groups,             \* rescale groups still to do
  handled,            \* models the rescale pass has decided
  work,               \* scale-up work: [model -> [left, remaining]]
  sel,                \* the model being allocated to, << >> for none
  targets,            \* the decisions: [variant -> replicas]
  plan,               \* the last rescale plan (history)
  shrunk              \* model and role pairs that scaled down (history)

world == <<setup, demand, cur, ready>>
vars == <<world, phase, reqs, optimizer, avail, availNS, groups, handled, work, sel, targets, plan, shrunk>>

Variants == DOMAIN setup.role
Models == DOMAIN setup.of
NoSel == << >>

(***************************************************************************)
(* The ballot of a model.  Only a variant with a ready replica has metrics,  *)
(* which alone carry its cost and accelerator; its capacity may also be      *)
(* known from the capacity store.                                            *)
(***************************************************************************)
ActiveVariants(m) == {v \in setup.of[m] : cur[v] > 0}
Known(a, v) == a \in setup.live /\ (ready[v] > 0 \/ v \in setup.stored)

AnalyzerEntry(m, a) ==
  LET S     == ActiveVariants(m) \cap DOMAIN setup.prc[a]
      prc   == [v \in S |-> IF Known(a, v) THEN setup.prc[a][v] ELSE 0]
      roles == {setup.role[v] : v \in ActiveVariants(m)}
      supply(r, n) == SumOver({v \in S : setup.role[v] = r}, LAMBDA v : n[v] * prc[v])
  IN  [enabled |-> a \in setup.enabled, live |-> a \in setup.live, score |-> setup.score[a],
       vcs |-> [v \in S |-> [prc |-> prc[v], data |-> Known(a, v),
                  acc |-> IF ready[v] > 0 THEN setup.acc[v] ELSE "",
                  cost |-> IF ready[v] > 0 THEN setup.cost[v] ELSE 0]],
       demand |-> [r \in roles |-> Unit * demand[m][a][r]],
       required |-> [r \in roles |-> Monus(Up * demand[m][a][r], supply(r, cur))],
       spare |-> [r \in roles |-> Monus(supply(r, ready), Down * demand[m][a][r])]]

collectV2ModelRequest(m) ==
  [results |-> [a \in Analyzers |-> AnalyzerEntry(m, a)],
   states |-> [v \in ActiveVariants(m) |->
      [cur |-> cur[v], ready |-> ready[v], gpus |-> setup.gpus[v], min |-> setup.min[v],
       max |-> setup.max[v], role |-> setup.role[v]]],
   disaggregated |-> \E v \in ActiveVariants(m) : setup.role[v] # "both",
   priority |-> setup.priority[m], model |-> m, ns |-> setup.ns[m]]

\* A model without a ready replica has no metrics and is skipped.
Requested == {m \in Models : \E v \in ActiveVariants(m) : ready[v] > 0}

(***************************************************************************)
(* GPU constraints.  Usage is counted under the accelerator the saturation   *)
(* result names.  A provider is a cluster quota or inventory, or a           *)
(* namespace quota that lists the namespaces it closes; -1 is unlimited.     *)
(***************************************************************************)
UsedBy(R, acc) ==
  SumOver(DOMAIN R, LAMBDA m : SumOver({v \in DOMAIN R[m].results[Saturation].vcs :
      R[m].results[Saturation].vcs[v].acc = acc}, LAMBDA v : R[m].states[v].cur * R[m].states[v].gpus))
computeCurrentGPUUsage(R, acc) == UsedBy(R, acc)
computeCurrentGPUUsageByNamespace(R, ns, acc) ==
  UsedBy(RestrictDomain(R, LAMBDA m : R[m].ns = ns), acc)

Available(pool) == Monus(pool.limit, pool.used)

aggregateNamespacePools(pools) ==
  LET finite(acc) == {ns \in DOMAIN pools : acc \in DOMAIN pools[ns] /\ pools[ns][acc].limit >= 0}
      types == {acc \in UNION {DOMAIN pools[ns] : ns \in DOMAIN pools} : finite(acc) # {}}
  IN  [acc \in types |-> [limit |-> SumOver(finite(acc), LAMBDA ns : pools[ns][acc].limit),
                          used  |-> SumOver(finite(acc), LAMBDA ns : pools[ns][acc].used)]]

ComputeConstraints(p, R) ==
  LET nsPool(ns) == [acc \in DOMAIN p.caps[ns] |->
                       [limit |-> p.caps[ns][acc], used |-> computeCurrentGPUUsageByNamespace(R, ns, acc)]]
      closed == {ns \in DOMAIN p.caps : \E m \in DOMAIN R : R[m].ns = ns}
      nsPools(S) == [ns \in S |-> nsPool(ns)]
  IN  IF p.scope = "cluster"
      THEN [pools   |-> [acc \in DOMAIN p.caps |-> [limit |-> p.caps[acc], used |-> computeCurrentGPUUsage(R, acc)]],
            nsPools |-> << >>]
      ELSE [pools   |-> aggregateNamespacePools(nsPools(IF closed = {} THEN DOMAIN p.caps ELSE closed)),
            nsPools |-> nsPools(closed)]

mergeConstraints(C) ==
  [acc \in UNION {DOMAIN c.pools : c \in C} |->
     Min({Unbounded} \cup {Available(c.pools[acc]) : c \in {d \in C :
            acc \in DOMAIN d.pools /\ d.pools[acc].limit >= 0}})]

mergeNamespaceConstraints(C) ==
  [ns \in UNION {DOMAIN c.nsPools : c \in C} |->
     LET D == {c \in C : ns \in DOMAIN c.nsPools}
     IN  [acc \in UNION {DOMAIN c.nsPools[ns] : c \in D} |->
            LET finite == {c \in D : acc \in DOMAIN c.nsPools[ns] /\ c.nsPools[ns][acc].limit >= 0}
            IN  IF finite = {} THEN -1 ELSE Min({Available(c.nsPools[ns][acc]) : c \in finite})]]

(***************************************************************************)
(* The cycle.                                                                *)
(***************************************************************************)
Init ==
  /\ setup \in Setups /\ demand \in setup.demands
  /\ cur \in {f \in [Variants -> UNION Range(setup.counts)] : \A v \in Variants : f[v] \in setup.counts[v]}
  /\ ready \in {f \in [Variants -> 0..Max(UNION Range(setup.counts))] : \A v \in Variants :
                  f[v] <= cur[v] /\ (v \notin setup.unready => f[v] = cur[v])}
  /\ phase = "idle" /\ reqs = << >> /\ optimizer = setup.optimizer
  /\ avail = << >> /\ availNS = << >> /\ groups = {} /\ handled = {}
  /\ work = << >> /\ sel = NoSel /\ targets = cur /\ plan = << >> /\ shrunk = {}

Anchor(m) == bindingAnchor(reqs[m])

\* The competition group of a model: the one accelerator type of its variants
\* and the budget it is served from ("" for the cluster's).
GroupOf(q, byNS) ==
  LET anchor == bindingAnchor(q)
      scope  == IF q.ns \in DOMAIN byNS THEN q.ns ELSE ""
  IN  {<<acc, scope>> : acc \in {a \in AccTypes(anchor) :
         AccTypes(anchor) = {a} /\ scope \in setup.rescale}}

\* Collects the requests and selects the optimizer: without any constraint the
\* greedy one would deny everything, so the cost-aware one takes its place.
selectV2Optimizer ==
  /\ phase = "idle" /\ Requested # {}
  /\ \E answering \in IF setup.flaky THEN SUBSET setup.providers ELSE {setup.providers} :
       LET R == [m \in Requested |-> collectV2ModelRequest(m)]
           C == {ComputeConstraints(p, R) : p \in answering}
           greedy == setup.optimizer = "greedy" /\ C # {}
       IN  /\ reqs' = R
           /\ optimizer' = IF greedy THEN "greedy" ELSE "cost"
           /\ avail' = IF greedy THEN mergeConstraints(C) ELSE << >>
           /\ availNS' = IF greedy THEN mergeNamespaceConstraints(C) ELSE << >>
           /\ groups' = IF greedy THEN UNION {GroupOf(R[m], availNS') : m \in DOMAIN R} ELSE {}
  /\ targets' = cur /\ phase' = "rescale"
  /\ UNCHANGED <<world, handled, work, sel, plan, shrunk>>

GroupBefore(g, h) ==
  \/ setup.order[g[1]] < setup.order[h[1]]
  \/ g[1] = h[1] /\ setup.order[g[2]] < setup.order[h[2]]

Finite(f, x) == x \in DOMAIN f /\ f[x] # Unbounded

\* Highest priority first: the GPUs free in this cycle are scarce.
ServeFirst(members) ==
  SetToSortSeq(members, LAMBDA m, n : \/ setup.priority[m] > setup.priority[n]
                                      \/ setup.priority[m] = setup.priority[n] /\ m < n)

\* The models of a group and the GPUs it may still be given.
Members(g) == {m \in DOMAIN reqs : GroupOf(reqs[m], availNS) = {g}}
Free(g) == IF g[2] = "" THEN At(avail, g[1]) ELSE At(availNS[g[2]], g[1])
Fillable(g) == IF g[2] # "" /\ Finite(avail, g[1]) THEN Min({Free(g), avail[g[1]]}) ELSE Free(g)
Budget(g) == Free(g) + SumOver(Members(g), LAMBDA m : modelCurrentGPUs(reqs[m], Anchor(m), g[1]))
Wanted(g) == SumOver(Members(g), LAMBDA m : modelDemandGPUs(reqs[m], Anchor(m), g[1]))
Contended(g) == Free(g) >= 0 /\ Free(g) # Unbounded /\ Wanted(g) > Budget(g)

RescalePlan(in, budget) == [in |-> in, budget |-> budget, goal |-> computeRescaleTargets(in, budget)]

\* Drives the models of the group to their goals.
Rescaled(g, goal) ==
  FoldLeft(LAMBDA s, m :
             LET d == rescaleModelDecisions(reqs[m], Anchor(m), g[1], goal[m], s.free)
             IN  [targets |-> d.targets @@ s.targets, free |-> d.free],
           [targets |-> targets, free |-> Fillable(g)], ServeFirst(Members(g)))

Draw(budgets, acc, n) == IF Finite(budgets, acc) THEN [budgets EXCEPT ![acc] = @ - n] ELSE budgets

\* One group of applyRescale.
RescaleGroup(g) ==
  /\ phase = "rescale" /\ g \in groups
  /\ \A h \in groups \ {g} : GroupBefore(g, h)
  /\ groups' = groups \ {g}
  /\ IF ~Contended(g)
     THEN UNCHANGED <<targets, handled, avail, availNS, plan>>
     ELSE \E budget \in {Budget(g)} :
            /\ plan' = RescalePlan([m \in Members(g) |->
                                      rescaleInput(reqs[m], Anchor(m), g[1], budget)], budget)
            /\ \E done \in {Rescaled(g, plan'.goal)} :
                 /\ targets' = done.targets
                 /\ avail' = Draw(avail, g[1], Fillable(g) - done.free)
                 /\ availNS' = IF g[2] = "" THEN availNS
                               ELSE [availNS EXCEPT ![g[2]] = Draw(@, g[1], Fillable(g) - done.free)]
            /\ handled' = handled \cup Members(g)
  /\ UNCHANGED <<world, phase, reqs, optimizer, work, sel, shrunk>>

fairShareValue(q, ps) ==
  LET roleSum(a) == SumOver(DOMAIN ps[a], LAMBDA r : ps[a][r])
      weighted   == q.priority * SumOver(DOMAIN ps, LAMBDA a : q.results[a].score * roleSum(a))
  IN  IF weighted > 0 THEN weighted
      ELSE Max({0} \cup {roleAggRemaining(ps, r) : r \in VotingRoles(q)})

StartLeft(q) == [a \in votingResults(q) |-> At(q.results[a].required, "both")]

\* Sorts the models that are not decided yet into scale-up work and the rest.
Classify ==
  LET ps(m) == initRoleState(reqs[m], StartLeft(reqs[m]))
      up == {m \in DOMAIN reqs \ handled : Anchor(m) # NoAnchor /\ anyRoleNeedsScaleUp(ps(m))}
  IN  /\ phase = "rescale" /\ groups = {}
      /\ work' = [m \in up |-> [left |-> StartLeft(reqs[m]), remaining |-> fairShareValue(reqs[m], ps(m))]]
      /\ phase' = "share"
      /\ UNCHANGED <<world, reqs, optimizer, avail, availNS, groups, handled, sel, targets, plan, shrunk>>

\* mutant: a closed namespace is served from the cluster's budget
ClusterOnly(nss) == avail

\* The per-type budget for a namespace: its own list when it is closed.
effectiveAvailable(nss) ==
  IF nss \notin DOMAIN availNS THEN avail
  ELSE [acc \in DOMAIN availNS[nss] |->
          LET cap == availNS[nss][acc]
          IN  IF cap < 0 THEN IF acc \in DOMAIN avail THEN avail[acc] ELSE Unbounded
              ELSE IF acc \in DOMAIN avail THEN Min({cap, avail[acc]}) ELSE cap]

filterActive == {m \in DOMAIN work : work[m].remaining > 0}
SumRemaining == SumOver(filterActive, LAMBDA m : work[m].remaining)
\* The code divides floats.  Here every division must be exact: a quotient that
\* is not a whole number has no value, and TLC stops at it.
Quotient(a, n) == CASE a % n = 0 -> a \div n
computeMean == Quotient(SumRemaining, Cardinality(filterActive))
TotalGPUs == IF Unbounded \in Range(avail) THEN Unbounded ELSE SumOver(DOMAIN avail, LAMBDA a : avail[a])

\* Where the most pressing model is brought down to.
AllocationMean(m) ==
  LET n == Cardinality(filterActive)
  IN  IF n = 1 THEN 0
      ELSE IF work[m].remaining <= computeMean THEN computeMean - Quotient(work[m].remaining, n)
      ELSE computeMean

\* The cost-aware optimizer takes the models as they come, without a budget.
VisitByCost(m) ==
  /\ phase = "share" /\ optimizer = "cost" /\ sel = NoSel /\ m \in filterActive
  /\ sel' = [model |-> m, ps |-> initRoleState(reqs[m], work[m].left), target |-> Unbounded,
             mean |-> 0, eff |-> << >>]
  /\ UNCHANGED <<world, phase, reqs, optimizer, avail, availNS, groups, handled, work, targets, plan, shrunk>>

\* One iteration of fairShareScaleUp up to the allocation: the model with most
\* left to serve gets what brings it to the mean of all.
VisitByScore(m) ==
  LET target == work[m].remaining - AllocationMean(m)
      ps     == initRoleState(reqs[m], work[m].left)
  IN  /\ phase = "share" /\ optimizer = "greedy" /\ sel = NoSel /\ TotalGPUs # 0
      /\ m \in filterActive /\ \A n \in filterActive : work[n].remaining <= work[m].remaining
      /\ sel' = [model |-> m, target |-> target, mean |-> computeMean,
                 ps  |-> [a \in DOMAIN ps |-> [r \in DOMAIN ps[a] |-> Min({ps[a][r], target})]],
                 eff |-> effectiveAvailable(setup.ns[m])]
      /\ UNCHANGED <<world, phase, reqs, optimizer, avail, availNS, groups, handled, work, targets, plan, shrunk>>

\* What each role would take next; no pick for one role means none at all.
RolePicks(role) ==
  LET m == sel.model
  IN  IF optimizer = "cost" THEN costGreedyRolePick(reqs[m], Anchor(m), targets, role)
      ELSE fairShareRolePick(reqs[m], Anchor(m), targets, sel.eff, sel.target, role)
AllPicked == \A role \in VotingRoles(reqs[sel.model]) : RolePicks(role) # {}
Picked == [role \in VotingRoles(reqs[sel.model]) |-> CHOOSE x \in RolePicks(role) : TRUE]
Asked == AskedFor(reqs[sel.model], sel.ps, Picked)
Replicas(slips) == JointReplicas(Anchor(sel.model), sel.ps, Picked, Asked, slips)

CanCommit ==
  /\ anyRoleNeedsScaleUp(sel.ps) /\ AllPicked
  /\ JointShare(Anchor(sel.model), sel.ps, Picked, Asked).num > 0
  /\ \E role \in DOMAIN Picked : Replicas({})[role] > 0

GPUsTaken(k, acc) ==
  SumOver({r \in DOMAIN Picked : Anchor(sel.model)[Picked[r].v].acc = acc},
          LAMBDA r : k[r] * setup.gpus[Picked[r].v])

\* One round of allocateForModelPaired.
JointCommit(slips) ==
  LET m == sel.model
      k == Replicas(slips)
      growth(v) == SumOver({r \in DOMAIN Picked : Picked[r].v = v}, LAMBDA r : k[r])
  IN  /\ phase = "share" /\ sel # NoSel /\ CanCommit
      /\ targets' = [v \in Variants |-> targets[v] + growth(v)]
      /\ sel' = [sel EXCEPT !.ps  = AfterCommit(Anchor(m), @, Picked, k),
                            !.eff = [acc \in DOMAIN @ |-> @[acc] - GPUsTaken(k, acc)]]
      /\ work' = [work EXCEPT ![m].left =
           IF Charged(Picked) = {} THEN @
           ELSE LET r == CHOOSE x \in Charged(Picked) : TRUE
                IN  applyAllocation(reqs[m], @, Picked[r].v, k[r])]
      /\ UNCHANGED <<world, phase, reqs, optimizer, avail, availNS, groups, handled, plan, shrunk>>

\* mutant: a model that got nothing stays in the round
NeverDropped(lacks, before, mean) == IF optimizer = "cost" THEN -1 ELSE lacks

\* A model that got nothing, or is still above the mean, drops out.
RemainingAfter(lacks, before, mean) ==
  IF optimizer = "cost" \/ lacks >= before \/ lacks > mean THEN -1 ELSE lacks

\* The rounds are over: charge the budgets, and see what the model still lacks.
EndAllocation ==
  LET m     == sel.model
      ns    == setup.ns[m]
      spent == [acc \in DOMAIN sel.eff |-> effectiveAvailable(ns)[acc] - sel.eff[acc]]
      ps    == IF VotingRoles(reqs[m]) = {"both"} THEN initRoleState(reqs[m], work[m].left) ELSE sel.ps
      lacks == fairShareValue(reqs[m], ps)
  IN  /\ phase = "share" /\ sel # NoSel /\ ~CanCommit
      /\ avail' = [acc \in DOMAIN avail |->
           IF avail[acc] = Unbounded THEN Unbounded ELSE avail[acc] - At(spent, acc)]
      /\ availNS' = [n \in DOMAIN availNS |-> [acc \in DOMAIN availNS[n] |->
           IF n = ns /\ availNS[n][acc] >= 0 THEN availNS[n][acc] - At(spent, acc) ELSE availNS[n][acc]]]
      /\ work' = [work EXCEPT ![m].remaining = RemainingAfter(lacks, @, sel.mean)]
      /\ sel' = NoSel
      /\ UNCHANGED <<world, phase, reqs, optimizer, groups, handled, targets, plan, shrunk>>

\* The models that need no more may shrink.
ScaleDownOthers ==
  LET others == {m \in DOMAIN reqs \ (handled \cup DOMAIN work) : Anchor(m) # NoAnchor}
      owner(v) == {m \in others : v \in DOMAIN reqs[m].states}
  IN  /\ phase = "share" /\ sel = NoSel
      /\ filterActive = {} \/ (optimizer = "greedy" /\ TotalGPUs = 0)
      /\ targets' = [v \in Variants |->
           IF owner(v) = {} THEN targets[v]
           ELSE LET m == CHOOSE x \in owner(v) : TRUE IN scaleDownRoleIterated(reqs[m], Anchor(m))[v]]
      /\ phase' = "actuate"
      /\ UNCHANGED <<world, reqs, optimizer, avail, availNS, groups, handled, work, sel, plan, shrunk>>

\* The external scaler applies the decisions; pods that are not ready go first.
Actuate ==
  /\ phase = "actuate"
  /\ cur' = targets
  /\ ready' = [v \in Variants |-> Min({ready[v], targets[v]})]
  /\ shrunk' = shrunk \cup {<<m, setup.role[v]>> : <<m, v>> \in
                 {<<m, v>> \in (Models \ handled) \X Variants : v \in setup.of[m] /\ targets[v] < cur[v]}}
  /\ phase' = "idle" /\ reqs' = << >> /\ avail' = << >> /\ availNS' = << >>
  /\ handled' = {} /\ work' = << >> /\ plan' = << >>
  /\ optimizer' = setup.optimizer
  /\ UNCHANGED <<setup, demand, groups, sel, targets>>

\* External: a replica becomes ready between two cycles.
PodReady(v) ==
  /\ phase = "idle" /\ ready[v] < cur[v]
  /\ ready' = [ready EXCEPT ![v] = @ + 1]
  /\ UNCHANGED <<setup, demand, cur, phase, reqs, optimizer, avail, availNS, groups, handled, work, sel, targets, plan, shrunk>>

EngineStep ==
  \/ selectV2Optimizer
  \/ \E g \in groups : RescaleGroup(g)
  \/ Classify
  \/ \E m \in DOMAIN work : VisitByCost(m) \/ VisitByScore(m)
  \/ \E slips \in IF sel = NoSel THEN {} ELSE SUBSET VotingRoles(reqs[sel.model]) : JointCommit(slips)
  \/ EndAllocation
  \/ ScaleDownOthers
  \/ Actuate

Next == EngineStep \/ \E v \in Variants : PodReady(v)

Spec == Init /\ [][Next]_vars

\* The engine's timer keeps the cycles coming and a cycle keeps going, which is
\* weak fairness of EngineStep said without ENABLED; and pods come up.
EngineMoves == phase # "idle" \/ phase' # "idle"
FairSpec == Spec /\ []<><<EngineMoves>>_vars /\ WF_vars(\E v \in Variants : PodReady(v))

-----------------------------------------------------------------------------
\* Roles of one model on one accelerator type, whose joint commit sizes each
\* role against the same budget.
RolesShareType(m) ==
  \E u, v \in setup.of[m] : setup.role[u] # setup.role[v] /\ setup.acc[u] = setup.acc[v]

GPUsOn(acc, n) == SumOver({v \in Variants : setup.acc[v] = acc}, LAMBDA v : n[v] * setup.gpus[v])

Limited(ns, acc) ==
  \E p \in setup.providers : /\ p.scope = "namespace" /\ ns \in DOMAIN p.caps
                             /\ acc \in DOMAIN p.caps[ns] /\ p.caps[ns][acc] >= 0

\* The greedy optimizer never spends a GPU twice: the fills of the rescale pass
\* and the fair share together drive no budget, the cluster's or a namespace's,
\* below zero, and when every replica is accounted for the decisions need no
\* more GPUs of a type than its limit, or than are in use already.
BudgetsNeverOverdrawn ==
  (\A m \in DOMAIN work : ~RolesShareType(m)) =>
     /\ \A acc \in DOMAIN avail : avail[acc] >= 0
     /\ \A ns \in DOMAIN availNS : \A acc \in DOMAIN availNS[ns] : Limited(ns, acc) => availNS[ns][acc] >= 0
     /\ (phase = "actuate" /\ \A v \in Variants : cur[v] > 0 => ready[v] > 0) =>
          \A p \in setup.providers : \A acc \in DOMAIN p.caps :
            (optimizer = "greedy" /\ ~setup.flaky /\ p.scope = "cluster" /\ p.caps[acc] >= 0) =>
               GPUsOn(acc, targets) <= Max({p.caps[acc], GPUsOn(acc, cur)})

\* "Respects ResourceConstraints (GPU budgets per accelerator type)": said of
\* the greedy optimizer without exception, also of a model whose roles share
\* an accelerator type.
RespectsResourceConstraints == \A acc \in DOMAIN avail : avail[acc] >= 0

\* A model that shrank does not grow again while its demand stays: what the
\* scale-down leaves covers the demand at the scale-up threshold, however the
\* analyzers disagree about the capacity of a replica.
NoFlapping ==
  phase = "actuate" => \A m \in Models \ handled : \A v \in setup.of[m] :
    targets[v] > cur[v] => <<m, setup.role[v]>> \notin shrunk

\* The rescale pass divides a contended budget well: the goals keep every floor
\* and cap, hand out the whole budget unless floors or caps prevent it, and
\* never leave a model that could use a GPU behind a model of smaller weight, or
\* more than one behind a model of the same weight, counted from their floors.
RescaleIsFair ==
  plan # << >> =>
    LET in == plan.in
        extra(m) == plan.goal[m] - in[m].floor
        total == SumOver(DOMAIN in, LAMBDA m : plan.goal[m])
    IN  /\ \A m \in DOMAIN in : in[m].floor <= plan.goal[m] /\ plan.goal[m] <= in[m].cap
        /\ total = Max({SumFloor(in), Min({plan.budget,
                     SumFloor(in) + SumOver(Hungry(in), LAMBDA m : Room(in, m))})})
        /\ SumFloor(in) < plan.budget =>
             \A m, n \in Hungry(in) :
               (in[n].weight <= in[m].weight /\ plan.goal[m] < in[m].cap) =>
                  extra(n) <= extra(m) + IF in[n].weight = in[m].weight THEN 1 ELSE 0

\* Every cycle ends: neither the joint commits of a model nor the fair share
\* between models go on for ever.
CyclesEnd == []<>(phase = "idle")

\* Under a steady demand the replica counts come to rest, whichever optimizer
\* decides and however the pods come up: the fair share, the rescale pass and
\* the scale-down do not undo each other's work.
Settles == <>[][UNCHANGED cur]_vars

Supply(m, a, r) ==
  SumOver({v \in setup.of[m] \cap DOMAIN setup.prc[a] : setup.role[v] = r},
          LAMBDA v : cur[v] * setup.prc[a][v])

\* A voter that says nothing of some variant is left unserved when the cheapest
\* variant is that one: it then asks for no replica of it.
HeardOnAll(m) == \A a \in setup.enabled \cap setup.live : setup.of[m] \subseteq DOMAIN setup.prc[a]

\* Without GPU limits every voter is satisfied in the end: each role has the
\* capacity its demand asks for, unless all its variants are at their maximum.
\* It takes voters that report on every variant of the model.
EventuallyServed ==
  setup.optimizer = "cost" => <>[](\A m \in {n \in Models : HeardOnAll(n)} :
    \A a \in setup.enabled \cap setup.live : \A r \in {setup.role[v] : v \in ActiveVariants(m)} :
      \/ Supply(m, a, r) >= Up * demand[m][a][r]
      \/ \A v \in ActiveVariants(m) : setup.role[v] = r => (setup.max[v] > 0 /\ cur[v] >= setup.max[v]))
=============================================================================
