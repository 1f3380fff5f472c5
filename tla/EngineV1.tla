------------------------------ MODULE EngineV1 ------------------------------
(***************************************************************************)
(* The optimization cycle of the saturation engine on the V1 path           *)
(* (internal/engines/saturation, optimize -> optimizeV1 ->                  *)
(* applySaturationDecisions) for the variants of one model, closed through  *)
(* the external scaler: the engine publishes wva_desired_replicas, an HPA   *)
(* or KEDA applies it to the scale target, pods come up, and their metrics  *)
(* feed the next cycle.                                                     *)
(*                                                                         *)
(* Variants are synthesized from HPAs and ScaledObjects on every cycle, so  *)
(* Status.DesiredOptimizedAlloc is always empty: no previous desired count. *)
(***************************************************************************)
EXTENDS SaturationV1

CONSTANTS
  Variants,      \* numbers, in the order of the variants' names
  Setups         \* what is deployed and configured, and what may happen to it

Unit == 12       \* resolution of a load that divides over 1, 2, 3, 4 or 6
NoSeries == -1   \* the gauge of a variant was never set
NoDecision == -1

SetupOK(s) ==
  /\ DOMAIN s.role = Variants
  /\ \A f \in {s.min, s.max, s.start} : f \in [Variants -> Nat]
  \* the scaler's bounds are bounds, and its minimum holds to begin with
  /\ \A v \in Variants :
       /\ s.min[v] <= s.start[v]
       /\ s.min[v] <= (IF s.max[v] > 0 THEN s.max[v] ELSE s.podLimit)
  /\ \A l \in s.loads, v \in Variants : l[s.role[v]].kv \in Nat /\ l[s.role[v]].queue \in Nat
  /\ s.vllm \subseteq Variants
  \* reading a scale target; a metrics query; the metrics of some variants;
  \* the saturation config of the namespace
  /\ s.faults \subseteq {"fetch", "metrics", "gaps", "config"}
  /\ {s.scaleToZero, s.limiter, s.prompt} \subseteq BOOLEAN
  /\ s.loadChanges \in Nat /\ s.podLimit \in Nat \ {0}

ASSUME ConfigAssumption ==
  /\ Variants \subseteq Nat /\ IsFiniteSet(Variants)
  /\ \A v \in Variants : Cost[v] \in Nat
  /\ \A s \in Setups : SetupOK(s)

VARIABLES
  setup,                 \* the setup of this behaviour
  spec, status, ready,   \* the scale target: spec.replicas, pods, ready pods
  load, changes,         \* load now, and how often it has changed
  gauge,                 \* wva_desired_replicas
  phase,                 \* where the cycle is
  active,                \* variants of the cycle (ActiveVariantAutoscaling)
  fetched,               \* scaleTargets of prepareModelData: a snapshot
  state,                 \* BuildVariantStates
  metrics,               \* CollectReplicaMetrics
  target,                \* the decisions
  scaledToZero,          \* the enforcer scaled the model to zero in this cycle
  zeroed                 \* variants whose signal is a decision of 0 (history)

world == <<setup, spec, status, ready, load, changes>>
cycle == <<phase, active, fetched, state, metrics, target>>
vars == <<setup, spec, status, ready, load, changes, gauge, phase, active, fetched,
          state, metrics, target, scaledToZero, zeroed>>

Role == setup.role               \* "both", "prefill" or "decode" (getRoleFromScaleTarget)
MinReplicas == setup.min         \* of the HPA or ScaledObject
MaxReplicas == setup.max         \* 0: none
Loads == setup.loads             \* the loads the model can be under: [kv, queue], per role
Start == setup.start             \* replica counts to begin with
ScaleToZero == setup.scaleToZero \* ResolveScaleToZeroEnabled for the model
Limiter == setup.limiter         \* EnableLimiter
Vllm == setup.vllm               \* variants served by vLLM, whose requests can be counted
Faults == setup.faults           \* what may fail or be missing
Prompt == setup.prompt           \* the scaler acts, and pods exist, between two cycles
LoadChanges == setup.loadChanges \* bound: how often the load changes
PodLimit == setup.podLimit       \* bound: replicas a scaler without a maximum goes up to

Roles == {Role[v] : v \in Variants}
Nothing == << >>
Undecided == [v \in Variants |-> NoDecision]
Counts == 0..(PodLimit + 1)

Init ==
  /\ setup \in Setups
  /\ spec = Start /\ status = Start /\ ready = Start
  /\ load \in Loads /\ changes = 0
  /\ gauge = [v \in Variants |-> NoSeries]
  /\ phase = "idle"
  /\ active = {} /\ fetched = Nothing
  /\ state = Nothing /\ metrics = Nothing
  /\ target = Undecided
  /\ scaledToZero = FALSE /\ zeroed = {}

\* What f says, and g where f says nothing
Over(f, g) == [x \in DOMAIN f \cup DOMAIN g |-> IF x \in DOMAIN f THEN f[x] ELSE g[x]]

\* The subsets of s that reads can return, given what may fail.
Readable(s, fault) == IF fault \in Faults THEN SUBSET s ELSE {s}
-----------------------------------------------------------------------------
(* The cycle. *)

Clamp(v, n) ==
  LET hi == IF MaxReplicas[v] > 0 THEN MaxReplicas[v] ELSE PodLimit IN
  IF n < MinReplicas[v] THEN MinReplicas[v] ELSE IF n > hi THEN hi ELSE n

\* The polling interval is longer than the scaler's and a cycle is short. Only
\* the step to 0 may take the scaler longer (its cooldown).
Settled(v) ==
  /\ status[v] = spec[v]
  /\ gauge[v] \notin {NoSeries, 0} => Clamp(v, gauge[v]) = spec[v]
BetweenCycles == Prompt => phase = "idle"

\* optimize: variants whose scale target wants replicas; none ends the cycle.
Collect ==
  /\ phase = "idle"
  /\ Prompt => \A v \in Variants : Settled(v)
  /\ \E seen \in Readable(Variants, "fetch") :
       active' = {v \in seen : spec[v] > 0}
  /\ active' # {}
  /\ phase' = "prepare"
  /\ UNCHANGED <<world, gauge, fetched, state, metrics, target, scaledToZero, zeroed>>

\* Mutant: replicas that are not ready yet go unnoticed.
VariantStateUnaware(v) ==
  LET cur == IF status[v] = 0 THEN spec[v] ELSE status[v] IN
  [status |-> status[v], cur |-> cur, desired |-> 0,
   min |-> MinReplicas[v], max |-> MaxReplicas[v], pending |-> 0]

\* A scale target as the engine reads it, and BuildVariantStates for it.
VariantState(v) ==
  LET cur == IF status[v] = 0 THEN spec[v] ELSE status[v] IN
  [status |-> status[v], cur |-> cur, desired |-> 0,
   min |-> MinReplicas[v], max |-> MaxReplicas[v],
   pending |-> IF cur > ready[v] THEN cur - ready[v] ELSE 0]

\* No saturation config for the namespace yet, or a refused queueing-model
\* configuration: no decisions, every variant is held.
SkipModel ==
  /\ phase = "prepare"
  /\ "config" \in Faults
  /\ phase' = "apply"
  /\ UNCHANGED <<world, gauge, active, fetched, state, metrics, target, scaledToZero, zeroed>>

\* prepareModelData, first loop.
FetchScaleTargets ==
  /\ phase = "prepare"
  /\ \E got \in Readable(active, "fetch") : fetched' = [v \in got |-> VariantState(v)]
  /\ phase' = "collect"
  /\ UNCHANGED <<world, gauge, active, state, metrics, target, scaledToZero, zeroed>>

\* emitSafetyNetMetrics: the desired count is the current one, which is known
\* only for a scale target that was passed along.
SafetyNet(vs, targets) ==
  [v \in vs |-> IF v \in DOMAIN targets THEN targets[v].status ELSE 0]

Reporting == {v \in DOMAIN fetched : ready[v] > 0}

\* prepareModelData fails or finds no replica metrics: optimizeV1 calls the
\* safety net without scale targets.
PrepareFails ==
  /\ phase = "collect"
  /\ "metrics" \in Faults \/ {} \in Readable(Reporting, "gaps")
  /\ gauge' = Over(SafetyNet(active, Nothing), gauge)
  /\ phase' = "apply"
  /\ zeroed' = zeroed \ active
  /\ UNCHANGED <<world, active, fetched, state, metrics, target, scaledToZero>>

Total(count, role) == MapThenSumSet(LAMBDA v : count[v], {v \in Variants : Role[v] = role})

\* Every ready replica of a role carries the same share of its load.
Metric(v) ==
  [variant |-> v,
   kv |-> (load[Role[v]].kv * Unit) \div Total(ready, Role[v]),
   queue |-> (load[Role[v]].queue * Unit) \div Total(ready, Role[v])]

\* The rest of prepareModelData: metrics of the pods of the scale targets it
\* found, then the replica states, looking again for the ones it missed.
CollectMetrics ==
  /\ phase = "collect"
  /\ \E again \in Readable(active \ DOMAIN fetched, "fetch") :
     \E reporting \in Readable(Reporting, "gaps") \ {{}} :
       /\ state' = Over(fetched, [v \in again |-> VariantState(v)])
       /\ metrics' = [r \in UNION {{v} \X (1..ready[v]) : v \in reporting} |-> Metric(r[1])]
  /\ phase' = "analyze"
  /\ UNCHANGED <<world, gauge, active, fetched, target, scaledToZero, zeroed>>

InRole(role) == {v \in DOMAIN state : Role[v] = role}
RoleMetrics(role) ==
  [r \in {x \in DOMAIN metrics : Role[metrics[x].variant] = role} |-> metrics[r]]

\* The decisions of a role group that reports metrics.
RoleTargets(role) == CalculateSaturationTargets(RoleMetrics(role), state)

Dark == UNION {InRole(r) : r \in {q \in Roles : RoleMetrics(q) = Nothing}}

\* analyzeRoleGroups: the safety net, with scale targets, for a role without
\* metrics, and decisions for the others.
AnalyzeRoleGroups ==
  /\ phase = "analyze"
  /\ gauge' = Over(SafetyNet(Dark, fetched), gauge)
  /\ target' = [v \in Variants |->
                  IF v \in Analysed(metrics) THEN RoleTargets(Role[v])[v] ELSE NoDecision]
  /\ zeroed' = zeroed \ Dark
  /\ phase' = "enforce"
  /\ UNCHANGED <<world, active, fetched, state, metrics, scaledToZero>>

Decided == {v \in Variants : target[v] # NoDecision}
Idle == \A r \in Roles : load[r].kv = 0 /\ load[r].queue = 0

\* Mutant: the loop changes copies of the decisions.
ToZeroMutant == target
\* applyScaleToZeroOnDecisions
ToZero == [v \in Variants |-> IF v \in Decided THEN 0 ELSE NoDecision]

DefaultVariantCost == 10

\* ensureMinimumReplicasOnDecisions: no cost counts as the default one.
AtLeastOne ==
  LET cost == [v \in Variants |-> IF Cost[v] <= 0 THEN DefaultVariantCost ELSE Cost[v]]
  IN  IF \E v \in Decided : target[v] > 0 THEN target
      ELSE [target EXCEPT ![CheapestBy(cost, Decided)] = 1]

\* A model with an engine other than vLLM, or with a variant whose minReplicas
\* is positive, skips the enforcer altogether.
EnforceGate == DOMAIN fetched \subseteq Vllm /\ \A v \in DOMAIN state : state[v].min = 0

\* applyScaleToZeroEnforcement over the decisions of all roles: no request in
\* the retention period.
EnforceZero ==
  /\ phase = "enforce"
  /\ EnforceGate /\ ScaleToZero /\ Idle
  /\ target' = ToZero
  /\ scaledToZero' = TRUE
  /\ phase' = "limit"
  /\ UNCHANGED <<world, gauge, active, fetched, state, metrics, zeroed>>

\* Scale-to-zero is off, or there were requests in the retention period (which
\* may be so for a while after the load is gone), or they could not be counted.
Enforce ==
  /\ phase = "enforce"
  /\ target' = IF EnforceGate /\ ~ScaleToZero THEN AtLeastOne ELSE target
  /\ phase' = "limit"
  /\ UNCHANGED <<world, gauge, active, fetched, state, metrics, scaledToZero, zeroed>>

\* What a limiter chain may make of a decision: see GPULimiter.
LimitedTargets(v) ==
  LET s == state[v]
      ceiling == IF s.max > 0 /\ target[v] > s.max THEN s.max ELSE target[v]
      floor(n) == IF n < s.min THEN s.min ELSE n
  IN IF target[v] <= s.cur THEN {target[v]}
     ELSE IF ceiling <= s.cur THEN {ceiling}
     ELSE {floor(n) : n \in s.cur..ceiling}

Limit ==
  /\ phase = "limit"
  /\ IF Limiter
     THEN \E t \in [Decided -> Counts] :
            /\ \A v \in Decided : t[v] \in LimitedTargets(v)
            /\ target' = Over(t, target)
     ELSE target' = target
  /\ phase' = "apply"
  /\ UNCHANGED <<world, gauge, active, fetched, state, metrics, scaledToZero, zeroed>>

\* EmitMetrics for one variant of the loop; the cycle ends with the last one.
Publish(v, n) ==
  /\ gauge' = [gauge EXCEPT ![v] = n]
  /\ zeroed' = IF target[v] = 0 /\ scaledToZero THEN zeroed \cup {v} ELSE zeroed \ {v}
  /\ active' = active \ {v}
  /\ IF active' = {}
     THEN /\ phase' = "idle"
          /\ fetched' = Nothing /\ state' = Nothing /\ metrics' = Nothing
          /\ target' = Undecided /\ scaledToZero' = FALSE
     ELSE UNCHANGED <<phase, fetched, state, metrics, target, scaledToZero>>
  /\ UNCHANGED world

\* applySaturationDecisions for one variant: the decision, or the replica
\* count of the scale target as it is now, or 0 when that cannot be read.
Apply(v) ==
  /\ phase = "apply" /\ v \in active
  /\ Publish(v, IF target[v] # NoDecision THEN target[v] ELSE spec[v])

ApplyUnread(v) ==
  /\ phase = "apply" /\ v \in active
  /\ "fetch" \in Faults /\ target[v] = NoDecision
  /\ Publish(v, 0)
-----------------------------------------------------------------------------
(* The cluster. *)

\* HPA or KEDA reads the gauge at any moment; nobody scales from 0 to 0.
ScalerSync(v) ==
  /\ BetweenCycles
  /\ gauge[v] # NoSeries
  /\ spec[v] > 0 \/ gauge[v] > 0
  /\ spec' = [spec EXCEPT ![v] = Clamp(v, gauge[v])]
  /\ spec' # spec
  /\ UNCHANGED <<status, ready, load, changes, gauge, setup, cycle, scaledToZero, zeroed>>

\* The workload controller creates or deletes pods.
PodsSettle(v) ==
  /\ BetweenCycles
  /\ status[v] # spec[v]
  /\ status' = [status EXCEPT ![v] = spec[v]]
  /\ ready' = [ready EXCEPT ![v] = IF @ < spec[v] THEN @ ELSE spec[v]]
  /\ UNCHANGED <<spec, load, changes, gauge, setup, cycle, scaledToZero, zeroed>>

PodReady(v) ==
  /\ ready[v] < status[v]
  /\ ready' = [ready EXCEPT ![v] = @ + 1]
  /\ UNCHANGED <<spec, status, load, changes, gauge, setup, cycle, scaledToZero, zeroed>>

\* The scale-from-zero engine wakes a variant that requests wait for.
Wake(v) ==
  /\ spec[v] = 0
  /\ load[Role[v]].kv > 0
  /\ spec' = [spec EXCEPT ![v] = 1]
  /\ UNCHANGED <<status, ready, load, changes, gauge, setup, cycle, scaledToZero, zeroed>>

LoadChange ==
  /\ changes < LoadChanges
  /\ load' \in Loads \ {load}
  /\ changes' = changes + 1
  /\ UNCHANGED <<spec, status, ready, gauge, setup, cycle, scaledToZero, zeroed>>

Engine ==
  \/ Collect \/ SkipModel \/ FetchScaleTargets \/ PrepareFails \/ CollectMetrics \/ AnalyzeRoleGroups
  \/ EnforceZero \/ Enforce \/ Limit
  \/ \E v \in Variants : Apply(v) \/ ApplyUnread(v)

Next ==
  \/ Collect
  \/ SkipModel
  \/ FetchScaleTargets
  \/ PrepareFails
  \/ CollectMetrics
  \/ AnalyzeRoleGroups
  \/ EnforceZero
  \/ Enforce
  \/ Limit
  \/ \E v \in Variants : Apply(v)
  \/ \E v \in Variants : ApplyUnread(v)
  \/ \E v \in Variants : ScalerSync(v)
  \/ \E v \in Variants : PodsSettle(v)
  \/ \E v \in Variants : PodReady(v)
  \/ \E v \in Variants : Wake(v)
  \/ LoadChange

\* The polling executor runs cycle after cycle; the scaler and the workload
\* controllers are control loops of the cluster. The retention period of an
\* idle model comes to an end.
Fairness ==
  /\ WF_vars(Engine) /\ SF_vars(EnforceZero)
  /\ \A v \in Variants : /\ SF_vars(ScalerSync(v)) /\ SF_vars(PodsSettle(v))
                         /\ WF_vars(PodReady(v))

Spec == Init /\ [][Next]_vars
FairSpec == Spec /\ Fairness
-----------------------------------------------------------------------------
(* Properties. *)

\* Everybody acts between two cycles and every read succeeds.
Orderly == Prompt /\ Faults = {}

\* A variant is signalled 0 only if it has no replicas or the cycle scaled the
\* model to zero ("emitting a desired-replicas of 0 for a variant we are
\* merely holding tells KEDA/HPA to scale it to zero").
ZeroIsADecision ==
  \A v \in Variants : gauge[v] = 0 => v \in zeroed \/ spec[v] = 0

\* Every role of the model begins with replicas.
StartsUp == \A r \in Roles : \E v \in Variants : Role[v] = r /\ Start[v] > 0

\* As long as every read succeeds and no role starts from zero, which reports
\* nothing at first, it is so wherever the scaler, the workload
\* controllers and the limiter act in the cycle.
ZeroIsADecisionWhenRead == Faults = {} /\ ~ScaleToZero /\ StartsUp => ZeroIsADecision

\* Scale-ups do not cascade: while a replica of a variant is starting, no more
\* are asked for, whatever reads fail ("Skip variants with pending replicas to prevent cascade
\* scaling"), given a scaler that keeps up with the cycles.
NoCascade == Prompt => \A v \in Variants : status[v] - ready[v] <= 1

\* n replicas leave the headroom that shouldScaleUp asks for.
Enough(l, role, n) ==
  /\ l[role].kv * Unit <= (KvCacheThreshold - KvSpareTrigger) * n
  /\ l[role].queue * Unit <= (QueueLengthThreshold - QueueSpareTrigger) * n

\* In an orderly cluster, replicas of a role are never more than it began with or
\* some load needs:
\* pods that are still starting, which report nothing and carry no load, never
\* make the engine ask for too many.
NoOvershoot ==
  \A role \in Roles :
    Orderly /\ Total(spec, role) > Total(Start, role) =>
      \E l \in Loads : ~Enough(l, role, Total(spec, role) - 1)

\* Roles without enough ready replicas. (A bound l, since TLC does not evaluate a
\* variable passed to an operator inside a temporal formula.)
Short == {role \in Roles : \E l \in {load} : ~Enough(l, role, Total(ready, role))}

\* Once the load of an orderly cluster settles, the replica counts of a model
\* that is not put to sleep do, and the ready replicas of every role are enough:
\* isScaleDownSafe leaves what shouldScaleUp asks for, and no more is removed.
Converges ==
  Orderly /\ ~ScaleToZero => <>[][spec' = spec]_spec /\ <>[](Short = {})

\* A model with scale-to-zero that stays idle ends up without replicas, in
\* every role.
IdleSleeps == ScaleToZero /\ <>[]Idle => <>[](\A v \in Variants : spec[v] = 0)
=============================================================================
