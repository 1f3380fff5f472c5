---------------------------- MODULE SaturationV1 ----------------------------
(***************************************************************************)
(* The percentage-based saturation analyzer (internal/saturationv1) for one *)
(* role group of a model, as operators over the replica metrics of a cycle. *)
(*                                                                         *)
(* Averages are compared after multiplying by the replica count, so that    *)
(* all quantities are integers. Variant names are numbers: their order is   *)
(* the alphabetical one that breaks ties.                                   *)
(***************************************************************************)
EXTENDS Integers, FiniteSetsExt

CONSTANTS
  KvCacheThreshold, QueueLengthThreshold,   \* where a replica is saturated
  KvSpareTrigger, QueueSpareTrigger,        \* the headroom to keep
  Cost                                      \* of a variant

\* ApplyDefaults puts the defaults for zeros.
ASSUME ThresholdsAssumption ==
  /\ KvCacheThreshold \in Nat /\ QueueLengthThreshold \in Nat
  /\ KvSpareTrigger \in Nat \ {0} /\ QueueSpareTrigger \in Nat \ {0}

\* A replica's metrics: [variant, kv, queue]; M is a function on replicas.
IsSaturated(m) == m.kv >= KvCacheThreshold \/ m.queue >= QueueLengthThreshold
NonSaturated(M) == {r \in DOMAIN M : ~IsSaturated(M[r])}

\* analyzeVariant and the totals of AnalyzeModelSaturation: the sum over the
\* non-saturated replicas, whatever variant they belong to.
TotalSpareKv(M) == SumFunction([r \in NonSaturated(M) |-> KvCacheThreshold - M[r].kv])
TotalSpareQueue(M) ==
  SumFunction([r \in NonSaturated(M) |-> QueueLengthThreshold - M[r].queue])

\* avgSpare < trigger; the average over no replicas is 0.
ShouldScaleUp(M) ==
  LET n == Cardinality(NonSaturated(M)) IN
  IF n = 0 THEN 0 < KvSpareTrigger \/ 0 < QueueSpareTrigger
  ELSE \/ TotalSpareKv(M) < KvSpareTrigger * n
       \/ TotalSpareQueue(M) < QueueSpareTrigger * n

MinNonSaturatedReplicasForScaleDown == 2

\* The load of n replicas spread over n - 1 leaves the trigger's headroom.
SpareAfterRemoval(threshold, spare, n) == threshold * (n - 1) - (threshold * n - spare)

\* Mutant: the load is spread over as many replicas as before.
IsScaleDownSafeMutant(M) ==
  LET n == Cardinality(NonSaturated(M)) IN
  /\ n >= MinNonSaturatedReplicasForScaleDown
  /\ TotalSpareKv(M) >= KvSpareTrigger * n
  /\ TotalSpareQueue(M) >= QueueSpareTrigger * n

IsScaleDownSafe(M) ==
  LET n == Cardinality(NonSaturated(M)) IN
  /\ n >= MinNonSaturatedReplicasForScaleDown
  /\ SpareAfterRemoval(KvCacheThreshold, TotalSpareKv(M), n) >= KvSpareTrigger * (n - 1)
  /\ SpareAfterRemoval(QueueLengthThreshold, TotalSpareQueue(M), n)
       >= QueueSpareTrigger * (n - 1)

-----------------------------------------------------------------------------
(* CalculateSaturationTargets. A state is [cur, desired, pending, min, max];
   S is a function on variants; max = 0 is "no MaxReplicas". *)

Analysed(M) == {M[r].variant : r \in DOMAIN M}

Rescaling(s) == s.desired # 0 /\ s.desired # s.cur

\* Only variants that report metrics are looked at.
InTransition(M, S) == \E v \in Analysed(M) : Rescaling(S[v]) \/ S[v].pending > 0

\* Cheapest first, or most expensive first, ties by name.
CheapestBy(cost, vs) ==
  CHOOSE v \in vs : \A u \in vs \ {v} :
    cost[v] < cost[u] \/ (cost[v] = cost[u] /\ v < u)
Cheapest(vs) == CheapestBy(Cost, vs)
MostExpensive(vs) ==
  CHOOSE v \in vs : \A u \in vs \ {v} :
    Cost[v] > Cost[u] \/ (Cost[v] = Cost[u] /\ v > u)

ScaleUpTargets(M, S, base) ==
  LET vs == {v \in Analysed(M) : S[v].pending = 0} IN
  IF vs = {} THEN base ELSE [base EXCEPT ![Cheapest(vs)] = @ + 1]

\* Mutant: the last replica of a variant is not spared.
ScaleDownTargetsMutant(M, base) ==
  LET vs == {v \in Analysed(M) : base[v] > 0} IN
  IF vs = {} THEN base ELSE [base EXCEPT ![MostExpensive(vs)] = @ - 1]

ScaleDownTargets(M, base) ==
  LET vs == {v \in Analysed(M) : base[v] > 1} IN
  IF vs = {} THEN base ELSE [base EXCEPT ![MostExpensive(vs)] = @ - 1]

\* Both comparisons are made on the target before either is applied.
WithinBounds(s, t) ==
  IF s.max > 0 /\ t > s.max THEN s.max
  ELSE IF t < s.min THEN s.min ELSE t

CalculateSaturationTargets(M, S) ==
  LET base == [v \in Analysed(M) |-> IF Rescaling(S[v]) THEN S[v].desired ELSE S[v].cur]
      scaled == IF ShouldScaleUp(M) THEN ScaleUpTargets(M, S, base)
                ELSE IF IsScaleDownSafe(M) THEN ScaleDownTargets(M, base)
                ELSE base
  IN IF InTransition(M, S) THEN base
     ELSE [v \in Analysed(M) |-> WithinBounds(S[v], scaled[v])]
=============================================================================
