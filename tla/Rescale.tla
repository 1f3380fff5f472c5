------------------------------- MODULE Rescale -------------------------------
(***************************************************************************)
(* The rescale pass of the greedy optimizer                                 *)
(* (internal/engines/pipeline/rescale.go): when the models that share a     *)
(* budget of one accelerator type want more GPUs than there are, each gets  *)
(* its floor and a part of the rest in proportion to its weight, at most    *)
(* its cap.                                                                 *)
(***************************************************************************)
EXTENDS ScaleOrders

\* mutant: what the rounding leaves is dropped
NobodyWins(out, remainder, leftover, capOf, order) == {}

\* The keys that get one of the "leftover" units: the largest remainders, in
\* key order when equal, of those below their cap.
Winners(out, remainder, leftover, capOf, order) ==
  LET open    == {k \in DOMAIN remainder : out[k] < capOf[k]}
      ahead(k) == {j \in open : \/ remainder[j] > remainder[k]
                                \/ (remainder[j] = remainder[k] /\ order[j] < order[k])}
  IN  {k \in open : Cardinality(ahead(k)) < leftover}

apportionLeftover(out, remainder, leftover, capOf, order) ==
  LET won == Winners(out, remainder, leftover, capOf, order)
  IN  [k \in DOMAIN out |-> out[k] + IF k \in won THEN 1 ELSE 0]

(***************************************************************************)
(* Water-filling.  in is [id -> [weight, floor, cap]].  A model whose share  *)
(* of the pool reaches its headroom is capped there; the others share what   *)
(* that leaves, until no further model is capped.  The pool stays whole, so  *)
(* only the last split has fractions, all of one denominator.                *)
(***************************************************************************)
SumFloor(in) == SumOver(DOMAIN in, LAMBDA i : in[i].floor)
Room(in, i) == Monus(in[i].cap, in[i].floor)
Hungry(in) == {i \in DOMAIN in : in[i].weight > 0 /\ Room(in, i) > 0}
Weights(in, S) == SumOver(S, LAMBDA i : in[i].weight)

\* What the models in S share once the other hungry ones have their headroom.
PoolFor(in, budget, S) ==
  (budget - SumFloor(in)) - SumOver(Hungry(in) \ S, LAMBDA i : Room(in, i))

StillHungry(in, budget) ==
  LET uncapped[S \in SUBSET Hungry(in)] ==
        LET pool   == PoolFor(in, budget, S)
            capped == {i \in S : pool * in[i].weight >= Room(in, i) * Weights(in, S)}
        IN  IF pool <= 0 \/ capped = {} THEN S ELSE uncapped[S \ capped]
  IN  uncapped[Hungry(in)]

\* The last split: those in S take "pool" by weight, the others have their fill.
SplitAmong(in, S, pool) ==
  LET w       == Weights(in, S)
      part(i) == pool * in[i].weight
      whole   == [i \in DOMAIN in |->
                    in[i].floor + IF i \in S THEN part(i) \div w
                                  ELSE IF i \in Hungry(in) THEN Room(in, i) ELSE 0]
  IN  IF S = {} THEN whole
      ELSE apportionLeftover(whole, [i \in S |-> part(i) % w],
             pool - SumOver(S, LAMBDA i : part(i) \div w),
             [i \in DOMAIN in |-> in[i].cap], [i \in DOMAIN in |-> i])

computeRescaleTargets(in, budget) ==
  LET S == StillHungry(in, budget)
  IN  IF SumFloor(in) >= budget THEN [i \in DOMAIN in |-> in[i].floor]
      ELSE SplitAmong(in, S, PoolFor(in, budget, S))

roleOrder == [both |-> 1, decode |-> 2, prefill |-> 3]

\* A model's GPUs over its roles: the floors, then the rest by weight.
distributeGPUsByWeight(total, roles, weight, fallback, floor) ==
  LET rest  == total - SumOver(roles, LAMBDA r : floor[r])
      sumOf(f) == SumOver(roles, LAMBDA r : f[r])
      w     == IF sumOf(weight) = 0 THEN fallback ELSE weight
      whole == [r \in roles |-> floor[r] + (rest * w[r]) \div sumOf(w)]
      first == CHOOSE r \in roles : \A s \in roles : roleOrder[r] <= roleOrder[s]
  IN  IF Cardinality(roles) <= 1 THEN [r \in roles |-> total]
      ELSE IF rest <= 0 THEN [r \in roles |-> floor[r]]
      ELSE IF sumOf(w) = 0 THEN [r \in roles |-> floor[r] + IF r = first THEN rest ELSE 0]
      ELSE apportionLeftover(whole, [r \in roles |-> (rest * w[r]) % sumOf(w)],
             total - SumOver(roles, LAMBDA r : whole[r]), [r \in roles |-> Unbounded], roleOrder)

(***************************************************************************)
(* One model's numbers on an accelerator type.                              *)
(***************************************************************************)
AccTypes(anchor) == {anchor[v].acc : v \in DOMAIN anchor} \ {""}
variantsOnType(anchor, acc) == {v \in DOMAIN anchor : anchor[v].acc = acc}
modelRolesOnType(anchor, acc) == {anchor[v].role : v \in variantsOnType(anchor, acc)}
roleVariants(anchor, acc, role) == variantsOnType(anchor, acc) \cap variantsForRole(anchor, role)

gpusOf(q, count) == SumOver(DOMAIN count, LAMBDA v : count[v] * q.states[v].gpus)

\* mutant: what the models hold is not part of the budget
HoldsNothing(q, anchor, acc) == 0

modelCurrentGPUs(q, anchor, acc) ==
  gpusOf(q, [v \in variantsOnType(anchor, acc) |-> q.states[v].cur])
roleCurrentGPUs(q, anchor, acc, role) ==
  gpusOf(q, [v \in roleVariants(anchor, acc, role) |-> q.states[v].cur])
roleFloorGPUs(q, anchor, acc, role) ==
  gpusOf(q, [v \in roleVariants(anchor, acc, role) |-> q.states[v].min])

BindingDemand(q) == q.results[CHOOSE a \in Binding(q) : TRUE].demand
TotalDemand(q) == LET d == BindingDemand(q) IN SumOver(DOMAIN d, LAMBDA r : d[r])

roleDemandGPUs(q, anchor, acc, role) ==
  LET demand == IF role # "both" /\ role \in DOMAIN BindingDemand(q)
                THEN BindingDemand(q)[role] ELSE TotalDemand(q)
      can    == {v \in roleVariants(anchor, acc, role) : anchor[v].prc > 0}
      best   == sortByCostEfficiencyAsc(anchor, can)[1]
  IN  IF can = {} THEN 0 ELSE CeilDiv(demand, anchor[best].prc) * q.states[best].gpus

modelDemandGPUs(q, anchor, acc) ==
  SumOver(modelRolesOnType(anchor, acc), LAMBDA r : roleDemandGPUs(q, anchor, acc, r))

rescaleInput(q, anchor, acc, budget) ==
  LET S     == variantsOnType(anchor, acc)
      floor == gpusOf(q, [v \in S |-> q.states[v].min])
      most  == IF \A v \in S : q.states[v].max > 0
               THEN gpusOf(q, [v \in S |-> q.states[v].max]) ELSE budget
  IN  [weight |-> q.priority * TotalDemand(q), floor |-> floor,
       cap    |-> Max({floor, Min({modelDemandGPUs(q, anchor, acc), most})})]

(***************************************************************************)
(* Driving a model to its target: reclaim or fill each role.                 *)
(***************************************************************************)
reclaimRole(q, anchor, role, targets, delta) ==
  scaleDownVariantSet(q, anchor,
    sortVariantsForScaleDown(q, anchor, variantsForRole(anchor, role)), targets, delta,
    LAMBDA gpus, v : IF gpus <= 0 THEN 0 ELSE gpus \div q.states[v].gpus,
    LAMBDA gpus, v, n : gpus - n * q.states[v].gpus).targets

fillRole(q, anchor, role, targets, want) ==
  FoldLeft(LAMBDA acc, v :
             LET g == q.states[v].gpus
                 n == IF anchor[v].prc = 0 THEN 0
                      ELSE Min({(want - acc.spent) \div g, Headroom(q, acc.targets, v)})
             IN  [targets |-> [acc.targets EXCEPT ![v] = @ + n], spent |-> acc.spent + n * g],
           [targets |-> targets, spent |-> 0],
           sortByCostEfficiencyAsc(anchor, variantsForRole(anchor, role)))

\* One role, from the GPUs it has to its goal; fills draw on the GPUs free in
\* this cycle.
DriveRole(q, anchor, s, r, has, goal) ==
  IF goal < has
  THEN [s EXCEPT !.targets = reclaimRole(q, anchor, r, @, has - goal)]
  ELSE LET f == fillRole(q, anchor, r, s.targets, Min({goal - has, s.free}))
       IN  [targets |-> f.targets, free |-> s.free - f.spent]

DriveRoles(q, anchor, has, goal, free) ==
  FoldLeft(LAMBDA s, r : DriveRole(q, anchor, s, r, has[r], goal[r]),
           [targets |-> initTargets(q), free |-> free],
           SetToSortSeq(DOMAIN has, LAMBDA r, s : roleOrder[r] < roleOrder[s]))

\* The roles one after the other.
rescaleModelDecisions(q, anchor, acc, targetGPUs, free) ==
  LET roles == modelRolesOnType(anchor, acc)
      has   == [r \in roles |-> roleCurrentGPUs(q, anchor, acc, r)]
  IN  DriveRoles(q, anchor, has,
        distributeGPUsByWeight(targetGPUs, roles,
          [r \in roles |-> roleDemandGPUs(q, anchor, acc, r)], has,
          [r \in roles |-> roleFloorGPUs(q, anchor, acc, r)]), free)
=============================================================================
