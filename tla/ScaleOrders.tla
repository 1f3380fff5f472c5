----------------------------- MODULE ScaleOrders -----------------------------
(***************************************************************************)
(* In which order the variants of a role grow and shrink, and how far       *)
(* (internal/engines/pipeline/cost_aware_optimizer.go).  Targets maps the   *)
(* variants of a request to replica counts.                                 *)
(***************************************************************************)
EXTENDS Ballot

\* Cheapest capacity first; variants without a capacity last.  Equally cheap
\* ones keep the order in which they are listed.
sortByCostEfficiencyAsc(anchor, S) ==
  SetToSortSeq(S, LAMBDA u, v :
    IF 0 \in {anchor[u].prc, anchor[v].prc}
    THEN IF anchor[u].prc = 0 /\ anchor[v].prc = 0 THEN u < v ELSE anchor[v].prc = 0
    ELSE LET a == anchor[u].cost * anchor[v].prc
             b == anchor[v].cost * anchor[u].prc
         IN  a < b \/ (a = b /\ u < v))

\* Most expensive first, then the least capacity weighted by the analyzers'
\* scores, then by name.
sortVariantsForScaleDown(q, anchor, S) ==
  LET weighted(v) == SumOver(votingResults(q), LAMBDA a :
                       q.results[a].score * prcForVariant(q.results[a], v))
  IN  SetToSortSeq(S, LAMBDA u, v :
        \/ anchor[u].cost > anchor[v].cost
        \/ /\ anchor[u].cost = anchor[v].cost
           /\ weighted(u) < weighted(v) \/ (weighted(u) = weighted(v) /\ u < v))

initTargets(q) == [v \in DOMAIN q.states |-> q.states[v].cur]
Headroom(q, targets, v) ==
  IF q.states[v].max = 0 THEN Unbounded ELSE Monus(q.states[v].max, targets[v])

\* How many replicas of the i-th variant go when "allowed" may: none below its
\* minimum, and the last variant keeps a replica when no other variant has one.
RemovedReplicas(q, sorted, i, targets, allowed) ==
  LET v    == sorted[i]
      room == targets[v] - q.states[v].min
      n    == Min({allowed, room})
      last == /\ i = Len(sorted) /\ targets[v] - n < 1
              /\ \A j \in 1..(i - 1) : targets[sorted[j]] = 0
  IN  IF room <= 0 THEN 0 ELSE IF last THEN Monus(targets[v], 1) ELSE n

\* Visits the variants in order; "purse" is what the removals are paid from.
scaleDownVariantSet(q, anchor, sorted, targets, purse, maxRemovable(_, _), onRemove(_, _, _)) ==
  FoldLeft(LAMBDA acc, i :
             LET v == sorted[i]
                 n == RemovedReplicas(q, sorted, i, acc.targets, maxRemovable(acc.purse, v))
             IN  IF anchor[v].prc = 0 \/ n <= 0 THEN acc
                 ELSE [targets |-> [acc.targets EXCEPT ![v] = @ - n],
                       purse   |-> onRemove(acc.purse, v, n)],
           [targets |-> targets, purse |-> purse],
           [i \in 1..Len(sorted) |-> i])

ScaleDownRole(q, anchor, targets, role) ==
  scaleDownVariantSet(q, anchor,
    sortVariantsForScaleDown(q, anchor, variantsForRole(anchor, role)),
    targets, RoleSpare(q),
    LAMBDA spare, v : safeRemovalReplicasForRole(q, spare, v, role),
    LAMBDA spare, v, n : applyDeallocationForRole(q, spare, v, role, n)).targets

\* Roles share no variant and no spare capacity, so each is taken by itself.
scaleDownRoleIterated(q, anchor) ==
  LET shrunk(role) == ScaleDownRole(q, anchor, initTargets(q), role)
  IN  [v \in DOMAIN q.states |->
         IF v \in DOMAIN anchor /\ needsScaleDownForRole(q, RoleSpare(q), anchor[v].role)
         THEN shrunk(anchor[v].role)[v] ELSE q.states[v].cur]

\* The first variant of the role, by cost, that can still grow.
costGreedyRolePick(q, anchor, targets, role) ==
  {[v |-> v, cap |-> Headroom(q, targets, v)] :
     v \in LET can == {u \in variantsForRole(anchor, role) :
                         anchor[u].prc > 0 /\ Headroom(q, targets, u) > 0}
           IN  IF can = {} THEN {} ELSE {sortByCostEfficiencyAsc(anchor, can)[1]}}

\* The same within the GPUs that are left and the share "target" of the model.
fairShareRolePick(q, anchor, targets, eff, target, role) ==
  LET cap(v) == Min({CeilDiv(target, anchor[v].prc),
                     At(eff, anchor[v].acc) \div q.states[v].gpus,
                     Headroom(q, targets, v)})
      can    == {v \in variantsForRole(anchor, role) :
                   anchor[v].prc > 0 /\ At(eff, anchor[v].acc) >= q.states[v].gpus /\ cap(v) > 0}
  IN  IF can = {} THEN {}
      ELSE LET v == sortByCostEfficiencyAsc(anchor, can)[1] IN {[v |-> v, cap |-> cap(v)]}
=============================================================================
