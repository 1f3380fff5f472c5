------------------------------- MODULE Ballot -------------------------------
(***************************************************************************)
(* The arithmetic that both V2 optimizers share                             *)
(* (internal/engines/pipeline/analyzer_helpers.go): one model's analyzers   *)
(* vote on how much capacity each role needs or can spare, and a merged     *)
(* "anchor" supplies the topology and the capacity of one replica.          *)
(*                                                                         *)
(* A request q (ModelScalingRequest) is a record                            *)
(*   states   [variant -> [cur, ready, gpus, min, max, role]], max 0: none  *)
(*   results  [analyzer -> [enabled, live, score, vcs, demand, required,    *)
(*            spare]], where vcs is [variants reported on ->                *)
(*            [prc, data, acc, cost]] and the last three map roles to       *)
(*            capacities.  "data" says Reason is no no-data or error mark.  *)
(*   disaggregated, priority, model, ns                                     *)
(* Variants are numbers, in the order of their names.                       *)
(***************************************************************************)
EXTENDS Integers, FiniteSetsExt, SequencesExt

Saturation == "saturation"
NoAnchor == << >>
Unbounded == 1000000     \* math.MaxInt

CeilDiv(a, b) == (a + b - 1) \div b
Monus(a, b) == IF a > b THEN a - b ELSE 0
SumOver(S, f(_)) == MapThenSumSet(f, S)
At(f, x) == IF x \in DOMAIN f THEN f[x] ELSE 0

ResultIsInformative(r) == \E v \in DOMAIN r.vcs : r.vcs[v].data
Usable(r) == r.enabled /\ r.live /\ ResultIsInformative(r)
prcForVariant(r, v) == IF v \in DOMAIN r.vcs THEN r.vcs[v].prc ELSE 0
votingResults(q) == {a \in DOMAIN q.results : q.results[a].enabled}

(***************************************************************************)
(* Who may set the capacity of a replica: saturation when it is enabled,    *)
(* live and informative, otherwise the one other analyzer that is.          *)
(***************************************************************************)
Binding(q) ==
  IF Usable(q.results[Saturation]) THEN {Saturation}
  ELSE {a \in DOMAIN q.results \ {Saturation} : Usable(q.results[a])}

bindingAnchor(q) ==
  LET sat == q.results[Saturation]
      b   == q.results[CHOOSE a \in Binding(q) : TRUE]
  IN  IF Cardinality(Binding(q)) # 1 THEN NoAnchor
      ELSE [v \in DOMAIN sat.vcs |->
              [acc |-> sat.vcs[v].acc, cost |-> sat.vcs[v].cost, role |-> q.states[v].role,
               prc |-> IF v \in DOMAIN b.vcs THEN b.vcs[v].prc
                       ELSE IF sat.enabled THEN sat.vcs[v].prc ELSE 0]]

variantsForRole(anchor, role) == {v \in DOMAIN anchor : anchor[v].role = role}

\* The roles of a model and, per analyzer and role, the capacity that is still
\* missing.  A disaggregated model reads its role capacities, any other model
\* the running total "left" of each analyzer.
VotingRoles(q) == UNION {DOMAIN q.results[a].required : a \in votingResults(q)}
initRoleState(q, left) ==
  [a \in votingResults(q) |-> [role \in VotingRoles(q) |->
     IF q.disaggregated THEN At(q.results[a].required, role) ELSE left[a]]]
RoleSpare(q) ==
  [a \in votingResults(q) |-> [role \in VotingRoles(q) |-> At(q.results[a].spare, role)]]

anyRoleNeedsScaleUp(ps) == \E a \in DOMAIN ps : \E role \in DOMAIN ps[a] : ps[a][role] > 0

\* mutant: rounds down
RoundedDown(q, ps, role, v) ==
  Max({0} \cup {ps[a][role] \div prcForVariant(q.results[a], v) :
                  a \in {b \in DOMAIN ps : prcForVariant(q.results[b], v) > 0}})

roleBottleneckReplicas(q, ps, role, v) ==
  Max({0} \cup {CeilDiv(ps[a][role], prcForVariant(q.results[a], v)) :
                  a \in {b \in DOMAIN ps : prcForVariant(q.results[b], v) > 0}})

roleAggRemaining(ps, role) == Max({0} \cup {ps[a][role] : a \in DOMAIN ps})

\* n replicas of v serve each analyzer by what that analyzer says v carries.
applyAllocation(q, left, v, n) ==
  [a \in DOMAIN left |-> Monus(left[a], n * prcForVariant(q.results[a], v))]

(***************************************************************************)
(* One round of allocateForModelPaired.  Every role has picked a variant    *)
(* and a ceiling; n is how many replicas the role asks for, and the role    *)
(* that gets the smallest share n*prc/demand of its demand sets the share   *)
(* of all.  For that role share*demand/prc is n itself, and the floating    *)
(* point product may fall just short of it: "slips" are the roles where     *)
(* math.Floor then loses one.                                               *)
(***************************************************************************)
AskedFor(q, ps, pick) ==
  [role \in DOMAIN pick |->
     Min({roleBottleneckReplicas(q, ps, role, pick[role].v), pick[role].cap})]

Share(anchor, ps, pick, n, role) ==
  LET demand == roleAggRemaining(ps, role)
  IN  IF demand = 0 THEN [num |-> 1, den |-> 1]
      ELSE [num |-> n[role] * anchor[pick[role].v].prc, den |-> demand]

\* The smallest share (deltaUtil).
JointShare(anchor, ps, pick, n) ==
  LET share(role) == Share(anchor, ps, pick, n, role)
  IN  share(CHOOSE r \in DOMAIN pick : \A s \in DOMAIN pick :
              share(r).num * share(s).den <= share(s).num * share(r).den)

JointReplicas(anchor, ps, pick, n, slips) ==
  LET d == JointShare(anchor, ps, pick, n)
  IN  [role \in DOMAIN pick |->
         LET prc   == anchor[pick[role].v].prc
             whole == (d.num * roleAggRemaining(ps, role)) \div (d.den * prc)
             exact == whole * d.den * prc = d.num * roleAggRemaining(ps, role)
         IN  IF prc = 0 \/ roleAggRemaining(ps, role) = 0 THEN 0
             ELSE Max({whole - IF exact /\ role \in slips THEN 1 ELSE 0, Min({1, n[role]})})]

\* What is left to serve: every analyzer is charged the anchor's capacity.
AfterCommit(anchor, ps, pick, k) ==
  [a \in DOMAIN ps |-> [role \in DOMAIN ps[a] |->
     Monus(ps[a][role], k[role] * anchor[pick[role].v].prc)]]

\* The role whose commit is taken off the analyzers' running totals.
Charged(pick) == IF "prefill" \in DOMAIN pick THEN {"prefill"} ELSE DOMAIN pick \cap {"both"}

(***************************************************************************)
(* Scaling down: only when every live voter has spare capacity in the role, *)
(* and never more than the least that any of them can spare.                *)
(***************************************************************************)
LiveVoters(q) == {a \in votingResults(q) : q.results[a].live}

needsScaleDownForRole(q, spare, role) ==
  /\ LiveVoters(q) # {}
  /\ \A a \in LiveVoters(q) : At(spare[a], role) > 0

\* mutant: the most generous voter decides
MostGenerous(q, spare, v, role) ==
  LET judges == {a \in LiveVoters(q) : prcForVariant(q.results[a], v) > 0}
  IN  Max({0} \cup {At(spare[a], role) \div prcForVariant(q.results[a], v) : a \in judges})

safeRemovalReplicasForRole(q, spare, v, role) ==
  LET judges == {a \in LiveVoters(q) : prcForVariant(q.results[a], v) > 0}
  IN  IF judges = {} THEN 0
      ELSE Min({At(spare[a], role) \div prcForVariant(q.results[a], v) : a \in judges})

applyDeallocationForRole(q, spare, v, role, n) ==
  [a \in DOMAIN spare |-> [spare[a] EXCEPT ![role] =
     Monus(@, n * prcForVariant(q.results[a], v))]]
=============================================================================
