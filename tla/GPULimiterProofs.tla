-------------------------- MODULE GPULimiterProofs --------------------------
(* Proofs, for every set of variants, namespaces and accelerator types and  *)
(* for every chain the factory can build, of the safety of GPULimiter.      *)
EXTENDS GPULimiter, FiniteTheorems

\* Leaves go to Zenon; those that it does not prove name SMT.
USE Zenon

\* GPUs that make whole replicas are at most the GPUs taken.
LEMMA WholeReplicas ==
  ASSUME NEW t \in Nat, NEW g \in Nat \ {0}
  PROVE  /\ t \div g \in Nat
         /\ (t \div g) * g \in Nat
         /\ (t \div g) * g <= t
<1>1. t \div g \in Nat
  BY SMT
<1>2. (t \div g) * g <= t
  BY SMT
<1> QED BY <1>1, <1>2, SMT

\* A request served in full makes the number of replicas asked for.
LEMMA FullRequest ==
  ASSUME NEW n \in Nat, NEW g \in Nat \ {0}
  PROVE  (n * g) \div g = n
  BY SMT

\* The fields of a decision that the arguments read.
LEMMA Fields ==
  ASSUME NEW d \in Decisions
  PROVE  /\ d.cur \in Nat /\ d.tgt \in Nat /\ d.min \in Nat /\ d.max \in Nat
         /\ d.gpus \in Nat /\ d.spare \in Int /\ d.cost \in Int
         /\ d.limited \in BOOLEAN
  BY DEF Decisions

\* Writing the fields that Limit writes leaves a decision.
LEMMA WithBy ==
  ASSUME NEW d \in Decisions, NEW s \in STRING
  PROVE  [d EXCEPT !.by = s] \in Decisions
  BY DEF Decisions

\* A decision with another target is a decision.
LEMMA WithTarget ==
  ASSUME NEW d \in Decisions, NEW t \in Nat
  PROVE  [d EXCEPT !.tgt = t] \in Decisions
  BY DEF Decisions

\* A decision with what allocateForDecision writes is a decision.
LEMMA WithAllocation ==
  ASSUME NEW d \in Decisions, NEW t \in Nat, NEW b \in BOOLEAN
  PROVE  [d EXCEPT !.tgt = t, !.limited = b] \in Decisions
  BY DEF Decisions

\* A decision starts unlimited.
LEMMA StartsUnlimited ==
  ASSUME NEW r
  PROVE  AsDecision(r).limited = FALSE /\ AsDecision(r).by = None
  BY DEF AsDecision

\* Charging one entry of a function into Nat leaves a function into Nat.
LEMMA Charge ==
  ASSUME NEW S, NEW f \in [S -> Nat], NEW p \in S, NEW k \in Nat
  PROVE  [f EXCEPT ![p] = k] \in [S -> Nat]
  OBVIOUS

\* Precedes is irreflexive.
LEMMA PrecedesIrreflexive ==
  ASSUME NEW d \in Decisions
  PROVE  ~Precedes(d, d)
  BY Fields, SMT DEF Precedes

\* The replicas a decision asks for are an integer.
LEMMA NeededType ==
  ASSUME NEW d \in Decisions
  PROVE  Needed(d) \in Int /\ CeilingOf(d) \in Nat
  BY Fields, SMT DEF Needed, CeilingOf

\* Every cap is a GPU count or Unlimited.
LEMMA CapType ==
  ASSUME NEW l, IsLimiter(l), NEW p \in Pools
  PROVE  Cap(l, p) \in Nat \cup {Unlimited}
<1>1. CASE p[1] \in DOMAIN l.quotas
  BY <1>1 DEF Cap, QuotaFor, IsLimiter, IsTypeQuotas
<1>2. CASE p[1] \notin DOMAIN l.quotas /\ Default \in DOMAIN l.quotas
  BY <1>2 DEF Cap, QuotaFor, IsLimiter, IsTypeQuotas
<1>3. CASE p[1] \notin DOMAIN l.quotas /\ Default \notin DOMAIN l.quotas
  BY <1>3, SMT DEF Cap, QuotaFor
<1> QED BY <1>1, <1>2, <1>3

\* The headroom of a pool is a GPU count.
LEMMA HeadroomType ==
  ASSUME NEW l, IsLimiter(l), NEW u \in [Pools -> Nat], NEW p \in Pools
  PROVE  Headroom(l, u, p) \in Nat
  BY CapType, SMT DEF Headroom, Unlimited

\* The constituent whose turn it is is a limiter.
LEMMA CurrentLimiter ==
  ASSUME TypeOK
  PROVE  IsLimiter(Lim)
  BY ChainsAssumption DEF IsChain, TypeOK, Lim

\* The pool of a decision with an accelerator name is a pool.
LEMMA PoolOfType ==
  ASSUME TypeOK, NEW d \in Decisions, d.acc # Empty
  PROVE  PoolOf(d) \in Pools
  BY DEF Decisions, PoolOf, Owner, Pools, Owners

\* Resolving an accelerator name gives one that the inventory lists.
LEMMA ResolveType ==
  ASSUME TypeOK, NEW d \in Decisions
  PROVE  /\ Resolve(d) \in Decisions
         /\ Resolve(d).tgt = d.tgt /\ Resolve(d).cur = d.cur
         /\ Resolve(d).max = d.max /\ Resolve(d).min = d.min
         /\ Resolve(d).limited = d.limited /\ Resolve(d).by = d.by
<1>1. PoolTypes(Lim) \subseteq Types
  BY CurrentLimiter DEF PoolTypes, IsLimiter, IsTypeQuotas
<1>2. Cardinality(PoolTypes(Lim)) = 1 => PoolTypes(Lim) # {}
  BY FS_EmptySet, SMT
<1>3. Cardinality(PoolTypes(Lim)) = 1
        => (CHOOSE t \in PoolTypes(Lim) : TRUE) \in Types
  BY <1>1, <1>2
<1> QED BY <1>3 DEF Resolve, Decisions, AccNames

\* What allocateForDecision computes for a candidate with replicas to add.
LEMMA Allocation ==
  ASSUME TypeOK, NEW d \in Decisions, Needed(d) > 0
  PROVE  /\ GPUsPerReplica(d) \in Nat \ {0}
         /\ Needed(d) \in Nat /\ Needed(d) * GPUsPerReplica(d) \in Nat
         /\ Taken(d) \in Nat
         /\ d.acc # Empty /\ Finite(Lim, PoolOf(d)) => Taken(d) <= free[PoolOf(d)]
         /\ Replicas(d) \in Nat
         /\ Replicas(d) * GPUsPerReplica(d) \in Nat
         /\ Replicas(d) * GPUsPerReplica(d) <= Taken(d)
         /\ FloorOf(d, d.cur + Replicas(d)) \in Nat
         /\ FloorOf(d, d.cur + Replicas(d)) >= d.cur
<1>1. GPUsPerReplica(d) \in Nat \ {0}
  BY Fields, SMT DEF GPUsPerReplica
<1>2. Needed(d) \in Nat
  BY NeededType, SMT
<1>3. Needed(d) * GPUsPerReplica(d) \in Nat
  BY <1>1, <1>2, SMT
<1>4. d.acc # Empty => free[PoolOf(d)] \in Nat
  BY PoolOfType DEF TypeOK
<1>5. Taken(d) \in Nat
  BY <1>3, <1>4, SMT DEF Taken, TryAllocate
<1>6. d.acc # Empty /\ Finite(Lim, PoolOf(d)) => Taken(d) <= free[PoolOf(d)]
  BY <1>3, <1>4, SMT DEF Taken, TryAllocate
<1>7. /\ Replicas(d) \in Nat
      /\ Replicas(d) * GPUsPerReplica(d) \in Nat
      /\ Replicas(d) * GPUsPerReplica(d) <= Taken(d)
  BY <1>1, <1>5, WholeReplicas DEF Replicas
<1>8. /\ FloorOf(d, d.cur + Replicas(d)) \in Nat
      /\ FloorOf(d, d.cur + Replicas(d)) >= d.cur
  BY <1>7, Fields, SMT DEF FloorOf
<1> QED BY <1>1, <1>2, <1>3, <1>5, <1>6, <1>7, <1>8
-----------------------------------------------------------------------------
(* Type correctness, one step per action. *)

\* The decisions the analysis hands over are well typed.
LEMMA InitType == Init => TypeOK
<1> SUFFICES ASSUME Init PROVE TypeOK
  OBVIOUS
<1>1. PICK b \in Batches : /\ dec = [v \in Variants |-> AsDecision(b[v])]
                           /\ original = [v \in Variants |-> b[v].tgt]
  BY DEF Init
<1>2. b \in [Variants -> Requests]
  BY BatchesAssumption
<1>3. \A v \in Variants : AsDecision(b[v]) \in Decisions
  BY <1>2 DEF AsDecision, Requests, Decisions
<1>4. dec \in [Variants -> Decisions] /\ original \in [Variants -> Nat]
  BY <1>1, <1>2, <1>3 DEF Requests
<1>5. at \in 1..Len(chain)
  BY ChainsAssumption, SMT DEF IsChain, Init
<1> QED BY <1>4, <1>5 DEF Init, TypeOK, Zero, NoGPUs

\* Every step of Limit keeps the types, one case per action.
LEMMA NextType == TypeOK /\ [Next]_vars => TypeOK'
<1> SUFFICES ASSUME TypeOK, [Next]_vars PROVE TypeOK'
  OBVIOUS
<1>1. CASE RefreshFails
  BY <1>1 DEF RefreshFails, TypeOK
<1>2. CASE Refresh
  <2>1. dec' \in [Variants -> Decisions]
    BY <1>2, ResolveType DEF Refresh, TypeOK
  <2> QED BY <1>2, <2>1 DEF Refresh, TypeOK, Zero
<1>3. ASSUME NEW v \in Variants, Account(v) PROVE TypeOK'
  <2>1. dec[v] \in Decisions
    BY DEF TypeOK
  <2>2. dec[v].cur * dec[v].gpus \in Nat
    BY <2>1, Fields, SMT
  <2>3. used' \in [Pools -> Nat]
    <3>1. CASE dec[v].acc = Empty
      BY <1>3, <3>1 DEF Account, TypeOK
    <3>2. CASE dec[v].acc # Empty
      <4>1. PoolOf(dec[v]) \in Pools
        BY <2>1, <3>2, PoolOfType
      <4> QED BY <1>3, <2>2, <3>2, <4>1, SMT DEF Account, TypeOK
    <3> QED BY <3>1, <3>2
  <2> QED BY <1>3, <2>3 DEF Account, TypeOK
<1>4. CASE CreateAllocator
  <2>1. free' \in [Pools -> Nat]
    BY <1>4, HeadroomType, CurrentLimiter DEF CreateAllocator, TypeOK
  <2> QED BY <1>4, <2>1 DEF CreateAllocator, TypeOK, Zero, NoGPUs
<1>5. ASSUME NEW v \in Variants, CapOnly(v) PROVE TypeOK'
  <2>1. dec[v] \in Decisions
    BY DEF TypeOK
  <2>2. [dec[v] EXCEPT !.tgt = CeilingOf(dec[v])] \in Decisions
    BY <2>1, NeededType, WithTarget
  <2>3. dec' = [dec EXCEPT ![v] = [dec[v] EXCEPT !.tgt = CeilingOf(dec[v])]]
    BY <1>5 DEF CapOnly
  <2>4. dec' \in [Variants -> Decisions]
    BY <2>2, <2>3 DEF TypeOK
  <2> QED BY <1>5, <2>4 DEF CapOnly, TypeOK
<1>6. ASSUME NEW v \in Variants, AllocateForDecision(v) PROVE TypeOK'
  <2> DEFINE d == dec[v]
             n == Replicas(d)
             w == n * GPUsPerReplica(d)
  <2>1. d \in Decisions /\ Needed(d) > 0
    BY <1>6 DEF TypeOK, AllocateForDecision
  <2>2. /\ n \in Nat /\ w \in Nat /\ FloorOf(d, d.cur + n) \in Nat
        /\ Taken(d) \in Nat /\ Needed(d) \in Nat
        /\ d.acc # Empty /\ Finite(Lim, PoolOf(d)) => Taken(d) <= free[PoolOf(d)]
    BY <2>1, Allocation
  <2>3. (d.limited \/ n < Needed(d)) \in BOOLEAN
    BY <2>1, Fields
  <2>4. dec' \in [Variants -> Decisions]
    <3>1. dec' = [dec EXCEPT ![v] = [d EXCEPT !.tgt = FloorOf(d, d.cur + n),
                                              !.limited = d.limited \/ n < Needed(d)]]
      BY <1>6 DEF AllocateForDecision, TypeOK
    <3>2. [d EXCEPT !.tgt = FloorOf(d, d.cur + n),
                    !.limited = d.limited \/ n < Needed(d)] \in Decisions
      BY <2>1, <2>2, <2>3, WithAllocation
    <3>3. dec \in [Variants -> Decisions]
      BY DEF TypeOK
    <3> HIDE DEF d, n
    <3> QED BY <3>1, <3>2, <3>3
  <2>5. free' \in [Pools -> Nat] /\ granted' \in [Pools -> Nat]
    <3>1. CASE d.acc # Empty /\ Finite(Lim, PoolOf(d))
      <4>1. PoolOf(d) \in Pools
        BY <2>1, <3>1, PoolOfType
      <4>2. free' = [free EXCEPT ![PoolOf(d)] = @ - Taken(d)]
        BY <1>6, <3>1 DEF AllocateForDecision
      <4>3. granted' = [granted EXCEPT ![PoolOf(d)] = @ + w]
        BY <1>6, <3>1 DEF AllocateForDecision
      <4>4. free \in [Pools -> Nat] /\ granted \in [Pools -> Nat]
        BY DEF TypeOK
      <4> HIDE DEF d, n, w
      <4>5. /\ free[PoolOf(d)] \in Nat /\ granted[PoolOf(d)] \in Nat
            /\ Taken(d) \in Nat /\ w \in Nat /\ Taken(d) <= free[PoolOf(d)]
        BY <2>2, <3>1, <4>1, <4>4
      <4>6. free[PoolOf(d)] - Taken(d) \in Nat /\ granted[PoolOf(d)] + w \in Nat
        BY <4>5, SMT
      <4>7. free' \in [Pools -> Nat]
        BY <4>1, <4>2, <4>4, <4>6, Charge
      <4>8. granted' \in [Pools -> Nat]
        BY <4>1, <4>3, <4>4, <4>6, Charge
      <4> QED BY <4>7, <4>8
    <3>2. CASE ~(d.acc # Empty /\ Finite(Lim, PoolOf(d)))
      BY <1>6, <3>2 DEF AllocateForDecision, TypeOK
    <3> QED BY <3>1, <3>2
  <2>6. got' \in [Variants -> Nat]
    BY <1>6, <2>2 DEF AllocateForDecision, TypeOK
  <2> QED BY <1>6, <2>4, <2>5, <2>6 DEF AllocateForDecision, TypeOK
<1>7. CASE UpdateMetadata
  <2>1. Lim.name \in STRING
    BY CurrentLimiter DEF IsLimiter
  <2>2. \A v \in Variants : [dec[v] EXCEPT !.by = Lim.name] \in Decisions
    BY <2>1, WithBy DEF TypeOK
  <2>3. dec' \in [Variants -> Decisions]
    BY <1>7, <2>2 DEF UpdateMetadata, TypeOK
  <2>4. at' \in 1..Len(chain) /\ stage' \in {"refresh", "done"}
    BY <1>7, ChainsAssumption, SMT DEF IsChain, UpdateMetadata, TypeOK
  <2> QED BY <1>7, <2>3, <2>4 DEF UpdateMetadata, TypeOK
<1>8. CASE Returned \/ UNCHANGED vars
  BY <1>8 DEF Returned, vars, TypeOK
<1> QED BY <1>1, <1>2, <1>3, <1>4, <1>5, <1>6, <1>7, <1>8 DEF Next

\* Every behaviour of the limiter keeps its state well typed; in particular no
\* inventory, allocator or target ever goes negative.
THEOREM TypeCorrect == Spec => []TypeOK
  BY InitType, NextType, PTL DEF Spec
-----------------------------------------------------------------------------
(* Headroom and running replicas: inductive once types are known. *)

\* Both invariants hold when Limit is called.
LEMMA InitSafe == Init => WithinHeadroom /\ KeepsRunningReplicas
<1> SUFFICES ASSUME Init PROVE KeepsRunningReplicas
  BY DEF Init, WithinHeadroom
<1>1. PICK b \in Batches : /\ dec = [v \in Variants |-> AsDecision(b[v])]
                           /\ original = [v \in Variants |-> b[v].tgt]
  BY DEF Init
<1> QED BY <1>1 DEF KeepsRunningReplicas, AsDecision

\* A served candidate moves GPUs of its pool from free to granted; the GPUs
\* that make no whole replica are lost to both.
LEMMA NextHeadroom ==
  TypeOK /\ WithinHeadroom /\ [Next]_vars => WithinHeadroom'
<1> SUFFICES ASSUME TypeOK, WithinHeadroom, [Next]_vars PROVE WithinHeadroom'
  OBVIOUS
<1>1. CASE RefreshFails \/ Refresh \/ UpdateMetadata
  BY <1>1 DEF RefreshFails, Refresh, UpdateMetadata, WithinHeadroom
<1>2. ASSUME NEW v \in Variants, Account(v) PROVE WithinHeadroom'
  BY <1>2 DEF Account, WithinHeadroom
<1>3. CASE CreateAllocator
  <2>1. \A p \in Pools : Headroom(Lim, used, p) \in Nat
    BY HeadroomType, CurrentLimiter DEF TypeOK
  <2> QED BY <1>3, <2>1, SMT DEF CreateAllocator, WithinHeadroom, Zero, Lim
<1>4. ASSUME NEW v \in Variants, CapOnly(v) PROVE WithinHeadroom'
  BY <1>4 DEF CapOnly, WithinHeadroom, Lim
<1>5. ASSUME NEW v \in Variants, AllocateForDecision(v) PROVE WithinHeadroom'
  <2> DEFINE d == dec[v]
             q == PoolOf(d)
             w == Replicas(d) * GPUsPerReplica(d)
  <2>1. d \in Decisions /\ Needed(d) > 0
    BY <1>5 DEF TypeOK, AllocateForDecision
  <2>2. w \in Nat /\ w <= Taken(d) /\ Taken(d) \in Nat
    BY <2>1, Allocation
  <2>3. /\ stage = "allocate" /\ stage' = stage
        /\ Lim' = Lim /\ used' = used
    BY <1>5 DEF AllocateForDecision, Lim
  <2>4. CASE d.acc # Empty /\ Finite(Lim, q)
    <3>1. q \in Pools
      BY <2>1, <2>4, PoolOfType
    <3>2. /\ free' = [free EXCEPT ![q] = @ - Taken(d)]
          /\ granted' = [granted EXCEPT ![q] = @ + w]
      BY <1>5, <2>4 DEF AllocateForDecision
    <3>3. ASSUME NEW p \in Pools, Finite(Lim, p)
          PROVE  granted'[p] + free'[p] <= Headroom(Lim, used, p)
      <4>1. granted[p] + free[p] <= Headroom(Lim, used, p)
        BY <2>3, <3>3 DEF WithinHeadroom
      <4>2. Headroom(Lim, used, p) \in Nat
        BY HeadroomType, CurrentLimiter DEF TypeOK
      <4>3. granted[p] \in Nat /\ free[p] \in Nat
        BY DEF TypeOK
      <4>4. /\ granted'[p] = IF p = q THEN granted[p] + w ELSE granted[p]
            /\ free'[p] = IF p = q THEN free[p] - Taken(d) ELSE free[p]
        BY <3>1, <3>2 DEF TypeOK
      <4> HIDE DEF w, q
      <4> QED BY <2>2, <4>1, <4>2, <4>3, <4>4, SMT
    <3> QED BY <2>3, <3>3 DEF WithinHeadroom
  <2>5. CASE ~(d.acc # Empty /\ Finite(Lim, q))
    BY <1>5, <2>3, <2>5 DEF AllocateForDecision, WithinHeadroom
  <2> QED BY <2>4, <2>5
<1>6. CASE Returned \/ UNCHANGED vars
  BY <1>6 DEF Returned, vars, WithinHeadroom, Lim
<1> QED BY <1>1, <1>2, <1>3, <1>4, <1>5, <1>6 DEF Next

\* Theorem about CreateAllocator and TryAllocate: whatever the chain, the
\* batch and the order of service, no pass counts more GPUs against a finite
\* pool than the running replicas left of it.
THEOREM HeadroomRespected == Spec => []WithinHeadroom
  BY InitType, NextType, InitSafe, NextHeadroom, PTL DEF Spec

\* allocateForDecision only raises a target from the running count, or caps it.
LEMMA NextKeepsRunning ==
  TypeOK /\ KeepsRunningReplicas /\ [Next]_vars => KeepsRunningReplicas'
<1> SUFFICES ASSUME TypeOK, KeepsRunningReplicas, [Next]_vars
             PROVE  KeepsRunningReplicas'
  OBVIOUS
<1>1. CASE Refresh
  <2>1. \A v \in Variants : /\ dec'[v].tgt = dec[v].tgt /\ dec'[v].cur = dec[v].cur
                            /\ dec'[v].max = dec[v].max
    BY <1>1, ResolveType DEF Refresh, TypeOK
  <2> QED BY <1>1, <2>1 DEF Refresh, KeepsRunningReplicas
<1>2. ASSUME NEW v \in Variants, CapOnly(v) PROVE KeepsRunningReplicas'
  <2>1. dec' = [dec EXCEPT ![v] = [dec[v] EXCEPT !.tgt = CeilingOf(dec[v])]]
    BY <1>2 DEF CapOnly
  <2>2. dec[v] \in Decisions /\ original' = original
    BY <1>2 DEF TypeOK, CapOnly
  <2>3. \A u \in Variants : u # v => dec'[u] = dec[u]
    BY <2>1 DEF TypeOK
  <2>4. dec'[v] = [dec[v] EXCEPT !.tgt = CeilingOf(dec[v])]
    BY <2>1 DEF TypeOK
  <2>5. /\ dec'[v].tgt = CeilingOf(dec[v])
        /\ dec'[v].cur = dec[v].cur /\ dec'[v].max = dec[v].max
    BY <2>2, <2>4 DEF Decisions
  <2> QED BY <2>2, <2>3, <2>5 DEF KeepsRunningReplicas, CeilingOf
<1>3. ASSUME NEW v \in Variants, AllocateForDecision(v) PROVE KeepsRunningReplicas'
  <2> DEFINE d == dec[v]
             n == Replicas(d)
  <2>1. d \in Decisions /\ Needed(d) > 0 /\ original' = original
    BY <1>3 DEF TypeOK, AllocateForDecision
  <2>2. FloorOf(d, d.cur + n) \in Nat /\ FloorOf(d, d.cur + n) >= d.cur
    BY <2>1, Allocation
  <2>3. dec' = [dec EXCEPT ![v] = [d EXCEPT !.tgt = FloorOf(d, d.cur + n),
                                            !.limited = d.limited \/ n < Needed(d)]]
    BY <1>3 DEF AllocateForDecision, TypeOK
  <2>4. \A u \in Variants : u # v => dec'[u] = dec[u]
    BY <2>3 DEF TypeOK
  <2>5. dec'[v].tgt = FloorOf(d, d.cur + n) /\ dec'[v].cur = d.cur
    BY <2>1, <2>3 DEF TypeOK, Decisions
  <2>6. ~(dec'[v].tgt < dec'[v].cur)
    BY <2>1, <2>2, <2>5, SMT DEF Decisions
  <2> QED BY <2>1, <2>4, <2>6 DEF KeepsRunningReplicas
<1>4. CASE UpdateMetadata
  <2>1. \A v \in Variants : /\ dec'[v].tgt = dec[v].tgt /\ dec'[v].cur = dec[v].cur
                            /\ dec'[v].max = dec[v].max
    BY <1>4 DEF UpdateMetadata, TypeOK, Decisions
  <2> QED BY <1>4, <2>1 DEF UpdateMetadata, KeepsRunningReplicas
<1>5. CASE RefreshFails \/ CreateAllocator \/ Returned \/ UNCHANGED vars
  BY <1>5 DEF RefreshFails, CreateAllocator, Returned, vars, KeepsRunningReplicas
<1>6. ASSUME NEW v \in Variants, Account(v) PROVE KeepsRunningReplicas'
  BY <1>6 DEF Account, KeepsRunningReplicas
<1> QED BY <1>1, <1>2, <1>3, <1>4, <1>5, <1>6 DEF Next

\* Theorem about allocateForDecision: lack of GPUs never takes away a replica
\* that runs, for every chain and every batch.
THEOREM RunningReplicasKept == Spec => []KeepsRunningReplicas
  BY InitType, NextType, InitSafe, NextKeepsRunning, PTL DEF Spec
-----------------------------------------------------------------------------
(* Strict priority and attribution need the state of a pass: PassInv. *)

\* u wanted GPUs of a finite pool in this pass and was served fewer.
Denied(u) ==
  /\ u \notin queue
  /\ before[u].acc # Empty
  /\ Finite(Lim, PoolOf(before[u]))
  /\ Needed(before[u]) > 0
  /\ got[u] < Needed(before[u]) * GPUsPerReplica(before[u])

\* During a pass: candidates not served yet are untouched and have got
\* nothing, none of them precedes a candidate already served, and whoever was
\* denied left its pool empty.
PassInv ==
  stage = "allocate" =>
    /\ \A v \in queue : dec[v] = before[v] /\ got[v] = 0
    /\ \A v \in Variants \ queue : before[v].tgt <= before[v].cur => got[v] = 0
    /\ \A u \in queue, v \in Variants \ queue :
         before[v].tgt > before[v].cur => ~Precedes(before[u], before[v])
    /\ \A u \in Variants : Denied(u) => free[PoolOf(before[u])] = 0

\* The inductive invariant of StrictPriority
IInv == TypeOK /\ PassInv /\ StrictPriority

\* A candidate to serve has replicas to add, so its target was a scale-up.
LEMMA NeededIsScaleUp ==
  ASSUME NEW d \in Decisions, Needed(d) > 0
  PROVE  d.tgt > d.cur
  BY SMT DEF Needed, CeilingOf, Decisions

\* A pool without GPUs gives nothing; a pool that cannot serve a request in
\* full is emptied by it.
LEMMA Drained ==
  ASSUME TypeOK, NEW d \in Decisions, Needed(d) > 0,
         d.acc # Empty, Finite(Lim, PoolOf(d))
  PROVE  /\ free[PoolOf(d)] = 0 => Replicas(d) * GPUsPerReplica(d) = 0
         /\ Replicas(d) * GPUsPerReplica(d) < Needed(d) * GPUsPerReplica(d)
              => Taken(d) = free[PoolOf(d)]
<1> DEFINE g == GPUsPerReplica(d)
           r == Needed(d) * g
           f == free[PoolOf(d)]
<1>1. /\ g \in Nat \ {0} /\ Needed(d) \in Nat /\ r \in Nat /\ Taken(d) \in Nat
      /\ Taken(d) <= f /\ Replicas(d) * g \in Nat /\ Replicas(d) * g <= Taken(d)
  BY Allocation
<1>2. f \in Nat
  BY PoolOfType DEF TypeOK
<1>3. f = 0 => Replicas(d) * g = 0
  <2> HIDE DEF g, f
  <2> QED BY <1>1, <1>2, SMT
<1>4. Taken(d) = IF r < f THEN r ELSE f
  BY DEF Taken, TryAllocate
<1>5. Taken(d) = r => Replicas(d) = Needed(d)
  <2>1. (Needed(d) * g) \div g = Needed(d)
    BY <1>1, FullRequest
  <2> QED BY <2>1 DEF Replicas
<1>6. Replicas(d) * g < r => Taken(d) # r
  <2> HIDE DEF g
  <2> QED BY <1>1, <1>5, SMT
<1> QED BY <1>3, <1>4, <1>6

\* No pass has begun when Limit is called.
LEMMA InitPass == Init => PassInv /\ StrictPriority
  BY DEF Init, PassInv, StrictPriority

\* Serving a candidate: the pool it drains is the one its denial is about.
LEMMA AllocatePass ==
  ASSUME IInv, NEW v \in Variants, AllocateForDecision(v)
  PROVE  (PassInv /\ StrictPriority)'
<1> DEFINE d == dec[v]
           q == PoolOf(d)
           w == Replicas(d) * GPUsPerReplica(d)
<1>1. /\ stage = "allocate" /\ stage' = stage /\ v \in queue
      /\ queue' = queue \ {v} /\ before' = before /\ Lim' = Lim
      /\ got' = [got EXCEPT ![v] = w] /\ Needed(d) > 0
      /\ \A u \in queue : ~Precedes(dec[u], d)
  BY DEF AllocateForDecision, Lim
<1>2. d \in Decisions /\ before \in [Variants -> Decisions]
  BY DEF IInv, TypeOK
<1>3. d = before[v] /\ d.tgt > d.cur
  BY <1>1, <1>2, NeededIsScaleUp DEF IInv, PassInv
<1>4. w \in Nat /\ Taken(d) \in Nat
  BY <1>1, <1>2, Allocation DEF IInv
<1>5. got'[v] = w /\ \A u \in Variants : u # v => got'[u] = got[u]
  BY <1>1, <1>4 DEF IInv, TypeOK
<1>6. \A u \in Variants : u # v => dec'[u] = dec[u]
  BY DEF AllocateForDecision, IInv, TypeOK
<1>7. \A e \in Decisions : /\ PoolOf(e)' = PoolOf(e)
                           /\ Finite(Lim, PoolOf(e))' = Finite(Lim, PoolOf(e))
  BY <1>1 DEF PoolOf
<1>8. \A u \in Variants : u # v => (Denied(u)' => Denied(u))
  BY <1>1, <1>2, <1>5, <1>7 DEF Denied
<1>9. \A u \in Variants : Denied(u) => free[PoolOf(before[u])] = 0
  BY <1>1 DEF IInv, PassInv
<1>10. \A u \in Variants : Denied(u)' => free'[PoolOf(before[u])] = 0
  <2> SUFFICES ASSUME NEW u \in Variants, Denied(u)'
               PROVE  free'[PoolOf(before[u])] = 0
    OBVIOUS
  <2>1. PoolOf(before[u]) \in Pools
    BY <1>1, <1>2, PoolOfType DEF Denied, IInv
  <2>2. CASE d.acc # Empty /\ Finite(Lim, q)
    <3>1. q \in Pools /\ free[q] \in Nat
      BY <1>2, <2>2, PoolOfType DEF IInv, TypeOK
    <3>2. free' = [free EXCEPT ![q] = @ - Taken(d)]
      BY <2>2 DEF AllocateForDecision
    <3>3. Taken(d) <= free[q]
      BY <1>1, <1>2, <2>2, Allocation DEF IInv
    <3>4. CASE u # v
      <4>1. free[PoolOf(before[u])] = 0
        BY <1>8, <1>9, <3>4
      <4>2. CASE PoolOf(before[u]) = q
        BY <1>4, <3>1, <3>2, <3>3, <4>1, <4>2, SMT DEF IInv, TypeOK
      <4>3. CASE PoolOf(before[u]) # q
        BY <2>1, <3>1, <3>2, <4>1, <4>3 DEF IInv, TypeOK
      <4> QED BY <4>2, <4>3
    <3>5. CASE u = v
      <4>1. w < Needed(d) * GPUsPerReplica(d)
        BY <1>1, <1>3, <1>5, <3>5 DEF Denied
      <4>2. Taken(d) = free[q]
        BY <1>1, <1>2, <2>2, <4>1, Drained DEF IInv
      <4> QED BY <1>3, <3>1, <3>2, <3>5, <4>2, SMT DEF IInv, TypeOK
    <3> QED BY <3>4, <3>5
  <2>3. CASE ~(d.acc # Empty /\ Finite(Lim, q))
    <3>1. u # v
      BY <1>1, <1>2, <1>3, <1>7, <2>3 DEF Denied
    <3>2. free' = free
      BY <2>3 DEF AllocateForDecision
    <3> QED BY <1>8, <1>9, <3>1, <3>2
  <2> QED BY <2>2, <2>3
<1>11. PassInv'
  <2>1. \A u \in queue' : dec'[u] = before'[u] /\ got'[u] = 0
    BY <1>1, <1>5, <1>6 DEF IInv, PassInv, TypeOK
  <2>2. \A u \in Variants \ queue' : before'[u].tgt <= before'[u].cur => got'[u] = 0
    <3> SUFFICES ASSUME NEW u \in Variants \ queue', before[u].tgt <= before[u].cur
                 PROVE  got'[u] = 0
      BY <1>1
    <3>1. u # v
      BY <1>2, <1>3, SMT DEF Decisions
    <3> QED BY <1>1, <1>5, <3>1 DEF IInv, PassInv
  <2>3. \A u \in queue', x \in Variants \ queue' :
          before'[x].tgt > before'[x].cur => ~Precedes(before'[u], before'[x])
    <3> SUFFICES ASSUME NEW u \in queue', NEW x \in Variants \ queue',
                        before[x].tgt > before[x].cur
                 PROVE  ~Precedes(before[u], before[x])
      BY <1>1
    <3>1. CASE x = v
      BY <1>1, <1>3, <3>1 DEF IInv, PassInv
    <3>2. CASE x # v
      BY <1>1, <3>2 DEF IInv, PassInv
    <3> QED BY <3>1, <3>2
  <2>4. \A u \in Variants : Denied(u)' => free'[PoolOf(before[u])'] = 0
    BY <1>1, <1>2, <1>7, <1>10
  <2> QED BY <2>1, <2>2, <2>3, <2>4 DEF PassInv
<1>12. StrictPriority'
  <2> SUFFICES ASSUME NEW u \in Variants, NEW x \in Variants,
                      u \notin queue', x \notin queue',
                      Precedes(before[u], before[x]),
                      PoolOf(before[u]) = PoolOf(before[x]),
                      before[u].acc # Empty,
                      Finite(Lim, PoolOf(before[u])),
                      Needed(before[u]) > 0,
                      got'[u] < Needed(before[u]) * GPUsPerReplica(before[u])
               PROVE  got'[x] = 0
    BY <1>1, <1>2, <1>7 DEF StrictPriority
  <2>1. u # x
    BY <1>2, PrecedesIrreflexive
  <2>2. CASE x = v
    <3>1. Denied(u)
      BY <1>1, <1>5, <2>1, <2>2 DEF Denied
    <3>2. free[q] = 0 /\ d.acc # Empty /\ Finite(Lim, q)
      <4>1. free[q] = 0 /\ Finite(Lim, q)
        BY <1>3, <1>9, <2>2, <3>1
      <4>2. PoolOf(before[u])[2] = before[u].acc /\ PoolOf(d)[2] = d.acc
        BY DEF PoolOf
      <4> QED BY <1>3, <2>2, <4>1, <4>2
    <3> QED BY <1>1, <1>2, <1>5, <2>2, <3>2, Drained DEF IInv
  <2>3. CASE u = v
    <3>1. x \notin queue /\ x # v
      BY <1>1, <2>1, <2>3
    <3>2. CASE before[x].tgt > before[x].cur
      BY <1>1, <2>3, <3>1, <3>2 DEF IInv, PassInv
    <3>3. CASE ~(before[x].tgt > before[x].cur)
      <4>1. before[x].tgt <= before[x].cur
        <5>1. before[x] \in Decisions
          BY <1>2
        <5>2. before[x].tgt \in Nat /\ before[x].cur \in Nat
          BY <5>1, Fields
        <5> QED BY <3>3, <5>2, SMT
      <4> QED BY <1>1, <1>5, <3>1, <4>1 DEF IInv, PassInv
    <3> QED BY <3>2, <3>3
  <2>4. CASE u # v /\ x # v
    BY <1>1, <1>5, <2>4 DEF IInv, StrictPriority
  <2> QED BY <2>2, <2>3, <2>4
<1> QED BY <1>11, <1>12

\* A candidate capped by MaxReplicas takes nothing and is denied nothing.
LEMMA CapOnlyPass ==
  ASSUME IInv, NEW v \in Variants, CapOnly(v)
  PROVE  (PassInv /\ StrictPriority)'
<1>1. /\ stage = "allocate" /\ stage' = stage /\ v \in queue
      /\ queue' = queue \ {v} /\ before' = before /\ Lim' = Lim
      /\ got' = got /\ free' = free /\ Needed(dec[v]) <= 0
      /\ \A u \in queue : ~Precedes(dec[u], dec[v])
  BY DEF CapOnly, Lim
<1>2. dec[v] = before[v] /\ got[v] = 0
  BY <1>1 DEF IInv, PassInv
<1>3. Needed(before[v]) \in Int
  BY NeededType DEF IInv, TypeOK
<1>4. \A u \in Variants : u # v => dec'[u] = dec[u]
  BY DEF CapOnly, IInv, TypeOK
<1>5. \A e : PoolOf(e)' = PoolOf(e)
  BY <1>1 DEF PoolOf
<1>6. \A u \in Variants : Denied(u)' => Denied(u)
  BY <1>1, <1>2, <1>3, SMT DEF Denied, PoolOf
<1>7. PassInv'
  <2>1. \A u \in queue' : dec'[u] = before'[u] /\ got'[u] = 0
    BY <1>1, <1>4 DEF IInv, PassInv, TypeOK
  <2>2. \A u \in Variants \ queue' : before'[u].tgt <= before'[u].cur => got'[u] = 0
    BY <1>1, <1>2 DEF IInv, PassInv
  <2>3. \A u \in queue', x \in Variants \ queue' :
          before'[x].tgt > before'[x].cur => ~Precedes(before'[u], before'[x])
    BY <1>1, <1>2 DEF IInv, PassInv
  <2>4. \A u \in Variants : Denied(u)' => free'[PoolOf(before[u])'] = 0
    BY <1>1, <1>6 DEF IInv, PassInv, PoolOf
  <2> QED BY <2>1, <2>2, <2>3, <2>4 DEF PassInv
<1>8. StrictPriority'
  <2> SUFFICES ASSUME NEW u \in Variants, NEW x \in Variants,
                      u \notin queue', x \notin queue',
                      Precedes(before[u], before[x]),
                      PoolOf(before[u]) = PoolOf(before[x]),
                      before[u].acc # Empty,
                      Finite(Lim, PoolOf(before[u])),
                      Needed(before[u]) > 0,
                      got[u] < Needed(before[u]) * GPUsPerReplica(before[u])
               PROVE  got[x] = 0
    BY <1>1, <1>5 DEF StrictPriority
  <2>1. CASE x = v
    BY <1>2, <2>1
  <2>2. u # v
    BY <1>1, <1>2, <1>3, SMT
  <2>3. CASE x # v
    BY <1>1, <2>2, <2>3 DEF IInv, StrictPriority
  <2> QED BY <2>1, <2>3
<1> QED BY <1>7, <1>8

\* PassInv and StrictPriority are preserved together.
LEMMA NextPass == IInv /\ [Next]_vars => (PassInv /\ StrictPriority)'
<1> SUFFICES ASSUME IInv, [Next]_vars PROVE (PassInv /\ StrictPriority)'
  OBVIOUS
<1>1. CASE RefreshFails \/ Refresh \/ UpdateMetadata
  BY <1>1 DEF RefreshFails, Refresh, UpdateMetadata, PassInv, StrictPriority
<1>2. ASSUME NEW v \in Variants, Account(v) PROVE (PassInv /\ StrictPriority)'
  BY <1>2 DEF Account, PassInv, StrictPriority
<1>3. CASE CreateAllocator
  <2>1. /\ queue' = {v \in Variants : dec[v].tgt > dec[v].cur}
        /\ before' = dec /\ dec' = dec /\ got' = NoGPUs
    BY <1>3 DEF CreateAllocator
  <2>2. dec \in [Variants -> Decisions]
    BY DEF IInv, TypeOK
  <2>3. \A v \in Variants : got'[v] = 0
    BY <2>1 DEF NoGPUs
  <2>4. \A v \in Variants \ queue' : ~(Needed(dec[v]) > 0)
    BY <2>1, <2>2, Fields, SMT DEF Needed, CeilingOf
  <2>5. \A v \in Variants : ~Denied(v)'
    BY <2>1, <2>4 DEF Denied
  <2>6. PassInv'
    BY <2>1, <2>3, <2>5 DEF PassInv
  <2>7. StrictPriority'
    BY <2>3 DEF StrictPriority
  <2> QED BY <2>6, <2>7
<1>4. ASSUME NEW v \in Variants, CapOnly(v) PROVE (PassInv /\ StrictPriority)'
  BY <1>4, CapOnlyPass
<1>5. ASSUME NEW v \in Variants, AllocateForDecision(v)
      PROVE  (PassInv /\ StrictPriority)'
  BY <1>5, AllocatePass
<1>6. CASE Returned \/ UNCHANGED vars
  BY <1>6 DEF Returned, vars, IInv, PassInv, StrictPriority, Denied, Lim, PoolOf
<1> QED BY <1>1, <1>2, <1>3, <1>4, <1>5, <1>6 DEF Next

\* Theorem about GreedyBySaturation over any allocator of the chain: a denied
\* candidate leaves nothing of its pool to a candidate that ranks below it.
THEOREM PriorityRespected == Spec => []StrictPriority
<1>1. Init => IInv
  BY InitType, InitPass DEF IInv
<1>2. IInv /\ [Next]_vars => IInv'
  BY NextType, NextPass DEF IInv
<1>3. IInv => StrictPriority
  BY DEF IInv
<1> QED BY <1>1, <1>2, <1>3, PTL DEF Spec
-----------------------------------------------------------------------------
(* Attribution. *)

\* Outside a pass exactly the limited decisions name a limiter; during one
\* the names are those of the pass's start.
CreditInv ==
  /\ TypeOK
  /\ stage # "allocate" => \A v \in Variants : dec[v].limited <=> dec[v].by # None
  /\ stage = "allocate" =>
       \A v \in Variants : /\ before[v].limited <=> before[v].by # None
                           /\ dec[v].by = before[v].by
                           /\ before[v].limited => dec[v].limited

\* One step of the chain keeps the names in order and credits the limiter of
\* the pass that just ended.
LEMMA CreditStep ==
  CreditInv /\ [Next]_vars =>
    /\ CreditInv'
    /\ stage # "done" =>
         \A v \in Variants :
           /\ dec[v].limited => dec'[v].limited
           /\ dec[v].by # None => dec'[v].by = dec[v].by
           /\ dec[v].limited /\ dec[v].by = None /\ stage' # stage
                => dec'[v].by = Lim.name
<1> DEFINE Credited ==
      stage # "done" =>
        \A v \in Variants :
          /\ dec[v].limited => dec'[v].limited
          /\ dec[v].by # None => dec'[v].by = dec[v].by
          /\ dec[v].limited /\ dec[v].by = None /\ stage' # stage
               => dec'[v].by = Lim.name
<1> SUFFICES ASSUME CreditInv, [Next]_vars PROVE CreditInv' /\ Credited
  OBVIOUS
<1>1. TypeOK'
  BY NextType DEF CreditInv
<1>2. CASE RefreshFails \/ Returned \/ UNCHANGED vars
  BY <1>1, <1>2 DEF RefreshFails, Returned, vars, CreditInv
<1>3. CASE Refresh
  <2>1. \A v \in Variants : dec'[v].limited = dec[v].limited /\ dec'[v].by = dec[v].by
    <3> SUFFICES ASSUME NEW v \in Variants
                 PROVE  dec'[v].limited = dec[v].limited /\ dec'[v].by = dec[v].by
      OBVIOUS
    <3>1. dec'[v] = Resolve(dec[v]) /\ dec[v] \in Decisions
      BY <1>3 DEF Refresh, CreditInv, TypeOK
    <3> QED BY <3>1 DEF Resolve, Decisions
  <2> QED BY <1>1, <1>3, <2>1 DEF Refresh, CreditInv
<1>4. ASSUME NEW v \in Variants, Account(v) PROVE CreditInv' /\ Credited
  BY <1>1, <1>4 DEF Account, CreditInv
<1>5. CASE CreateAllocator
  BY <1>1, <1>5 DEF CreateAllocator, CreditInv
<1>6. ASSUME NEW v \in Variants, CapOnly(v) \/ AllocateForDecision(v)
      PROVE  CreditInv' /\ Credited
  <2>1. \A u \in Variants : /\ dec'[u].by = dec[u].by
                            /\ dec[u].limited => dec'[u].limited
    <3> SUFFICES ASSUME NEW u \in Variants
                 PROVE  dec'[u].by = dec[u].by /\ (dec[u].limited => dec'[u].limited)
      OBVIOUS
    <3>1. dec[u] \in Decisions /\ dec \in [Variants -> Decisions]
      BY DEF CreditInv, TypeOK
    <3>2. CASE CapOnly(v)
      BY <3>1, <3>2 DEF CapOnly, Decisions
    <3>3. CASE AllocateForDecision(v)
      BY <3>1, <3>3 DEF AllocateForDecision, Decisions
    <3> QED BY <1>6, <3>2, <3>3
  <2>2. stage = "allocate" /\ stage' = "allocate" /\ before' = before
    BY <1>6 DEF CapOnly, AllocateForDecision
  <2> QED BY <1>1, <2>1, <2>2 DEF CreditInv
<1>7. CASE UpdateMetadata
  <2>1. stage = "allocate" /\ stage' # "allocate"
    BY <1>7 DEF UpdateMetadata
  <2>2. Lim.name # None
    BY CurrentLimiter DEF CreditInv, IsLimiter
  <2>3. ASSUME NEW v \in Variants
        PROVE  /\ dec'[v].limited = dec[v].limited
               /\ dec'[v].by = IF dec[v].limited /\ ~before[v].limited
                               THEN Lim.name ELSE dec[v].by
    <3>1. dec[v] \in Decisions
      BY DEF CreditInv, TypeOK
    <3>2. dec'[v] = IF dec[v].limited /\ ~before[v].limited
                    THEN [dec[v] EXCEPT !.by = Lim.name] ELSE dec[v]
      BY <1>7 DEF UpdateMetadata
    <3> QED BY <3>1, <3>2 DEF Decisions
  <2>4. CreditInv'
    BY <1>1, <2>1, <2>2, <2>3 DEF CreditInv
  <2>5. Credited
    BY <2>1, <2>3 DEF CreditInv
  <2> QED BY <2>4, <2>5
<1> QED BY <1>2, <1>3, <1>4, <1>5, <1>6, <1>7 DEF Next

\* Theorem about updateDecisionMetadata along a chain: the first constituent
\* to constrain a decision is the one LimitedBy names, for good.
THEOREM FirstCredited == Spec => FirstLimiterCredited
<1>1. Init => CreditInv
  <2> SUFFICES ASSUME Init PROVE CreditInv
    OBVIOUS
  <2>1. \A v \in Variants : dec[v].limited = FALSE /\ dec[v].by = None
    <3>1. PICK b \in Batches : dec = [v \in Variants |-> AsDecision(b[v])]
      BY DEF Init
    <3>2. \A v \in Variants : dec[v] = AsDecision(b[v])
      BY <3>1
    <3> QED BY <3>2, StartsUnlimited
  <2> QED BY <2>1, InitType DEF CreditInv, Init
<1> QED BY <1>1, CreditStep, PTL DEF Spec, FirstLimiterCredited
-----------------------------------------------------------------------------
(* The most restrictive cap. The sums are taken over a decision vector e, so *)
(* that they can be compared before and after a step.                        *)

\* The variants of a pool, the GPUs they add, the GPUs they run on, and what
\* n running GPUs leave of a cap
MembersOf(e, l, p) == {v \in Variants : <<Owner(l, e[v].ns), e[v].acc>> = p}
AddsOf(e) == [v \in Variants |-> Adds(e[v])]
UseOf(e) == [v \in Variants |-> e[v].cur * e[v].gpus]
Room(l, p, n) == IF Cap(l, p) > n THEN Cap(l, p) - n ELSE 0

\* The decision vector e keeps to the caps of l.
Keeps(e, l) ==
  \A p \in Pools : Finite(l, p) =>
    SumOf(AddsOf(e), MembersOf(e, l, p)) <= Room(l, p, SumOf(UseOf(e), MembersOf(e, l, p)))

\* CapsHold speaks of the current decisions.
LEMMA CapsNow == ASSUME NEW l PROVE CapsHold(l) <=> Keeps(dec, l)
  BY SumOfFold DEF CapsHold, Keeps, Added, Running, InPool, MembersOf, AddsOf, UseOf, Room

\* The GPUs a decision adds and the GPUs it runs on are counts.
LEMMA GPUCounts ==
  ASSUME NEW d \in Decisions
  PROVE  Adds(d) \in Nat /\ d.cur * d.gpus \in Nat
<1>1. GPUsPerReplica(d) \in Nat
  BY Fields DEF GPUsPerReplica
<1>2. \A a, b \in Nat : a * b \in Nat
  BY SMT
<1>3. d.tgt > d.cur => d.tgt - d.cur \in Nat
  BY Fields, SMT
<1>4. d.tgt > d.cur => (d.tgt - d.cur) * GPUsPerReplica(d) \in Nat
  BY <1>1, <1>2, <1>3
<1> QED BY <1>2, <1>4, Fields DEF Adds

\* The sums of a decision vector are sums of counts over a finite set.
LEMMA VectorCounts ==
  ASSUME NEW e \in [Variants -> Decisions], NEW l, NEW p
  PROVE  /\ MembersOf(e, l, p) \subseteq Variants
         /\ IsFiniteSet(MembersOf(e, l, p))
         /\ \A v \in Variants : /\ AddsOf(e)[v] = Adds(e[v]) /\ AddsOf(e)[v] \in Nat
                                /\ UseOf(e)[v] = e[v].cur * e[v].gpus /\ UseOf(e)[v] \in Nat
         /\ SumOf(AddsOf(e), MembersOf(e, l, p)) \in Nat
         /\ SumOf(UseOf(e), MembersOf(e, l, p)) \in Nat
<1>1. MembersOf(e, l, p) \subseteq Variants
  BY DEF MembersOf
<1>2. IsFiniteSet(MembersOf(e, l, p))
  BY <1>1, VariantsAssumption, FS_Subset
<1>3. \A v \in Variants : /\ AddsOf(e)[v] = Adds(e[v]) /\ AddsOf(e)[v] \in Nat
                          /\ UseOf(e)[v] = e[v].cur * e[v].gpus /\ UseOf(e)[v] \in Nat
  BY GPUCounts DEF AddsOf, UseOf
<1>4. /\ SumOf(AddsOf(e), MembersOf(e, l, p)) \in Nat
      /\ SumOf(UseOf(e), MembersOf(e, l, p)) \in Nat
  BY <1>1, <1>2, <1>3, SumNatural
<1> QED BY <1>1, <1>2, <1>3, <1>4

\* f differs from e in what a step may write: pools and running replicas stay.
SamePools(e, f) ==
  \A v \in Variants : /\ f[v].ns = e[v].ns /\ f[v].acc = e[v].acc
                      /\ f[v].cur = e[v].cur /\ f[v].gpus = e[v].gpus

\* What such a step leaves as it was.
LEMMA SameSums ==
  ASSUME NEW e, NEW f, SamePools(e, f), NEW l, NEW p
  PROVE  MembersOf(f, l, p) = MembersOf(e, l, p) /\ UseOf(f) = UseOf(e)
  BY DEF SamePools, MembersOf, UseOf

\* A cap that was kept to is still kept to when no decision adds more.
LEMMA StillKeeps ==
  ASSUME NEW e \in [Variants -> Decisions], NEW f \in [Variants -> Decisions],
         SamePools(e, f), \A v \in Variants : Adds(f[v]) <= Adds(e[v]),
         NEW l, IsLimiter(l), Keeps(e, l)
  PROVE  Keeps(f, l)
<1> SUFFICES ASSUME NEW p \in Pools, Finite(l, p)
             PROVE  SumOf(AddsOf(f), MembersOf(f, l, p))
                      <= Room(l, p, SumOf(UseOf(f), MembersOf(f, l, p)))
  BY DEF Keeps
<1> DEFINE S == MembersOf(e, l, p)
           n == SumOf(UseOf(e), S)
<1>1. MembersOf(f, l, p) = S /\ UseOf(f) = UseOf(e)
  BY SameSums, SMT
<1>2. /\ S \subseteq Variants /\ IsFiniteSet(S) /\ n \in Nat
      /\ SumOf(AddsOf(e), S) \in Nat /\ SumOf(AddsOf(f), S) \in Nat
      /\ \A v \in Variants : /\ AddsOf(e)[v] = Adds(e[v]) /\ AddsOf(e)[v] \in Nat
                             /\ AddsOf(f)[v] = Adds(f[v]) /\ AddsOf(f)[v] \in Nat
  BY <1>1, VectorCounts
<1>3. SumOf(AddsOf(e), S) <= Room(l, p, n)
  BY DEF Keeps
<1>4. Room(l, p, n) \in Int
  <2>1. Cap(l, p) \in Int
    BY CapType, SMT DEF Unlimited
  <2> HIDE DEF n
  <2> QED BY <1>2, <2>1, SMT DEF Room
<1> HIDE DEF S, n
<1>5. SumOf(AddsOf(f), S) <= SumOf(AddsOf(e), S)
  BY <1>2, SumMonotone, SMT
<1>6. SumOf(AddsOf(f), S) <= Room(l, p, n)
  BY <1>2, <1>3, <1>4, <1>5, SMT
<1> QED BY <1>1, <1>6 DEF n

\* Whole replicas and the GPUs they need are ordered alike.
LEMMA ReplicasInOrder ==
  ASSUME NEW a \in Nat, NEW b \in Nat, NEW g \in Nat \ {0}
  PROVE  a * g <= b * g <=> a <= b
<1>1. a <= b => a * g <= b * g
  BY SMT
<1>2. a > b => a * g >= b * g + g
  BY SMT
<1>3. a * g \in Nat /\ b * g \in Nat
  BY SMT
<1> QED BY <1>1, <1>2, <1>3, SMT

\* A candidate stopped by its ceiling adds nothing any more.
LEMMA CapOnlyAdds ==
  ASSUME TypeOK, NEW v \in Variants, CapOnly(v)
  PROVE  /\ SamePools(dec, dec')
         /\ \A u \in Variants : u # v => dec'[u] = dec[u]
         /\ Adds(dec'[v]) = 0
<1>1. dec[v] \in Decisions /\ dec \in [Variants -> Decisions]
  BY DEF TypeOK
<1>2. dec' = [dec EXCEPT ![v] = [dec[v] EXCEPT !.tgt = CeilingOf(dec[v])]]
  BY DEF CapOnly
<1>3. \A u \in Variants : u # v => dec'[u] = dec[u]
  BY <1>1, <1>2
<1>4. dec'[v] = [dec[v] EXCEPT !.tgt = CeilingOf(dec[v])]
  BY <1>1, <1>2
<1>5. /\ dec'[v].tgt = CeilingOf(dec[v]) /\ dec'[v].cur = dec[v].cur
      /\ dec'[v].ns = dec[v].ns /\ dec'[v].acc = dec[v].acc /\ dec'[v].gpus = dec[v].gpus
  BY <1>1, <1>4 DEF Decisions
<1>6. SamePools(dec, dec')
  BY <1>3, <1>5 DEF SamePools
<1>7. ~(CeilingOf(dec[v]) > dec[v].cur)
  <2>1. CeilingOf(dec[v]) - dec[v].cur <= 0
    BY DEF CapOnly, Needed
  <2> QED BY <1>1, <2>1, Fields, NeededType, SMT
<1> QED BY <1>3, <1>5, <1>6, <1>7 DEF Adds

\* A served candidate adds what it got, or its floor, and no more than before.
LEMMA AllocateAdds ==
  ASSUME TypeOK, NEW v \in Variants, AllocateForDecision(v)
  PROVE  /\ SamePools(dec, dec')
         /\ \A u \in Variants : u # v => dec'[u] = dec[u]
         /\ Adds(dec'[v]) <= Adds(dec[v])
         /\ Adds(dec'[v]) <= Replicas(dec[v]) * GPUsPerReplica(dec[v])
<1> DEFINE d == dec[v]
           n == Replicas(d)
           g == GPUsPerReplica(d)
           t == FloorOf(d, d.cur + n)
<1>1. d \in Decisions /\ dec \in [Variants -> Decisions] /\ Needed(d) > 0
  BY DEF TypeOK, AllocateForDecision
<1>2. dec' = [dec EXCEPT ![v] = [d EXCEPT !.tgt = t, !.limited = d.limited \/ n < Needed(d)]]
  BY DEF AllocateForDecision, TypeOK
<1>3. \A u \in Variants : u # v => dec'[u] = dec[u]
  BY <1>1, <1>2
<1>4. /\ dec'[v].tgt = t /\ dec'[v].cur = d.cur /\ dec'[v].min = d.min
      /\ dec'[v].ns = d.ns /\ dec'[v].acc = d.acc /\ dec'[v].gpus = d.gpus
  BY <1>1, <1>2 DEF Decisions
<1>5. SamePools(dec, dec')
  BY <1>3, <1>4 DEF SamePools
<1>6. GPUsPerReplica(dec'[v]) = g
  BY <1>4 DEF GPUsPerReplica
<1>7. /\ g \in Nat \ {0} /\ n \in Nat /\ n * g \in Nat /\ n * g <= Taken(d)
      /\ Taken(d) \in Nat /\ Needed(d) \in Nat /\ Needed(d) * g \in Nat
  BY <1>1, Allocation
<1>8. Taken(d) <= Needed(d) * g
  <2>1. d.acc # Empty => free[PoolOf(d)] \in Nat
    BY <1>1, PoolOfType DEF TypeOK
  <2> QED BY <1>7, <2>1, SMT DEF Taken, TryAllocate
<1>9. n <= Needed(d)
  <2> HIDE DEF n, g
  <2>1. n * g <= Needed(d) * g
    BY <1>7, <1>8, SMT
  <2> QED BY <1>7, <2>1, ReplicasInOrder
<1>10. /\ d.cur \in Nat /\ d.tgt \in Nat /\ d.min \in Nat
       /\ Needed(d) <= d.tgt - d.cur
  BY <1>1, Fields, SMT DEF Needed, CeilingOf
<1>11. CASE t = d.min \/ ~(t > d.cur)
  <2>1. Adds(dec'[v]) = 0
    BY <1>4, <1>11 DEF Adds
  <2>2. Adds(d) \in Nat
    BY <1>1, GPUCounts
  <2> HIDE DEF d, n, g
  <2> QED BY <1>3, <1>5, <1>7, <2>1, <2>2, SMT DEF d, n, g
<1>12. CASE t # d.min /\ t > d.cur
  <2>1. t = d.cur + n /\ t > d.min
    <3> HIDE DEF n, d
    <3> QED BY <1>7, <1>10, <1>12, SMT DEF FloorOf
  <2>2. Adds(dec'[v]) = (t - d.cur) * g
    BY <1>4, <1>6, <1>12 DEF Adds
  <2>3. t - d.cur = n
    <3> HIDE DEF n, t, d
    <3> QED BY <1>7, <1>10, <2>1, SMT
  <2>4. d.tgt > d.cur /\ d.tgt # d.min /\ n <= d.tgt - d.cur /\ d.tgt - d.cur \in Nat
    <3> HIDE DEF n, t, d
    <3> QED BY <1>7, <1>9, <1>10, <1>12, <2>1, SMT
  <2>5. Adds(d) = (d.tgt - d.cur) * g
    BY <2>4 DEF Adds
  <2>6. n * g <= (d.tgt - d.cur) * g
    <3> HIDE DEF n, g, d
    <3> QED BY <1>7, <2>4, ReplicasInOrder
  <2>7. Adds(dec'[v]) = n * g
    BY <2>2, <2>3
  <2>8. Adds(dec'[v]) <= n * g
    <3> HIDE DEF n, g, d
    <3> QED BY <1>7, <2>7, SMT
  <2> QED BY <1>3, <1>5, <2>5, <2>6, <2>7, <2>8
<1> QED BY <1>11, <1>12

\* What the pass of a constituent has counted: the running replicas it has
\* charged; then the GPUs granted, pool by pool and candidate by candidate.
CountInv ==
  /\ stage = "account" =>
       \A p \in Pools : used[p] = SumOf(UseOf(dec), MembersOf(dec, Lim, p) \ uncounted)
  /\ stage = "allocate" =>
       /\ \A p \in Pools : used[p] = SumOf(UseOf(dec), MembersOf(dec, Lim, p))
       /\ \A p \in Pools : Finite(Lim, p) =>
            granted[p] = SumOf(got, MembersOf(dec, Lim, p))
       /\ \A v \in queue : got[v] = 0
       /\ \A v \in Variants \ queue : Adds(dec[v]) <= got[v]

\* The constituents whose pass is over.
Passed(i) == i < at \/ (stage = "done" /\ ~failed)

\* The targets keep to the caps of every constituent whose pass is over.
PastInv == \A i \in 1..Len(chain) : Passed(i) => Keeps(dec, chain[i])

\* The inductive invariant of a call in which names are settled
CapInv == TypeOK /\ WithinHeadroom /\ CountInv /\ PastInv

\* Nothing is counted and no pass is over when Limit is called.
LEMMA InitCap == Init => CapInv
<1> SUFFICES ASSUME Init PROVE CountInv /\ PastInv
  BY InitType, InitSafe DEF CapInv
<1>1. CountInv
  BY DEF Init, CountInv
<1>2. at = 1 /\ stage = "refresh"
  BY DEF Init
<1>3. \A i \in 1..Len(chain) : ~Passed(i)
  BY <1>2, SMT DEF Passed
<1> QED BY <1>1, <1>3 DEF PastInv

\* Charging a decision: its GPUs join the sum of its own pool and of no other.
LEMMA AccountCount ==
  ASSUME TypeOK, CountInv, NEW v \in Variants, Account(v)
  PROVE  CountInv'
<1> SUFFICES ASSUME NEW p \in Pools
             PROVE  used'[p] = SumOf(UseOf(dec), MembersOf(dec, Lim, p) \ uncounted')
  BY DEF Account, CountInv, Lim
<1> DEFINE S == MembersOf(dec, Lim, p)
           f == UseOf(dec)
<1>1. /\ stage = "account" /\ v \in uncounted /\ uncounted' = uncounted \ {v}
      /\ used' = IF dec[v].acc = Empty THEN used
                 ELSE [used EXCEPT ![PoolOf(dec[v])] = @ + dec[v].cur * dec[v].gpus]
  BY DEF Account
<1>2. used[p] = SumOf(f, S \ uncounted)
  BY <1>1 DEF CountInv
<1>3. dec \in [Variants -> Decisions] /\ used \in [Pools -> Nat]
  BY DEF TypeOK
<1>4. /\ S \subseteq Variants /\ IsFiniteSet(S)
      /\ \A u \in Variants : f[u] = dec[u].cur * dec[u].gpus /\ f[u] \in Nat
  BY <1>3, VectorCounts
<1>5. v \in S <=> PoolOf(dec[v]) = p
  BY DEF MembersOf, PoolOf
<1>6. PoolOf(dec[v]) = p => dec[v].acc # Empty
  BY DistinctNames, SMT DEF PoolOf, Pools
<1>7. CASE v \in S
  <2>1. used'[p] = used[p] + f[v]
    BY <1>1, <1>3, <1>4, <1>5, <1>6, <1>7
  <2> DEFINE T == S \ uncounted'
  <2>2. v \in T /\ T \ {v} = S \ uncounted /\ T \subseteq Variants
    BY <1>1, <1>4, <1>7
  <2>3. IsFiniteSet(T)
    BY <1>4, FS_Subset
  <2>3a. IsFiniteSet(T \ {v}) /\ \A u \in T : f[u] \in Nat
    BY <1>4, <2>2, <2>3, FS_Subset
  <2> HIDE DEF T, S, f
  <2>4. SumOf(f, T) = f[v] + SumOf(f, T \ {v})
    BY <2>2, <2>3, <2>3a, SumRemove, SMT
  <2>5. SumOf(f, T \ {v}) \in Nat /\ f[v] \in Nat
    BY <2>2, <2>3a, SumNatural
  <2>6. SumOf(f, T \ {v}) = used[p]
    BY <1>2, <2>2, Zenon
  <2>7. used'[p] = SumOf(f, T)
    BY <2>1, <2>4, <2>5, <2>6, SMT
  <2> QED BY <2>7 DEF T, S, f
<1>8. CASE v \notin S
  <2>1. used'[p] = used[p]
    <3>1. CASE dec[v].acc = Empty
      BY <1>1, <3>1
    <3>2. CASE dec[v].acc # Empty
      <4>1. PoolOf(dec[v]) # p
        BY <1>5, <1>8
      <4> HIDE DEF S
      <4> QED BY <1>1, <1>3, <3>2, <4>1
    <3> QED BY <3>1, <3>2
  <2>2. S \ uncounted' = S \ uncounted
    BY <1>1, <1>8
  <2> QED BY <1>2, <2>1, <2>2
<1> QED BY <1>7, <1>8

\* A new allocator: every running replica is charged, nothing is granted and
\* only the candidates add anything.
LEMMA CreateCount ==
  ASSUME TypeOK, CountInv, CreateAllocator
  PROVE  CountInv'
<1>1. /\ stage = "account" /\ stage' = "allocate" /\ uncounted = {}
      /\ dec' = dec /\ Lim' = Lim /\ used' = used /\ got' = NoGPUs /\ granted' = Zero
      /\ queue' = {v \in Variants : dec[v].tgt > dec[v].cur}
  BY DEF CreateAllocator, Lim
<1>2. dec \in [Variants -> Decisions]
  BY DEF TypeOK
<1>3. \A v \in Variants : got'[v] = 0
  BY <1>1 DEF NoGPUs
<1>4. \A p \in Pools : used'[p] = SumOf(UseOf(dec), MembersOf(dec, Lim, p))
  <2> SUFFICES ASSUME NEW p \in Pools
               PROVE  used[p] = SumOf(UseOf(dec), MembersOf(dec, Lim, p))
    BY <1>1
  <2>1. MembersOf(dec, Lim, p) \ uncounted = MembersOf(dec, Lim, p)
    BY <1>1
  <2> QED BY <1>1, <2>1 DEF CountInv
<1>5. ASSUME NEW p \in Pools
      PROVE  granted'[p] = SumOf(got', MembersOf(dec, Lim, p))
  <2>1. IsFiniteSet(MembersOf(dec, Lim, p)) /\ MembersOf(dec, Lim, p) \subseteq Variants
    BY <1>2, VectorCounts
  <2>2. SumOf(got', MembersOf(dec, Lim, p)) = 0 * Cardinality(MembersOf(dec, Lim, p))
    BY <1>3, <2>1, SumConstant, SMT
  <2>3. Cardinality(MembersOf(dec, Lim, p)) \in Nat
    BY <2>1, FS_CardinalityType
  <2>4. granted'[p] = 0
    BY <1>1 DEF Zero
  <2> QED BY <2>2, <2>3, <2>4, SMT
<1>6. \A v \in Variants \ queue' : Adds(dec[v]) <= got'[v]
  BY <1>1, <1>3, SMT DEF Adds
<1>7. \A v \in queue' : got'[v] = 0
  BY <1>1, <1>3
<1> QED BY <1>1, <1>4, <1>5, <1>6, <1>7 DEF CountInv

\* A capped candidate leaves the queue with nothing added and nothing got.
LEMMA CapOnlyCount ==
  ASSUME TypeOK, CountInv, NEW v \in Variants, CapOnly(v)
  PROVE  CountInv'
<1>1. /\ stage = "allocate" /\ stage' = "allocate" /\ v \in queue /\ queue' = queue \ {v}
      /\ Lim' = Lim /\ used' = used /\ got' = got /\ granted' = granted
  BY DEF CapOnly, Lim
<1>2. /\ SamePools(dec, dec') /\ Adds(dec'[v]) = 0
      /\ \A u \in Variants : u # v => dec'[u] = dec[u]
  BY CapOnlyAdds
<1>3. \A p : MembersOf(dec', Lim, p) = MembersOf(dec, Lim, p) /\ UseOf(dec') = UseOf(dec)
  BY <1>2, SameSums, SMT
<1>4. got[v] = 0
  BY <1>1 DEF CountInv
<1>5. \A u \in Variants \ queue' : Adds(dec'[u]) <= got'[u]
  <2> SUFFICES ASSUME NEW u \in Variants \ queue' PROVE Adds(dec'[u]) <= got'[u]
    OBVIOUS
  <2>1. CASE u = v
    BY <1>1, <1>2, <1>4, <2>1, SMT
  <2>2. CASE u # v
    BY <1>1, <1>2, <2>2 DEF CountInv
  <2> QED BY <2>1, <2>2
<1> QED BY <1>1, <1>3, <1>5 DEF CountInv

\* A served candidate: its GPUs join the sum of its own pool and of no other.
LEMMA AllocateCount ==
  ASSUME TypeOK, CountInv, NEW v \in Variants, AllocateForDecision(v)
  PROVE  CountInv'
<1> DEFINE d == dec[v]
           q == PoolOf(d)
           w == Replicas(d) * GPUsPerReplica(d)
<1>1. /\ stage = "allocate" /\ stage' = "allocate" /\ v \in queue /\ queue' = queue \ {v}
      /\ Lim' = Lim /\ used' = used /\ got' = [got EXCEPT ![v] = w] /\ Needed(d) > 0
      /\ granted' = IF d.acc # Empty /\ Finite(Lim, q)
                    THEN [granted EXCEPT ![q] = @ + w] ELSE granted
  BY DEF AllocateForDecision, Lim
<1>2. /\ SamePools(dec, dec') /\ Adds(dec'[v]) <= w
      /\ \A u \in Variants : u # v => dec'[u] = dec[u]
  BY AllocateAdds
<1>3. \A p : MembersOf(dec', Lim, p) = MembersOf(dec, Lim, p) /\ UseOf(dec') = UseOf(dec)
  BY <1>2, SameSums, SMT
<1>4. got[v] = 0
  BY <1>1 DEF CountInv
<1>5. /\ dec \in [Variants -> Decisions] /\ got \in [Variants -> Nat]
      /\ granted \in [Pools -> Nat]
  BY DEF TypeOK
<1>6. w \in Nat
  BY <1>1, <1>5, Allocation
<1>7. got'[v] = w /\ \A u \in Variants : u # v => got'[u] = got[u]
  BY <1>1, <1>5
<1>8. \A u \in Variants \ queue' : Adds(dec'[u]) <= got'[u]
  <2> SUFFICES ASSUME NEW u \in Variants \ queue' PROVE Adds(dec'[u]) <= got'[u]
    OBVIOUS
  <2>1. CASE u = v
    BY <1>2, <1>7, <2>1
  <2>2. CASE u # v
    BY <1>1, <1>2, <1>7, <2>2 DEF CountInv
  <2> QED BY <2>1, <2>2
<1>9. \A u \in queue' : got'[u] = 0
  BY <1>1, <1>7 DEF CountInv, TypeOK
<1>10. ASSUME NEW p \in Pools, Finite(Lim, p)
       PROVE  granted'[p] = SumOf(got', MembersOf(dec, Lim, p))
  <2> DEFINE S == MembersOf(dec, Lim, p)
  <2>1. granted[p] = SumOf(got, S)
    BY <1>1, <1>10 DEF CountInv
  <2>2. S \subseteq Variants /\ IsFiniteSet(S)
    BY <1>5, VectorCounts
  <2>3. v \in S <=> q = p
    BY DEF MembersOf, PoolOf
  <2>4. q = p => d.acc # Empty
    BY DistinctNames, SMT DEF PoolOf, Pools
  <2>5. \A u \in S : got[u] \in Int /\ got'[u] \in Int
    BY <1>5, <1>6, <1>7, <2>2, SMT
  <2>6. CASE v \in S
    <3>1. granted'[p] = granted[p] + w
      BY <1>1, <1>5, <1>10, <2>3, <2>4, <2>6
    <3>2. \A u \in S \ {v} : got'[u] = got[u]
      BY <1>7, <2>2
    <3> HIDE DEF S, w
    <3>3. SumOf(got', S) = SumOf(got, S) - got[v] + got'[v]
      BY <2>2, <2>5, <2>6, <3>2, SumChange, SMT
    <3>4. granted[p] \in Nat
      BY <1>5
    <3>5. granted'[p] = SumOf(got', S)
      BY <1>4, <1>6, <1>7, <2>1, <3>1, <3>3, <3>4, SMT
    <3> QED BY <3>5 DEF S
  <2>7. CASE v \notin S
    <3>1. granted'[p] = granted[p]
      <4>1. q # p
        BY <2>3, <2>7
      <4> HIDE DEF q, S, w, d
      <4> QED BY <1>1, <1>5, <4>1
    <3>2. \A u \in S : got'[u] = got[u]
      BY <1>7, <2>2, <2>7
    <3> HIDE DEF S
    <3>3. SumOf(got', S) = SumOf(got, S)
      BY <2>2, <2>5, <3>2, SumSame
    <3> QED BY <2>1, <3>1, <3>3 DEF S
  <2> QED BY <2>6, <2>7
<1> QED BY <1>1, <1>3, <1>8, <1>9, <1>10 DEF CountInv

\* The counts of a pass are kept by every step.
LEMMA NextCount == TypeOK /\ CountInv /\ [Next]_vars => CountInv'
<1> SUFFICES ASSUME TypeOK, CountInv, [Next]_vars PROVE CountInv'
  OBVIOUS
<1>1. CASE RefreshFails \/ UpdateMetadata
  BY <1>1 DEF RefreshFails, UpdateMetadata, CountInv
<1>2. CASE Refresh
  <2>1. stage' = "account" /\ used' = Zero /\ uncounted' = Variants
    BY <1>2 DEF Refresh
  <2> SUFFICES ASSUME NEW p \in Pools
               PROVE  used'[p] = SumOf(UseOf(dec'), MembersOf(dec', Lim', p) \ uncounted')
    BY <2>1 DEF CountInv
  <2>2. MembersOf(dec', Lim', p) \ uncounted' = {}
    BY <2>1 DEF MembersOf
  <2>3. used'[p] = 0
    BY <2>1 DEF Zero
  <2> QED BY <2>2, <2>3, SumEmpty
<1>3. ASSUME NEW v \in Variants, Account(v) PROVE CountInv'
  BY <1>3, AccountCount
<1>4. CASE CreateAllocator
  BY <1>4, CreateCount
<1>5. ASSUME NEW v \in Variants, CapOnly(v) PROVE CountInv'
  BY <1>5, CapOnlyCount
<1>6. ASSUME NEW v \in Variants, AllocateForDecision(v) PROVE CountInv'
  BY <1>6, AllocateCount
<1>7. CASE Returned \/ UNCHANGED vars
  BY <1>7 DEF Returned, vars, CountInv, Lim
<1> QED BY <1>1, <1>2, <1>3, <1>4, <1>5, <1>6, <1>7 DEF Next

\* At the end of its pass a constituent's caps are kept to: what the targets
\* add to a pool was granted, and no more was granted than the headroom.
LEMMA PassKeeps ==
  ASSUME CapInv, stage = "allocate", queue = {}
  PROVE  Keeps(dec, Lim)
<1> SUFFICES ASSUME NEW p \in Pools, Finite(Lim, p)
             PROVE  SumOf(AddsOf(dec), MembersOf(dec, Lim, p))
                      <= Room(Lim, p, SumOf(UseOf(dec), MembersOf(dec, Lim, p)))
  BY DEF Keeps
<1> DEFINE S == MembersOf(dec, Lim, p)
<1>1. /\ dec \in [Variants -> Decisions] /\ got \in [Variants -> Nat]
      /\ granted[p] \in Nat /\ free[p] \in Nat /\ used \in [Pools -> Nat]
  BY DEF CapInv, TypeOK
<1>2. /\ S \subseteq Variants /\ IsFiniteSet(S) /\ SumOf(AddsOf(dec), S) \in Nat
      /\ \A v \in Variants : AddsOf(dec)[v] = Adds(dec[v]) /\ AddsOf(dec)[v] \in Nat
  BY <1>1, VectorCounts
<1>3. /\ used[p] = SumOf(UseOf(dec), S) /\ granted[p] = SumOf(got, S)
      /\ \A v \in Variants : Adds(dec[v]) <= got[v]
  BY DEF CapInv, CountInv
<1>4. granted[p] + free[p] <= Headroom(Lim, used, p)
  BY DEF CapInv, WithinHeadroom
<1>5. Headroom(Lim, used, p) \in Nat
  BY <1>1, HeadroomType, CurrentLimiter DEF CapInv
<1>6. Headroom(Lim, used, p) = Room(Lim, p, SumOf(UseOf(dec), S))
  BY <1>3 DEF Headroom, Room
<1> HIDE DEF S
<1>7. SumOf(AddsOf(dec), S) <= SumOf(got, S)
  BY <1>1, <1>2, <1>3, SumMonotone, SMT
<1>8. SumOf(AddsOf(dec), S) <= Headroom(Lim, used, p)
  BY <1>1, <1>2, <1>3, <1>4, <1>5, <1>7, SMT
<1> QED BY <1>6, <1>8 DEF S

\* Every constituent of a chain is a limiter.
LEMMA ChainOfLimiters == TypeOK => \A i \in 1..Len(chain) : IsLimiter(chain[i])
  BY ChainsAssumption DEF IsChain, TypeOK

\* What updateDecisionMetadata writes is no part of the sums.
LEMMA MetadataAdds ==
  ASSUME TypeOK, UpdateMetadata
  PROVE  /\ SamePools(dec, dec')
         /\ \A v \in Variants : Adds(dec'[v]) = Adds(dec[v])
<1> SUFFICES ASSUME NEW v \in Variants
             PROVE  /\ dec'[v].ns = dec[v].ns /\ dec'[v].acc = dec[v].acc
                    /\ dec'[v].cur = dec[v].cur /\ dec'[v].gpus = dec[v].gpus
                    /\ dec'[v].tgt = dec[v].tgt /\ dec'[v].min = dec[v].min
  BY DEF SamePools, Adds, GPUsPerReplica
<1>1. dec[v] \in Decisions
  BY DEF TypeOK
<1>2. \/ dec'[v] = [dec[v] EXCEPT !.by = Lim.name]
      \/ dec'[v] = dec[v]
  BY DEF UpdateMetadata
<1> QED BY <1>1, <1>2 DEF Decisions

\* A step that keeps the pools and adds nothing keeps to every cap kept to.
LEMMA PastKept ==
  ASSUME TypeOK, TypeOK', chain' = chain, SamePools(dec, dec'),
         \A v \in Variants : Adds(dec'[v]) <= Adds(dec[v]),
         NEW i \in 1..Len(chain), Keeps(dec, chain[i])
  PROVE  Keeps(dec', chain[i])
<1>1. dec \in [Variants -> Decisions] /\ dec' \in [Variants -> Decisions]
  BY DEF TypeOK
<1>2. IsLimiter(chain[i])
  BY ChainOfLimiters
<1> QED BY <1>1, <1>2, StillKeeps

\* No later constituent breaks a cap, if it changes no accelerator name.
LEMMA NextPast == CapInv /\ NamesSettled /\ [Next]_vars => PastInv'
<1> SUFFICES ASSUME CapInv, NamesSettled, [Next]_vars PROVE PastInv'
  OBVIOUS
<1>1. TypeOK /\ TypeOK'
  BY NextType DEF CapInv
<1>2. chain' = chain
  BY DEF Next, RefreshFails, Refresh, Account, CreateAllocator, CapOnly,
         AllocateForDecision, UpdateMetadata, Returned, vars
<1>3. \A i \in 1..Len(chain) : Passed(i) => Keeps(dec, chain[i])
  BY DEF CapInv, PastInv
<1>4. \A v \in Variants : Adds(dec[v]) \in Nat
  BY <1>1, GPUCounts DEF TypeOK
<1>5. CASE RefreshFails \/ Returned \/ UNCHANGED vars
  BY <1>2, <1>3, <1>5, SMT DEF RefreshFails, Returned, vars, PastInv, Passed
<1>6. CASE Refresh
  <2>1. stage = "refresh" /\ stage' = "account" /\ at' = at
        /\ dec' = [v \in Variants |-> Resolve(dec[v])]
    BY <1>6 DEF Refresh
  <2>2. CASE at > 1
    <3>1. dec' = dec
      BY <1>1, <2>1, <2>2 DEF NamesSettled, TypeOK
    <3> QED BY <1>2, <1>3, <2>1, <3>1 DEF PastInv, Passed
  <2>3. CASE ~(at > 1)
    <3>1. \A i \in 1..Len(chain) : ~(i < at)
      BY <1>1, <2>3, SMT DEF TypeOK
    <3> QED BY <1>2, <2>1, <3>1 DEF PastInv, Passed
  <2> QED BY <2>2, <2>3
<1>7. ASSUME NEW v \in Variants, Account(v) PROVE PastInv'
  BY <1>2, <1>3, <1>7 DEF Account, PastInv, Passed
<1>8. CASE CreateAllocator
  BY <1>2, <1>3, <1>8 DEF CreateAllocator, PastInv, Passed
<1>9. ASSUME NEW v \in Variants, CapOnly(v) \/ AllocateForDecision(v) PROVE PastInv'
  <2>1. stage = "allocate" /\ stage' = "allocate" /\ at' = at
    BY <1>9 DEF CapOnly, AllocateForDecision
  <2>2. /\ SamePools(dec, dec')
        /\ \A u \in Variants : u # v => dec'[u] = dec[u]
        /\ Adds(dec'[v]) <= Adds(dec[v])
    <3>1. CASE CapOnly(v)
      BY <1>1, <1>4, <3>1, CapOnlyAdds, SMT
    <3>2. CASE AllocateForDecision(v)
      BY <1>1, <3>2, AllocateAdds
    <3> QED BY <1>9, <3>1, <3>2
  <2>3. \A u \in Variants : Adds(dec'[u]) <= Adds(dec[u])
    <3> SUFFICES ASSUME NEW u \in Variants PROVE Adds(dec'[u]) <= Adds(dec[u])
      OBVIOUS
    <3>1. CASE u = v
      BY <2>2, <3>1
    <3>2. CASE u # v
      BY <1>4, <2>2, <3>2, SMT
    <3> QED BY <3>1, <3>2
  <2>4. \A i \in 1..Len(chain) : Keeps(dec, chain[i]) => Keeps(dec', chain[i])
    BY <1>1, <1>2, <2>2, <2>3, PastKept
  <2> QED BY <1>2, <1>3, <2>1, <2>4 DEF PastInv, Passed
<1>10. CASE UpdateMetadata
  <2>1. /\ stage = "allocate" /\ queue = {} /\ at \in 1..Len(chain)
        /\ at' = at + 1 \/ (at' = at /\ ~(at < Len(chain)))
    BY <1>1, <1>10 DEF UpdateMetadata, TypeOK
  <2>2. Keeps(dec, chain[at])
    BY <2>1, PassKeeps DEF Lim
  <2>3. \A i \in 1..Len(chain) : Passed(i)' => i < at \/ i = at
    <3>1. Len(chain) \in Nat
      BY <1>1, ChainsAssumption DEF IsChain, TypeOK
    <3>2. \A i \in 1..Len(chain) : i \in Nat /\ i <= Len(chain)
      BY <3>1, SMT
    <3>3. CASE at' = at + 1
      <4>1. stage' # "done"
        BY <1>10, <2>1, <3>3, SMT DEF UpdateMetadata
      <4> QED BY <2>1, <3>2, <3>3, <4>1, SMT DEF Passed
    <3>4. CASE at' = at /\ ~(at < Len(chain))
      BY <2>1, <3>1, <3>2, <3>4, SMT
    <3> QED BY <2>1, <3>3, <3>4
  <2>4. \A i \in 1..Len(chain) : Passed(i)' => Keeps(dec, chain[i])
    BY <1>3, <2>2, <2>3 DEF Passed
  <2>5. SamePools(dec, dec') /\ \A v \in Variants : Adds(dec'[v]) <= Adds(dec[v])
    <3>1. SamePools(dec, dec') /\ \A v \in Variants : Adds(dec'[v]) = Adds(dec[v])
      BY <1>1, <1>10, MetadataAdds
    <3> QED BY <1>4, <3>1, SMT
  <2>6. \A i \in 1..Len(chain) : Keeps(dec, chain[i]) => Keeps(dec', chain[i])
    BY <1>1, <1>2, <2>5, PastKept
  <2> QED BY <1>2, <2>4, <2>6 DEF PastInv
<1> QED BY <1>5, <1>6, <1>7, <1>8, <1>9, <1>10 DEF Next

\* The caps of the whole chain hold when Limit returns without an error.
LEMMA PastIsCaps ==
  PastInv => (stage = "done" /\ ~failed => \A i \in 1..Len(chain) : CapsHold(chain[i]))
  BY CapsNow DEF PastInv, Passed

\* Theorem about CompositeLimiter.Limit: in any call in which no constituent
\* after the first changes an accelerator name, the targets at the end keep to
\* the caps of every constituent of the chain, MinReplicas floors aside.
THEOREM SettledNamesKeepCaps ==
  Spec /\ []NamesSettled =>
    [](stage = "done" /\ ~failed => \A i \in 1..Len(chain) : CapsHold(chain[i]))
<1>1. CapInv /\ NamesSettled /\ [Next]_vars => CapInv'
  BY NextType, NextHeadroom, NextCount, NextPast DEF CapInv
<1>2. CapInv => (stage = "done" /\ ~failed => \A i \in 1..Len(chain) : CapsHold(chain[i]))
  BY PastIsCaps DEF CapInv
<1> QED BY <1>1, <1>2, InitCap, PTL DEF Spec

\* A chain whose first constituent can tell leaves no name open after it; an
\* error ends the chain.
NameInv ==
  /\ failed => stage = "done"
  /\ (stage # "refresh" \/ at > 1) /\ ~failed /\ Cardinality(PoolTypes(chain[1])) = 1
       => \A v \in Variants : Resolved(dec[v])

\* A single-type inventory names every accelerator.
LEMMA SingleTypeNames ==
  ASSUME TypeOK, NEW d \in Decisions, Cardinality(PoolTypes(Lim)) = 1
  PROVE  Resolved(Resolve(d))
<1>1. PoolTypes(Lim) \subseteq Types
  BY CurrentLimiter DEF PoolTypes, IsLimiter, IsTypeQuotas
<1>2. PoolTypes(Lim) # {}
  BY FS_EmptySet, SMT
<1>3. (CHOOSE t \in PoolTypes(Lim) : TRUE) \in Types
  BY <1>1, <1>2
<1> QED BY <1>3 DEF Resolve, Resolved, Decisions

\* Names, once found, stay.
LEMMA NextNames == TypeOK /\ NameInv /\ [Next]_vars => NameInv'
<1> SUFFICES ASSUME TypeOK, NameInv, [Next]_vars PROVE NameInv'
  OBVIOUS
<1>1. CASE RefreshFails \/ Returned \/ UNCHANGED vars
  BY <1>1, SMT DEF RefreshFails, Returned, vars, NameInv
<1>2. CASE Refresh
  <2>1. /\ stage = "refresh" /\ at' = at /\ chain' = chain /\ failed' = failed
        /\ \A v \in Variants : dec'[v] = Resolve(dec[v]) /\ dec[v] \in Decisions
    BY <1>2 DEF Refresh, TypeOK
  <2>2. ~failed
    BY <2>1 DEF NameInv
  <2> SUFFICES ASSUME Cardinality(PoolTypes(chain[1])) = 1, NEW v \in Variants
               PROVE  Resolved(dec'[v])
    BY <2>1, <2>2 DEF NameInv
  <2>3. CASE at > 1
    BY <2>1, <2>2, <2>3 DEF NameInv, Resolve
  <2>4. CASE at = 1
    BY <2>1, <2>4, SingleTypeNames DEF Lim
  <2>5. at > 1 \/ at = 1
    BY SMT DEF TypeOK
  <2> QED BY <2>3, <2>4, <2>5
<1>3. ASSUME NEW v \in Variants, Account(v) PROVE NameInv'
  BY <1>3 DEF Account, NameInv
<1>4. CASE CreateAllocator
  BY <1>4 DEF CreateAllocator, NameInv
<1>5. ASSUME NEW v \in Variants, CapOnly(v) \/ AllocateForDecision(v) PROVE NameInv'
  <2>1. SamePools(dec, dec')
    BY <1>5, CapOnlyAdds, AllocateAdds
  <2>2. stage = "allocate" /\ chain' = chain /\ failed' = failed
    BY <1>5 DEF CapOnly, AllocateForDecision
  <2> QED BY <2>1, <2>2 DEF NameInv, SamePools, Resolved
<1>6. CASE UpdateMetadata
  <2>1. SamePools(dec, dec')
    BY <1>6, MetadataAdds
  <2>2. stage = "allocate" /\ chain' = chain /\ failed' = failed
    BY <1>6 DEF UpdateMetadata
  <2> QED BY <2>1, <2>2 DEF NameInv, SamePools, Resolved
<1> QED BY <1>1, <1>2, <1>3, <1>4, <1>5, <1>6 DEF Next

\* In a chain that names first, no later constituent changes a name.
LEMMA NamesFirstSettles == TypeOK /\ NameInv /\ NamesFirst => NamesSettled
<1> SUFFICES ASSUME TypeOK, NameInv, NamesFirst, stage = "refresh", at > 1,
                    NEW v \in Variants
             PROVE  Resolve(dec[v]) = dec[v]
  BY DEF NamesSettled
<1>1. Cardinality(PoolTypes(Lim)) = 1 => Cardinality(PoolTypes(chain[1])) = 1
  BY DEF NamesFirst, Lim, TypeOK
<1>2. Cardinality(PoolTypes(Lim)) = 1 => Resolved(dec[v])
  BY <1>1 DEF NameInv
<1> QED BY <1>2 DEF Resolve

\* The inductive invariant of MostRestrictiveWins
CompositeInv ==
  TypeOK /\ WithinHeadroom /\ CountInv /\ NameInv /\ (NamesFirst => PastInv)

\* Theorem about CompositeLimiter.Limit: "the most-restrictive cap wins", for
\* every chain in which the first constituent names whatever a later one could.
THEOREM TightestCapWins == Spec => []MostRestrictiveWins
<1>1. Init => CompositeInv
  <2>1. Init => NameInv
    BY SMT DEF Init, NameInv
  <2> QED BY <2>1, InitCap DEF CapInv, CompositeInv
<1>2. CompositeInv /\ [Next]_vars => CompositeInv'
  <2> SUFFICES ASSUME CompositeInv, [Next]_vars PROVE CompositeInv'
    OBVIOUS
  <2>1. TypeOK' /\ WithinHeadroom' /\ CountInv' /\ NameInv'
    BY NextType, NextHeadroom, NextCount, NextNames DEF CompositeInv
  <2>2. chain' = chain
    BY DEF Next, RefreshFails, Refresh, Account, CreateAllocator, CapOnly,
           AllocateForDecision, UpdateMetadata, Returned, vars
  <2>3. NamesFirst' => NamesFirst
    BY <2>2 DEF NamesFirst
  <2>4. NamesFirst => PastInv'
    BY NamesFirstSettles, NextPast DEF CompositeInv, CapInv
  <2> QED BY <2>1, <2>3, <2>4 DEF CompositeInv
<1>3. CompositeInv => MostRestrictiveWins
  BY PastIsCaps DEF CompositeInv, MostRestrictiveWins
<1> QED BY <1>1, <1>2, <1>3, PTL DEF Spec
=============================================================================
