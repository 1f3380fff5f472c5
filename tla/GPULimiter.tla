----------------------------- MODULE GPULimiter -----------------------------
(***************************************************************************)
(* The GPU limiter of the saturation engine (internal/engines/pipeline):   *)
(* a chain of DefaultLimiters (one TypeInventory, or one QuotaInventory    *)
(* per quota entry, run in order by the CompositeLimiter), each of which   *)
(* refreshes its inventory, charges the running replicas to it, builds an  *)
(* allocator and lets GreedyBySaturation hand GPUs to the scale-ups.       *)
(*                                                                         *)
(* Abstractions: decisions are the elements of Variants; names and prices  *)
(* are small values; log lines and decision-step texts are left out.       *)
(***************************************************************************)
EXTENDS Integers, Sequences, FiniteSetsExt, Functions

CONSTANTS
  Variants,     \* the variants of one cycle, one decision each
  Namespaces,
  Types,        \* accelerator types a quota or an inventory can list
  Empty,        \* the accelerator name ""
  Unknown,      \* the sentinel "unknown"
  Default,      \* the reserved namespace key "default"
  Cluster,      \* the pool owner of the scopes without namespaces
  None,         \* LimitedBy of a decision no limiter constrained
  Chains,       \* the limiter chains the configuration can build
  Batches       \* the decision vectors the analysis can hand over

Unlimited == -1
Owners == Namespaces \cup {Cluster}
AccNames == Types \cup {Unknown}
Pools == Owners \X AccNames
Scopes == {"inventory", "cluster", "namespace"}

ASSUME VariantsAssumption == IsFiniteSet(Variants)

ASSUME DistinctNames ==
  /\ Empty \notin AccNames
  /\ Unknown \notin Types
  /\ Cluster \notin Namespaces
  /\ Default \notin Namespaces \cup {Cluster}

\* One entry of a quota is a GPU count or Unlimited (validateTypeQuotaMap).
IsTypeQuotas(q) ==
  /\ DOMAIN q \subseteq Types
  /\ \A t \in DOMAIN q : q[t] \in Nat \cup {Unlimited}

\* A DefaultLimiter: the QuotaLimiterConfig entry, or the capacity that
\* TypeInventory.Refresh aggregates from the nodes.
IsLimiter(l) ==
  /\ DOMAIN l = {"name", "scope", "quotas", "exclude"}
  /\ l.name \in STRING /\ l.name # None
  /\ l.scope \in Scopes
  /\ \A o \in DOMAIN l.quotas : IsTypeQuotas(l.quotas[o])
  /\ DOMAIN l.quotas \subseteq Owners \cup {Default}
  /\ l.exclude \subseteq Namespaces
  /\ l.scope = "namespace" <=> Cluster \notin DOMAIN l.quotas

\* NewLimiterFromConfig: an inventory alone, or quota entries in order.
IsChain(c) ==
  /\ c = [i \in 1..Len(c) |-> c[i]] /\ Len(c) \in Nat \ {0}
  /\ \A i \in 1..Len(c) :
       /\ IsLimiter(c[i])
       /\ c[i].scope = "inventory" => Len(c) = 1

ASSUME ChainsAssumption == \A c \in Chains : IsChain(c)

\* What the limiter reads of a VariantDecision. max = 0 is "no MaxReplicas".
Requests ==
  [ns : Namespaces, acc : AccNames \cup {Empty}, gpus : Nat, cur : Nat,
   tgt : Nat, min : Nat, max : Nat, spare : Int, cost : Int]

ASSUME BatchesAssumption == Batches \subseteq [Variants -> Requests]
-----------------------------------------------------------------------------
(* The inventories. *)

\* QuotaLimiterConfig.IsExcluded
IsExcluded(l, ns) == l.scope = "namespace" /\ ns \in l.exclude

Owner(l, ns) == IF l.scope = "namespace" THEN ns ELSE Cluster

\* QuotaLimiterConfig.QuotaForNamespace, and the single map of other scopes.
QuotaFor(l, owner) ==
  IF owner \in DOMAIN l.quotas THEN l.quotas[owner]
  ELSE IF Default \in DOMAIN l.quotas THEN l.quotas[Default]
  ELSE << >>

\* A type that the map does not list has no GPUs.
Cap(l, p) ==
  IF p[2] \in DOMAIN QuotaFor(l, p[1]) THEN QuotaFor(l, p[1])[p[2]] ELSE 0

Finite(l, p) == ~IsExcluded(l, p[1]) /\ Cap(l, p) # Unlimited

\* The accelerator types that GetResourcePools reports.
PoolTypes(l) ==
  IF l.scope # "namespace" THEN DOMAIN l.quotas[Cluster]
  ELSE UNION {{t \in DOMAIN l.quotas[ns] : l.quotas[ns][t] # Unlimited} :
                ns \in DOMAIN l.quotas \ ({Default} \cup l.exclude)}

Headroom(l, usage, p) == IF Cap(l, p) > usage[p] THEN Cap(l, p) - usage[p] ELSE 0
-----------------------------------------------------------------------------
VARIABLES
  stage,      \* where the cycle is
  chain,      \* the engine's limiter
  at,         \* the constituent whose turn it is
  dec,        \* the decisions, mutated in place
  original,   \* OriginalTargetReplicas
  uncounted,  \* decisions whose usage is not charged yet
  used,       \* the inventory's usage per pool
  free,       \* the allocator: what is left of each finite pool
  queue,      \* scale-up candidates not served yet
  before,     \* the decisions when the algorithm started
  got,        \* GPUs counted for a decision in this pass (history)
  granted,    \* GPUs counted against a pool in this pass (history)
  failed      \* Limit returned an error

vars == <<stage, chain, at, dec, original, uncounted, used, free, queue,
          before, got, granted, failed>>

Decisions ==
  [ns : Namespaces, acc : AccNames \cup {Empty}, gpus : Nat, cur : Nat,
   tgt : Nat, min : Nat, max : Nat, spare : Int, cost : Int,
   limited : BOOLEAN, by : STRING \cup {None}]

Zero == [p \in Pools |-> 0]
NoGPUs == [v \in Variants |-> 0]
Lim == chain[at]
PoolOf(d) == <<Owner(Lim, d.ns), d.acc>>

TypeOK ==
  /\ stage \in {"refresh", "account", "allocate", "done"}
  /\ chain \in Chains
  /\ at \in 1..Len(chain)
  /\ dec \in [Variants -> Decisions]
  /\ before \in [Variants -> Decisions]
  /\ original \in [Variants -> Nat]
  /\ uncounted \subseteq Variants
  /\ queue \subseteq Variants
  /\ used \in [Pools -> Nat]
  /\ free \in [Pools -> Nat]
  /\ got \in [Variants -> Nat]
  /\ granted \in [Pools -> Nat]
  /\ failed \in BOOLEAN

AsDecision(r) ==
  [ns |-> r.ns, acc |-> r.acc, gpus |-> r.gpus, cur |-> r.cur, tgt |-> r.tgt,
   min |-> r.min, max |-> r.max, spare |-> r.spare, cost |-> r.cost,
   limited |-> FALSE, by |-> None]

\* optimizeV1 hands the decisions of all models to the limiter that
\* refreshLimiter left in place.
Init ==
  /\ stage = "refresh"
  /\ chain \in Chains
  /\ at = 1
  /\ \E b \in Batches : /\ dec = [v \in Variants |-> AsDecision(b[v])]
                        /\ original = [v \in Variants |-> b[v].tgt]
  /\ before = dec
  /\ uncounted = {}
  /\ queue = {}
  /\ used = Zero /\ free = Zero /\ granted = Zero
  /\ got = NoGPUs
  /\ failed = FALSE
-----------------------------------------------------------------------------
\* TypeInventory.Refresh fails when node discovery does; QuotaInventory's
\* never does. The engine goes on with the decisions as they are.
RefreshFails ==
  /\ stage = "refresh"
  /\ Lim.scope = "inventory"
  /\ stage' = "done"
  /\ failed' = TRUE
  /\ UNCHANGED <<chain, at, dec, original, uncounted, used, free, queue,
                 before, got, granted>>

Resolved(d) == d.acc \in Types

\* resolveUnknownAccelerators: only a single-type inventory can tell.
Resolve(d) ==
  IF ~Resolved(d) /\ Cardinality(PoolTypes(Lim)) = 1
  THEN [d EXCEPT !.acc = CHOOSE t \in PoolTypes(Lim) : TRUE]
  ELSE d

Refresh ==
  /\ stage = "refresh"
  /\ dec' = [v \in Variants |-> Resolve(dec[v])]
  /\ used' = Zero
  /\ uncounted' = Variants
  /\ stage' = "account"
  /\ UNCHANGED <<chain, at, original, free, queue, before, got, granted, failed>>

\* Mutant: only the scale-up candidates are charged.
AccountMutant(v) ==
  /\ stage = "account"
  /\ v \in uncounted
  /\ uncounted' = uncounted \ {v}
  /\ used' = IF dec[v].acc = Empty \/ dec[v].tgt <= dec[v].cur THEN used
             ELSE [used EXCEPT ![PoolOf(dec[v])] = @ + dec[v].cur * dec[v].gpus]
  /\ UNCHANGED <<stage, chain, at, dec, original, free, queue, before, got,
                 granted, failed>>

\* calculateUsedGPUs and calculateUsedGPUsByNamespace, one decision a step.
Account(v) ==
  /\ stage = "account"
  /\ v \in uncounted
  /\ uncounted' = uncounted \ {v}
  /\ used' = IF dec[v].acc = Empty THEN used
             ELSE [used EXCEPT ![PoolOf(dec[v])] = @ + dec[v].cur * dec[v].gpus]
  /\ UNCHANGED <<stage, chain, at, dec, original, free, queue, before, got,
                 granted, failed>>

\* SetUsed, CreateAllocator and filterScaleUpCandidates.
CreateAllocator ==
  /\ stage = "account"
  /\ uncounted = {}
  /\ free' = [p \in Pools |-> Headroom(Lim, used, p)]
  /\ queue' = {v \in Variants : dec[v].tgt > dec[v].cur}
  /\ before' = dec
  /\ got' = NoGPUs
  /\ granted' = Zero
  /\ stage' = "allocate"
  /\ UNCHANGED <<chain, at, dec, original, uncounted, used, failed>>

\* Mutant: a request is served in full or not at all.
TryAllocateAllOrNothing(d, req) ==
  IF d.acc = Empty THEN 0
  ELSE IF ~Finite(Lim, PoolOf(d)) \/ req <= free[PoolOf(d)] THEN req ELSE 0

\* TryAllocate of typeAllocator and of quotaAllocator.
TryAllocate(d, req) ==
  IF d.acc = Empty THEN 0
  ELSE IF ~Finite(Lim, PoolOf(d)) THEN req
  ELSE IF req < free[PoolOf(d)] THEN req ELSE free[PoolOf(d)]

\* sortByPriority: most saturated first, then cheapest; ties in any order.
Precedes(d, e) == d.spare < e.spare \/ (d.spare = e.spare /\ d.cost < e.cost)

GPUsPerReplica(d) == IF d.gpus > 0 THEN d.gpus ELSE 1

CeilingOf(d) == IF d.max > 0 /\ d.tgt > d.max THEN d.max ELSE d.tgt
Needed(d) == CeilingOf(d) - d.cur
Taken(d) == TryAllocate(d, Needed(d) * GPUsPerReplica(d))

\* Mutant: a part of a replica is rounded up.
ReplicasMutant(d) == (Taken(d) + GPUsPerReplica(d) - 1) \div GPUsPerReplica(d)
Replicas(d) == Taken(d) \div GPUsPerReplica(d)

\* Mutant: the running replicas are left out of the new target.
FloorOfMutant(d, n) == IF n - d.cur < d.min THEN d.min ELSE n - d.cur
FloorOf(d, n) == IF n < d.min THEN d.min ELSE n

\* allocateForDecision stops at a ceiling that leaves nothing to add.
CapOnly(v) ==
  /\ stage = "allocate"
  /\ v \in queue
  /\ \A u \in queue : ~Precedes(dec[u], dec[v])
  /\ Needed(dec[v]) <= 0
  /\ queue' = queue \ {v}
  /\ dec' = [dec EXCEPT ![v].tgt = CeilingOf(dec[v])]
  /\ UNCHANGED <<stage, chain, at, original, uncounted, used, free, before,
                 got, granted, failed>>

\* allocateForDecision. GPUs that do not make a whole replica stay taken.
AllocateForDecision(v) ==
  LET d == dec[v]
      n == Replicas(d)
      whole == n * GPUsPerReplica(d)
      finite == d.acc # Empty /\ Finite(Lim, PoolOf(d))
  IN
  /\ stage = "allocate"
  /\ v \in queue
  /\ \A u \in queue : ~Precedes(dec[u], d)
  /\ Needed(d) > 0
  /\ queue' = queue \ {v}
  /\ dec' = [dec EXCEPT ![v].tgt = FloorOf(d, d.cur + n),
                        ![v].limited = @ \/ n < Needed(d)]
  /\ free' = IF finite THEN [free EXCEPT ![PoolOf(d)] = @ - Taken(d)] ELSE free
  /\ got' = [got EXCEPT ![v] = whole]
  /\ granted' = IF finite THEN [granted EXCEPT ![PoolOf(d)] = @ + whole] ELSE granted
  /\ UNCHANGED <<stage, chain, at, original, uncounted, used, before, failed>>

\* updateDecisionMetadata, then the next constituent of the composite.
UpdateMetadata ==
  /\ stage = "allocate"
  /\ queue = {}
  /\ dec' = [v \in Variants |->
               IF dec[v].limited /\ ~before[v].limited
               THEN [dec[v] EXCEPT !.by = Lim.name] ELSE dec[v]]
  /\ IF at < Len(chain)
     THEN at' = at + 1 /\ stage' = "refresh"
     ELSE at' = at /\ stage' = "done"
  /\ UNCHANGED <<chain, original, uncounted, used, free, queue, before, got,
                 granted, failed>>

\* Limit returned. The next cycle starts from new decisions and overwrites
\* what the inventories recorded, so it is another behaviour.
Returned ==
  /\ stage = "done"
  /\ UNCHANGED vars

Next ==
  \/ RefreshFails
  \/ Refresh
  \/ \E v \in Variants : Account(v)
  \/ CreateAllocator
  \/ \E v \in Variants : CapOnly(v)
  \/ \E v \in Variants : AllocateForDecision(v)
  \/ UpdateMetadata
  \/ Returned

Spec == Init /\ [][Next]_vars
-----------------------------------------------------------------------------
(* Properties. *)

\* What a pass has counted against a finite pool, together with what the
\* allocator still holds, never exceeds the headroom the running replicas
\* left (CreateAllocator, TryAllocate, "Only count full replicas").
WithinHeadroom ==
  stage = "allocate" =>
    \A p \in Pools : Finite(Lim, p) => granted[p] + free[p] <= Headroom(Lim, used, p)

\* A candidate that was denied GPUs by a finite pool leaves nothing of it to
\* a less saturated, or equally saturated and dearer, candidate
\* (GreedyBySaturation: "prioritizing the most saturated variants").
StrictPriority ==
  stage = "allocate" =>
    \A u, v \in Variants :
      /\ u \notin queue /\ v \notin queue
      /\ Precedes(before[u], before[v])
      /\ PoolOf(before[u]) = PoolOf(before[v])
      /\ before[u].acc # Empty
      /\ Finite(Lim, PoolOf(before[u]))
      /\ Needed(before[u]) > 0
      /\ got[u] < Needed(before[u]) * GPUsPerReplica(before[u])
      => got[v] = 0

\* Lack of GPUs never takes a running replica away: a target falls below the
\* current count only if it was asked for or MaxReplicas demands it.
KeepsRunningReplicas ==
  \A v \in Variants :
    dec[v].tgt < dec[v].cur =>
      \/ original[v] = dec[v].tgt
      \/ dec[v].max > 0 /\ dec[v].tgt = dec[v].max

\* LimitedBy names the first constituent that constrained the decision and is
\* never rewritten by a later one (CompositeLimiter, "LimitedBy semantics").
FirstLimiterCredited ==
  [][stage # "done" =>
       \A v \in Variants :
         /\ dec[v].limited => dec'[v].limited
         /\ dec[v].by # None => dec'[v].by = dec[v].by
         /\ dec[v].limited /\ dec[v].by = None /\ stage' # stage
              => dec'[v].by = Lim.name]_vars

InPool(l, p) == {v \in Variants : <<Owner(l, dec[v].ns), dec[v].acc>> = p}

\* GPUs that a target adds. A MinReplicas floor is granted without GPUs.
Adds(d) ==
  IF d.tgt > d.cur /\ d.tgt # d.min THEN (d.tgt - d.cur) * GPUsPerReplica(d) ELSE 0

\* GPUs that the targets add to a pool, and GPUs that run in it.
Added(l, p) == SumFunctionOnSet([v \in Variants |-> Adds(dec[v])], InPool(l, p))
Running(l, p) ==
  SumFunctionOnSet([v \in Variants |-> dec[v].cur * dec[v].gpus], InPool(l, p))

CapsHold(l) ==
  \A p \in Pools : Finite(l, p) =>
    Added(l, p) <= IF Cap(l, p) > Running(l, p) THEN Cap(l, p) - Running(l, p) ELSE 0

\* Some constituent can name an accelerator only if the first one can.
NamesFirst ==
  \A i \in 1..Len(chain) :
    Cardinality(PoolTypes(chain[i])) = 1 => Cardinality(PoolTypes(chain[1])) = 1

\* The caps of every constituent hold at the end of the cycle for the replicas
\* that no MinReplicas floor put there, whatever the later constituents did
\* ("the most-restrictive cap wins", CompositeLimiter.Limit). A constituent
\* that names an accelerator after another has charged the running replicas
\* without the name moves replicas into a pool already handed out, so the
\* chains where that can happen are left out.
MostRestrictiveWins ==
  stage = "done" /\ ~failed /\ NamesFirst =>
    \A i \in 1..Len(chain) : CapsHold(chain[i])

\* No constituent after the first changes an accelerator name
\* (resolveUnknownAccelerators).
NamesSettled ==
  stage = "refresh" /\ at > 1 => \A v \in Variants : Resolve(dec[v]) = dec[v]
=============================================================================
