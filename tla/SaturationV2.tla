---------------------------- MODULE SaturationV2 ----------------------------
(***************************************************************************)
(* The token-based saturation analyzer (internal/engines/analyzers/         *)
(* saturation_v2) with its two memories: the capacity store, which outlives *)
(* the metrics of a variant, and the history of compute-bound capacities.   *)
(*                                                                         *)
(*   store  [<<namespace, model, variant>> -> [acc, gpus, kv, eff, params,  *)
(*          live]], params a set of at most one EngineArgs record           *)
(*   hist   [<<model, acc, gpus, bucket>> -> sequence of observations]      *)
(*   m      metrics of one engine instance: [v, kv, inUse, usage, queue,    *)
(*          in, out, hit, acc, cost], kv 0 when the cache size is not       *)
(*          reported, usage and hit in percent                              *)
(*   c      the configuration of the model, see ScalingConfig               *)
(*   state  of a variant: [cur, ready, gpus, min, max, role]                *)
(***************************************************************************)
EXTENDS EngineArgs, Ballot, TLC

CONSTANT RollingAverageWindowSize

ASSUME WindowAssumption == RollingAverageWindowSize \in Nat \ {0}

BytesPerToken == 4
Percent(n, p) == (n * p) \div 100

SumSeq(s) == FoldLeft(+, 0, s)

\* median of the replicas' capacities; an even number of them takes the mean
\* of the middle two.
median(s) ==
  LET t == SortSeq(s, <)
      n == Len(s)
  IN  IF n % 2 = 1 THEN t[n \div 2 + 1] ELSE (t[n \div 2] + t[n \div 2 + 1]) \div 2

classifyOutputLength(out) == IF out < 100 THEN "short" ELSE IF out < 500 THEN "medium" ELSE "long"

\* rollingAverage: the oldest value leaves a full window.
Add(window, x) == Append(IF Len(window) >= RollingAverageWindowSize THEN Tail(window) ELSE window, x)
Average(window) == IF window = << >> THEN 0 ELSE SumSeq(window) \div Len(window)

-----------------------------------------------------------------------------
(* The capacity store. *)

\* mutant: what the command line says replaces what was measured
LoadAlways(store, key, acc, gpus, containers) ==
  LET p == ParseEngineArgs(containers)
  IN  (key :> [acc |-> acc, gpus |-> gpus, params |-> {p}, live |-> FALSE,
               kv |-> IF p.blocks > 0 THEN p.blocks * p.block ELSE p.kvTokens,
               eff |-> p.effective]) @@ store

\* What a deployment's command line tells about a variant; a measured record
\* stays as it is.
LoadFromScaleTarget(store, key, acc, gpus, containers) ==
  LET p == ParseEngineArgs(containers)
  IN  IF key \in DOMAIN store /\ store[key].live THEN store
      ELSE (key :> [acc |-> acc, gpus |-> gpus, params |-> {p}, live |-> FALSE,
                    kv |-> IF p.blocks > 0 THEN p.blocks * p.block ELSE p.kvTokens,
                    eff |-> p.effective]) @@ store

ParamsOf(store, key) == IF key \in DOMAIN store THEN store[key].params ELSE {}

\* Update: a measurement replaces the record but for the parameters.
Update(store, key, m, gpus, eff) ==
  (key :> [acc |-> m.acc, gpus |-> gpus, kv |-> m.kv, eff |-> eff,
           params |-> ParamsOf(store, key), live |-> TRUE]) @@ store

\* The records that FindCompatible may return for record r of a model: any live
\* one, the first of the map's random order, or else any other.
FindCompatible(store, model, r) ==
  LET match == {k \in DOMAIN store :
                  /\ k[2] = model /\ store[k].acc = r.acc /\ store[k].gpus = r.gpus
                  /\ \E p \in store[k].params, q \in r.params : IsCapacityCompatible(p, q)
                  /\ store[k].eff > 0 \/ store[k].kv > 0}
      live  == {k \in match : store[k].live}
  IN  {store[k] : k \in IF live # {} THEN live ELSE match}

-----------------------------------------------------------------------------
(* One replica. *)

\* min(B*O/(I+O), S) requests run at a time, each holding I + O/2 tokens on
\* average; 0 when nothing can be derived.
estimateCapacityFromParams(params, in, out) ==
  IF params = {} \/ out <= 0 THEN 0
  ELSE LET p == CHOOSE x \in params : TRUE
       IN  IF p.effective <= 0 THEN 0
           ELSE IF p.effective * out > p.seqs * (in + out) THEN (p.seqs * (2 * in + out)) \div 2
           ELSE (p.effective * out * (2 * in + out)) \div (2 * (in + out))

waitingQueueDemand(m, role) == m.queue * (m.in + IF role = "prefill" THEN 0 ELSE m.out)

\* mutant: replicas with a full queue are taken like any other
NeverObserved(hist, key, m, queueThreshold, params, k1) ==
  LET derived == estimateCapacityFromParams(params, m.in, m.out)
      window  == IF key \in DOMAIN hist THEN hist[key] ELSE << >>
  IN  IF Average(window) > 0 THEN [k2 |-> Average(window), hist |-> hist]
      ELSE [k2 |-> IF derived > 0 THEN derived ELSE k1, hist |-> hist]

\* The compute-bound capacity: what a replica with a full queue is running, or
\* what such replicas have been running, or what the parameters suggest.
computeK2(hist, key, m, queueThreshold, params, k1) ==
  LET window  == IF key \in DOMAIN hist THEN hist[key] ELSE << >>
      derived == estimateCapacityFromParams(params, m.in, m.out)
  IN  IF m.queue >= queueThreshold /\ m.inUse > 0
      THEN [k2 |-> m.inUse, hist |-> (key :> Add(window, m.inUse)) @@ hist]
      ELSE [k2 |-> IF Average(window) > 0 THEN Average(window)
                   ELSE IF derived > 0 THEN derived ELSE k1,
            hist |-> hist]

\* The replica's capacity and demand are appended to "caps"; a replica of
\* which no capacity is known is left out.
computeReplicaCapacity(mem, m, c, key, state) ==
  LET k1 == Percent(m.kv, c.kvCache)
      r  == computeK2(mem.hist, <<key[2], m.acc, state.gpus, classifyOutputLength(m.out)>>,
                      m, c.queueLength, ParamsOf(mem.store, key), k1)
      eff == Min({k1, r.k2})
  IN  [caps |-> Append(mem.caps, [v |-> m.v, eff |-> eff,
                                  demand |-> m.inUse + waitingQueueDemand(m, state.role)]),
       store |-> Update(mem.store, key, m, state.gpus, eff), hist |-> r.hist]

computeReplicaCapacityFallback(mem, m, c, key, state) ==
  LET eff == IF key \in DOMAIN mem.store THEN Percent(mem.store[key].eff, c.kvCache) ELSE 0
  IN  IF eff <= 0 THEN mem
      ELSE [mem EXCEPT !.caps = Append(@, [v |-> m.v, eff |-> eff,
              demand |-> Percent(eff, m.usage) + waitingQueueDemand(m, state.role)])]

\* The first phase of Analyze, over the replicas in the order they are listed.
AnalyzeReplicas(mem, metrics, c, ns, model, states) ==
  FoldLeft(LAMBDA acc, m :
             LET key == <<ns, model, m.v>>
             IN  IF m.kv > 0 THEN computeReplicaCapacity(acc, m, c, key, states[m.v])
                 ELSE computeReplicaCapacityFallback(acc, m, c, key, states[m.v]),
           [store |-> mem.store, hist |-> mem.hist, caps |-> << >>], metrics)

-----------------------------------------------------------------------------
(* A model. *)

\* Sums over the replicas that served something; the averages are their
\* quotients.
computeModelWorkloadAverages(metrics) ==
  LET busy == SelectSeq(metrics, LAMBDA m : m.in > 0 \/ m.out > 0)
      sum(f) == SumSeq([i \in DOMAIN busy |-> busy[i][f]])
  IN  [in |-> sum("in"), out |-> sum("out"), hit |-> sum("hit"), n |-> Max({1, Len(busy)})]

\* The capacities that may be assumed for a variant without metrics.
estimateStoredCapacity(store, key, c, avg) ==
  IF key \notin DOMAIN store THEN {0}
  ELSE LET r       == store[key]
           derived == estimateCapacityFromParams(r.params, avg.in \div avg.n, avg.out \div avg.n)
           own     == IF r.kv > 0 THEN {Percent(r.kv, c.kvCache)} ELSE {}
           peers   == FindCompatible(store, key[2], r)
       IN  IF r.live \/ derived = 0 THEN {r.eff}
           ELSE IF peers = {} THEN {Min({derived} \cup own)}
           ELSE {Min({derived} \cup own \cup (IF p.live THEN {p.eff} ELSE {})) : p \in peers}

\* Which capacity is assumed for each variant without metrics.
Estimates(mem, metrics, c, ns, model, states) ==
  LET seen   == {mem.caps[i].v : i \in DOMAIN mem.caps}
      avg    == computeModelWorkloadAverages(metrics)
      may(v) == estimateStoredCapacity(mem.store, <<ns, model, v>>, c, avg)
      silent == DOMAIN states \ seen
  IN  {f \in [silent -> UNION {may(v) : v \in silent}] : \A v \in silent : f[v] \in may(v)}

\* A variant with metrics counts engine instances, a pod of which may hold
\* several, and pending pods accordingly; any other counts ready pods.  Cost
\* and accelerator are known from metrics only.
aggregateByVariant(caps, metrics, states, est) ==
  [v \in DOMAIN states |->
     LET own     == SelectSeq(caps, LAMBDA r : r.v = v)
         n       == Len(own)
         pending == Monus(states[v].cur, states[v].ready)
         ready   == states[v].cur - pending
         shown   == SelectSeq(metrics, LAMBDA m : m.v = v)
     IN  [prc |-> IF n > 0 THEN median([i \in DOMAIN own |-> own[i].eff]) ELSE est[v],
          count |-> IF n > 0 THEN n ELSE ready,
          pending |-> IF ready > 0 /\ n \div ready > 1 THEN pending * (n \div ready) ELSE pending,
          demand |-> SumSeq([i \in DOMAIN own |-> own[i].demand]),
          data |-> n > 0 \/ est[v] > 0,
          acc |-> IF shown # << >> THEN shown[1].acc ELSE "",
          cost |-> IF shown # << >> THEN shown[1].cost ELSE 0]]

\* Requests that wait in the scheduler: prompt tokens by size or by bytes,
\* whichever is more, less the share that the prefix cache holds; only a
\* prefill role is spared the output.
estimateSchedulerQueueDemand(queue, metrics, role) ==
  LET avg == computeModelWorkloadAverages(metrics)
      in  == Max({queue.bytes \div BytesPerToken, (queue.size * avg.in) \div avg.n})
      fresh == (in * (100 * avg.n - avg.hit)) \div (100 * avg.n)
  IN  IF queue.size = 0 /\ queue.bytes = 0 THEN 0
      ELSE fresh + IF role = "prefill" THEN 0 ELSE (queue.size * avg.out) \div avg.n

\* mutant: replicas that are starting are not counted
PendingForgotten(vcs, states, queue, metrics) ==
  [role \in {states[v].role : v \in DOMAIN states} |->
     LET S == {v \in DOMAIN vcs : states[v].role = role}
         supply == SumOver(S, LAMBDA v : vcs[v].count * vcs[v].prc)
     IN  [supply |-> supply, anticipated |-> supply,
          demand |-> SumOver(S, LAMBDA v : vcs[v].demand)
                     + estimateSchedulerQueueDemand(queue, metrics, role)]]

\* SumTotalSupply and its siblings, over the variants of one role.  A model
\* without roles has all its variants in "both", which makes them its totals.
AggregateByRole(vcs, states, queue, metrics) ==
  [role \in {states[v].role : v \in DOMAIN states} |->
     LET S == {v \in DOMAIN vcs : states[v].role = role}
     IN  [supply      |-> SumOver(S, LAMBDA v : vcs[v].count * vcs[v].prc),
          anticipated |-> SumOver(S, LAMBDA v : (vcs[v].count + vcs[v].pending) * vcs[v].prc),
          demand      |-> SumOver(S, LAMBDA v : vcs[v].demand)
                          + estimateSchedulerQueueDemand(queue, metrics, role)]]
=============================================================================
