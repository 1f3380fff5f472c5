------------------------------ MODULE EngineV2 ------------------------------
(***************************************************************************)
(* The V2 path of the saturation engine (internal/engines/saturation):       *)
(* every cycle reads the metrics of each model, runs the analyzers, lets     *)
(* them vote, and publishes a replica count per variant, which the external  *)
(* autoscaler follows; what the replicas report next depends on that.  The   *)
(* engine remembers capacities, histories and when each analyzer last had    *)
(* something to say.                                                         *)
(*                                                                         *)
(* A cycle reads the scale targets of a model and then its metrics; replicas *)
(* come and go in between, and one that is ready need not report yet, or one *)
(* that reports be counted as ready.  What the scaler may read in the middle *)
(* of a cycle (the safety net stands in for a model that fails until it      *)
(* ends) and a hold whose scale target cannot be read are EngineV1's         *)
(* subject, GPU limits are OptimizerV2's.  With scale to zero off the        *)
(* enforcer changes nothing: some variant of a role keeps a replica.         *)
(*                                                                         *)
(* A setup describes a cluster: per model "of" (its variants), ns, model,    *)
(* key (of its override), loads; per variant role, gpus, min, max, cost,     *)
(* acc, ranks (engine instances of a pod) and builds, the deployments it     *)
(* goes through as records [containers, cache, shown, conc]: the tokens of   *)
(* the cache, whether its size is reported, and the requests that run at a   *)
(* time; limit (the queue of an instance when a scheduler holds the rest, 0  *)
(* when there is none), tput (capacities in the eyes of the throughput       *)
(* analyzer), lag (by how many replicas those that are ready and those that  *)
(* report may differ while a variant grows), window (whether queries look    *)
(* back beyond the last change), voices, configs, starts, events, budget,    *)
(* periods.                                                                  *)
(***************************************************************************)
EXTENDS SaturationV2, ScaleOrders, ScalingConfig

CONSTANTS Setups,      \* the clusters to look at
          Interval     \* OptimizationInterval

ASSUME IntervalAssumption == Interval \in Nat \ {0}

Throughput == "throughput"
analyzerLivenessStaleCycles == 3
Stale == analyzerLivenessStaleCycles * Interval

VARIABLES
  setup,    \* one of Setups
  load,     \* [model -> [n, in, out]]: requests in the system and their tokens
  cur,      \* replicas of the scale targets
  ready,    \* those that their status counts as ready
  seen,     \* those whose metrics can be queried
  peak,     \* [variant -> Seq([used, queue])]: the most its instances had of late
  mute,     \* variants whose metrics do not arrive
  build,    \* which of its builds a variant runs
  voice,    \* [model -> what the throughput analyzer answers]
  present,  \* the models that have variants registered
  cfg,      \* the configuration that is loaded
  budget,   \* disturbances that may still come
  mem,      \* [store, hist] of the saturation analyzer
  last,     \* lastGoodAnalysis: [model -> [analyzer -> age]]
  phase, todo, reqs,   \* the cycle: models to analyze, requests collected
  snap,     \* the scale targets of the model whose metrics are read next
  wanted,   \* the published replica counts
  measured  \* per variant, the capacity that was last seen in its metrics

world == <<load, cur, ready, seen, peak, mute, build, voice, present, cfg>>
cycle == <<phase, todo, reqs, snap>>
vars == <<setup, world, budget, mem, last, cycle, wanted, measured>>

Variants == DOMAIN setup.role
Models == DOMAIN setup.of
ModelOf(v) == CHOOSE g \in Models : v \in setup.of[g]
Build(v) == setup.builds[v][build[v]]

\* Variants at zero replicas take no part in a cycle.
ActiveVariants(g) == IF g \in present THEN {v \in setup.of[g] : cur[v] > 0} ELSE {}

-----------------------------------------------------------------------------
(* The replicas.  A scheduler, where there is one, lets as many requests of a *)
(* model through as its roles can run or queue, and holds the others back.   *)
(* They spread over the instances of each role that are up, whether their    *)
(* status or their metrics show it first, and what does not fit in the batch *)
(* of an instance waits there.                                               *)

Up(v) == Max({ready[v], seen[v]}) * setup.ranks[v]
Instances(v) == 1..Up(v)
InstancesOf(S) == SumOver(S, Up)
Peers(v) == {u \in ActiveVariants(ModelOf(v)) : setup.role[u] = setup.role[v]}

TokensOf(v) ==
  LET l == load[ModelOf(v)] IN IF setup.role[v] = "prefill" THEN l.in ELSE l.in + l.out \div 2
BatchOf(v) == Min({Build(v).conc, Build(v).cache \div TokensOf(v)})

Admitted(g) ==
  LET room(v) == SumOver(Peers(v), LAMBDA u : Up(u) * (BatchOf(u) + setup.limit))
  IN  Min({load[g].n} \cup {room(v) : v \in IF setup.limit = 0 THEN {} ELSE ActiveVariants(g)})
HeldBack(g) == load[g].n - Admitted(g)

\* Instance i of v, when n requests are let through.
ShareOf(v, i, n) ==
  LET k == InstancesOf(Peers(v))
  IN  n \div k + IF InstancesOf({u \in Peers(v) : u < v}) + i <= n % k THEN 1 ELSE 0
QueueOf(v, i, n) == Monus(ShareOf(v, i, n), BatchOf(v))

\* What instance i has in its cache and its queue, and what of it the queries find,
\* which take the maximum over the last minute, also for pods that are gone.
Scraped(v) == seen[v] * setup.ranks[v]
Having(v, i, n) ==
  IF i > Scraped(v) THEN [used |-> 0, queue |-> 0]
  ELSE [used |-> Min({ShareOf(v, i, n), BatchOf(v)}) * TokensOf(v), queue |-> QueueOf(v, i, n)]
Found(v, i, n) ==
  LET now == Having(v, i, n)
      old == IF i \in DOMAIN peak[v] THEN peak[v][i] ELSE now
  IN  [used |-> Max({old.used, now.used}), queue |-> Max({old.queue, now.queue})]
Listed(v) == 1..Max({Scraped(v), Len(peak[v])})

InstanceMetrics(v, i, n) ==
  LET l == load[ModelOf(v)]
      x == Found(v, i, n)
      busy == x.used > 0
  IN  [v |-> v, kv |-> IF Build(v).shown THEN Build(v).cache ELSE 0,
       inUse |-> IF Build(v).shown THEN x.used ELSE 0,
       usage |-> (100 * x.used) \div Build(v).cache, queue |-> x.queue,
       in |-> IF busy THEN l.in ELSE 0,
       out |-> IF busy /\ setup.role[v] # "prefill" THEN l.out ELSE 0,
       hit |-> 0, acc |-> setup.acc[v], cost |-> setup.cost[v]]

\* What CollectReplicaMetrics returns for the variants in S: pods that have
\* neither a cache nor a queue series are skipped.
CollectReplicaMetrics(S, n) ==
  FoldLeft(LAMBDA s, v : s \o [i \in Listed(v) |-> InstanceMetrics(v, i, n)],
           << >>, SetToSortSeq(S \ mute, <))

\* The scheduler's queue, over every namespace that serves the model.
CollectSchedulerQueueMetrics(g) ==
  LET same == {h \in present : setup.model[h] = setup.model[g]}
  IN  [size |-> SumOver(same, HeldBack), bytes |-> SumOver(same, LAMBDA h : HeldBack(h) * load[h].in * BytesPerToken)]

-----------------------------------------------------------------------------
(* One model. *)

Configured(g) == resolveSaturationConfig(parseSaturationConfig(setup.configs[cfg].entries), setup.key[g])

BuildVariantStates(S) ==
  [v \in S |-> [cur |-> cur[v], ready |-> ready[v], gpus |-> setup.gpus[v],
                min |-> setup.min[v], max |-> setup.max[v], role |-> setup.role[v]]]

\* Both thresholds are positive once resolveSaturationConfig is through.
applyUniversalThreshold(caps, t) ==
  [required |-> [r \in DOMAIN caps |-> Monus(CeilDiv(100 * caps[r].demand, t.up), caps[r].anticipated)],
   spare    |-> [r \in DOMAIN caps |-> Monus(caps[r].supply, CeilDiv(100 * caps[r].demand, t.down))]]

\* An entry of the ballot; whether it is live is decided last.
NamedAnalyzerResult(c, a, enabled, vcs, caps) ==
  LET signal == applyUniversalThreshold(caps, resolveThresholds(c, a))
  IN  [enabled |-> enabled, live |-> FALSE, score |-> scoreForAnalyzer(c, a), vcs |-> vcs,
       demand |-> [r \in DOMAIN caps |-> caps[r].demand], required |-> signal.required, spare |-> signal.spare]

\* The capacity store learns the command lines of the variants in S.
PrePopulate(store, g, S) ==
  FoldLeft(LAMBDA st, v : LoadFromScaleTarget(st, <<setup.ns[g], setup.model[g], v>>,
                            setup.acc[v], setup.gpus[v], Build(v).containers),
           store, SetToSeq(S))

\* What the throughput analyzer may answer, if it is enabled and answers at all.
runRegisteredAnalyzer(c, g, states) ==
  LET x     == voice[g]
      prc   == [v \in DOMAIN states |-> IF x.answer = "known" THEN setup.tput[v] ELSE 0]
      vcs   == [v \in DOMAIN states |-> [prc |-> prc[v], data |-> x.answer = "known", acc |-> setup.acc[v], cost |-> setup.cost[v]]]
      caps  == [r \in {states[v].role : v \in DOMAIN states} |->
                 LET S == {v \in DOMAIN states : states[v].role = r}
                 IN  [supply |-> SumOver(S, LAMBDA v : states[v].ready * prc[v]),
                      anticipated |-> SumOver(S, LAMBDA v : states[v].cur * prc[v]), demand |-> x.demand]]
  IN  IF ~effectiveEnabled(c, Throughput) \/ x.answer = "error" THEN << >>
      ELSE Throughput :> NamedAnalyzerResult(c, Throughput, TRUE, vcs, caps)

Recent(g) == IF g \in DOMAIN last THEN last[g] ELSE << >>

\* mutant: who has nothing to say now is not asked
LiveNow(ages, results) == [a \in DOMAIN results |-> [results[a] EXCEPT !.live = ResultIsInformative(results[a])]]
\* mutant: who has ever had something to say is always asked
LiveForever(ages, results) == [a \in DOMAIN results |-> [results[a] EXCEPT !.live = a \in DOMAIN ages]]

\* An analyzer takes part in the vote while its last informative answer is recent.
setLive(ages, results) ==
  [a \in DOMAIN results |-> [results[a] EXCEPT !.live = a \in DOMAIN ages /\ ages[a] <= Stale]]

updateLiveness(ages, results) ==
  [a \in {b \in DOMAIN results : ResultIsInformative(results[b])} |-> 0] @@ ages

Aged(p) == [g \in DOMAIN last |-> [a \in DOMAIN last[g] |-> Min({last[g][a] + p, Stale + 1})]]

\* runAnalyzersAndScore with the metrics as listed, and est for the variants
\* that have none.
Ballots(g, c, m, metrics, queue, states, est) ==
  LET vcs  == aggregateByVariant(m.caps, metrics, states, est)
      caps == AggregateByRole(vcs, states, queue, metrics)
  IN  (Saturation :> NamedAnalyzerResult(c, Saturation, satVotes(c), vcs, caps))
      @@ runRegisteredAnalyzer(c, g, states)

\* The model is analyzed: "found" are the variants whose scale target was fetched
\* for the metrics, "states" those of all for which one could be.
Analyzed(g, found, states, metrics, queue) ==
  LET c      == Configured(g)
      m      == AnalyzeReplicas([mem EXCEPT !.store = PrePopulate(@, g, found)],
                                metrics, c, setup.ns[g], setup.model[g], states)
  IN  /\ \E results \in {Ballots(g, c, m, metrics, queue, states, est) :
                            est \in Estimates(m, metrics, c, setup.ns[g], setup.model[g], states)} :
           LET ages == updateLiveness(Recent(g), results)
           IN  /\ reqs' = (g :> [states |-> states, results |-> setLive(ages, results),
                                 disaggregated |-> \E v \in DOMAIN states : setup.role[v] # "both",
                                 priority |-> c.priority, model |-> setup.model[g], ns |-> setup.ns[g]]) @@ reqs
               /\ last' = (g :> ages) @@ last
      /\ mem' = [store |-> m.store, hist |-> m.hist]
      /\ measured' = [v \in Variants |->
           LET own == SelectSeq(m.caps, LAMBDA r : r.v = v)
           IN  IF own # << >> /\ Build(v).shown THEN {own[Len(own)].eff} ELSE measured[v]]

\* Faults spend the budget.
MayFail(S) == IF "errors" \in setup.events /\ budget > 0 THEN SUBSET S ELSE {{}}

NoSnapshot == [states |-> << >>, missed |-> {}]

\* prepareModelData fetches the scale targets of a model.
FetchScaleTargets(g) ==
  /\ phase = "analyze" /\ g \in todo
  /\ phase' = "collect" /\ todo' = todo \ {g}
  /\ \E missed \in MayFail(ActiveVariants(g)) :
       /\ snap' = [states |-> BuildVariantStates(ActiveVariants(g) \ missed), missed |-> missed]
       /\ budget' = IF missed = {} THEN budget ELSE budget - 1
  /\ UNCHANGED <<setup, world, mem, last, reqs, wanted, measured>>

\* The rest of it, and the analysis: the metrics are queried, and a scale target
\* that was missed is fetched again.  The replicas are listed in any order;
\* two are tried.
AnalyzeModel(g) ==
  /\ phase = "collect" /\ phase' = "analyze"
  /\ DOMAIN snap.states \cup snap.missed \subseteq setup.of[g]
  /\ \E n \in {Admitted(g)} :
       LET found  == DOMAIN snap.states
           listed == CollectReplicaMetrics(found, n)
       IN  IF listed = << >> THEN UNCHANGED <<reqs, last, mem, measured>>
           ELSE \E metrics \in {listed, Reverse(listed)}, queue \in {CollectSchedulerQueueMetrics(g)},
                   late \in SUBSET snap.missed :
                  Analyzed(g, found, snap.states @@ BuildVariantStates(late), metrics, queue)
  /\ snap' = NoSnapshot
  /\ UNCHANGED <<setup, world, budget, todo, wanted>>

\* prepareModelData or the analysis fails.
AnalysisFails(g) ==
  /\ phase = "analyze" /\ g \in todo /\ "errors" \in setup.events /\ budget > 0
  /\ todo' = todo \ {g} /\ budget' = budget - 1
  /\ UNCHANGED <<setup, world, mem, last, phase, reqs, snap, wanted, measured>>

-----------------------------------------------------------------------------
(* The cost-aware optimizer.  A joint commit is exact here: OptimizerV2 has   *)
(* the floating point.                                                        *)

Held == [v \in Variants |-> IF v \in ActiveVariants(ModelOf(v)) THEN cur[v] ELSE wanted[v]]

RECURSIVE allocateForModelPaired(_, _, _, _)
allocateForModelPaired(q, anchor, targets, ps) ==
  LET roles   == VotingRoles(q)
      may(r)  == costGreedyRolePick(q, anchor, targets, r)
      pick    == [r \in roles |-> CHOOSE x \in may(r) : TRUE]
      n       == AskedFor(q, ps, pick)
      k       == JointReplicas(anchor, ps, pick, n, {})
      more(v) == SumOver({r \in roles : pick[r].v = v}, LAMBDA r : k[r])
  IN  IF /\ anyRoleNeedsScaleUp(ps) /\ \A r \in roles : may(r) # {}
         /\ JointShare(anchor, ps, pick, n).num > 0 /\ \E r \in roles : k[r] > 0
      THEN allocateForModelPaired(q, anchor, [v \in DOMAIN targets |-> targets[v] + more(v)],
                                  AfterCommit(anchor, ps, pick, k))
      ELSE targets

\* The counts the cost-aware optimizer decides on, none without an anchor.
Targets(q) ==
  LET anchor == bindingAnchor(q)
      ps     == initRoleState(q, [a \in votingResults(q) |-> At(q.results[a].required, "both")])
  IN  IF anchor = NoAnchor THEN << >>
      ELSE IF anyRoleNeedsScaleUp(ps) THEN allocateForModelPaired(q, anchor, initTargets(q), ps)
      ELSE scaleDownRoleIterated(q, anchor)

-----------------------------------------------------------------------------
(* The cycle. *)

\* The queueing model's ConfigMap is refused: everything is held.
Begin ==
  /\ phase = "idle" /\ \E g \in present : ActiveVariants(g) # {}
  /\ IF setup.configs[cfg].qm
     THEN /\ wanted' = Held
          /\ \E p \in setup.periods : last' = Aged(p)
          /\ UNCHANGED <<phase, todo>>
     ELSE /\ phase' = "analyze" /\ todo' = {g \in present : ActiveVariants(g) # {}}
          /\ last' = [g \in DOMAIN last \cap todo' |-> last[g]]
          /\ UNCHANGED wanted
  /\ UNCHANGED <<setup, world, budget, mem, reqs, snap, measured>>

\* A cycle that finds nothing to do.
NothingActive ==
  /\ phase = "idle" /\ \A g \in present : ActiveVariants(g) = {}
  /\ \E p \in setup.periods : last' = Aged(p)
  /\ UNCHANGED <<setup, world, budget, mem, cycle, wanted, measured>>

\* optimizeV2 from the optimizer on, and applySaturationDecisions.  The next
\* cycle starts an interval after this one ends.
Optimize ==
  /\ phase = "analyze" /\ todo = {}
  /\ \E new \in {[g \in DOMAIN reqs |-> Targets(reqs[g])]} :
       LET decided(v) == ModelOf(v) \in DOMAIN reqs /\ v \in DOMAIN new[ModelOf(v)]
       IN  wanted' = [v \in Variants |-> IF decided(v) THEN new[ModelOf(v)][v] ELSE Held[v]]
  /\ \E p \in setup.periods : last' = Aged(p)
  /\ phase' = "idle" /\ reqs' = << >>
  /\ UNCHANGED <<setup, world, budget, mem, todo, snap, measured>>

\* The controller starts anew, or another one becomes the leader.
Restart ==
  /\ "restart" \in setup.events /\ budget > 0 /\ budget' = budget - 1
  /\ mem' = [store |-> << >>, hist |-> << >>] /\ last' = << >> /\ measured' = [v \in Variants |-> {}]
  /\ phase' = "idle" /\ todo' = {} /\ reqs' = << >> /\ snap' = NoSnapshot
  /\ UNCHANGED <<setup, world, wanted>>

Reconfigure(c) ==
  /\ budget > 0 /\ budget' = budget - 1 /\ c # cfg /\ cfg' = c
  /\ UNCHANGED <<setup, load, cur, ready, seen, peak, mute, build, voice, present, mem, last, cycle, wanted, measured>>

-----------------------------------------------------------------------------
(* The cluster.  Between two cycles all of this may happen.  Replicas may also *)
(* come and go between the two reads of a cycle (event "skew"); the rest would *)
(* then only be seen by the next cycle.  If the scaler acted there every time, *)
(* nothing need come to rest: it spends the budget.                            *)

Between(event) == phase = "idle" /\ event \in setup.events /\ budget > 0 /\ budget' = budget - 1
Internal == <<setup, mem, last, cycle, wanted, measured>>
MidRead == phase = "collect" /\ "skew" \in setup.events

\* What was scraped before a step stays in the window.
Remember ==
  peak' = [v \in Variants |-> IF ~setup.window THEN << >>
                               ELSE [i \in Listed(v) |-> Found(v, i, Admitted(ModelOf(v)))]]

\* The external autoscaler.
Scale(v) ==
  /\ \/ phase = "idle" /\ UNCHANGED budget
     \/ MidRead /\ budget > 0 /\ budget' = budget - 1
  /\ ModelOf(v) \in present /\ cur[v] # wanted[v]
  /\ cur' = [cur EXCEPT ![v] = wanted[v]]
  /\ ready' = [ready EXCEPT ![v] = Min({@, wanted[v]})]
  /\ seen' = [seen EXCEPT ![v] = Min({@, wanted[v]})]
  /\ Remember
  /\ UNCHANGED <<Internal, load, mute, build, voice, present, cfg>>

\* A pod is counted as ready, or its metrics are scraped, or both.
PodComesUp(v) ==
  /\ phase = "idle" \/ MidRead
  /\ \E r \in ready[v]..(ready[v] + 1), s \in seen[v]..(seen[v] + 1) :
       /\ r + s > ready[v] + seen[v] /\ Max({r, s}) <= cur[v]
       /\ r > ready[v] => r - s <= setup.lag
       /\ s > seen[v] => s - r <= setup.lag
       /\ ready' = [ready EXCEPT ![v] = r] /\ seen' = [seen EXCEPT ![v] = s]
  /\ Remember
  /\ UNCHANGED <<Internal, load, cur, mute, build, voice, present, cfg, budget>>

\* A minute after the last such change the queries find what there is now.
WindowPasses ==
  /\ phase = "idle" /\ \E v \in Variants : peak[v] # << >>
  /\ peak' = [v \in Variants |-> << >>]
  /\ UNCHANGED <<Internal, load, cur, ready, seen, mute, build, voice, present, cfg, budget>>

LoadChanges(g) ==
  /\ Between("load") /\ \E l \in setup.loads[g] \ {load[g]} : load' = [load EXCEPT ![g] = l]
  /\ Remember
  /\ UNCHANGED <<Internal, cur, ready, seen, mute, build, voice, present, cfg>>

\* Of all pods of a variant, or of one.
MetricsLost(v) ==
  /\ Between("mute")
  /\ \/ v \notin mute /\ mute' = mute \cup {v} /\ UNCHANGED seen
     \/ setup.lag > 0 /\ seen[v] > 0 /\ seen' = [seen EXCEPT ![v] = @ - 1] /\ UNCHANGED mute
  /\ Remember
  /\ UNCHANGED <<Internal, load, cur, ready, build, voice, present, cfg>>

MetricsBack(v) ==
  /\ phase = "idle" /\ v \in mute /\ mute' = mute \ {v}
  /\ UNCHANGED <<Internal, load, cur, ready, seen, peak, build, voice, present, cfg, budget>>

\* New pods replace the old ones.
Redeploy(v) ==
  /\ Between("redeploy") /\ build[v] < Len(setup.builds[v])
  /\ build' = [build EXCEPT ![v] = @ + 1]
  /\ ready' = [ready EXCEPT ![v] = 0] /\ seen' = [seen EXCEPT ![v] = 0]
  /\ Remember
  /\ UNCHANGED <<Internal, load, cur, mute, voice, present, cfg>>

VoiceChanges(g) ==
  /\ Between("voice") /\ \E x \in setup.voices \ {voice[g]} : voice' = [voice EXCEPT ![g] = x]
  /\ UNCHANGED <<Internal, load, cur, ready, seen, peak, mute, build, present, cfg>>

Depart(g) ==
  /\ Between("depart") /\ g \in present /\ present' = present \ {g}
  /\ UNCHANGED <<Internal, load, cur, ready, seen, peak, mute, build, voice, cfg>>

Return(g) ==
  /\ phase = "idle" /\ g \notin present /\ present' = present \cup {g}
  /\ UNCHANGED <<Internal, load, cur, ready, seen, peak, mute, build, voice, cfg, budget>>

-----------------------------------------------------------------------------
Init ==
  /\ setup \in Setups
  /\ load \in {f \in [Models -> UNION {setup.loads[g] : g \in Models}] : \A g \in Models : f[g] \in setup.loads[g]}
  /\ cur \in setup.starts /\ ready = cur /\ seen = cur /\ wanted = cur
  /\ peak = [v \in Variants |-> << >>]
  /\ mute = {} /\ build = [v \in Variants |-> 1] /\ present = Models /\ cfg = 1
  /\ voice \in [Models -> setup.voices]
  /\ budget = setup.budget
  /\ mem = [store |-> << >>, hist |-> << >>] /\ last = << >> /\ measured = [v \in Variants |-> {}]
  /\ phase = "idle" /\ todo = {} /\ reqs = << >> /\ snap = NoSnapshot

EngineStep ==
  \/ Begin
  \/ NothingActive
  \/ \E g \in todo : FetchScaleTargets(g) \/ AnalysisFails(g)
  \/ \E g \in Models : AnalyzeModel(g)
  \/ Optimize

Disturbance ==
  \/ Restart
  \/ \E c \in DOMAIN setup.configs : Reconfigure(c)
  \/ \E g \in Models : LoadChanges(g) \/ VoiceChanges(g) \/ Depart(g) \/ Return(g)
  \/ \E v \in Variants : MetricsLost(v) \/ MetricsBack(v) \/ Redeploy(v)

ScaleSome == \E v \in Variants : Scale(v)
PodsComeUp == \E v \in Variants : PodComesUp(v)

Next ==
  \/ EngineStep
  \/ ScaleSome
  \/ PodsComeUp
  \/ WindowPasses
  \/ Disturbance

Spec == Init /\ [][Next]_vars

\* The poll loop never stops (a cluster without models, where it changes nothing,
\* gets one in the end); the autoscaler gets to follow what is published, and
\* pods to come up and to be scraped, now and then.
EngineMoves == phase # phase' \/ todo # todo' \/ (setup.configs[cfg].qm /\ last # last')
FairSpec == Spec /\ []<><<EngineMoves>>_vars /\ SF_vars(ScaleSome) /\ SF_vars(PodsComeUp) /\ SF_vars(WindowPasses)

-----------------------------------------------------------------------------
(* Properties. *)

\* Removing replicas takes no analyzer by surprise: every analyzer that was asked
\* and had something to say within the staleness window has something to say
\* now, and what is removed is within what it can spare (updateLivenessAndSetLive
\* and scaleDownRoleIterated).
ShrinksWithinSpare ==
  [][\A g \in DOMAIN reqs : \A r \in {setup.role[v] : v \in DOMAIN reqs[g].states} :
       LET q    == reqs[g]
           less == {v \in DOMAIN q.states : q.states[v].role = r /\ wanted'[v] < q.states[v].cur}
       IN  (wanted' # wanted /\ less # {}) =>
           \A a \in votingResults(q) \cap DOMAIN last[g] : last[g][a] <= Stale =>
             /\ ResultIsInformative(q.results[a])
             /\ SumOver(less, LAMBDA v : (q.states[v].cur - wanted'[v]) * prcForVariant(q.results[a], v))
                  <= q.results[a].spare[r]]_vars

\* The tokens that the requests in the system will hold, by role.  A scheduler's
\* queue is seen by every namespace that serves the model, which takes the
\* requests in it for its own.
TokensInSystem(g, r) ==
  LET same  == {h \in present : setup.model[h] = setup.model[g] /\ (h = g \/ setup.limit > 0)}
      of(h) == load[h].in + IF r = "prefill" THEN 0 ELSE load[h].out
  IN  SumOver(same, LAMBDA h : load[h].n * Max({of(h), of(g)}))

\* What the readings of a role count twice or too long: an instance is found with
\* the most it had within the window, after requests have moved to others.
TokensFoundTwice(g, r) ==
  LET n == Admitted(g)
      each == load[g].in + IF r = "prefill" THEN 0 ELSE load[g].out
      more(v, i) == Found(v, i, n).used - Having(v, i, n).used + each * (Found(v, i, n).queue - Having(v, i, n).queue)
  IN  SumOver({v \in setup.of[g] : setup.role[v] = r}, LAMBDA v : SumOver(Listed(v), LAMBDA i : more(v, i)))

\* Replicas that the scale target counted as ready when it was read, but that did
\* not show in the metrics read after it: neither running nor starting to the
\* analyzer.
Overlooked(q, v) == Monus(q.states[v].ready, q.results[Saturation].vcs[v].count)

\* Adding replicas stops within one replica of what the requests in the system
\* need, replicas that are still starting included (aggregateByVariant,
\* applyUniversalThreshold, allocateForModelPaired); only those that the scale
\* target counted as ready and the metrics did not show are asked for again,
\* and requests that moved within the window of the queries count twice.
\* For variants that report the size of their cache and one engine per pod.
GrowsToNeed ==
  [][\A g \in DOMAIN reqs : \A r \in {setup.role[v] : v \in DOMAIN reqs[g].states} :
       LET q    == reqs[g]
           S    == {v \in DOMAIN q.states : q.states[v].role = r}
           more == {v \in S : wanted'[v] > q.states[v].cur}
           prc(v) == prcForVariant(q.results[Saturation], v)
           asks == At(q.results[Saturation].required, r) > 0 /\ votingResults(q) = {Saturation}
       IN  (wanted' # wanted /\ more # {} /\ asks /\ \A v \in S : Build(v).shown /\ setup.ranks[v] = 1) =>
           SumOver(S, LAMBDA v : (wanted'[v] - Overlooked(q, v)) * prc(v)) - Max({prc(v) : v \in more})
             < CeilDiv(100 * (TokensInSystem(g, r) + TokensFoundTwice(g, r)), resolveThresholds(Configured(g), Saturation).up)]_vars

\* A variant without metrics is sized by what it was last seen to carry, until
\* a restart, whatever its deployment says (CapacityKnowledgeStore).
RememberedCapacity ==
  \A g \in DOMAIN reqs : \A v \in DOMAIN reqs[g].states :
    LET vc == reqs[g].results[Saturation].vcs[v]
    IN  vc.acc = "" /\ measured[v] # {} => vc.prc \in measured[v]

\* Histories of capacities are kept by model, not by namespace.
OneNamespace == \A g, h \in Models : setup.model[g] = setup.model[h] => g = h

\* A model the engine looks after: it is there, no other namespace serves it,
\* saturation votes, metrics arrive, and the queueing model is not configured.
Attended(g) ==
  /\ OneNamespace
  /\ g \in present /\ ~setup.configs[cfg].qm /\ satVotes(Configured(g))
  /\ setup.of[g] \cap mute = {} /\ \A v \in setup.of[g] : Build(v).shown /\ setup.ranks[v] = 1

\* Some role has all the replicas it may have: roles grow together, so that no
\* other can grow either, and while one wants to grow none shrinks.
AtMax(g) ==
  \E w \in ActiveVariants(g) : \A v \in Peers(w) : setup.max[v] > 0 /\ cur[v] >= setup.max[v]

\* The scaler leaves the engine a minute before a cycle reads what it did.  Where it
\* acts at every cycle and cycles are shorter than the window of the queries,
\* pods that are gone count as spare, and the counts may swing for ever.
ReadsFresh == phase = "collect" /\ phase' = "analyze" => \A v \in Variants : peak[v] = << >>
Unhurried == <>[][ReadsFresh]_vars

\* Queues do not stay: in the end no instance of a model that is looked after
\* has a queue at the threshold, and the scheduler holds nothing back, unless
\* a role has all the replicas it may have (computeK2 and the demand of
\* waiting requests).
QueuesDrain ==
  Unhurried => <>[](\A g \in Models : Attended(g) =>
         \/ AtMax(g)
         \/ /\ HeldBack(g) = 0
            /\ \A v \in setup.of[g] : \A i \in Instances(v) : QueueOf(v, i, Admitted(g)) < Configured(g).queueLength)

\* The published counts come to rest once the disturbances have stopped, whatever
\* the histories hold by then (rollingAverage, resolveSaturationConfig), where
\* each model is served in one namespace.
Settles == Unhurried => <>[][OneNamespace => UNCHANGED wanted]_vars

\* Nothing is kept that nobody needs: in the end one replica less would not carry
\* the requests in the system at the scale-down boundary, an analyzer that
\* has gone blind notwithstanding (analyzerLivenessStaleCycles), unless a role
\* has all it may have.
Lean ==
  Unhurried => <>[](\A g \in Models : (Attended(g) /\ ~AtMax(g) /\ ~(voice[g].answer = "known" /\ voice[g].demand > 0)) =>
         \A v \in setup.of[g] :
           \/ wanted[v] <= Max({1, setup.min[v]}) \/ measured[v] = {}
           \/ \A m \in measured[v] :
                (SumOver({u \in setup.of[g] : setup.role[u] = setup.role[v]}, LAMBDA u : wanted[u]) - 1) * m
                  * resolveThresholds(Configured(g), Saturation).down < 100 * TokensInSystem(g, setup.role[v]))

=============================================================================
