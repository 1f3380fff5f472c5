--------------------------- MODULE ScaleFromZero ---------------------------
(***************************************************************************)
(* The scale-from-zero engine (engines/scalefromzero/engine.go) under its  *)
(* polling executor.  A cycle lists the variants whose scale target has no *)
(* replicas, starts a goroutine for each, at most MaxConcurrency at a      *)
(* time, and collects their errors through a bounded channel.  A worker    *)
(* looks up the pool of its variant, asks the pool's metrics source for    *)
(* pending requests and sets the scale of the target to 1 through the      *)
(* direct actuator.  Beside the engine run the InferencePool reconciler,   *)
(* other writers of the scale (HPA, KEDA, an operator), the informer that  *)
(* feeds the cache the cycle lists from, and the cancellation of ctx.      *)
(*                                                                         *)
(* Variants lie in one namespace and select one pool.  Time is abstract:   *)
(* the pauses between cycles, with or without the retry backoff, are one.  *)
(***************************************************************************)
EXTENDS Naturals, Sequences, FiniteSets

CONSTANTS Variants,
          Setups,          \* how the engine is set up and what happens beside it
          MaxReplicas      \* bound on the scale that other writers choose

ASSUME VariantsAssumption == IsFiniteSet(Variants)
ASSUME ReplicasAssumption == MaxReplicas \in Nat \ {0}
ASSUME SetupsAssumption ==
  \A s \in Setups :
    /\ s.maxConcurrency \in Nat \ {0}
    /\ s.broken \subseteq Variants /\ s.waiting \subseteq Variants
    /\ s.environment \subseteq {"scale", "pool", "cancel"}

VARIABLES
  setup,      \* the setup of this behaviour
  spec,       \* spec.replicas of the scale targets in the API server
  seen,       \* the same in the informer cache
  exists,     \* the InferencePool object is there
  pools,      \* the datastore's pools holds it
  registered, \* the datastore's registry holds its metrics source
  poolPC,     \* the InferencePool reconciler
  ctxDone,    \* ctx is cancelled
  pc,         \* optimize and its executor
  todo,       \* inactiveVAs the loop has not reached
  sem,        \* length of the semaphore channel
  errorCh,    \* the error channel, of capacity MaxConcurrency
  aggregator, \* the error aggregator runs
  aggregated, \* Len(aggregatedErrors)
  outcome,    \* what the last cycle returned
  work,       \* the goroutine of each variant
  stale,      \* variants whose scale changed after their worker read it
  decided,    \* variants the DecisionCache has an entry for
  failed      \* history: the variants that failed in this cycle

MaxConcurrency == setup.maxConcurrency  \* SCALE_FROM_ZERO_ENGINE_MAX_CONCURRENCY
Broken == setup.broken                  \* variants whose pod template has no labels
Waiting == setup.waiting                \* variants that requests always wait for
Environment == setup.environment        \* what may happen beside the engine

apiVars == <<spec, seen>>
envVars == <<setup, ctxDone>>
poolVars == <<exists, pools, registered, poolPC>>
cycleVars == <<pc, todo, outcome>>
chanVars == <<sem, errorCh, aggregator, aggregated>>
workVars == <<work, stale, decided, failed>>
vars == <<setup, apiVars, poolVars, ctxDone, cycleVars, chanVars, workVars>>

Init ==
  /\ setup \in Setups
  /\ spec \in [Variants -> 0..MaxReplicas]
  /\ seen = spec
  /\ exists = ("pool" \notin Environment)
  /\ pools = exists
  /\ registered = exists
  /\ poolPC = "idle"
  /\ ctxDone = FALSE
  /\ pc = "paused"
  /\ todo = {}
  /\ sem = 0
  /\ errorCh = <<>>
  /\ aggregator = FALSE
  /\ aggregated = 0
  /\ outcome = "ok"
  /\ work = [v \in Variants |-> "off"]
  /\ stale = {}
  /\ decided = {}
  /\ failed = {}

----------------------------------------------------------------------------
(* optimize and PollingExecutor *)

isInactiveMutant(v) == seen[v] = 0 /\ v \notin decided

isInactive(v) == seen[v] = 0

StartCycle(listed) ==
  /\ pc = "paused" /\ ~ctxDone
  /\ pc' = "loop"
  /\ todo' = listed
  /\ sem' = 0 /\ errorCh' = <<>> /\ aggregator' = TRUE /\ aggregated' = 0
  /\ failed' = {}
  /\ UNCHANGED <<apiVars, poolVars, envVars, outcome, work, stale, decided>>

InactiveVariantAutoscaling == StartCycle({v \in Variants : isInactive(v)})

\* A scale target that cannot be fetched is skipped; listing the HPAs can fail.
ListPartly ==
  \E skipped \in SUBSET Variants \ {{}} :
    StartCycle({v \in Variants \ skipped : isInactive(v)})

\* executeWithRetry and UntilWithContext return once ctx is done.
StopLoop ==
  /\ pc = "paused" /\ ctxDone
  /\ pc' = "stopped"
  /\ UNCHANGED <<apiVars, poolVars, envVars, todo, outcome, chanVars, workVars>>

VariantLoop ==
  /\ pc = "loop"
  /\ pc' = IF todo = {} \/ ctxDone THEN "wait" ELSE "acquire"
  /\ UNCHANGED <<apiVars, poolVars, envVars, todo, outcome, chanVars, workVars>>

\* inactiveVAs comes from a map, in any order.
Acquire ==
  /\ pc = "acquire" /\ sem < MaxConcurrency
  /\ sem' = sem + 1
  /\ \E v \in todo :
       /\ todo' = todo \ {v}
       /\ work' = [work EXCEPT ![v] = "lookup"]
  /\ pc' = "loop"
  /\ UNCHANGED <<apiVars, poolVars, envVars, outcome, errorCh, aggregator,
                 aggregated, stale, decided, failed>>

\* wg.Wait and close(errorCh)
WaitWorkers ==
  /\ pc = "wait" /\ \A v \in Variants : work[v] = "off"
  /\ pc' = "closed"
  /\ UNCHANGED <<apiVars, poolVars, envVars, todo, outcome, chanVars, workVars>>

AggregateMutant ==
  /\ aggregator /\ errorCh # <<>> /\ pc = "closed"
  /\ errorCh' = Tail(errorCh)
  /\ aggregated' = aggregated + (IF Head(errorCh) = "error" THEN 1 ELSE 0)
  /\ UNCHANGED <<apiVars, poolVars, envVars, cycleVars, sem, aggregator, workVars>>

Aggregate ==
  /\ aggregator /\ errorCh # <<>>
  /\ errorCh' = Tail(errorCh)
  /\ aggregated' = aggregated + (IF Head(errorCh) = "error" THEN 1 ELSE 0)
  /\ UNCHANGED <<apiVars, poolVars, envVars, cycleVars, sem, aggregator, workVars>>

AggregateEnd ==
  /\ aggregator /\ errorCh = <<>> /\ pc = "closed"
  /\ aggregator' = FALSE
  /\ UNCHANGED <<apiVars, poolVars, envVars, cycleVars, sem, errorCh, aggregated,
                 workVars>>

ReturnMutant ==
  /\ pc = "closed"
  /\ outcome' = IF ctxDone \/ aggregated > 0 THEN "error" ELSE "ok"
  /\ pc' = "paused"
  /\ UNCHANGED <<apiVars, poolVars, envVars, todo, chanVars, workVars>>

\* errorWg.Wait and the return
Return ==
  /\ pc = "closed" /\ ~aggregator
  /\ outcome' = IF ctxDone \/ aggregated > 0 THEN "error" ELSE "ok"
  /\ pc' = "paused"
  /\ UNCHANGED <<apiVars, poolVars, envVars, todo, chanVars, workVars>>

Optimize ==
  \/ InactiveVariantAutoscaling \/ ListPartly \/ StopLoop \/ VariantLoop
  \/ Acquire \/ WaitWorkers \/ Return

----------------------------------------------------------------------------
(* processInactiveVariant and DirectActuator.ScaleTargetObject *)

Goes(v, from, to) ==
  /\ work[v] = from
  /\ work' = [work EXCEPT ![v] = to]
  /\ UNCHANGED <<seen, poolVars, envVars, cycleVars>>

\* The worker returns err, for the reason its caller gives.
Fails(v, from) ==
  /\ Goes(v, from, "error")
  /\ failed' = failed \cup {v}
  /\ UNCHANGED <<spec, chanVars, stale, decided>>

Passes(v, from, to) ==
  /\ Goes(v, from, to)
  /\ UNCHANGED <<spec, chanVars, stale, decided, failed>>

\* The object, its labels, PoolList and PoolGetFromLabels: a pool that is not
\* synced ends the work without an error.
LookUp(v) ==
  /\ v \notin Broken
  /\ Passes(v, "lookup", IF pools THEN "source" ELSE "nil")

PoolGetMetricsSource(v) == registered /\ Passes(v, "source", "refresh")

\* The EPP's flow control queue, read at this step only
Refresh(v) ==
  \E pendingRequestExist \in IF v \in Waiting THEN {TRUE} ELSE BOOLEAN :
    Passes(v, "refresh", IF pendingRequestExist THEN "getScale" ELSE "nil")

ReadScale(v) ==
  /\ Goes(v, "getScale", IF spec[v] = 1 THEN "decide" ELSE "update")
  /\ stale' = stale \ {v}
  /\ UNCHANGED <<spec, chanVars, decided, failed>>

\* Update carries the resourceVersion that was read.
UpdateScale(v) ==
  /\ v \notin stale
  /\ Goes(v, "update", "decide")
  /\ spec' = [spec EXCEPT ![v] = 1]
  /\ UNCHANGED <<chanVars, stale, decided, failed>>

\* No entry ever has CurrentReplicas = 0, so only the first one is stored.
Decide(v) ==
  /\ Goes(v, "decide", "nil")
  /\ decided' = decided \cup {v}
  /\ UNCHANGED <<spec, chanVars, stale, failed>>

\* Every call to the API server or to the EPP can fail, a missing source is an
\* error, and so are missing labels and a conflict.
ProcessError(v) ==
  \/ Fails(v, "lookup")
  \/ ~registered /\ Fails(v, "source")
  \/ \E from \in {"refresh", "getScale", "update"} : Fails(v, from)

Send(v) ==
  \E err \in {"error", "nil"} :
    /\ Len(errorCh) < MaxConcurrency
    /\ Goes(v, err, "release")
    /\ errorCh' = Append(errorCh, err)
    /\ UNCHANGED <<spec, sem, aggregator, aggregated, stale, decided, failed>>

Release(v) ==
  /\ Goes(v, "release", "done")
  /\ sem' = sem - 1
  /\ UNCHANGED <<spec, errorCh, aggregator, aggregated, stale, decided, failed>>

Done(v) ==
  /\ Goes(v, "done", "off")
  /\ UNCHANGED <<spec, chanVars, stale, decided, failed>>

processInactiveVariant(v) ==
  \/ LookUp(v) \/ PoolGetMetricsSource(v) \/ Refresh(v) \/ ReadScale(v)
  \/ UpdateScale(v) \/ Decide(v) \/ ProcessError(v)

Worker(v) == processInactiveVariant(v) \/ Send(v) \/ Release(v) \/ Done(v)

----------------------------------------------------------------------------
(* InferencePoolReconciler: PoolSet and PoolDelete.  A reconciliation that  *)
(* fails, or finds nothing changed, leaves the datastore as it is.          *)

PoolSet ==
  /\ poolPC = "idle" /\ exists /\ ~pools
  /\ registered' = TRUE
  /\ poolPC' = "store"
  /\ UNCHANGED <<apiVars, exists, pools, envVars, cycleVars, chanVars, workVars>>

PoolStore ==
  /\ poolPC = "store"
  /\ pools' = TRUE
  /\ poolPC' = "idle"
  /\ UNCHANGED <<apiVars, exists, registered, envVars, cycleVars, chanVars, workVars>>

PoolDeleteMutant ==
  /\ poolPC = "idle" /\ ~exists /\ pools
  /\ registered' = FALSE
  /\ poolPC' = "unregister"
  /\ UNCHANGED <<apiVars, exists, pools, envVars, cycleVars, chanVars, workVars>>

PoolDelete ==
  /\ poolPC = "idle" /\ ~exists /\ pools
  /\ pools' = FALSE
  /\ poolPC' = "unregister"
  /\ UNCHANGED <<apiVars, exists, registered, envVars, cycleVars, chanVars, workVars>>

Unregister ==
  /\ poolPC = "unregister"
  /\ registered' = FALSE
  /\ poolPC' = "idle"
  /\ UNCHANGED <<apiVars, exists, pools, envVars, cycleVars, chanVars, workVars>>

ReconcilePool == PoolSet \/ PoolStore \/ PoolDelete \/ Unregister

----------------------------------------------------------------------------
(* What happens beside the engine *)

ScaleByOthers(v) ==
  /\ "scale" \in Environment
  /\ \E n \in (0..MaxReplicas) \ {spec[v]} : spec' = [spec EXCEPT ![v] = n]
  /\ stale' = stale \cup {v}
  /\ UNCHANGED <<seen, poolVars, envVars, cycleVars, chanVars, work,
                 decided, failed>>

CacheSync(v) ==
  /\ seen[v] # spec[v]
  /\ seen' = [seen EXCEPT ![v] = spec[v]]
  /\ UNCHANGED <<spec, poolVars, envVars, cycleVars, chanVars, workVars>>

PoolChange ==
  /\ "pool" \in Environment
  /\ exists' = ~exists
  /\ UNCHANGED <<apiVars, pools, registered, poolPC, envVars, cycleVars, chanVars,
                 workVars>>

Cancel ==
  /\ "cancel" \in Environment /\ ~ctxDone
  /\ ctxDone' = TRUE
  /\ UNCHANGED <<setup, apiVars, poolVars, cycleVars, chanVars, workVars>>

Next ==
  \/ Optimize \/ Aggregate \/ AggregateEnd \/ ReconcilePool
  \/ PoolChange \/ Cancel
  \/ \E v \in Variants :
       Worker(v) \/ ScaleByOthers(v) \/ CacheSync(v)

\* The goroutines, the reconciler and the informer are scheduled.
Scheduled ==
  /\ WF_vars(Optimize)
  /\ WF_vars(Aggregate \/ AggregateEnd)
  /\ WF_vars(ReconcilePool)
  /\ \A v \in Variants : WF_vars(Worker(v)) /\ WF_vars(CacheSync(v))

Spec == Init /\ [][Next]_vars /\ Scheduled

\* For a variant that requests wait for, a call that can fail does not fail
\* every time; for the others nothing is assumed.
Recovering ==
  /\ SF_vars(InactiveVariantAutoscaling)
  /\ \A v \in UNION {s.waiting \ s.broken : s \in Setups} :
       /\ SF_vars(LookUp(v)) /\ SF_vars(Refresh(v))
       /\ SF_vars(ReadScale(v)) /\ SF_vars(UpdateScale(v))

RecoveringSpec == Spec /\ Recovering

----------------------------------------------------------------------------

\* A pool that PoolGetFromLabels can return has its metrics source in the
\* registry, at every step of PoolSet and PoolDelete.
PoolHasSource == pools => registered

\* When a cycle has returned, and after the engine stopped, no goroutine of it
\* is left, its channels are empty, and it reported no error only if none of its
\* workers failed: optimize waits for the workers and then for the aggregator.
CycleIsDone ==
  pc \in {"paused", "stopped"} =>
    /\ \A v \in Variants : work[v] = "off"
    /\ ~aggregator /\ errorCh = <<>> /\ sem = 0
    /\ pc = "paused" /\ outcome = "ok" => failed = {}

\* Every cycle ends, whatever fails in it and whatever happens beside it: no
\* worker waits for ever for a place in errorCh, and the loop not for one in
\* sem.  After ctx is cancelled the engine stops.
CycleEnds ==
  (pc = "loop" \/ ctxDone) ~> (pc = IF ctxDone THEN "stopped" ELSE "paused")

\* A variant without replicas whose requests keep waiting, and whose pool stays
\* known, is woken, also when processing another variant fails every time.
WakesUp ==
  \A v \in Variants :
    v \in Waiting \ Broken /\ <>[](pools /\ ~ctxDone) => []<>(spec[v] # 0)

=============================================================================
