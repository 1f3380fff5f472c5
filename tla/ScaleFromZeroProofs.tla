------------------------ MODULE ScaleFromZeroProofs ------------------------
(***************************************************************************)
(* The invariants of the scale-from-zero engine for any number of variants *)
(* and any concurrency.                                                    *)
(***************************************************************************)
EXTENDS ScaleFromZero, FiniteSetTheorems, TLAPS

WorkPCs == {"off", "lookup", "source", "refresh", "getScale", "update", "decide",
            "error", "nil", "release", "done"}
CyclePCs == {"paused", "loop", "acquire", "wait", "closed", "stopped"}

AtRest == pc \in {"paused", "stopped"}
AllOff == \A v \in Variants : work[v] = "off"

\* The workers that hold a place of the semaphore.
Holding == {v \in Variants : work[v] \notin {"off", "done"}}

\* The types of the variables
TypeInv ==
  /\ setup \in Setups
  /\ work \in [Variants -> WorkPCs]
  /\ pc \in CyclePCs
  /\ todo \subseteq Variants
  /\ aggregated \in Nat
  /\ errorCh \in Seq({"error", "nil"})
  /\ aggregator \in BOOLEAN

\* Nothing of a cycle is left once it has returned, the workers are gone once
\* the error channel is closed, and the aggregator outlives what it reads.
CycleInv ==
  /\ AtRest \/ pc = "closed" => AllOff
  /\ AtRest => ~aggregator
  /\ ~AtRest /\ pc # "closed" => aggregator
  /\ ~aggregator => errorCh = <<>>
  /\ \A v \in todo : work[v] = "off"

\* Every place that is taken is taken by a worker of this cycle.
SemInv == sem = Cardinality(Holding) /\ sem <= MaxConcurrency

\* A failure of this cycle is with its worker, in the channel or counted; and
\* the cycle before reported its own.
ErrorInv ==
  /\ failed # {} /\ ~AtRest =>
       \/ aggregated > 0
       \/ \E i \in 1..Len(errorCh) : errorCh[i] = "error"
       \/ \E v \in Variants : work[v] = "error"
  /\ pc = "paused" /\ outcome = "ok" => failed = {}

\* The inductive invariant of the engine
IInv == TypeInv /\ CycleInv /\ SemInv /\ ErrorInv

\* PoolSet and PoolDelete keep the two records of a pool in order.
PoolInv ==
  /\ pools \in BOOLEAN /\ registered \in BOOLEAN
  /\ pools => registered
  /\ poolPC = "store" => registered
  /\ poolPC = "unregister" => ~pools

USE Zenon

-----------------------------------------------------------------------------
\* The registry is filled before the pool is stored and emptied after it is
\* gone, whatever else runs: the two steps of PoolSet and of PoolDelete never
\* show a pool without its metrics source.
THEOREM PoolsHaveSources == Spec => []PoolHasSource
<1>1. Init => PoolInv
  BY SMT DEF Init, PoolInv
<1>2. PoolInv /\ [Next]_vars => PoolInv'
  <2> SUFFICES ASSUME PoolInv, [Next]_vars PROVE PoolInv'
    OBVIOUS
  <2>1. CASE ReconcilePool
    <3>1. CASE PoolSet BY <3>1 DEF PoolInv, PoolSet
    <3>2. CASE PoolStore BY <3>2 DEF PoolInv, PoolStore
    <3>3. CASE PoolDelete BY <3>3 DEF PoolInv, PoolDelete
    <3>4. CASE Unregister BY <3>4 DEF PoolInv, Unregister
    <3> QED BY <2>1, <3>1, <3>2, <3>3, <3>4 DEF ReconcilePool
  <2>2. CASE PoolChange
    BY <2>2 DEF PoolInv, PoolChange
  <2>3. CASE UNCHANGED poolVars
    BY <2>3 DEF PoolInv, poolVars
  <2>4. ASSUME NEW v \in Variants, Worker(v) PROVE UNCHANGED poolVars
    BY <2>4 DEF Worker, processInactiveVariant, LookUp, PoolGetMetricsSource, Refresh,
       ReadScale, UpdateScale, Decide, ProcessError, Send, Release, Done, Passes, Fails, Goes
  <2>5. ASSUME Optimize PROVE UNCHANGED poolVars
    BY <2>5 DEF Optimize, InactiveVariantAutoscaling, ListPartly, StartCycle, StopLoop,
       VariantLoop, Acquire, WaitWorkers, Return
  <2> QED
    BY <2>1, <2>2, <2>3, <2>4, <2>5
    DEF Next, vars, Aggregate, AggregateEnd, Cancel, ScaleByOthers, CacheSync
<1>3. PoolInv => PoolHasSource
  BY DEF PoolInv, PoolHasSource
<1> QED
  BY <1>1, <1>2, <1>3, PTL DEF Spec

-----------------------------------------------------------------------------
\* Inside, a worker has a place of the semaphore; the loop gave it to it.
Inside == WorkPCs \ {"off", "done"}

\* A step of a worker that neither takes nor gives back a place leaves the count
\* of the places that are taken.
LEMMA SameHolding ==
  ASSUME work \in [Variants -> WorkPCs], NEW v \in Variants, NEW to \in WorkPCs,
         work' = [work EXCEPT ![v] = to],
         work[v] \in Inside <=> to \in Inside
  PROVE  Holding' = Holding
BY DEF Holding, Inside, WorkPCs

\* acquire: one place more is taken when a variant that had none starts.
LEMMA OneMoreHolding ==
  ASSUME work \in [Variants -> WorkPCs], NEW v \in Variants, work[v] = "off",
         work' = [work EXCEPT ![v] = "lookup"]
  PROVE  /\ Cardinality(Holding) \in Nat
         /\ Cardinality(Holding') = Cardinality(Holding) + 1
<1>1. IsFiniteSet(Holding)
  BY VariantsAssumption, FS_Subset DEF Holding
<1>2. Holding' = Holding \cup {v} /\ v \notin Holding
  BY DEF Holding, WorkPCs
<1> QED
  BY <1>1, <1>2, FS_AddElement, FS_CardinalityType

\* release: one place less is taken.
LEMMA OneLessHolding ==
  ASSUME work \in [Variants -> WorkPCs], NEW v \in Variants, work[v] = "release",
         work' = [work EXCEPT ![v] = "done"]
  PROVE  /\ Cardinality(Holding) \in Nat \ {0}
         /\ Cardinality(Holding') = Cardinality(Holding) - 1
<1>1. IsFiniteSet(Holding)
  BY VariantsAssumption, FS_Subset DEF Holding
<1>2. Holding' = Holding \ {v} /\ v \in Holding
  BY DEF Holding, WorkPCs
<1>3. Cardinality(Holding) # 0
  BY <1>1, <1>2, FS_EmptySet
<1> QED
  BY <1>1, <1>2, <1>3, FS_RemoveElement, FS_CardinalityType

\* Without a worker no place is taken.
LEMMA NoneHolding == AllOff => Cardinality(Holding) = 0
<1>1. AllOff => Holding = {}
  BY DEF AllOff, Holding
<1> QED
  BY <1>1, FS_EmptySet

\* processInactiveVariant moves its own worker between the steps of the work and
\* touches neither the cycle nor its channels; a failure ends at "error".
LEMMA ProcessStep ==
  ASSUME TypeInv, NEW v \in Variants, processInactiveVariant(v)
  PROVE  \E to \in Inside :
           /\ work[v] \in Inside \ {"error", "nil", "release"}
           /\ work' = [work EXCEPT ![v] = to]
           /\ failed' = failed \/ to = "error"
           /\ UNCHANGED <<setup, ctxDone, cycleVars, chanVars>>
<1>1. CASE LookUp(v)
  BY <1>1 DEF LookUp, Passes, Goes, Inside, WorkPCs, envVars
<1>2. CASE PoolGetMetricsSource(v)
  BY <1>2 DEF PoolGetMetricsSource, Passes, Goes, Inside, WorkPCs, envVars
<1>3. CASE Refresh(v)
  BY <1>3 DEF Refresh, Passes, Goes, Inside, WorkPCs, envVars
<1>4. CASE ReadScale(v)
  BY <1>4 DEF ReadScale, Goes, Inside, WorkPCs, envVars
<1>5. CASE UpdateScale(v)
  BY <1>5 DEF UpdateScale, Goes, Inside, WorkPCs, envVars
<1>6. CASE Decide(v)
  BY <1>6 DEF Decide, Goes, Inside, WorkPCs, envVars
<1>7. CASE ProcessError(v)
  BY SMT, <1>7 DEF ProcessError, Fails, Goes, Inside, WorkPCs, envVars
<1> QED
  BY <1>1, <1>2, <1>3, <1>4, <1>5, <1>6, <1>7 DEF processInactiveVariant

\* No cycle is running at first.
LEMMA InitIInv == Init => IInv
<1> SUFFICES ASSUME Init PROVE IInv
  OBVIOUS
<1>1. setup.maxConcurrency \in Nat
  BY SetupsAssumption DEF Init
<1>2. AllOff
  BY DEF Init, AllOff
<1>3. TypeInv
  <2>1. errorCh \in Seq({"error", "nil"}) /\ aggregated \in Nat /\ todo \subseteq Variants
    <3>1. errorCh = <<>> /\ aggregated = 0 /\ todo = {}
      BY DEF Init
    <3> QED
      BY SMT, <3>1
  <2>2. work \in [Variants -> WorkPCs] /\ pc \in CyclePCs
    BY DEF Init, WorkPCs, CyclePCs
  <2>3. setup \in Setups /\ aggregator \in BOOLEAN
    BY DEF Init
  <2> QED
    BY <2>1, <2>2, <2>3 DEF TypeInv
<1>4. CycleInv
  BY <1>2 DEF Init, CycleInv, AtRest
<1>5. SemInv
  BY SMT, <1>1, <1>2, NoneHolding DEF Init, SemInv, MaxConcurrency
<1>6. ErrorInv
  BY DEF Init, ErrorInv, AtRest
<1> QED
  BY <1>3, <1>4, <1>5, <1>6 DEF IInv

\* Everything the invariant reads is as it was.
LEMMA IdleStep ==
  ASSUME IInv, UNCHANGED <<setup, cycleVars, chanVars, work, failed>>
  PROVE  IInv'
BY DEF IInv, TypeInv, CycleInv, SemInv, ErrorInv, AtRest, AllOff, Holding,
       MaxConcurrency, cycleVars, chanVars

\* A step of optimize: starting, looping, waiting and returning.
LEMMA OptimizeStep == IInv /\ Optimize => IInv'
<1> SUFFICES ASSUME IInv, Optimize PROVE IInv'
  OBVIOUS
<1> USE DEF IInv, TypeInv, CycleInv, ErrorInv, AtRest, AllOff, CyclePCs, envVars,
            cycleVars, chanVars, workVars
<1>0. setup' = setup
  BY DEF Optimize, InactiveVariantAutoscaling, ListPartly, StartCycle, StopLoop,
     VariantLoop, Acquire, WaitWorkers, Return
<1>1. ASSUME NEW listed \in SUBSET Variants, StartCycle(listed) PROVE IInv'
  <2>1. AllOff' /\ Holding' = Holding
    BY <1>1 DEF StartCycle, Holding
  <2>2. SemInv'
    BY <1>0, <1>1, <2>1, NoneHolding DEF StartCycle, SemInv, MaxConcurrency
  <2> QED
    BY <1>0, <1>1, <2>1, <2>2 DEF StartCycle
<1>2. CASE StopLoop
  BY <1>0, <1>2 DEF StopLoop, SemInv, Holding, MaxConcurrency
<1>3. CASE VariantLoop
  BY <1>0, <1>3 DEF VariantLoop, SemInv, Holding, MaxConcurrency
<1>4. CASE Acquire
  <2>1. PICK v \in todo : todo' = todo \ {v} /\ work' = [work EXCEPT ![v] = "lookup"]
    BY <1>4 DEF Acquire
  <2>2. v \in Variants /\ work[v] = "off"
    BY <2>1
  <2>3. SemInv'
    <3>1. Cardinality(Holding) \in Nat /\ Cardinality(Holding') = Cardinality(Holding) + 1
      BY <2>1, <2>2, OneMoreHolding
    <3>2. sem' = Cardinality(Holding')
      BY <1>4, <3>1 DEF Acquire, SemInv
    <3>3. MaxConcurrency \in Nat /\ MaxConcurrency' = MaxConcurrency
      BY <1>0, SetupsAssumption DEF MaxConcurrency
    <3>4. sem' <= MaxConcurrency'
      BY SMT, <1>4, <3>1, <3>3 DEF Acquire, SemInv
    <3> QED
      BY <3>2, <3>4 DEF SemInv
  <2>4. work' \in [Variants -> WorkPCs]
    BY <2>1, <2>2 DEF WorkPCs
  <2>5. \A u \in todo' : work'[u] = "off"
    BY <2>1, <2>2
  <2>6. \A u \in Variants : work[u] = "error" => work'[u] = "error"
    BY <2>1, <2>2
  <2> QED
    BY <1>0, <1>4, <2>1, <2>3, <2>4, <2>5, <2>6 DEF Acquire
<1>5. CASE WaitWorkers
  BY <1>0, <1>5 DEF WaitWorkers, SemInv, Holding, MaxConcurrency
<1>6. CASE Return
  <2>1. pc = "closed" /\ errorCh = <<>> /\ AllOff
    BY <1>6 DEF Return
  <2>2. failed # {} => aggregated > 0
    BY SMT, <2>1
  <2>3. outcome' = "ok" => failed' = {}
    BY <1>6, <2>2 DEF Return
  <2> QED
    BY <1>0, <1>6, <2>1, <2>3 DEF Return, SemInv, Holding, MaxConcurrency
<1> QED
  BY <1>1, <1>2, <1>3, <1>4, <1>5, <1>6
  DEF Optimize, InactiveVariantAutoscaling, ListPartly

\* The aggregator counts what it takes from the channel and ends on an empty one.
LEMMA AggregatorStep == IInv /\ (Aggregate \/ AggregateEnd) => IInv'
<1> SUFFICES ASSUME IInv, Aggregate \/ AggregateEnd PROVE IInv'
  OBVIOUS
<1> USE DEF IInv, TypeInv, CycleInv, AtRest, AllOff, SemInv, Holding, MaxConcurrency,
            envVars, cycleVars, workVars
<1>1. CASE Aggregate
  <2>1. /\ errorCh' = Tail(errorCh) /\ errorCh' \in Seq({"error", "nil"})
        /\ Len(errorCh') = Len(errorCh) - 1 /\ Len(errorCh) \in Nat
        /\ \A i \in 1..Len(errorCh') : errorCh'[i] = errorCh[i + 1]
        /\ Head(errorCh) = errorCh[1]
    BY SMT, <1>1 DEF Aggregate
  <2>2. aggregated' \in Nat /\ aggregated' >= aggregated
    BY SMT, <1>1 DEF Aggregate
  <2>3. ASSUME NEW i \in 1..Len(errorCh), errorCh[i] = "error"
        PROVE  aggregated' > 0 \/ \E j \in 1..Len(errorCh') : errorCh'[j] = "error"
    <3>1. CASE i = 1
      BY SMT, <1>1, <2>1, <2>3, <3>1 DEF Aggregate
    <3>2. CASE i # 1
      <4>1. i - 1 \in 1..Len(errorCh') /\ errorCh'[i - 1] = errorCh[i]
        BY SMT, <2>1, <3>2
      <4> QED
        BY <2>3, <4>1
    <3> QED
      BY <3>1, <3>2
  <2>4. ErrorInv'
    BY SMT, <1>1, <2>2, <2>3 DEF Aggregate, ErrorInv
  <2> QED
    BY <1>1, <2>1, <2>2, <2>4 DEF Aggregate
<1>2. CASE AggregateEnd
  BY <1>2 DEF AggregateEnd, ErrorInv
<1> QED
  BY <1>1, <1>2

\* A step of a worker: its work, the report of its error, and its release.
LEMMA WorkerStep == ASSUME IInv, NEW v \in Variants, Worker(v) PROVE IInv'
<1> USE DEF IInv, TypeInv, AtRest, AllOff, MaxConcurrency, envVars, cycleVars, chanVars
<1>1. ASSUME NEW to \in WorkPCs, work[v] # "off", to # "off" \/ work[v] = "done",
             work' = [work EXCEPT ![v] = to],
             UNCHANGED <<setup, cycleVars, aggregator, aggregated>>,
             errorCh' \in Seq({"error", "nil"}),
             errorCh' = errorCh \/ (aggregator => errorCh' # <<>>)
      PROVE  TypeInv' /\ CycleInv'
  <2>1. ~AtRest /\ pc # "closed" /\ aggregator
    BY <1>1 DEF CycleInv
  <2>2. v \notin todo
    BY <1>1 DEF CycleInv
  <2>3. TypeInv'
    BY <1>1
  <2>4. CycleInv'
    BY <1>1, <2>1, <2>2 DEF CycleInv
  <2> QED
    BY <2>3, <2>4
<1>2. CASE processInactiveVariant(v)
  <2>1. PICK to \in Inside :
           /\ work[v] \in Inside \ {"error", "nil", "release"}
           /\ work' = [work EXCEPT ![v] = to]
           /\ failed' = failed \/ to = "error"
           /\ UNCHANGED <<setup, ctxDone, cycleVars, chanVars>>
    BY <1>2, ProcessStep
  <2>2. TypeInv' /\ CycleInv'
    BY <1>1, <2>1 DEF Inside
  <2>3. Holding' = Holding
    BY <2>1, SameHolding DEF Inside
  <2>4. SemInv'
    BY <2>1, <2>3 DEF SemInv
  <2>5. \A u \in Variants : work[u] = "error" => work'[u] = "error"
    BY <2>1
  <2>6. work'[v] = to /\ pc # "paused"
    BY <2>1 DEF CycleInv, Inside
  <2>7. ErrorInv'
    BY <2>1, <2>5, <2>6 DEF ErrorInv
  <2> QED
    BY <2>2, <2>4, <2>7
<1>3. CASE Send(v)
  <2>1. PICK err \in {"error", "nil"} :
           /\ work[v] = err /\ work' = [work EXCEPT ![v] = "release"]
           /\ errorCh' = Append(errorCh, err)
           /\ UNCHANGED <<setup, ctxDone, cycleVars, sem, aggregator, aggregated, failed>>
    BY <1>3 DEF Send, Goes
  <2>2. /\ errorCh' \in Seq({"error", "nil"}) /\ Len(errorCh') = Len(errorCh) + 1
        /\ Len(errorCh) \in Nat /\ errorCh' # <<>> /\ errorCh'[Len(errorCh')] = err
        /\ \A i \in 1..Len(errorCh) : errorCh'[i] = errorCh[i]
    BY SMT, <2>1
  <2>3. TypeInv' /\ CycleInv'
    BY <1>1, <2>1, <2>2 DEF WorkPCs
  <2>4. Holding' = Holding
    BY <2>1, SameHolding DEF Inside, WorkPCs
  <2>5. SemInv'
    BY <2>1, <2>4 DEF SemInv
  <2>6. pc # "paused"
    BY <2>1 DEF CycleInv
  <2>7. CASE err = "error"
    <3>1. Len(errorCh') \in 1..Len(errorCh')
      BY SMT, <2>2
    <3> QED
      BY <2>1, <2>2, <2>3, <2>5, <2>6, <2>7, <3>1 DEF ErrorInv
  <2>8. CASE err # "error"
    <3>1. \A u \in Variants : work[u] = "error" => work'[u] = "error"
      BY <2>1, <2>8
    <3>2. 1..Len(errorCh) \subseteq 1..Len(errorCh')
      BY SMT, <2>2
    <3>3. ErrorInv'
      BY <2>1, <2>2, <2>6, <3>1, <3>2 DEF ErrorInv
    <3> QED
      BY <2>3, <2>5, <3>3
  <2> QED
    BY <2>7, <2>8
<1>4. CASE Release(v)
  <2>1. /\ work[v] = "release" /\ work' = [work EXCEPT ![v] = "done"] /\ sem' = sem - 1
        /\ UNCHANGED <<setup, ctxDone, cycleVars, errorCh, aggregator, aggregated, failed>>
    BY <1>4 DEF Release, Goes
  <2>2. TypeInv' /\ CycleInv'
    BY <1>1, <2>1 DEF WorkPCs
  <2>3. /\ Cardinality(Holding) \in Nat \ {0}
        /\ Cardinality(Holding') = Cardinality(Holding) - 1
    BY <2>1, OneLessHolding
  <2>4. setup.maxConcurrency \in Nat
    BY SetupsAssumption
  <2>5. SemInv'
    BY SMT, <2>1, <2>3, <2>4 DEF SemInv
  <2>6. ErrorInv'
    BY <2>1 DEF ErrorInv, CycleInv
  <2> QED
    BY <2>2, <2>5, <2>6
<1>5. CASE Done(v)
  <2>1. /\ work[v] = "done" /\ work' = [work EXCEPT ![v] = "off"]
        /\ UNCHANGED <<setup, ctxDone, cycleVars, chanVars, failed>>
    BY <1>5 DEF Done, Goes
  <2>2. TypeInv' /\ CycleInv'
    BY <1>1, <2>1 DEF WorkPCs
  <2>3. Holding' = Holding
    BY <2>1, SameHolding DEF Inside, WorkPCs
  <2>4. SemInv' /\ ErrorInv'
    BY <2>1, <2>3 DEF SemInv, ErrorInv, CycleInv
  <2> QED
    BY <2>2, <2>4
<1> QED
  BY <1>2, <1>3, <1>4, <1>5 DEF Worker

\* A step of the loop, a worker, the aggregator or the cluster keeps the invariant.
LEMMA NextIInv == IInv /\ [Next]_vars => IInv'
<1> SUFFICES ASSUME IInv, [Next]_vars PROVE IInv'
  OBVIOUS
<1>1. ASSUME NEW v \in Variants, ScaleByOthers(v) \/ CacheSync(v) PROVE IInv'
  BY <1>1, IdleStep DEF ScaleByOthers, CacheSync, envVars, workVars
<1>2. CASE ReconcilePool
  BY <1>2, IdleStep
  DEF ReconcilePool, PoolSet, PoolStore, PoolDelete, Unregister, envVars, workVars
<1>3. CASE PoolChange \/ Cancel
  BY <1>3, IdleStep DEF PoolChange, Cancel, envVars, workVars
<1>4. CASE UNCHANGED vars
  BY <1>4, IdleStep DEF vars, workVars
<1> QED
  BY <1>1, <1>2, <1>3, <1>4, OptimizeStep, AggregatorStep, WorkerStep DEF Next

\* Theorem about the cycle of the engine with its workers, its semaphore and its
\* error channel: nothing of a cycle outlives it, every place of the semaphore
\* has its worker, and no failure is lost on its way to the aggregator.
THEOREM SpecIInv == Spec => []IInv
BY InitIInv, NextIInv, PTL DEF Spec

\* Whatever fails in it and however its workers, the loop and the aggregator
\* interleave, a cycle that has returned left no goroutine, no message and no
\* taken place behind, and returned an error if any of its workers failed.
THEOREM CyclesAreDone == Spec => []CycleIsDone
<1>1. IInv => CycleIsDone
  <2> SUFFICES ASSUME IInv, AtRest PROVE CycleIsDone
    BY DEF CycleIsDone, AtRest
  <2>1. AllOff /\ ~aggregator /\ errorCh = <<>>
    BY DEF IInv, CycleInv
  <2>2. sem = 0
    BY <2>1, NoneHolding DEF IInv, SemInv
  <2> QED
    BY <2>1, <2>2 DEF CycleIsDone, AllOff, IInv, ErrorInv
<1> QED
  BY <1>1, SpecIInv, PTL

\* No more than SCALE_FROM_ZERO_ENGINE_MAX_CONCURRENCY workers are ever between
\* taking their place of the semaphore and giving it back.
THEOREM ConcurrencyIsBounded == Spec => [](Cardinality(Holding) <= MaxConcurrency)
<1>1. IInv => Cardinality(Holding) <= MaxConcurrency
  BY DEF IInv, SemInv
<1> QED
  BY <1>1, SpecIInv, PTL

=============================================================================
