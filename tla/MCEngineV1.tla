----------------------------- MODULE MCEngineV1 -----------------------------
(* Instances of EngineV1 for TLC. *)
EXTENDS EngineV1, TLC

\* Thresholds per replica, in units of 1/12: a replica is saturated at a load
\* of 4 and keeps a headroom of 1.
MCThreshold == 4 * Unit
MCTrigger == 1 * Unit

L(kv, queue) == [kv |-> kv, queue |-> queue]

\* Two variants of one role; the second costs more.
MCVariants == {1, 2}
MCCost == 1 :> 1 @@ 2 :> 3
MCBoth == 1 :> "both" @@ 2 :> "both"
MCStaged == 1 :> "prefill" @@ 2 :> "decode"
MCBounds == 1 :> 1 @@ 2 :> 1
MCNoFloor == 1 :> 0 @@ 2 :> 0
MCStart == 1 :> 1 @@ 2 :> 2
MCOneEach == 1 :> 1 @@ 2 :> 1
MCLoads == {"both" :> L(k, 0) : k \in {1, 5, 10}} \cup {"both" :> L(1, 7)}
MCTwoLoads == {"both" :> L(k, 0) : k \in {1, 10}}
MCStagedLoads ==
  {"prefill" :> L(0, 0) @@ "decode" :> L(0, 0), "prefill" :> L(2, 0) @@ "decode" :> L(2, 0)}
Setup(role, min, start, loads, faults) ==
  [role |-> role, min |-> min, max |-> MCNoFloor, start |-> start, loads |-> loads,
   vllm |-> MCVariants, faults |-> faults, scaleToZero |-> FALSE, limiter |-> FALSE,
   prompt |-> TRUE, loadChanges |-> 3, podLimit |-> 5]

\* Everybody in time, through load changes; a model of two stages that sleeps
\* when idle; scaler, pods and limiter anywhere in the cycle; anything may fail.
Steady == Setup(MCBoth, MCBounds, MCStart, MCLoads, {})
Sleepy == [Setup(MCStaged, MCNoFloor, MCOneEach, MCStagedLoads, {}) EXCEPT !.scaleToZero = TRUE]
Racing == [Setup(MCBoth, MCNoFloor, MCOneEach, MCLoads, {})
             EXCEPT !.limiter = TRUE, !.prompt = FALSE, !.loadChanges = 2, !.podLimit = 3]
Failing == [Setup(MCBoth, MCBounds, MCOneEach, MCTwoLoads, {"fetch", "metrics", "gaps", "config"})
              EXCEPT !.limiter = TRUE, !.loadChanges = 1]

MCSetups == {Steady, Sleepy, Racing, Failing}
MCNoMetrics == {Setup(MCBoth, MCNoFloor, MCStart, MCLoads, {"metrics"})}
=============================================================================
