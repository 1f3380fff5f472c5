--------------------------- MODULE ReplicaSeries ---------------------------
(***************************************************************************)
(* The replica gauges of one variant, the signal HPA and KEDA scale by     *)
(* (metrics/metrics.go, EmitReplicaMetrics).  A gauge holds one series per *)
(* value of the accelerator_type label.  The engine emits; a Prometheus    *)
(* scrape may read the gauges between any two steps of an emission, so     *)
(* every invariant here is about what a scrape can see.                    *)
(***************************************************************************)
EXTENDS Naturals, FiniteSets

CONSTANTS Accelerators, \* accelerator types that are resolved
          Counts,       \* replica counts
          Unresolved,   \* the label of a variant whose type is not resolved
          None          \* no label, and no series

Labels == Accelerators \cup {Unresolved}
Gauges == {"current", "desired", "ratio"}
Readings == [num : Counts, den : Counts \cup {1}]

ASSUME CountsAssumption == Counts \subseteq Nat
ASSUME NoneAssumption == None \notin Labels \cup Readings

VARIABLES gauge,   \* gauge[g][l]: the reading of the series, or None
          accel,   \* replicaSeriesAccel: the label of the last emission
          pc,      \* where the emission stands
          arg,     \* its label and replica counts
          prev     \* its local prev: the label it found, or None

vars == <<gauge, accel, pc, arg, prev>>

Args == [label : Labels, current : Counts, desired : Counts]

\* What an emission sets a gauge to; the ratio of 0 -> N is N.
Reading(g, a) ==
  [num |-> IF g = "current" THEN a.current ELSE a.desired,
   den |-> IF g = "ratio" /\ a.current # 0 THEN a.current ELSE 1]

Init ==
  /\ gauge = [g \in Gauges |-> [l \in Labels |-> None]]
  /\ accel = None
  /\ pc = "idle"
  /\ arg \in Args
  /\ prev = None

\* IsAcceleratorResolved, with None for an empty or unknown type
LabelFor(type) == IF type = None THEN Unresolved ELSE type

Emit ==
  /\ pc = "idle"
  /\ \E type \in Accelerators \cup {None}, current, desired \in Counts :
       arg' = [label |-> LabelFor(type), current |-> current,
               desired |-> desired]
  /\ pc' = "setCurrent"
  /\ UNCHANGED <<gauge, accel, prev>>

Set(g, from, to) ==
  /\ pc = from
  /\ gauge' = [gauge EXCEPT ![g][arg.label] = Reading(g, arg)]
  /\ pc' = to
  /\ UNCHANGED <<accel, arg, prev>>

\* The exchange under replicaSeriesMu and the test that follows it
Remember ==
  /\ pc = "remember"
  /\ prev' = accel
  /\ accel' = arg.label
  /\ pc' = IF accel # None /\ accel # arg.label THEN "evictCurrent" ELSE "idle"
  /\ UNCHANGED <<gauge, arg>>

EvictMutant(g, from, to) ==
  /\ pc = from
  /\ gauge' = [gauge EXCEPT ![g] = [l \in Labels |-> None]]
  /\ pc' = to
  /\ UNCHANGED <<accel, arg, prev>>

Evict(g, from, to) ==
  /\ pc = from
  /\ gauge' = [gauge EXCEPT ![g][prev] = None]
  /\ pc' = to
  /\ UNCHANGED <<accel, arg, prev>>

Sets ==
  \/ Set("current", "setCurrent", "setDesired")
  \/ Set("desired", "setDesired", "setRatio")
  \/ Set("ratio", "setRatio", "remember")

Evicts ==
  \/ Evict("current", "evictCurrent", "evictDesired")
  \/ Evict("desired", "evictDesired", "evictRatio")
  \/ Evict("ratio", "evictRatio", "idle")

EmitReplicaMetrics == Emit \/ Sets \/ Remember \/ Evicts

Next == EmitReplicaMetrics

Spec == Init /\ [][Next]_vars

----------------------------------------------------------------------------

Series(g) == {l \in Labels : gauge[g][l] # None}

PCs == {"idle", "setCurrent", "setDesired", "setRatio", "remember",
        "evictCurrent", "evictDesired", "evictRatio"}

\* The shape of the state.
TypeOK ==
  /\ gauge \in [Gauges -> [Labels -> Readings \cup {None}]]
  /\ accel \in Labels \cup {None}
  /\ pc \in PCs
  /\ arg \in Args
  /\ prev \in Labels \cup {None}

\* From its first emission on, a gauge has a series at every moment a scrape
\* may fall: EmitReplicaMetrics sets the new series before it evicts the old.
NeverGap == accel # None => \A g \in Gauges : Series(g) # {}

\* A scrape that falls outside an emission sees exactly one series of each
\* gauge, under the label emitted last and with the reading emitted last:
\* a change of accelerator type leaves nothing behind.
OneSeriesAtRest ==
  (pc = "idle" /\ accel # None) =>
    \A g \in Gauges : \A l \in Labels :
      gauge[g][l] = IF l = arg.label THEN Reading(g, arg) ELSE None

=============================================================================
