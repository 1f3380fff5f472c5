------------------------ MODULE ReplicaSeriesProofs ------------------------
(***************************************************************************)
(* Proofs of the invariants of ReplicaSeries for every set of accelerator  *)
(* types and replica counts.  The strengthening says, for each place of    *)
(* the emission, which labels a gauge may still have a series under.       *)
(***************************************************************************)
EXTENDS ReplicaSeries, TLAPS

Evicting == pc \in {"evictCurrent", "evictDesired", "evictRatio"}

\* The emission under way has set gauge g.
IsSet(g) ==
  \/ pc = "remember" \/ Evicting
  \/ g = "current" /\ pc \in {"setDesired", "setRatio"}
  \/ g = "desired" /\ pc = "setRatio"

\* The emission under way has evicted the stale series of gauge g.
IsEvicted(g) ==
  \/ g = "current" /\ pc \in {"evictDesired", "evictRatio"}
  \/ g = "desired" /\ pc = "evictRatio"

\* The labels gauge g may have a series under.
MayHave(g, l) ==
  IF pc = "idle" THEN l = accel
  ELSE IF Evicting THEN l = arg.label \/ (~IsEvicted(g) /\ l = prev)
  ELSE l = accel \/ (IsSet(g) /\ l = arg.label)

Settled == pc = "idle" /\ accel # None

RememberedInv == Evicting \/ Settled => accel = arg.label
StaleInv == Evicting => prev # None /\ prev # arg.label
SeriesInv == \A g \in Gauges, l \in Labels : gauge[g][l] # None => MayHave(g, l)
FreshInv == \A g \in Gauges :
  IsSet(g) \/ Settled => gauge[g][arg.label] = Reading(g, arg)
KeptInv == \A g \in Gauges : accel # None => gauge[g][accel] # None

IInv == TypeOK /\ RememberedInv /\ StaleInv /\ SeriesInv /\ FreshInv /\ KeptInv

USE Zenon

\* What EmitReplicaMetrics sets a gauge to is a reading, never the lack of one.
LEMMA ReadingIsReading ==
  ASSUME NEW g \in Gauges, NEW a \in Args
  PROVE  Reading(g, a) \in Readings /\ Reading(g, a) # None
BY SMT, NoneAssumption DEF Reading, Gauges, Args, Readings

\* Before its first emission a variant has no series.
LEMMA InitIInv == Init => IInv
BY NoneAssumption DEF Init, IInv, TypeOK, PCs, RememberedInv, StaleInv, SeriesInv,
   FreshInv, KeptInv, Settled, Evicting, IsSet

\* Starting an emission touches no gauge.
LEMMA EmitKeeps == IInv /\ Emit => IInv'
<1> SUFFICES ASSUME IInv, Emit PROVE IInv'
  OBVIOUS
<1>1. arg' \in Args
  BY SMT DEF Emit, LabelFor, Args, Labels
<1>2. TypeOK'
  BY <1>1 DEF IInv, TypeOK, Emit, PCs
<1>3. RememberedInv' /\ StaleInv' /\ FreshInv' /\ KeptInv'
  BY DEF IInv, Emit, RememberedInv, StaleInv, FreshInv, KeptInv, Evicting,
     Settled, IsSet
<1>4. SeriesInv'
  BY DEF IInv, Emit, SeriesInv, MayHave, Evicting
<1> QED
  BY <1>2, <1>3, <1>4 DEF IInv

\* Setting a series adds the emission's label to those of one gauge.
LEMMA SetsKeep == IInv /\ Sets => IInv'
<1> SUFFICES ASSUME IInv, Sets PROVE IInv'
  OBVIOUS
<1>1. PICK g0 \in Gauges, from \in PCs, to \in PCs :
        /\ Set(g0, from, to)
        /\ <<g0, from, to>> \in {<<"current", "setCurrent", "setDesired">>,
                                 <<"desired", "setDesired", "setRatio">>,
                                 <<"ratio", "setRatio", "remember">>}
  BY DEF Sets, Gauges, PCs
<1> USE DEF IInv
<1>2. arg \in Args /\ arg.label \in Labels
  BY DEF TypeOK, Args
<1>3. Reading(g0, arg) \in Readings /\ Reading(g0, arg) # None
  BY <1>2, ReadingIsReading
<1>4. \A g \in Gauges, l \in Labels :
        gauge'[g][l] = IF g = g0 /\ l = arg.label THEN Reading(g0, arg)
                       ELSE gauge[g][l]
  BY <1>1, <1>2 DEF Set, TypeOK
<1>5. /\ pc = from /\ pc' = to
      /\ accel' = accel /\ arg' = arg /\ prev' = prev
      /\ ~Evicting /\ ~Settled /\ ~Evicting' /\ ~Settled'
  BY <1>1 DEF Set, Evicting, Settled
<1>6. TypeOK'
  BY <1>1, <1>2, <1>3, <1>5 DEF TypeOK, Set
<1>7. RememberedInv' /\ StaleInv'
  BY <1>5 DEF RememberedInv, StaleInv
<1>8. \A g \in Gauges : IsSet(g)' <=> (IsSet(g) \/ g = g0)
  BY <1>1, <1>5 DEF IsSet, Gauges, Evicting
<1>9. SeriesInv'
  <2> SUFFICES ASSUME NEW g \in Gauges, NEW l \in Labels, gauge'[g][l] # None
               PROVE  MayHave(g, l)'
    BY DEF SeriesInv
  <2>1. pc # "idle" /\ pc' # "idle"
    BY <1>1, <1>5
  <2>2. CASE g = g0 /\ l = arg.label
    BY <2>1, <2>2, <1>5, <1>8 DEF MayHave
  <2>3. CASE ~(g = g0 /\ l = arg.label)
    <3>1. MayHave(g, l)
      BY <2>3, <1>4 DEF SeriesInv
    <3> QED
      BY <3>1, <2>1, <1>5, <1>8 DEF MayHave
  <2> QED
    BY <2>2, <2>3
<1>10. FreshInv'
  BY <1>2, <1>4, <1>5, <1>8 DEF FreshInv
<1>11. KeptInv'
  BY <1>3, <1>4, <1>5 DEF KeptInv, TypeOK
<1> QED
  BY <1>6, <1>7, <1>9, <1>10, <1>11

\* Remembering the label turns the old one into the stale one.
LEMMA RememberKeeps == IInv /\ Remember => IInv'
<1> SUFFICES ASSUME IInv, Remember PROVE IInv'
  OBVIOUS
<1> USE DEF IInv
<1>1. arg \in Args /\ arg.label \in Labels /\ arg.label # None
  BY NoneAssumption DEF TypeOK, Args
<1>2. /\ pc = "remember" /\ prev' = accel /\ accel' = arg.label
      /\ gauge' = gauge /\ arg' = arg
      /\ pc' = IF accel # None /\ accel # arg.label THEN "evictCurrent" ELSE "idle"
  BY DEF Remember
<1>3. TypeOK'
  BY <1>1, <1>2 DEF TypeOK, PCs
<1>4. RememberedInv' /\ StaleInv'
  BY <1>1, <1>2 DEF RememberedInv, StaleInv, Evicting, Settled
<1>5. \A g \in Gauges : IsSet(g) /\ gauge[g][arg.label] = Reading(g, arg)
  BY <1>2 DEF FreshInv, IsSet
<1>6. FreshInv'
  BY <1>2, <1>5 DEF FreshInv, Reading
<1>7. KeptInv'
  BY <1>1, <1>2, <1>5, ReadingIsReading DEF KeptInv
<1>8. SeriesInv'
  <2> SUFFICES ASSUME NEW g \in Gauges, NEW l \in Labels, gauge[g][l] # None
               PROVE  MayHave(g, l)'
    BY <1>2 DEF SeriesInv
  <2>1. l = accel \/ l = arg.label
    BY <1>2 DEF SeriesInv, MayHave, Evicting
  <2>2. l # None
    BY NoneAssumption
  <2> QED
    BY <2>1, <2>2, <1>2 DEF MayHave, Evicting, IsEvicted
<1> QED
  BY <1>3, <1>4, <1>6, <1>7, <1>8

\* Evicting takes away the stale series of one gauge and nothing else.
LEMMA EvictsKeep == IInv /\ Evicts => IInv'
<1> SUFFICES ASSUME IInv, Evicts PROVE IInv'
  OBVIOUS
<1>1. PICK g0 \in Gauges, from \in PCs, to \in PCs :
        /\ Evict(g0, from, to)
        /\ <<g0, from, to>> \in {<<"current", "evictCurrent", "evictDesired">>,
                                 <<"desired", "evictDesired", "evictRatio">>,
                                 <<"ratio", "evictRatio", "idle">>}
  BY DEF Evicts, Gauges, PCs
<1> USE DEF IInv
<1>2. /\ pc = from /\ pc' = to /\ Evicting
      /\ accel' = accel /\ arg' = arg /\ prev' = prev
  BY <1>1 DEF Evict, Evicting
<1>3. /\ accel = arg.label /\ accel # None
      /\ prev \in Labels /\ prev # arg.label /\ arg.label \in Labels
  BY <1>2, NoneAssumption DEF RememberedInv, StaleInv, TypeOK, Args
<1>4. \A g \in Gauges, l \in Labels :
        gauge'[g][l] = IF g = g0 /\ l = prev THEN None ELSE gauge[g][l]
  BY <1>1, <1>3 DEF Evict, TypeOK
<1>5. TypeOK'
  BY <1>1, <1>2, <1>3 DEF TypeOK, Evict
<1>6. RememberedInv' /\ StaleInv'
  BY <1>2, <1>3 DEF RememberedInv, StaleInv
<1>7. \A g \in Gauges : gauge'[g][arg.label] = Reading(g, arg)
  BY <1>2, <1>3, <1>4 DEF FreshInv, IsSet
<1>8. FreshInv'
  BY <1>2, <1>7 DEF FreshInv
<1>9. KeptInv'
  <2>1. arg \in Args
    BY DEF TypeOK
  <2> QED
    BY <2>1, <1>2, <1>3, <1>7, ReadingIsReading DEF KeptInv
<1>10. SeriesInv'
  <2> SUFFICES ASSUME NEW g \in Gauges, NEW l \in Labels, gauge'[g][l] # None
               PROVE  MayHave(g, l)'
    BY DEF SeriesInv
  <2>1. gauge[g][l] # None /\ ~(g = g0 /\ l = prev)
    BY <1>4
  <2>2. l = arg.label \/ (l = prev /\ ~IsEvicted(g) /\ g # g0)
    BY <2>1, <1>2 DEF SeriesInv, MayHave, Evicting
  <2> QED
    BY <2>2, <1>1, <1>2, <1>3 DEF MayHave, Evicting, IsEvicted, Gauges
<1> QED
  BY <1>5, <1>6, <1>8, <1>9, <1>10

\* The strengthened invariant of EmitReplicaMetrics.
LEMMA Inductive == Spec => []IInv
<1>1. IInv /\ [Next]_vars => IInv'
  <2> SUFFICES ASSUME IInv, [Next]_vars PROVE IInv'
    OBVIOUS
  <2>1. CASE EmitReplicaMetrics
    BY <2>1, EmitKeeps, SetsKeep, RememberKeeps, EvictsKeep DEF EmitReplicaMetrics
  <2>2. CASE UNCHANGED vars
    BY <2>2 DEF IInv, vars, TypeOK, RememberedInv, StaleInv, SeriesInv, FreshInv,
       KeptInv, MayHave, Evicting, Settled, IsSet, IsEvicted
  <2> QED
    BY <2>1, <2>2 DEF Next
<1> QED
  BY InitIInv, <1>1, PTL DEF Spec

\* EmitReplicaMetrics never writes the internal sentinel as a label, and every
\* series carries a reading.
THEOREM TypeCorrect == Spec => []TypeOK
<1>1. IInv => TypeOK
  BY DEF IInv
<1> QED
  BY <1>1, Inductive, PTL

\* No scrape after a variant's first emission finds a gauge without a series:
\* EmitReplicaMetrics sets before it evicts.
THEOREM NoGap == Spec => []NeverGap
<1>1. IInv => NeverGap
  BY DEF IInv, NeverGap, KeptInv, Series, TypeOK
<1> QED
  BY <1>1, Inductive, PTL

\* Between two emissions each gauge has one series, with the label and the
\* reading emitted last, however often the accelerator type changed.
THEOREM OneSeries == Spec => []OneSeriesAtRest
<1>1. IInv => OneSeriesAtRest
  BY DEF IInv, OneSeriesAtRest, RememberedInv, FreshInv, SeriesInv, MayHave, Settled
<1> QED
  BY <1>1, Inductive, PTL
=============================================================================
