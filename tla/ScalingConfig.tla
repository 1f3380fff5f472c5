---------------------------- MODULE ScalingConfig ----------------------------
(***************************************************************************)
(* The scaling configuration of a model (internal/config/                   *)
(* saturation_scaling.go and resolveSaturationConfig of the engine).  An    *)
(* entry of the ConfigMap is a record of thresholds in percent, where 0,    *)
(* "" and << >> mean that the field is not set; "analyzers" lists records   *)
(* [type, enabled, score, up, down, params], enabled being "unset", "yes"   *)
(* or "no".  The plugin parameters map some of those fields to the set of   *)
(* what they hold, {} for a value of the wrong type.  An entry is defaulted *)
(* and validated by itself when it is read, and the override of a model is  *)
(* laid over the "default" entry when it is used.                           *)
(***************************************************************************)
EXTENDS Integers, Sequences, SequencesExt

SaturationAnalyzerName == "saturation"

Unset ==
  [kvCache |-> 0, queueLength |-> 0, kvSpare |-> 0, queueSpare |-> 0, up |-> 0, down |-> 0,
   priority |-> 0, analyzerName |-> "", analyzers |-> << >>]

NoEntry == [type |-> "", enabled |-> "unset", score |-> 0, up |-> 0, down |-> 0, params |-> << >>]

\* Folds the plugin parameters of an analyzer into the fields that are not set.
Missing(a) == {f \in DOMAIN a.params : a[f] = NoEntry[f]}
Folded(a) == [f \in DOMAIN a |-> IF f \in Missing(a) THEN CHOOSE x \in a.params[f] : TRUE ELSE a[f]]
Normalizable(c) == \A i \in DOMAIN c.analyzers : {} \notin {c.analyzers[i].params[f] : f \in Missing(c.analyzers[i])}
Normalize(c) == [c EXCEPT !.analyzers = [i \in DOMAIN @ |-> Folded(@[i])]]

V1Defaults == [kvCache |-> 80, queueLength |-> 5, kvSpare |-> 10, queueSpare |-> 3, priority |-> 1]
V2Defaults == [up |-> 85, down |-> 70]

FillIn(c, defaults) ==
  [f \in DOMAIN c |-> IF f \in DOMAIN defaults /\ c[f] = Unset[f] THEN defaults[f] ELSE c[f]]

IsV2(c) == c.analyzers # << >> \/ c.analyzerName = SaturationAnalyzerName

DefaultedAnalyzers(c) ==
  LET listed == IF c.analyzers # << >> THEN c.analyzers
                ELSE <<[NoEntry EXCEPT !.type = SaturationAnalyzerName]>>
  IN  [i \in DOMAIN listed |->
         [listed[i] EXCEPT !.score = IF @ = 0 THEN 1 ELSE @,
                           !.enabled = IF @ = "unset" THEN "yes" ELSE @]]

ApplyDefaults(c) ==
  LET v1 == FillIn(c, V1Defaults)
  IN  IF IsV2(c) THEN [FillIn(v1, V2Defaults) EXCEPT !.analyzers = DefaultedAnalyzers(c)] ELSE v1

ApplyV2ThresholdDefaults(c) == FillIn(c, V2Defaults)

Or(own, global) == IF own # 0 THEN own ELSE global

Validate(c) ==
  /\ \A f \in {"kvCache", "kvSpare", "up", "down"} : c[f] \in 0..100
  /\ c.queueLength >= 0 /\ c.queueSpare >= 0 /\ c.priority >= 0
  /\ c.kvCache >= c.kvSpare
  /\ (c.up # 0 /\ c.down # 0) => c.up > c.down
  /\ IsV2(c) => /\ c.up > 0 /\ c.down > 0
                /\ \A i \in DOMAIN c.analyzers : LET a == c.analyzers[i] IN
                     /\ a.up \in 0..100 /\ a.down \in 0..100
                     /\ Or(a.up, c.up) > Or(a.down, c.down)

\* The entries of a ConfigMap that are kept: an invalid one is left out.
parseSaturationConfig(entries) ==
  LET full == [k \in {j \in DOMAIN entries : Normalizable(entries[j])} |-> ApplyDefaults(Normalize(entries[k]))]
  IN  [k \in {j \in DOMAIN full : Validate(full[j])} |-> full[k]]

Merge(base, over) == [f \in DOMAIN base |-> IF over[f] # Unset[f] THEN over[f] ELSE base[f]]

\* mutant: thresholds that the merge has put in the wrong order are used
Inverted(configMap, key) ==
  LET base == IF "default" \in DOMAIN configMap THEN configMap["default"] ELSE Unset
  IN  ApplyV2ThresholdDefaults(ApplyDefaults(
        IF key \in DOMAIN configMap THEN Merge(base, configMap[key]) ELSE base))

resolveSaturationConfig(configMap, key) ==
  LET base   == IF "default" \in DOMAIN configMap THEN configMap["default"] ELSE Unset
      merged == IF key \in DOMAIN configMap THEN Merge(base, configMap[key]) ELSE base
      full   == ApplyV2ThresholdDefaults(ApplyDefaults(merged))
  IN  IF full.up <= full.down THEN [full EXCEPT !.up = V2Defaults.up, !.down = V2Defaults.down] ELSE full

-----------------------------------------------------------------------------
\* What the engine reads for one analyzer: the first listed entry of its type.
EntriesOf(c, a) == {i \in DOMAIN c.analyzers : c.analyzers[i].type = a}
EntryOf(c, a) == c.analyzers[CHOOSE i \in EntriesOf(c, a) : \A j \in EntriesOf(c, a) : i <= j]

scoreForAnalyzer(c, a) ==
  IF EntriesOf(c, a) # {} /\ EntryOf(c, a).score > 0 THEN EntryOf(c, a).score ELSE 1

resolveThresholds(c, a) ==
  IF EntriesOf(c, a) = {} THEN [up |-> c.up, down |-> c.down]
  ELSE [up |-> Or(EntryOf(c, a).up, c.up), down |-> Or(EntryOf(c, a).down, c.down)]

effectiveEnabled(c, a) == EntriesOf(c, a) # {} /\ EntryOf(c, a).enabled # "no"

satVotes(c) == c.analyzers = << >> \/ effectiveEnabled(c, SaturationAnalyzerName)
=============================================================================
