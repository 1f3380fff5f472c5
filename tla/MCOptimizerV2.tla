---------------------------- MODULE MCOptimizerV2 ----------------------------
\* Scenarios for the V2 optimizers.  Capacities are multiples of 288, so that
\* the means of two or three models stay whole numbers.
EXTENDS OptimizerV2

Of(S, x) == [v \in S |-> x]
OneRole(S) == Of(S, "both")
Sat(f) == [saturation |-> f, throughput |-> << >>]

\* What the scenarios have in common; V: variants, M: models.
Common(V, M) ==
  [role |-> OneRole(V), gpus |-> Of(V, 1), min |-> Of(V, 0), max |-> Of(V, 0), cost |-> [v \in V |-> 4 + v],
   priority |-> Of(M, 1), ns |-> Of(M, "n1"), enabled |-> {Saturation}, live |-> {Saturation},
   score |-> [saturation |-> 1, throughput |-> 2],
   stored |-> V, unready |-> {}, flaky |-> FALSE, providers |-> {}, rescale |-> {},
   order |-> ("" :> 0) @@ [A |-> 1, B |-> 2, n1 |-> 3, n2 |-> 4]]

Both(x) == [saturation |-> [both |-> x], throughput |-> [both |-> 0]]

\* Two variants that two analyzers size in opposite order, without GPU limits.
TwoVoices ==
  [optimizer |-> "cost", of |-> <<{1, 2}>>, acc |-> <<"A", "B">>,
   prc |-> [saturation |-> <<576, 864>>, throughput |-> <<864, 576>>],
   enabled |-> Analyzers, live |-> Analyzers, min |-> <<1, 0>>, max |-> <<3, 0>>, cost |-> <<5, 9>>, unready |-> {2},
   counts |-> <<1..3, 0..3>>,
   demands |-> {<<[saturation |-> [both |-> s], throughput |-> [both |-> t]]>> : s \in {0, 3, 8}, t \in {0, 4, 7}}]
   @@ Common({1, 2}, {1})

\* Prefill and decode on types of their own, the decoders of two kinds.
PrefillDecode ==
  [optimizer |-> "cost", of |-> <<{1, 2, 3}>>, acc |-> <<"A", "B", "B">>,
   role |-> <<"prefill", "decode", "decode">>, prc |-> Sat(<<576, 576, 1440>>), cost |-> <<5, 5, 9>>,
   counts |-> <<1..3, 0..2, 1..2>>,
   demands |-> {<<[a \in Analyzers |-> [prefill |-> p, decode |-> d]]>> : p \in {1, 4, 7}, d \in {1, 6, 9}}]
   @@ Common({1, 2, 3}, {1})

Cluster(f) == [scope |-> "cluster", caps |-> f]
PerNamespace(f) == [scope |-> "namespace", caps |-> f]

\* Two models compete for two types; replicas of B take two GPUs; a provider
\* may fail to answer.
Competing ==
  [optimizer |-> "greedy", of |-> <<{1, 2}, {3, 4}>>, acc |-> <<"A", "B", "A", "B">>, gpus |-> <<1, 2, 1, 2>>,
   prc |-> Sat(<<576, 1440, 864, 576>>), priority |-> <<1, 2>>, max |-> <<0, 0, 3, 0>>, unready |-> {2},
   flaky |-> TRUE, providers |-> {Cluster([A |-> 5, B |-> 6]), Cluster([A |-> 6, B |-> -1])},
   counts |-> <<1..2, 0..1, 1..2, 0..1>>,
   demands |-> {<<Both(a), Both(b)>> : a \in {1, 5, 9}, b \in {0, 6, 12}}]
   @@ Common(1..4, 1..2)

\* Three models in namespaces with a quota each, one of them unlimited.
Quotas ==
  [optimizer |-> "greedy", of |-> <<{1}, {2}, {3}>>, acc |-> <<"A", "A", "A">>,
   prc |-> Sat(<<576, 576, 864>>), ns |-> <<"n1", "n2", "n3">>,
   providers |-> {Cluster([A |-> 8]), PerNamespace([n1 |-> [A |-> 3], n2 |-> [A |-> -1], n3 |-> [A |-> 4]])},
   counts |-> <<1..2, 1..3, 1..2>>,
   demands |-> {<<Both(a), Both(b), Both(c)>> : a \in {1, 7}, b \in {2, 5, 9}, c \in {0, 7}}]
   @@ Common(1..3, 1..3)

\* Three models share one type, with the rescale pass on.
Rescaling ==
  [optimizer |-> "greedy", of |-> <<{1}, {2, 3}, {4}>>, acc |-> <<"A", "A", "A", "A">>,
   prc |-> Sat(<<576, 576, 288, 864>>), min |-> <<1, 1, 0, 0>>, max |-> <<0, 3, 0, 4>>,
   priority |-> <<1, 3, 2>>, providers |-> {Cluster([A |-> 8])}, rescale |-> {""},
   counts |-> <<1..4, 1..2, 0..1, 1..2>>,
   demands |-> {<<Both(a), Both(b), Both(c)>> : a \in {2, 9}, b \in {1, 5, 9}, c \in {1, 6}}]
   @@ Common(1..4, 1..3)

\* The rescale pass of a namespace with a quota, beside a model outside it.
RescalingQuota ==
  [optimizer |-> "greedy", of |-> <<{1, 2}, {3}, {4}>>, acc |-> <<"A", "A", "A", "A">>,
   role |-> <<"prefill", "decode", "both", "both">>, prc |-> Sat(<<576, 288, 576, 576>>), gpus |-> <<1, 1, 2, 1>>,
   min |-> <<1, 0, 0, 0>>, ns |-> <<"n1", "n1", "n2">>, priority |-> <<2, 1, 1>>,
   providers |-> {Cluster([A |-> 9]), PerNamespace([n1 |-> [A |-> 6]])}, rescale |-> {"n1", ""},
   counts |-> <<1..2, 1..2, 1..2, 1..3>>,
   demands |-> {<<[a \in Analyzers |-> [prefill |-> p, decode |-> d]], Both(b), Both(c)>> :
                  p \in {2, 4}, d \in {2, 3}, b \in {2, 6}, c \in {1, 8}}]
   @@ Common(1..4, 1..3)

\* The same with saturation silent, so that the other analyzer is the anchor; with
\* replicas of several GPUs; with two analyzers; with pods that come up slowly.
SilentSaturation == [TwoVoices EXCEPT !.live = {"throughput"}]
WideReplicas == [Rescaling EXCEPT !.gpus = <<2, 1, 3, 2>>, !.providers = {Cluster([A |-> 11])}]
TwoVoicesCompete ==
  [Competing EXCEPT !.live = Analyzers, !.enabled = Analyzers,
     !.prc = [saturation |-> <<576, 1440, 864, 576>>, throughput |-> <<576, 576, 1440, 576>>]]
SlowPods == [Rescaling EXCEPT !.unready = {1, 4}, !.stored = {}, !.counts = <<1..3, 1..1, 0..1, 1..2>>]

\* Prefill and decode replicas of one model on one type with three GPUs free.
SharedType ==
  [optimizer |-> "greedy", of |-> <<{1, 2}>>, acc |-> <<"A", "A">>, role |-> <<"prefill", "decode">>,
   prc |-> Sat(<<576, 576>>), providers |-> {Cluster([A |-> 5])}, counts |-> <<1..1, 1..1>>,
   demands |-> {<<[a \in Analyzers |-> [prefill |-> 9, decode |-> 9]]>>}]
   @@ Common(1..2, 1..1)
MCSharedType == {SharedType}

MCSetups == {SilentSaturation, WideReplicas, TwoVoicesCompete, SlowPods, SharedType, TwoVoices, PrefillDecode, Competing, Quotas, Rescaling, RescalingQuota}
=============================================================================
