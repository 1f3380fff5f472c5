----------------------------- MODULE MCEngineV2 -----------------------------
\* Clusters for the V2 engine.
EXTENDS EngineV2

Of(S, x) == [v \in S |-> x]

Word(k, x) == [key |-> k, eq |-> TRUE, val |-> x]
VLLM(words) == <<[image |-> "vllm", legacy |-> FALSE, shell |-> FALSE, script |-> << >>, words |-> words]>>
Runs(containers, cache, conc) == [containers |-> containers, cache |-> cache, shown |-> TRUE, conc |-> conc]

Default == [Unset EXCEPT !.analyzerName = SaturationAnalyzerName, !.queueLength = 2]
Config(entries) == [entries |-> entries, qm |-> FALSE]
Silent == [answer |-> "error", demand |-> 0]

\* What the setups have in common; V: variants, M: models.
Common(V, M) ==
  [role |-> Of(V, "both"), gpus |-> Of(V, 1), min |-> Of(V, 0), max |-> Of(V, 0), cost |-> [v \in V |-> 4 + v],
   acc |-> Of(V, "A"), ranks |-> Of(V, 1), ns |-> Of(M, "n1"), model |-> Of(M, "llama"), key |-> Of(M, "llama#n1"),
   limit |-> 0, lag |-> 0, window |-> FALSE, tput |-> Of(V, 0), voices |-> {Silent}, configs |-> <<Config([default |-> Default])>>,
   events |-> {}, budget |-> 0, periods |-> {5}]

Long == [n |-> 6, in |-> 200, out |-> 40]
Short == [n |-> 12, in |-> 40, out |-> 40]

\* One variant; the shape of the requests changes.
Loop ==
  [of |-> <<{1}>>, loads |-> <<{Long, Short, [n |-> 3, in |-> 200, out |-> 40]}>>,
   builds |-> <<<<Runs(VLLM(<<Word("max_num_seqs", {8})>>), 2000, 4)>>>>,
   starts |-> {<<k>> : k \in 1..4}, events |-> {"load", "restart"}, budget |-> 2] @@ Common({1}, {1})

\* New replicas are ready before they report, or report before they are ready,
\* and the scaler acts while a cycle is reading.
Lagging ==
  [loads |-> <<{Long, Short}>>, lag |-> 1, events |-> {"load", "mute", "skew"}] @@ Loop

\* Queries that look back further than the last cycle.
Peaks == [loads |-> <<{Long, Short}>>, window |-> TRUE, events |-> {}, budget |-> 0] @@ Loop

\* Its configuration changes: an override that turns the global pair of
\* thresholds around, one that is no good, the queueing model, and an analyzer
\* list without saturation.
Override(o) == Config([default |-> [Default EXCEPT !.down = 60], llama |-> o])
Tuned ==
  [configs |-> <<Override([Unset EXCEPT !.up = 55]),
                 Override([Unset EXCEPT !.kvCache = 5, !.kvSpare = 10]),
                 [Override([Unset EXCEPT !.priority = 2]) EXCEPT !.qm = TRUE],
                 Override([Unset EXCEPT !.analyzers =
                   <<[NoEntry EXCEPT !.type = Throughput, !.params = [score |-> {2}, up |-> {90}, enabled |-> {"yes"}]]>>]),
                 Override([Unset EXCEPT !.analyzers =
                   <<[NoEntry EXCEPT !.type = Saturation, !.params = [down |-> {}]]>>])>>,
   key |-> <<"llama">>, loads |-> <<{Long, Short}>>, tput |-> <<10>>,
   voices |-> {[answer |-> "known", demand |-> 15], [answer |-> "blind", demand |-> 0]},
   events |-> {"load", "restart"}, budget |-> 2] @@ Loop

\* Memory-bound, with a second analyzer that falls silent in two ways.
Voices ==
  [of |-> <<{1}>>, loads |-> <<{[n |-> 8, in |-> 80, out |-> 40], [n |-> 1, in |-> 80, out |-> 40]}>>,
   builds |-> <<<<Runs(VLLM(<< >>), 500, 9)>>>>, tput |-> <<10>>,
   voices |-> {Silent, [answer |-> "blind", demand |-> 0], [answer |-> "known", demand |-> 0], [answer |-> "known", demand |-> 30]},
   configs |-> <<Config([default |-> [Default EXCEPT !.analyzers =
       <<[NoEntry EXCEPT !.type = Saturation], [NoEntry EXCEPT !.type = Throughput, !.down = 60]>>]])>>,
   starts |-> {<<k>> : k \in 1..4}, events |-> {"load", "voice"}, budget |-> 2, periods |-> {5, 8}] @@ Common({1}, {1})

Shell(words) == <<[image |-> "init", legacy |-> FALSE, shell |-> FALSE, script |-> << >>, words |-> << >>],
                  [image |-> "vllm", legacy |-> TRUE, shell |-> TRUE, script |-> words, words |-> << >>]>>
SGLang(words) == <<[image |-> "sglang", legacy |-> FALSE, shell |-> FALSE, script |-> << >>, words |-> words]>>
Flag(k) == [key |-> k, eq |-> FALSE, val |-> {}]
Plain(x) == [key |-> "", eq |-> FALSE, val |-> x]

\* Two variants that come and go: new builds, metrics that do not arrive.
Memory ==
  [of |-> <<{1, 2}>>, loads |-> <<{[n |-> 8, in |-> 100, out |-> 40]}>>,
   builds |-> <<<<Runs(VLLM(<<Flag("max_num_seqs"), Plain({6}), Word("enforce_eager", {}), Word("kv_cache_dtype", {"fp8"})>>), 2000, 4),
                  Runs(Shell(<<Word("max_num_batched_tokens", {600}), Word("num_gpu_blocks_override", {50})>>), 800, 3)>>,
                <<Runs(VLLM(<<Word("max_num_seqs", {6}), Word("kv_cache_dtype", {"fp8"})>>), 2000, 4),
                  [Runs(SGLang(<<Word("chunked_prefill_size", {512}), Word("max_running_requests", {4}),
                                 Word("max_total_tokens", {1200}), Flag("disable_cuda_graph"), Plain({})>>), 1200, 4)
                     EXCEPT !.shown = FALSE]>>>>,
   min |-> <<0, 1>>, max |-> <<0, 3>>, cost |-> <<5, 4>>,
   starts |-> {<<1, 1>>, <<2, 1>>, <<1, 3>>}, events |-> {"mute", "redeploy", "restart", "errors"}, budget |-> 2] @@ Common({1, 2}, {1})

\* One model served in two namespaces, from one command line.
Namespaces ==
  [of |-> <<{1}, {2}>>, ns |-> <<"n1", "n2">>, loads |-> <<{Long, Short}, {Short}>>, limit |-> 3,
   builds |-> LET b == Runs(VLLM(<<Word("max_num_seqs", {8})>>), 2000, 4) IN <<<<b>>, <<b>>>>,
   max |-> <<4, 3>>, starts |-> {<<1, 1>>, <<3, 1>>}, events |-> {"load", "depart"}, budget |-> 1] @@ Common({1, 2}, {1, 2})

\* Prefill and decode behind a scheduler that holds requests back.
PrefillDecode ==
  [of |-> <<{1, 2}>>, role |-> <<"prefill", "decode">>, limit |-> 3,
   loads |-> <<{[n |-> 4, in |-> 120, out |-> 120], [n |-> 14, in |-> 120, out |-> 120]}>>,
   builds |-> <<<<Runs(VLLM(<< >>), 600, 4)>>, <<Runs(VLLM(<<Word("max_num_seqs", {4})>>), 2000, 4)>>>>,
   max |-> <<0, 4>>,
   starts |-> {<<1, 1>>, <<3, 4>>}, events |-> {"load", "errors"}, budget |-> 2] @@ Common({1, 2}, {1})

\* Replicas of one role show later than those of the other.
LaggingRoles ==
  [loads |-> <<{[n |-> 8, in |-> 120, out |-> 120]}>>, starts |-> {<<1, 1>>}, lag |-> 1, events |-> {"skew"}, budget |-> 1] @@ PrefillDecode

\* Two engines in a pod, and a model that leaves.
Ranks ==
  [of |-> <<{1}>>, ranks |-> <<2>>, loads |-> <<{Long, Short}>>,
   builds |-> <<<<Runs(VLLM(<< >>), 2000, 4)>>>>,
   starts |-> {<<k>> : k \in 1..3}, events |-> {"load", "depart"}, budget |-> 1] @@ Common({1}, {1})

MCSetups == {Loop, Lagging, Peaks, Tuned, Voices, Memory, Namespaces, PrefillDecode, LaggingRoles, Ranks}
=============================================================================
