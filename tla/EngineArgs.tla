----------------------------- MODULE EngineArgs -----------------------------
(***************************************************************************)
(* What the capacity store reads from the command lines of a deployment     *)
(* (internal/engines/analyzers/saturation_v2/deployment_parser.go and       *)
(* sglang_parser.go).                                                       *)
(*                                                                         *)
(* A word of a command line is a record [key, eq, val]: "--key=val" has eq  *)
(* TRUE, "--key" has eq FALSE and val {}, and a word that is no flag has    *)
(* key "".  A val is the set of what it parses to: {} when there is no      *)
(* value or it is no number.  Keys are normalised, with underscores.        *)
(* A container is [image, legacy, shell, script, words]: what runs in it,   *)
(* whether VLLM_USE_V1 is "0", and either the words of a shell's script or  *)
(* of command and args.                                                     *)
(***************************************************************************)
EXTENDS Integers, Sequences, SequencesExt

EngineVLLM == "vllm"
EngineSGLang == "sglang"

defaultEngineParams ==
  [engine |-> EngineVLLM, memory |-> 90, block |-> 16, dtype |-> "auto", tensor |-> 1, blocks |-> 0,
   batched |-> 0, seqs |-> 256, maxLen |-> 0, eager |-> FALSE, v1 |-> TRUE, chunked |-> TRUE,
   kvTokens |-> 0, effective |-> 0]
defaultSGLangEngineParams == [defaultEngineParams EXCEPT !.engine = EngineSGLang, !.block = 1]

\* A container whose image or launch command is SGLang's decides.
Detect(containers) ==
  IF \E i \in DOMAIN containers : containers[i].image = EngineSGLang THEN EngineSGLang ELSE EngineVLLM

collectArgs(c) == IF c.shell THEN c.script ELSE c.words

\* The flags in the order they are applied: a flag without "=" takes the next
\* word as its value unless that is a flag itself; other words are ignored.
parseArgsWith(words) ==
  LET flags == SelectSeq([i \in DOMAIN words |-> i], LAMBDA i : words[i].key # "")
      next(i) == IF i < Len(words) /\ words[i + 1].key = "" THEN words[i + 1].val ELSE {}
  IN  [j \in DOMAIN flags |-> LET w == words[flags[j]] IN
         [key |-> w.key, val |-> IF w.eq THEN w.val ELSE next(flags[j])]]

Set(params, field, val) ==
  IF val = {} THEN params ELSE [params EXCEPT ![field] = CHOOSE x \in val : TRUE]

VLLMNumbers ==
  [gpu_memory_utilization |-> "memory", block_size |-> "block", tensor_parallel_size |-> "tensor",
   num_gpu_blocks_override |-> "blocks", max_num_batched_tokens |-> "batched", max_num_seqs |-> "seqs",
   max_model_len |-> "maxLen"]
SGLangNumbers ==
  [mem_fraction_static |-> "memory", page_size |-> "block", tp_size |-> "tensor",
   tensor_parallel_size |-> "tensor", tp |-> "tensor", max_running_requests |-> "seqs",
   max_total_tokens |-> "kvTokens", context_length |-> "maxLen", max_prefill_tokens |-> "batched"]

SetDtype(params, val) == [params EXCEPT !.dtype = IF val = {} THEN "" ELSE CHOOSE x \in val : TRUE]

applyParam(params, f) ==
  CASE f.key \in DOMAIN VLLMNumbers        -> Set(params, VLLMNumbers[f.key], f.val)
    [] f.key = "kv_cache_dtype"            -> SetDtype(params, f.val)
    [] f.key = "enforce_eager"             -> [params EXCEPT !.eager = TRUE]
    [] f.key = "enable_chunked_prefill"    -> [params EXCEPT !.chunked = TRUE]
    [] OTHER                               -> params

applySGLangParam(params, f) ==
  CASE f.key \in DOMAIN SGLangNumbers      -> Set(params, SGLangNumbers[f.key], f.val)
    [] f.key = "kv_cache_dtype"            -> SetDtype(params, f.val)
    [] f.key = "disable_cuda_graph"        -> [params EXCEPT !.eager = TRUE]
    [] f.key = "chunked_prefill_size" /\ f.val # {} ->
         LET n == CHOOSE x \in f.val : TRUE
         IN  IF n > 0 THEN [params EXCEPT !.batched = n, !.chunked = TRUE]
             ELSE [params EXCEPT !.chunked = FALSE]
    [] OTHER                               -> params

resolveEffectiveMaxBatchedTokens(params) ==
  [params EXCEPT !.effective =
     IF params.batched > 0 THEN params.batched
     ELSE IF params.chunked THEN IF params.v1 THEN 8192 ELSE 2048
     ELSE IF params.maxLen > 2048 THEN params.maxLen ELSE 2048]

ParseVLLMArgs(containers) ==
  LET env(p, c)  == IF c.legacy THEN [p EXCEPT !.v1 = FALSE, !.chunked = FALSE] ELSE p
      one(p, c)  == FoldLeft(applyParam, env(p, c), parseArgsWith(collectArgs(c)))
      parsed     == FoldLeft(one, defaultEngineParams, containers)
  IN  resolveEffectiveMaxBatchedTokens(IF parsed.v1 THEN [parsed EXCEPT !.chunked = TRUE] ELSE parsed)

ParseSGLangArgs(containers) ==
  resolveEffectiveMaxBatchedTokens(
    FoldLeft(LAMBDA p, c : FoldLeft(applySGLangParam, p, parseArgsWith(collectArgs(c))),
             defaultSGLangEngineParams, containers))

ParseEngineArgs(containers) ==
  IF Detect(containers) = EngineSGLang THEN ParseSGLangArgs(containers) ELSE ParseVLLMArgs(containers)

\* Everything but the number of sequences and the model length has to agree.
IsCapacityCompatible(p, q) ==
  \A f \in {"engine", "memory", "block", "dtype", "tensor", "blocks", "kvTokens", "effective"} : p[f] = q[f]
=============================================================================
