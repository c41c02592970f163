-------------------------------- MODULE TinyGPT --------------------------------
(***************************************************************************)
(* opentsp/tiny_gpt.py and its adapter: a prompt becomes the hidden state  *)
(* of its last token and the K/V caches of the tokens before it, and one   *)
(* decode step of a single-block graph is compiled and run.  The FP32      *)
(* reference, and the decoder of the same shape whose caches are random,   *)
(* are those of opentsp/models.py.                                         *)
(***************************************************************************)
EXTENDS AcceleratorRuntime

CONSTANTS
  TinyGPTConfigs,   \* bound: the TinyGPTConfig values of this instance
  Prompts           \* bound: the prompts
ASSUME TinyGPTAssumption ==
  /\ TinyGPTConfigs \subseteq [vocab_size : Nat \ {0}, d_model : Nat \ {0}, d_ff : Nat \ {0},
                               max_seq_len : Nat \ {0}, cache_len : Nat \ {0}]
  /\ Prompts \subseteq Seq(Int)

VARIABLES
  adapter,   \* "idle", "step" once there is a step, or the exception
  step       \* the TinyGPTStep, as <<step>> once there is one

tinyVars == <<adapter, step>>

TinyGPTInit == adapter = "idle" /\ step = <<>>

-----------------------------------------------------------------------------
(* _build_graph *)

DecoderTensors(c) ==
  LET Add(weight, names, shp) ==
        [i \in DOMAIN names |-> [name |-> names[i], shape |-> shp, nbytes |-> 4,
                                 is_weight |-> weight, bank |-> {}]]
      d == c.d_model
  IN Add(FALSE, <<"x">>, <<1, d>>)
     \o Add(FALSE, <<"k_cache", "v_cache">>, <<c.cache_len, d>>)
     \o Add(TRUE, <<"w_q", "w_k", "w_v", "w_o">>, <<d, d>>)
     \o Add(TRUE, <<"gamma_1">>, <<d>>)
     \o Add(TRUE, <<"w_ff1">>, <<d, c.d_ff>>) \o Add(TRUE, <<"w_ff2">>, <<c.d_ff, d>>)
     \o Add(TRUE, <<"gamma_2">>, <<d>>) \o Add(TRUE, <<"w_vocab">>, <<d, c.vocab_size>>)
     \o Add(FALSE, <<"q", "k_new", "v_new", "attn_ctx", "attn_out", "resid_1", "norm_1">>, <<1, d>>)
     \o Add(FALSE, <<"ff1", "ff_act">>, <<1, c.d_ff>>)
     \o Add(FALSE, <<"ff2", "resid_2", "norm_2">>, <<1, d>>)
     \o Add(FALSE, <<"logits">>, <<1, c.vocab_size>>)
     \o Add(FALSE, <<"k_all", "v_all">>, <<c.cache_len, d>>)
     \o Add(FALSE, <<"next_token">>, <<1>>)

DecoderOps(c) ==
  LET Operation(name, kind, ins, out) ==
        [name |-> name, kind |-> kind, inputs |-> ins, outputs |-> <<out>>,
         max_len |-> IF kind = "append_cache" THEN {c.cache_len} ELSE {}]
  IN <<Operation("q_proj", "matmul", <<"x", "w_q">>, "q"),
       Operation("k_proj", "matmul", <<"x", "w_k">>, "k_new"),
       Operation("v_proj", "matmul", <<"x", "w_v">>, "v_new"),
       Operation("append_k", "append_cache", <<"k_cache", "k_new">>, "k_all"),
       Operation("append_v", "append_cache", <<"v_cache", "v_new">>, "v_all"),
       Operation("attn_decode", "attention_decode", <<"q", "k_all", "v_all">>, "attn_ctx"),
       Operation("o_proj", "matmul", <<"attn_ctx", "w_o">>, "attn_out"),
       Operation("residual_attn", "add", <<"x", "attn_out">>, "resid_1"),
       Operation("rmsnorm_1", "rmsnorm", <<"resid_1", "gamma_1">>, "norm_1"),
       Operation("ffn_up", "matmul", <<"norm_1", "w_ff1">>, "ff1"),
       Operation("ffn_silu", "silu", <<"ff1">>, "ff_act"),
       Operation("ffn_down", "matmul", <<"ff_act", "w_ff2">>, "ff2"),
       Operation("residual_ffn", "add", <<"norm_1", "ff2">>, "resid_2"),
       Operation("rmsnorm_2", "rmsnorm", <<"resid_2", "gamma_2">>, "norm_2"),
       Operation("vocab_logits", "matmul", <<"norm_2", "w_vocab">>, "logits"),
       Operation("next_token", "argmax", <<"logits">>, "next_token")>>

DecoderGraph(c) ==
  [tensors |-> DecoderTensors(c), ops |-> DecoderOps(c), inputs |-> {"x", "k_cache", "v_cache"},
   outputs |-> {"next_token", "logits", "k_all", "v_all"}]

-----------------------------------------------------------------------------
(* build_tiny_gpt_step *)

ValidTokens(tokens, c) ==
  /\ tokens # <<>> /\ Len(tokens) <= c.max_seq_len
  /\ \A i \in DOMAIN tokens : tokens[i] \in 0 .. c.vocab_size - 1

\* The token's embedding plus that of its position, one row per token.
Hidden(tokens) == [i \in DOMAIN tokens |-> <<"hidden", tokens[i], i>>]

\* The rows past_hidden @ weight, the last of them at the end of a cache of zeros.
MutantPrefilledCache(hidden, weight, cache_len) ==
  LET past == LastRows([i \in 1 .. Len(hidden) - 1 |-> <<"matmul", hidden[i], <<weight>>>>], cache_len)
  IN <<"rows">> \o past \o [i \in 1 .. cache_len - Len(past) |-> <<"zeros">>]
PrefilledCache(hidden, weight, cache_len) ==
  LET past == LastRows([i \in 1 .. Len(hidden) - 1 |-> <<"matmul", hidden[i], <<weight>>>>], cache_len)
  IN <<"rows">> \o [i \in 1 .. cache_len - Len(past) |-> <<"zeros">>] \o past

WeightNames == {"w_q", "w_k", "w_v", "w_o", "gamma_1", "w_ff1", "w_ff2", "gamma_2", "w_vocab"}

TinyGPTStep(tokens, c) ==
  LET hidden == Hidden(tokens)
      Value(name) == CASE name = "x" -> hidden[Len(hidden)]
                       [] name = "k_cache" -> PrefilledCache(hidden, "w_k", c.cache_len)
                       [] name = "v_cache" -> PrefilledCache(hidden, "w_v", c.cache_len)
                       [] OTHER -> <<name>>
  IN [config |-> c, prompt_token_ids |-> tokens, graph |-> DecoderGraph(c),
      values |-> [name \in {"x", "k_cache", "v_cache"} \cup WeightNames |-> Value(name)]]

BuildStep ==
  /\ compiling = "idle" /\ adapter = "idle"
  /\ \E tokens \in Prompts, c \in TinyGPTConfigs :
       \/ ~ValidTokens(tokens, c) /\ adapter' = "ValueError" /\ UNCHANGED step
       \/ ValidTokens(tokens, c) /\ adapter' = "step" /\ step' = <<TinyGPTStep(tokens, c)>>
  /\ UNCHANGED <<compilerVars, runtimeVars, backendVars>>

(* run_tiny_gpt_opentsp *)

CompileStep ==
  /\ adapter = "step" /\ compiling = "idle"
  /\ \E c \in Compilations : c.graph = step[1].graph /\ Compile(c)
  /\ UNCHANGED <<tinyVars, runtimeVars, backendVars>>

RunStep ==
  /\ adapter = "step" /\ StartRun(step[1].values)
  /\ UNCHANGED <<tinyVars, compilerVars>>

TinyGPTSteps == BuildStep \/ CompileStep \/ RunStep

-----------------------------------------------------------------------------
(* opentsp/models.py *)

eager_reference(v, cache_len) ==
  LET Mul(a, b)      == <<"matmul", a, b>>
      Window(old, r) == <<"rows">> \o LastRows(Append(Rows(old, cache_len), r), cache_len)
      q        == Mul(v["x"], v["w_q"])
      k_new    == Mul(v["x"], v["w_k"])
      v_new    == Mul(v["x"], v["w_v"])
      k_all    == Window(v["k_cache"], k_new)
      v_all    == Window(v["v_cache"], v_new)
      attn_ctx == <<"attention_decode", q, k_all, v_all>>
      attn_out == Mul(attn_ctx, v["w_o"])
      resid_1  == <<"add", v["x"], attn_out>>
      norm_1   == <<"rmsnorm", resid_1, v["gamma_1"]>>
      ff1      == Mul(norm_1, v["w_ff1"])
      ff_act   == <<"silu", ff1>>
      ff2      == Mul(ff_act, v["w_ff2"])
      resid_2  == <<"add", norm_1, ff2>>
      norm_2   == <<"rmsnorm", resid_2, v["gamma_2"]>>
      logits   == Mul(norm_2, v["w_vocab"])
  IN [q |-> q, k_new |-> k_new, v_new |-> v_new, k_all |-> k_all, v_all |-> v_all,
      attn_ctx |-> attn_ctx, attn_out |-> attn_out, resid_1 |-> resid_1, norm_1 |-> norm_1,
      ff1 |-> ff1, ff_act |-> ff_act, ff2 |-> ff2, resid_2 |-> resid_2, norm_2 |-> norm_2,
      logits |-> logits, next_token |-> <<"argmax", logits>>]

\* Given to the compiler and the runtime by its caller, not by the adapter; each
\* row of its caches and each weight is drawn by itself.
build_tiny_voice_decoder_graph(d_model, d_ff, vocab_size, cache_len) ==
  DecoderGraph([d_model |-> d_model, d_ff |-> d_ff, vocab_size |-> vocab_size, cache_len |-> cache_len])

-----------------------------------------------------------------------------
IsDecoder == \E c \in TinyGPTConfigs : graph = DecoderGraph(c)

\* Whatever backends the ops run on, the compiled decode step computes, in exact
\* arithmetic, every value of the eager reference, which is written without the
\* graph, the schedule and the executor.
DecodeMatchesReference ==
  (running = "ran" /\ IsDecoder) =>
    LET reference == eager_reference(given, Shape("k_cache")[1]) IN
    \A name \in DOMAIN reference : values[name] = reference[name]

\* A decode step leaves the window of the last cache_len keys and values of the
\* whole prompt, old ones dropped and zeros first: the caches that prefilling
\* makes of the prompt followed by any token.
CacheIsWindow ==
  (running = "ran" /\ adapter = "step") =>
    LET hidden == Hidden(step[1].prompt_token_ids)
        len    == step[1].config.cache_len
        Window(w) == <<"rows">> \o LastRows([i \in 1 .. len |-> <<"zeros">>]
                          \o [i \in DOMAIN hidden |-> <<"matmul", hidden[i], <<w>>>>], len)
        Next_(w)  == PrefilledCache(Append(hidden, <<"next">>), w, len)
    IN /\ values["k_all"] = Window("w_k") /\ Window("w_k") = Next_("w_k")
       /\ values["v_all"] = Window("w_v") /\ Window("w_v") = Next_("w_v")
=============================================================================
