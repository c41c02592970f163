-------------------------- MODULE Toolchain_proofs ---------------------------
(***************************************************************************)
(* The toolchain for any graphs, configurations and prompts: each of its   *)
(* parts does to its variables what it does by itself, so that what holds  *)
(* of the compiler and of the two schedulers holds of them here, and the   *)
(* runtime finds in a compiled program every value it asks for.            *)
(***************************************************************************)
EXTENDS Toolchain, Stages_proofs
-----------------------------------------------------------------------------
(* The compiler among the other parts of the toolchain.                    *)

LEMMA ToolchainCompilerStep ==
  ASSUME [ToolchainNext]_toolchainVars
  PROVE  [CompilerNext]_compilerVars
<1>1. CASE CompileGraph \/ CompilerSteps
  BY <1>1 DEF CompileGraph, Nothing, CompilerNext
<1>2. CASE TinyGPTSteps
  <2>1. CASE CompileStep
    BY <2>1 DEF CompileStep, CompilerNext
  <2>2. CASE BuildStep \/ RunStep
    BY <2>2 DEF BuildStep, RunStep
  <2> QED BY <1>2, <2>1, <2>2 DEF TinyGPTSteps
<1>3. CASE UNCHANGED toolchainVars \/ UNCHANGED streamVars
  BY <1>3 DEF toolchainVars, streamVars
<1>4. CASE UNCHANGED compilerVars
  BY <1>4
<1> QED BY <1>1, <1>2, <1>3, <1>4 DEF ToolchainNext

\* Whoever calls the compiler, the caller of the toolchain or the adapter of
\* the tiny GPT, and whatever runs after it, does to its variables what the
\* compiler does by itself.
THEOREM ToolchainCompiles == ToolchainSpec => CompilerSpec
<1>1. ToolchainInit => CompilerInit
  BY DEF ToolchainInit
<1>2. [ToolchainNext]_toolchainVars => [CompilerNext]_compilerVars
  BY ToolchainCompilerStep
<1> QED BY <1>1, <1>2, PTL DEF ToolchainSpec, CompilerSpec

\* Types are kept in every state of the toolchain.
THEOREM ToolchainTypeCorrect == ToolchainSpec => []CompilerTypeOK
<1>1. CompilerInv => CompilerTypeOK
  BY DEF CompilerInv
<1> QED BY <1>1, ToolchainCompiles, CompilerInvariance, PTL

\* Nothing but a multiplication of two quantised tensors changes what it made, so
\* that its errors are bounded in every state of the toolchain.
THEOREM ToolchainQuantises == ToolchainSpec => []QuantErrorBounded
<1>1. ToolchainInit => QuantInit
  BY DEF ToolchainInit
<1>2. [ToolchainNext]_toolchainVars => [QuantizeAndMultiply]_product
  BY DEF ToolchainNext, toolchainVars, streamVars, others
<1>3. ToolchainSpec => QuantSpec
  BY <1>1, <1>2, PTL DEF ToolchainSpec, QuantSpec
<1> QED BY <1>3, QuantErrors, PTL

\* _allocate_banks never gives two tensors a byte in common, nor one beyond the
\* end of its bank, for any number of tensors, banks and explicit placements.
THEOREM ToolchainAllocations == ToolchainSpec => []AllocationsDisjoint
<1>1. CompilerInv => AllocationsDisjoint
  <2> SUFFICES ASSUME CompilerInv PROVE AllocationsDisjoint
    OBVIOUS
  <2> DEFINE Allocation == [tensor : STRING, bank : 0 .. hw.num_banks - 1, offset : Nat, size_bytes : Nat]
             End(i) == allocations[i].offset + allocations[i].size_bytes
  <2>1. allocations \in Seq(Allocation)
    BY DEF CompilerInv, CompilerTypeOK
  <2>2. \A i \in DOMAIN allocations : i \in Nat /\ allocations[i] \in Allocation
    <3> HIDE DEF Allocation
    <3> QED BY <2>1
  <2>3. \A i \in DOMAIN allocations : /\ allocations[i].bank \in 0 .. hw.num_banks - 1
                                      /\ End(i) \in Nat
    BY <2>2
  <2>4. hw.bank_size_bytes \in Nat /\ bank_offsets \in [0 .. hw.num_banks - 1 -> Nat]
    BY DEF CompilerInv, CompilerTypeOK, ArgsOK, ArgsOf, Hw
  <2>5. \A i \in DOMAIN allocations : End(i) <= hw.bank_size_bytes
    <3> SUFFICES ASSUME NEW i \in DOMAIN allocations PROVE End(i) <= hw.bank_size_bytes
      OBVIOUS
    <3>1. /\ End(i) <= bank_offsets[allocations[i].bank]
          /\ bank_offsets[allocations[i].bank] <= hw.bank_size_bytes
          /\ bank_offsets[allocations[i].bank] \in Nat
      BY <2>3, <2>4 DEF CompilerInv, Filled
    <3> HIDE DEF End
    <3> QED BY <2>3, <2>4, <3>1
  <2>6. \A i, j \in DOMAIN allocations :
          i < j /\ allocations[i].bank = allocations[j].bank => End(i) <= allocations[j].offset
    BY DEF CompilerInv, Filled
  <2>7. \A i, j \in DOMAIN allocations : i = j \/ i < j \/ j < i
    BY <2>2
  <2> QED BY <2>5, <2>6, <2>7 DEF AllocationsDisjoint
<1> QED BY <1>1, ToolchainCompiles, CompilerInvariance, PTL

\* What is scheduled finds its operands computed and its results allocated, for
\* any graph: validate refuses the others before the schedule begins.
THEOREM ToolchainOperands == ToolchainSpec => []OperandsReady
<1>1. CompilerInv => OperandsReady
  <2> SUFFICES ASSUME CompilerInv, NEW i \in DOMAIN schedule
               PROVE  /\ Ins(schedule[i]) \subseteq
                           graph.inputs \cup Weights
                             \cup UNION {Outs(schedule[j]) : j \in 1 .. i - 1}
                      /\ Outs(schedule[i]) \subseteq
                           {allocations[j].tensor : j \in DOMAIN allocations}
    BY DEF OperandsReady
  <2>1. /\ Len(schedule) \in Nat /\ Len(graph.ops) \in Nat /\ i \in 1 .. Len(graph.ops)
        /\ i \in Nat /\ \A j \in 1 .. i : j \in DOMAIN schedule
    <3>1. Len(schedule) \in Nat
      BY DEF CompilerInv, ScheduleIsSeq
    <3>2. Len(graph.ops) \in Nat
      BY DEF CompilerInv, ArgsOK, ArgsOf
    <3>3. DOMAIN schedule = 1 .. Len(schedule) /\ Len(schedule) <= Len(graph.ops)
      BY DEF CompilerInv, Prefixes
    <3> QED BY <3>1, <3>2, <3>3
  <2>2. \A j \in 1 .. i : Outs(schedule[j]) = Outs(graph.ops[j])
    BY <2>1 DEF CompilerInv, Prefixes, Outs
  <2>3. Ins(schedule[i]) = Ins(graph.ops[i])
    BY DEF CompilerInv, Prefixes, Ins
  <2>4. schedule # <<>>
    BY <2>1
  <2>5. Validated(Len(graph.ops)) /\ Len(allocations) = Len(graph.tensors)
    BY <2>4 DEF CompilerInv, Stages
  <2>6. Ins(graph.ops[i]) \subseteq KnownBefore(i) /\ Outs(graph.ops[i]) \subseteq TensorNames
    BY <2>1, <2>5 DEF Validated
  <2>7. UNION {Outs(schedule[j]) : j \in 1 .. i - 1} = UNION {Outs(graph.ops[j]) : j \in 1 .. i - 1}
    <3>1. \A j \in 1 .. i - 1 : Outs(schedule[j]) = Outs(graph.ops[j])
      BY <2>1, <2>2
    <3> QED BY <3>1
  <2>8. TensorNames = {allocations[j].tensor : j \in DOMAIN allocations}
    <3>1. DOMAIN allocations = DOMAIN graph.tensors
      BY <2>5 DEF CompilerInv, CompilerTypeOK, ArgsOK, ArgsOf
    <3> QED BY <3>1 DEF TensorNames, CompilerInv, Prefixes
  <2>9. i \in 1 .. i
    BY <2>1
  <2> QED BY <2>2, <2>3, <2>6, <2>7, <2>8, <2>9 DEF KnownBefore
<1> QED BY <1>1, ToolchainCompiles, CompilerInvariance, PTL

-----------------------------------------------------------------------------
(* The adapter, the runtime and the vector collector.                      *)

\* A step is that of a valid prompt, and is what is compiled.
TinyInv ==
  /\ adapter \in {"idle", "step", "ValueError"}
  /\ adapter = "step" =>
       \E tokens \in Prompts, c \in TinyGPTConfigs :
         /\ ValidTokens(tokens, c) /\ step = <<TinyGPTStep(tokens, c)>>
         /\ compiling # "idle" => graph = DecoderGraph(c)

Called == {"matmul", "attention"}

\* What has been stored is what validate knew before the op in turn.
RuntimeInv ==
  /\ running \in {"no", "yes", "ran"} \cup Called \cup Errors
  /\ running # "no" => compiling = "compiled" /\ \E c \in RuntimeConfigs(graph) : config = <<c>>
  /\ ran \in Nat /\ ran <= Len(schedule)
  /\ running = "no" => ran = 0
  /\ running \in Called => ran < Len(schedule)
  /\ running = "ran" => ran = Len(schedule)
  /\ running # "no" /\ OneOutputEach => KnownBefore(ran + 1) \subseteq DOMAIN values
  /\ running \in {"KeyError", "IndexError"} => ~OneOutputEach

CollectorInv ==
  /\ collecting # "no" => running \in {"ran"} \cup Errors
  /\ collecting = "no" => collected = 0
  /\ collected \in Nat /\ collected <= Len(schedule)
  /\ collecting \in Called => collected < Len(schedule)

ToolchainInv == CompilerInv /\ ProgramInv /\ TinyInv /\ RuntimeInv /\ CollectorInv

-----------------------------------------------------------------------------
(* The compiler at rest.                                                   *)

LEMMA CompilerMovesOn ==
  ASSUME [CompilerNext]_compilerVars, compiling # "idle"
  PROVE  UNCHANGED compilerArgs /\ compiling' # "idle"
<1>1. CASE UNCHANGED compilerVars
  BY <1>1 DEF compilerVars
<1>2. CASE CompilerSteps
  <2>1. \A op : Refusal(op) # "idle"
    BY DEF Refusal
  <2> QED BY <1>2, <2>1 DEF CompilerSteps, ValidateOp, ValidateOutputs, AllocateTensor, AllocatedAll,
             ScheduleOp, ScheduledAll, Raise
<1> QED BY <1>1, <1>2 DEF CompilerNext

LEMMA CompiledStays ==
  ASSUME [CompilerNext]_compilerVars, compiling = "compiled"
  PROVE  UNCHANGED compilerVars /\ graph' = graph /\ schedule' = schedule /\ compiling' = compiling
<1>1. UNCHANGED compilerVars
  BY DEF CompilerNext, CompilerSteps, ValidateOp, ValidateOutputs, AllocateTensor, AllocatedAll,
         ScheduleOp, ScheduledAll
<1> QED BY <1>1 DEF compilerVars, compilerArgs

-----------------------------------------------------------------------------
(* The adapter gives the runtime every input and weight of its graph.      *)

LEMMA Concatenated ==
  ASSUME NEW S, NEW s \in Seq(S), NEW t \in Seq(S)
  PROVE  /\ s \o t \in Seq(S) /\ Len(s \o t) = Len(s) + Len(t)
         /\ \A i \in 1 .. Len(s) + Len(t) : (s \o t)[i] = IF i <= Len(s) THEN s[i] ELSE t[i - Len(s)]
<1>1. s \o t \in Seq(S)
  OBVIOUS
<1>2. Len(s \o t) = Len(s) + Len(t)
  OBVIOUS
<1>3. \A i \in 1 .. Len(s) + Len(t) : (s \o t)[i] = IF i <= Len(s) THEN s[i] ELSE t[i - Len(s)]
  OBVIOUS
<1> QED BY <1>1, <1>2, <1>3

LEMMA OneThenTwo ==
  ASSUME NEW S, NEW s \in Seq(S), NEW t \in Seq(S), Len(s) = 1, Len(t) = 2
  PROVE  /\ s \o t \in Seq(S) /\ Len(s \o t) = 3
         /\ (s \o t)[2] = t[1] /\ (s \o t)[3] = t[2]
<1> DEFINE both == s \o t
<1>1. /\ both \in Seq(S) /\ Len(both) = Len(s) + Len(t)
      /\ \A i \in 1 .. Len(s) + Len(t) : both[i] = IF i <= Len(s) THEN s[i] ELSE t[i - Len(s)]
  BY Concatenated, Zenon
<1> HIDE DEF both
<1>2. 2 \in 1 .. 1 + 2 /\ 3 \in 1 .. 1 + 2 /\ ~(2 <= 1) /\ ~(3 <= 1) /\ 2 - 1 = 1 /\ 3 - 1 = 2 /\ 1 + 2 = 3
  OBVIOUS
<1>3. both[2] = t[1] /\ both[3] = t[2]
  BY <1>1, <1>2, Zenon
<1> QED BY <1>1, <1>2, <1>3 DEF both

LEMMA DecoderTensorsAre ==
  ASSUME NEW c \in TinyGPTConfigs, graph = DecoderGraph(c)
  PROVE  /\ \A i \in DOMAIN graph.tensors : graph.tensors[i].is_weight => graph.tensors[i].name \in WeightNames
         /\ {2, 3} \subseteq DOMAIN graph.tensors
         /\ graph.tensors[2].name = "k_cache" /\ graph.tensors[2].shape[1] = c.cache_len
         /\ graph.tensors[3].name = "v_cache" /\ graph.tensors[3].shape[1] = c.cache_len
<1> DEFINE Others == {"x", "k_cache", "v_cache", "q", "k_new", "v_new", "attn_ctx", "attn_out",
                      "resid_1", "norm_1", "ff1", "ff_act", "ff2", "resid_2", "norm_2", "logits",
                      "k_all", "v_all", "next_token"}
           Spec(w, name, shp) ==
             [name |-> name, shape |-> shp, nbytes |-> 4, is_weight |-> w, bank |-> {}]
           Add(w, names, shp) == [i \in DOMAIN names |-> Spec(w, names[i], shp)]
           Made == {Spec(FALSE, name, shp) : name \in Others, shp \in Seq(Nat)}
                     \cup {Spec(TRUE, name, shp) : name \in WeightNames, shp \in Seq(Nat)}
           d   == c.d_model
<1>1. d \in Nat /\ c.d_ff \in Nat /\ c.cache_len \in Nat /\ c.vocab_size \in Nat
  BY TinyGPTAssumption
<1>2. \A names \in Seq(Others), shp \in Seq(Nat) : Add(FALSE, names, shp) \in Seq(Made)
  BY SMTT(30)
<1>3. \A names \in Seq(WeightNames), shp \in Seq(Nat) : Add(TRUE, names, shp) \in Seq(Made)
  OBVIOUS
<1> DEFINE a1  == Add(FALSE, <<"x">>, <<1, d>>)
           a2  == Add(FALSE, <<"k_cache", "v_cache">>, <<c.cache_len, d>>)
           a3  == Add(TRUE, <<"w_q", "w_k", "w_v", "w_o">>, <<d, d>>)
           a4  == Add(TRUE, <<"gamma_1">>, <<d>>)
           a5  == Add(TRUE, <<"w_ff1">>, <<d, c.d_ff>>)
           a6  == Add(TRUE, <<"w_ff2">>, <<c.d_ff, d>>)
           a7  == Add(TRUE, <<"gamma_2">>, <<d>>)
           a8  == Add(TRUE, <<"w_vocab">>, <<d, c.vocab_size>>)
           a9  == Add(FALSE, <<"q", "k_new", "v_new", "attn_ctx", "attn_out", "resid_1", "norm_1">>, <<1, d>>)
           a10 == Add(FALSE, <<"ff1", "ff_act">>, <<1, c.d_ff>>)
           a11 == Add(FALSE, <<"ff2", "resid_2", "norm_2">>, <<1, d>>)
           a12 == Add(FALSE, <<"logits">>, <<1, c.vocab_size>>)
           a13 == Add(FALSE, <<"k_all", "v_all">>, <<c.cache_len, d>>)
           a14 == Add(FALSE, <<"next_token">>, <<1>>)
<1>4. graph.tensors = a1 \o a2 \o a3 \o a4 \o a5 \o a6 \o a7 \o a8 \o a9 \o a10 \o a11 \o a12 \o a13 \o a14
  BY DEF DecoderGraph, DecoderTensors
<1>5. \A a, b \in Nat : <<a, b>> \in Seq(Nat) /\ <<a>> \in Seq(Nat)
  OBVIOUS
<1>6. \A a \in WeightNames : <<a>> \in Seq(WeightNames)
  OBVIOUS
<1>7. \A spec \in Made : spec.is_weight => spec.name \in WeightNames
  OBVIOUS
<1> DEFINE k == Spec(FALSE, "k_cache", <<c.cache_len, d>>)
           v == Spec(FALSE, "v_cache", <<c.cache_len, d>>)
<1>17. DOMAIN a1 = 1 .. 1 /\ DOMAIN a2 = 1 .. 2 /\ a2[1] = k /\ a2[2] = v
  <2>1. DOMAIN <<"x">> = 1 .. 1 /\ DOMAIN <<"k_cache", "v_cache">> = 1 .. 2
    OBVIOUS
  <2>2. <<"k_cache", "v_cache">>[1] = "k_cache" /\ <<"k_cache", "v_cache">>[2] = "v_cache"
    OBVIOUS
  <2> HIDE DEF Spec
  <2>3. DOMAIN a1 = DOMAIN <<"x">> /\ DOMAIN a2 = DOMAIN <<"k_cache", "v_cache">>
    OBVIOUS
  <2>4. 1 \in 1 .. 2 /\ 2 \in 1 .. 2
    OBVIOUS
  <2>5. \A i \in 1 .. 2 : a2[i] = Spec(FALSE, <<"k_cache", "v_cache">>[i], <<c.cache_len, d>>)
    BY <2>1
  <2>6. a2[1] = k /\ a2[2] = v
    BY <2>2, <2>4, <2>5
  <2> QED BY <2>1, <2>3, <2>6
<1>18. k.name = "k_cache" /\ k.shape[1] = c.cache_len /\ v.name = "v_cache" /\ v.shape[1] = c.cache_len
  OBVIOUS
<1> HIDE DEF Add, Made, d, Others, k, v
<1>8. /\ <<"x">> \in Seq(Others) /\ <<"logits">> \in Seq(Others) /\ <<"next_token">> \in Seq(Others)
      /\ <<"k_cache", "v_cache">> \in Seq(Others) /\ <<"ff1", "ff_act">> \in Seq(Others)
      /\ <<"k_all", "v_all">> \in Seq(Others)
  BY DEF Others
<1>9. /\ <<"q", "k_new", "v_new", "attn_ctx", "attn_out", "resid_1", "norm_1">> \in Seq(Others)
      /\ <<"ff2", "resid_2", "norm_2">> \in Seq(Others)
  BY DEF Others
<1>10. a1 \in Seq(Made) /\ a2 \in Seq(Made) /\ a10 \in Seq(Made) /\ a12 \in Seq(Made)
       /\ a13 \in Seq(Made) /\ a14 \in Seq(Made)
  BY <1>1, <1>2, <1>5, <1>8
<1>11. a9 \in Seq(Made) /\ a11 \in Seq(Made)
  BY <1>1, <1>2, <1>5, <1>9
<1>12. a3 \in Seq(Made)
  <2>1. <<"w_q", "w_k", "w_v", "w_o">> \in Seq(WeightNames)
    BY DEF WeightNames
  <2> QED BY <1>1, <1>3, <1>5, <2>1
<1>13. a4 \in Seq(Made) /\ a5 \in Seq(Made) /\ a6 \in Seq(Made) /\ a7 \in Seq(Made) /\ a8 \in Seq(Made)
  <2>1. /\ "gamma_1" \in WeightNames /\ "w_ff1" \in WeightNames /\ "w_ff2" \in WeightNames
        /\ "gamma_2" \in WeightNames /\ "w_vocab" \in WeightNames
    BY DEF WeightNames
  <2> QED BY <1>1, <1>3, <1>5, <1>6, <2>1
<1> HIDE DEF a1, a2, a3, a4, a5, a6, a7, a8, a9, a10, a11, a12, a13, a14
<1> DEFINE Starts(s) == s \in Seq(Made) /\ Len(s) >= 3 /\ s[2] = k /\ s[3] = v
<1>14. Starts(a1 \o a2)
  <2>1. a1 \in Seq(Made) /\ a2 \in Seq(Made)
    BY <1>10
  <2>2. Len(a1) = 1 /\ Len(a2) = 2
    BY <1>17, <2>1
  <2>3. /\ a1 \o a2 \in Seq(Made) /\ Len(a1 \o a2) = 3
        /\ (a1 \o a2)[2] = a2[1] /\ (a1 \o a2)[3] = a2[2]
    BY <2>1, <2>2, OneThenTwo
  <2> QED BY <1>17, <2>3
<1>15. \A s, t : Starts(s) /\ t \in Seq(Made) => Starts(s \o t)
  <2> SUFFICES ASSUME NEW s, NEW t, Starts(s), t \in Seq(Made) PROVE Starts(s \o t)
    OBVIOUS
  <2>1. s \o t \in Seq(Made) /\ Len(s \o t) = Len(s) + Len(t) /\ Len(s) \in Nat /\ Len(t) \in Nat
    OBVIOUS
  <2>2. (s \o t)[2] = s[2] /\ (s \o t)[3] = s[3]
    OBVIOUS
  <2> QED BY <2>1, <2>2
<1> HIDE DEF Starts
<1>16. Starts(graph.tensors)
  BY <1>4, <1>10, <1>11, <1>12, <1>13, <1>14, <1>15
<1>19. /\ graph.tensors \in Seq(Made) /\ Len(graph.tensors) >= 3
       /\ graph.tensors[2] = k /\ graph.tensors[3] = v
  BY <1>16 DEF Starts
<1>20. {2, 3} \subseteq DOMAIN graph.tensors /\ \A i \in DOMAIN graph.tensors : graph.tensors[i] \in Made
  BY <1>19
<1> QED BY <1>7, <1>18, <1>19, <1>20

LEMMA DecoderSupplied ==
  ASSUME NEW c \in TinyGPTConfigs, graph = DecoderGraph(c)
  PROVE  graph.inputs \cup Weights \subseteq {"x", "k_cache", "v_cache"} \cup WeightNames
<1>1. graph.inputs = {"x", "k_cache", "v_cache"}
  BY DEF DecoderGraph
<1>2. Weights \subseteq WeightNames
  BY DecoderTensorsAre DEF Weights
<1> QED BY <1>1, <1>2

\* Its caches have a row for each of the last tokens.
LEMMA DecoderCaches ==
  ASSUME NEW c \in TinyGPTConfigs, graph = DecoderGraph(c), ProgramInv, compiling # "idle"
  PROVE  Shape("k_cache")[1] = c.cache_len /\ Shape("v_cache")[1] = c.cache_len
<1>1. \A i, j \in DOMAIN graph.tensors : graph.tensors[i].name = graph.tensors[j].name => i = j
  <2>1. PICK g \in Compilations : graph = g.graph
    BY DEF ProgramInv, GivenArgs
  <2> QED BY <2>1, CompilerAssumption
<1>2. /\ 2 \in DOMAIN graph.tensors /\ 3 \in DOMAIN graph.tensors
      /\ graph.tensors[2].name = "k_cache" /\ graph.tensors[2].shape[1] = c.cache_len
      /\ graph.tensors[3].name = "v_cache" /\ graph.tensors[3].shape[1] = c.cache_len
  BY DecoderTensorsAre
<1>3. (CHOOSE i \in DOMAIN graph.tensors : graph.tensors[i].name = "k_cache") = 2
  BY <1>1, <1>2
<1>4. (CHOOSE i \in DOMAIN graph.tensors : graph.tensors[i].name = "v_cache") = 3
  BY <1>1, <1>2
<1> QED BY <1>2, <1>3, <1>4 DEF Shape, TensorSpec

-----------------------------------------------------------------------------
(* An op of a compiled program finds its operands.                         *)

LEMMA ComplaintKinds ==
  ASSUME NEW op, NEW vals, NEW accelerated
  PROVE  Complaint(op, vals, accelerated) \in {"none", "ValueError", "KeyError", "IndexError"}
<1>1. Fetch(op, vals, accelerated) \in {"none", "KeyError", "IndexError"}
  BY DEF Fetch
<1> QED BY <1>1 DEF Complaint

\* The op in turn, at any place of the schedule of a compiled graph.
LEMMA ScheduledOp ==
  ASSUME CompilerInv, ProgramInv, NEW i \in Nat, i < Len(schedule)
  PROVE  LET op == schedule[i + 1] g == graph.ops[i + 1] IN
         /\ i + 1 \in DOMAIN schedule /\ i + 1 \in DOMAIN graph.ops
         /\ op.kind = g.kind /\ op.inputs = g.inputs /\ op.outputs = g.outputs /\ op.max_len = g.max_len
         /\ Refusal(g) = "none"
         /\ g.inputs \in Seq(STRING) /\ g.outputs \in Seq(STRING)
<1>1. Len(schedule) \in Nat /\ DOMAIN schedule = 1 .. Len(schedule) /\ i + 1 \in DOMAIN schedule
  BY DEF CompilerInv, ScheduleIsSeq
<1>2. /\ Len(graph.ops) \in Nat /\ DOMAIN graph.ops = 1 .. Len(graph.ops)
  BY DEF CompilerInv, ArgsOK, ArgsOf
<1>3. i + 1 \in DOMAIN graph.ops
  BY <1>1, <1>2 DEF CompilerInv, Prefixes
<1>4. /\ schedule[i + 1].inputs = graph.ops[i + 1].inputs
      /\ schedule[i + 1].outputs = graph.ops[i + 1].outputs
  BY <1>1 DEF CompilerInv, Prefixes
<1>5. /\ schedule[i + 1].kind = graph.ops[i + 1].kind
      /\ schedule[i + 1].max_len = graph.ops[i + 1].max_len
      /\ Refusal(graph.ops[i + 1]) = "none"
  BY <1>1 DEF ProgramInv, ScheduledOps
<1>6. graph.ops[i + 1].inputs \in Seq(STRING) /\ graph.ops[i + 1].outputs \in Seq(STRING)
  BY <1>3 DEF CompilerInv, ArgsOK, ArgsOf
<1> QED BY <1>1, <1>3, <1>4, <1>5, <1>6

LEMMA OneOfThem ==
  ASSUME NEW S, NEW s \in Seq(S), Len(s) = 1
  PROVE  s # <<>> /\ DOMAIN s = {1}
<1>1. s # <<>>
  OBVIOUS
<1>2. DOMAIN s = 1 .. 1
  OBVIOUS
<1> QED BY <1>1, <1>2

LEMMA FetchFinds ==
  ASSUME CompilerInv, ProgramInv, compiling = "compiled", OneOutputEach,
         NEW i \in Nat, i < Len(schedule), NEW vals, KnownBefore(i + 1) \subseteq DOMAIN vals,
         NEW accelerated
  PROVE  Complaint(schedule[i + 1], vals, accelerated) \in {"none", "ValueError"}
<1> DEFINE op == schedule[i + 1]
           g  == graph.ops[i + 1]
<1>1. /\ i + 1 \in DOMAIN graph.ops
      /\ op.kind = g.kind /\ op.inputs = g.inputs /\ op.outputs = g.outputs /\ op.max_len = g.max_len
      /\ Refusal(g) = "none" /\ g.inputs \in Seq(STRING) /\ g.outputs \in Seq(STRING)
  BY ScheduledOp
<1>2. /\ Len(g.outputs) = 1 /\ Len(g.inputs) >= Arity(g.kind)
      /\ g.kind = "append_cache" => g.max_len # {}
  BY <1>1 DEF OneOutputEach
<1>3. g.kind \in Elementwise \cup Binary \cup {"softmax"}
  BY <1>1 DEF Refusal
<1>4. Arity(g.kind) \in 1 .. 3
  BY <1>3 DEF Elementwise, Binary, Arity
<1>5. Ins(g) \subseteq DOMAIN vals
  <2>1. Validated(Len(graph.ops)) /\ Len(graph.ops) \in Nat
    BY DEF CompilerInv, Stages, ArgsOK, ArgsOf
  <2>2. i + 1 \in 1 .. Len(graph.ops)
    BY <1>1 DEF CompilerInv, ArgsOK, ArgsOf
  <2> QED BY <2>1, <2>2 DEF Validated
<1>6. \A j \in 1 .. Arity(g.kind) : j <= Len(g.inputs) /\ g.inputs[j] \in DOMAIN vals
  <2>1. \A j \in DOMAIN g.inputs : g.inputs[j] \in DOMAIN vals
    BY <1>5 DEF Ins
  <2>2. \A j \in 1 .. Arity(g.kind) : j <= Len(g.inputs) /\ j \in DOMAIN g.inputs
    BY <1>1, <1>2, <1>4
  <2> QED BY <2>1, <2>2
<1>7. op.outputs # <<>>
  BY <1>1, <1>2, OneOfThem
<1>8. ~(op.kind = "append_cache" /\ op.max_len = {})
  BY <1>1, <1>2
<1> HIDE DEF op, g
<1>9. Fetch(op, vals, accelerated) = "none"
  <2>1. \A j \in 1 .. Arity(op.kind) : ~(j > Len(op.inputs)) /\ op.inputs[j] \in DOMAIN vals
    BY <1>1, <1>2, <1>4, <1>6
  <2>2. {j \in 1 .. Arity(op.kind) : j > Len(op.inputs) \/ op.inputs[j] \notin DOMAIN vals} = {}
    BY <2>1
  <2> QED BY <2>2 DEF Fetch
<1>10. Complaint(op, vals, accelerated) \in {"none", "ValueError"}
  BY <1>7, <1>8, <1>9 DEF Complaint
<1> QED BY <1>10 DEF op

\* Storing the one output of an op makes known what validate knows after it.
LEMMA StoredKnown ==
  ASSUME CompilerInv, ProgramInv, OneOutputEach,
         NEW i \in Nat, i < Len(schedule), NEW vals, KnownBefore(i + 1) \subseteq DOMAIN vals
  PROVE  KnownBefore(i + 2) \subseteq DOMAIN Stored(schedule[i + 1], vals)
<1> DEFINE op == schedule[i + 1]
           g  == graph.ops[i + 1]
<1>1. i + 1 \in DOMAIN graph.ops /\ op.outputs = g.outputs /\ g.outputs \in Seq(STRING)
  BY ScheduledOp
<1>2. Len(g.outputs) = 1
  BY <1>1 DEF OneOutputEach
<1>3. Outs(g) = {op.outputs[1]}
  <2>1. DOMAIN g.outputs = {1}
    BY <1>1, <1>2, OneOfThem
  <2> QED BY <1>1, <2>1 DEF Outs
<1>4. KnownBefore(i + 2) = KnownBefore(i + 1) \cup Outs(g)
  <2> DEFINE before == 1 .. (i + 1) - 1
             upto   == 1 .. (i + 2) - 1
             All  == UNION {Outs(graph.ops[j]) : j \in upto}
             Past == UNION {Outs(graph.ops[j]) : j \in before}
  <2>1. \A j : j \in upto <=> j \in before \/ j = i + 1
    OBVIOUS
  <2>2. KnownBefore(i + 2) = graph.inputs \cup Weights \cup All
    BY DEF KnownBefore
  <2>3. KnownBefore(i + 1) = graph.inputs \cup Weights \cup Past
    BY DEF KnownBefore
  <2> HIDE DEF before, upto
  <2>4. \A x : x \in All <=> \E j \in upto : x \in Outs(graph.ops[j])
    BY Zenon
  <2>5. \A x : x \in Past <=> \E j \in before : x \in Outs(graph.ops[j])
    BY Zenon
  <2> HIDE DEF All, Past
  <2>6. All = Past \cup Outs(g)
    BY <2>1, <2>4, <2>5
  <2> QED BY <2>2, <2>3, <2>6
<1>5. DOMAIN Stored(op, vals) = DOMAIN vals \cup {op.outputs[1]}
  BY DEF Stored
<1> QED BY <1>3, <1>4, <1>5

LEMMA SameProgram ==
  ASSUME graph' = graph
  PROVE  /\ OneOutputEach' <=> OneOutputEach
         /\ \A m : KnownBefore(m)' = KnownBefore(m)
         /\ RuntimeConfigs(graph)' = RuntimeConfigs(graph)
BY DEF OneOutputEach, KnownBefore, Weights

-----------------------------------------------------------------------------
(* Every step keeps the three invariants.                                  *)

LEMMA ToolchainStarts == ToolchainInit => ToolchainInv
<1> SUFFICES ASSUME ToolchainInit PROVE ToolchainInv
  OBVIOUS
<1>1. CompilerInv /\ ProgramInv
  BY CompilerStarts, ProgramStarts DEF ToolchainInit
<1>2. TinyInv
  BY DEF ToolchainInit, TinyGPTInit, TinyInv
<1>3. RuntimeInv
  <2>1. schedule = <<>> /\ ran = 0 /\ running = "no"
    BY DEF ToolchainInit, CompilerInit, RuntimeInit
  <2> QED BY <2>1 DEF RuntimeInv, Called, Errors
<1>4. CollectorInv
  <2>1. schedule = <<>> /\ collected = 0 /\ collecting = "no"
    BY DEF ToolchainInit, CompilerInit, VectorInit
  <2> QED BY <2>1 DEF CollectorInv, Called
<1> QED BY <1>1, <1>2, <1>3, <1>4 DEF ToolchainInv

LEMMA ScheduleLength ==
  ASSUME CompilerInv
  PROVE  Len(schedule) \in Nat
BY DEF CompilerInv, ScheduleIsSeq

LEMMA TinyKept ==
  ASSUME ToolchainInv, [ToolchainNext]_toolchainVars, UNCHANGED tinyVars
  PROVE  TinyInv'
<1>1. adapter' = adapter /\ step' = step /\ TinyInv
  BY DEF tinyVars, ToolchainInv
<1>2. CASE adapter = "step"
  <2>1. PICK tokens \in Prompts, c \in TinyGPTConfigs :
          /\ ValidTokens(tokens, c) /\ step = <<TinyGPTStep(tokens, c)>>
          /\ compiling # "idle" => graph = DecoderGraph(c)
    BY <1>1, <1>2 DEF TinyInv
  <2>2. compiling' # "idle" => graph' = DecoderGraph(c)
    <3>1. CASE compiling # "idle"
      BY <2>1, <3>1, CompilerMovesOn, ToolchainCompilerStep DEF compilerArgs
    <3>2. CASE compiling = "idle" /\ CompileStep
      <4>1. graph' = step[1].graph
        BY <3>2 DEF CompileStep, Compile
      <4>2. step[1].graph = DecoderGraph(c)
        BY <2>1 DEF TinyGPTStep
      <4> QED BY <4>1, <4>2
    <3>3. CASE compiling = "idle" /\ ~CompileStep
      <4>1. ~CompileGraph /\ ~CompilerSteps
        BY <1>2, <3>3 DEF CompileGraph, Nothing, CompilerSteps, ValidateOp, ValidateOutputs,
           AllocateTensor, AllocatedAll, ScheduleOp, ScheduledAll
      <4>2. TinyGPTSteps => UNCHANGED compilerVars
        BY <3>3 DEF TinyGPTSteps, BuildStep, RunStep
      <4>3. UNCHANGED compilerVars
        BY <4>1, <4>2 DEF ToolchainNext, toolchainVars, streamVars
      <4> QED BY <3>3, <4>3 DEF compilerVars
    <3> QED BY <3>1, <3>2, <3>3
  <2> QED BY <1>1, <1>2, <2>1, <2>2 DEF TinyInv
<1> QED BY <1>1, <1>2 DEF TinyInv

LEMMA BuildStepOK ==
  ASSUME BuildStep
  PROVE  TinyInv'
<1>1. compiling' = "idle"
  BY DEF BuildStep, compilerVars
<1>2. PICK tokens \in Prompts, c \in TinyGPTConfigs :
        \/ adapter' = "ValueError"
        \/ ValidTokens(tokens, c) /\ adapter' = "step" /\ step' = <<TinyGPTStep(tokens, c)>>
  BY DEF BuildStep
<1> QED BY <1>1, <1>2 DEF TinyInv

\* A compiled program does not change, and an op of it leaves the rest of the run alone.
LEMMA RuntimeKept ==
  ASSUME CompilerInv', RuntimeInv, [CompilerNext]_compilerVars, UNCHANGED runtimeVars
  PROVE  RuntimeInv'
<1>1. /\ running' = running /\ config' = config /\ ran' = ran /\ values' = values
  BY DEF runtimeVars
<1>2. CASE running = "no"
  <2>1. ran' = 0 /\ Len(schedule') \in Nat
    BY <1>1, <1>2, ScheduleLength DEF RuntimeInv, CompilerInv, ScheduleIsSeq
  <2> QED BY <1>1, <1>2, <2>1 DEF RuntimeInv, Called, Errors
<1>3. CASE running # "no"
  <2>1. graph' = graph /\ schedule' = schedule /\ compiling' = compiling
    BY <1>3, CompiledStays DEF RuntimeInv
  <2> QED BY <1>1, <2>1, SameProgram DEF RuntimeInv
<1> QED BY <1>2, <1>3

LEMMA StartRunStep ==
  ASSUME CompilerInv, RuntimeInv, UNCHANGED compilerVars, NEW inputs,
         StartRun(inputs), graph.inputs \cup Weights \subseteq DOMAIN inputs
  PROVE  RuntimeInv'
<1>1. graph' = graph /\ schedule' = schedule /\ compiling' = compiling
  BY DEF compilerVars, compilerArgs
<1>2. /\ compiling = "compiled" /\ running = "no" /\ running' = "yes" /\ values' = inputs /\ ran' = ran
      /\ \E c \in RuntimeConfigs(graph) : config' = <<c>>
  BY DEF StartRun
<1>3. ran = 0 /\ Len(schedule) \in Nat
  BY <1>2, ScheduleLength DEF RuntimeInv
<1>4. KnownBefore(ran + 1) = graph.inputs \cup Weights
  <2>1. 1 .. (ran + 1) - 1 = {}
    BY <1>3
  <2> QED BY <2>1 DEF KnownBefore
<1> QED BY <1>1, <1>2, <1>3, <1>4, SameProgram DEF RuntimeInv, Called, Errors

\* An op was executed: its output is stored.
LEMMA StoredStep ==
  ASSUME CompilerInv, ProgramInv, RuntimeInv, UNCHANGED compilerVars,
         running \in {"yes"} \cup Called, ran < Len(schedule),
         StoreValue(Op), running' = "yes", config' = config
  PROVE  RuntimeInv'
<1>1. graph' = graph /\ schedule' = schedule /\ compiling' = compiling
  BY DEF compilerVars, compilerArgs
<1>2. ran' = ran + 1 /\ values' = Stored(schedule[ran + 1], values)
  BY DEF StoreValue, Op
<1>3. running # "no" /\ ran \in Nat /\ Len(schedule) \in Nat
  BY ScheduleLength DEF RuntimeInv, Called
<1>4. OneOutputEach => KnownBefore(ran + 2) \subseteq DOMAIN values'
  BY <1>2, <1>3, StoredKnown DEF RuntimeInv
<1>5. ran' + 1 = ran + 2 /\ ran' \in Nat /\ ran' <= Len(schedule)
  BY <1>2, <1>3
<1>6. OneOutputEach' => KnownBefore(ran + 1)' \subseteq DOMAIN values'
  <2>1. KnownBefore(ran + 1)' = KnownBefore(ran + 2)
    BY <1>1, <1>5 DEF KnownBefore, Weights
  <2> QED BY <1>1, <1>4, <2>1, SameProgram
<1> QED BY <1>1, <1>3, <1>5, <1>6, SameProgram DEF RuntimeInv, Called, Errors

LEMMA FailOpStep ==
  ASSUME CompilerInv, ProgramInv, RuntimeInv, UNCHANGED compilerVars, FailOp
  PROVE  RuntimeInv'
<1>1. graph' = graph /\ schedule' = schedule /\ compiling' = compiling
  BY DEF compilerVars, compilerArgs
<1>2. /\ running = "yes" /\ ran < Len(schedule) /\ running' = Complaint(Op, values, Accelerated(Op))
      /\ running' # "none" /\ config' = config /\ values' = values /\ ran' = ran
  BY DEF FailOp, Runs
<1>3. running' \in {"ValueError", "KeyError", "IndexError"}
  BY <1>2, ComplaintKinds
<1>4. /\ compiling = "compiled" /\ ran \in Nat
      /\ OneOutputEach => KnownBefore(ran + 1) \subseteq DOMAIN values
  BY <1>2 DEF RuntimeInv
<1>5. OneOutputEach => running' = "ValueError"
  BY <1>2, <1>3, <1>4, FetchFinds DEF Op
<1> QED BY <1>1, <1>2, <1>3, <1>5, SameProgram DEF RuntimeInv, Called, Errors

LEMMA RuntimeStep ==
  ASSUME ToolchainInv, CompilerInv', [ToolchainNext]_toolchainVars
  PROVE  RuntimeInv'
<1>1. CompilerInv /\ ProgramInv /\ TinyInv /\ RuntimeInv /\ [CompilerNext]_compilerVars
  BY ToolchainCompilerStep DEF ToolchainInv
<1>2. CASE UNCHANGED runtimeVars
  BY <1>1, <1>2, RuntimeKept
<1>3. CASE (RunGraph \/ RuntimeSteps) /\ UNCHANGED compilerVars
  <2>1. CASE RunGraph
    <3>1. StartRun(Supplied) /\ DOMAIN Supplied = graph.inputs \cup Weights
      BY <2>1 DEF RunGraph, Supplied
    <3> QED BY <1>1, <1>3, <3>1, StartRunStep
  <2>2. CASE FailOp
    BY <1>1, <1>3, <2>2, FailOpStep
  <2>3. CASE RunOnFp32
    BY <1>1, <1>3, <2>3, StoredStep DEF RunOnFp32
  <2>4. CASE EndRun
    <3>1. graph' = graph /\ schedule' = schedule /\ compiling' = compiling
      BY <1>3 DEF compilerVars, compilerArgs
    <3>2. /\ running = "yes" /\ running' = "ran" /\ ran = Len(schedule)
          /\ config' = config /\ values' = values /\ ran' = ran
      BY <2>4 DEF EndRun
    <3> QED BY <1>1, <3>1, <3>2, SameProgram DEF RuntimeInv, Called, Errors
  <2>5. CASE RunInt8Matmul \/ RunAttentionDecode
    <3>1. graph' = graph /\ schedule' = schedule /\ compiling' = compiling
      BY <1>3 DEF compilerVars, compilerArgs
    <3>2. /\ running = "yes" /\ running' \in Called /\ ran < Len(schedule)
          /\ config' = config /\ values' = values /\ ran' = ran
      BY <2>5 DEF RunInt8Matmul, RunAttentionDecode, Called
    <3> QED BY <1>1, <3>1, <3>2, SameProgram DEF RuntimeInv, Called, Errors
  <2>6. CASE EndInt8Matmul \/ EndAttentionDecode
    <3>1. running \in Called /\ running' = "yes" /\ StoreValue(Op) /\ config' = config
      BY <2>6 DEF EndInt8Matmul, EndAttentionDecode, Called
    <3>2. ran < Len(schedule)
      BY <1>1, <3>1 DEF RuntimeInv
    <3> QED BY <1>1, <1>3, <3>1, <3>2, StoredStep
  <2>7. CASE BackendSteps
    BY <1>1, <2>7, RuntimeKept DEF BackendSteps
  <2> QED BY <1>3, <2>1, <2>2, <2>3, <2>4, <2>5, <2>6, <2>7 DEF RuntimeSteps
<1>4. CASE RunStep
  <2>1. PICK tokens \in Prompts, c \in TinyGPTConfigs :
          /\ step = <<TinyGPTStep(tokens, c)>>
          /\ compiling # "idle" => graph = DecoderGraph(c)
    BY <1>1, <1>4 DEF RunStep, TinyInv
  <2>2. graph = DecoderGraph(c)
    BY <1>4, <2>1 DEF RunStep, StartRun
  <2>3. DOMAIN step[1].values = {"x", "k_cache", "v_cache"} \cup WeightNames
    BY <2>1 DEF TinyGPTStep
  <2> QED BY <1>1, <1>4, <2>2, <2>3, DecoderSupplied, StartRunStep DEF RunStep
<1>5. CASE UNCHANGED toolchainVars \/ UNCHANGED streamVars
  BY <1>2, <1>5 DEF toolchainVars, streamVars
<1>6. CASE BuildStep \/ CompileStep
  BY <1>2, <1>6 DEF BuildStep, CompileStep
<1> QED BY <1>2, <1>3, <1>4, <1>5, <1>6 DEF ToolchainNext, TinyGPTSteps

\* The runtime is at rest once vectors are collected.
LEMMA RuntimeRests ==
  ASSUME running \in {"ran"} \cup Errors, [ToolchainNext]_toolchainVars
  PROVE  UNCHANGED runtimeVars
<1>1. ~StartRun(Supplied) /\ ~StartRun(step[1].values)
  BY DEF StartRun, Errors
<1>2. RunGraph \/ RuntimeSteps => BackendSteps
  BY <1>1 DEF RunGraph, RuntimeSteps, FailOp, RunOnFp32, EndRun, RunInt8Matmul, EndInt8Matmul,
     RunAttentionDecode, EndAttentionDecode, Errors
<1>3. BackendSteps => UNCHANGED runtimeVars
  BY DEF BackendSteps
<1>4. TinyGPTSteps => UNCHANGED runtimeVars
  BY <1>1 DEF TinyGPTSteps, BuildStep, CompileStep, RunStep
<1> QED BY <1>2, <1>3, <1>4 DEF ToolchainNext, toolchainVars, streamVars

LEMMA CollectorStep ==
  ASSUME ToolchainInv, CompilerInv', RuntimeInv', [ToolchainNext]_toolchainVars
  PROVE  CollectorInv'
<1>1. CompilerInv /\ RuntimeInv /\ CollectorInv /\ [CompilerNext]_compilerVars
  BY ToolchainCompilerStep DEF ToolchainInv
<1>2. Len(schedule) \in Nat /\ Len(schedule') \in Nat
  BY <1>1, ScheduleLength DEF CompilerInv, ScheduleIsSeq
<1>3. CASE running \in {"ran"} \cup Errors
  <2>1. running' = running
    BY <1>3, RuntimeRests DEF runtimeVars
  <2>2. schedule' = schedule
    BY <1>1, <1>3, CompiledStays DEF RuntimeInv, Errors
  <2>3. CASE CollectorSteps
    <3> DEFINE Stays  == collected' = collected /\ (collecting' \in Called => collected < Len(schedule))
               Counts == collected' = collected + 1 /\ collected < Len(schedule) /\ collecting' \notin Called
    <3>1. StartCollecting \/ EndCollecting => collecting' # "no" /\ Stays
      BY DEF StartCollecting, EndCollecting, Called
    <3>2. FailCollect => collecting' # "no" /\ Stays
      BY ComplaintKinds DEF FailCollect, CollectError, Called
    <3>3. CollectOnFp32 => collecting' # "no" /\ Counts
      BY DEF CollectOnFp32, Ready, Keep, Called
    <3>4. CollectMatmul \/ CollectAttention => collecting' # "no" /\ Stays
      BY DEF CollectMatmul, CollectAttention, Ready
    <3>5. EndCollectMatmul \/ EndCollectAttention => collecting' # "no" /\ Counts
      <4>1. ASSUME EndCollectMatmul \/ EndCollectAttention
            PROVE  collecting \in Called /\ collecting' = "yes" /\ collected' = collected + 1
        BY <4>1 DEF EndCollectMatmul, EndCollectAttention, Keep, Called
      <4> QED BY <1>1, <4>1 DEF CollectorInv, Called
    <3>6. collecting' # "no" /\ (Stays \/ Counts)
      BY <2>3, <3>1, <3>2, <3>3, <3>4, <3>5 DEF CollectorSteps
    <3>7. collected \in Nat /\ collected <= Len(schedule)
      BY <1>1 DEF CollectorInv
    <3>8. CASE Stays
      BY <1>3, <2>1, <2>2, <3>6, <3>7, <3>8 DEF CollectorInv
    <3>9. CASE Counts
      <4>1. collected' \in Nat /\ collected' <= Len(schedule)
        BY <1>2, <3>7, <3>9
      <4> QED BY <1>3, <2>1, <2>2, <3>6, <3>9, <4>1 DEF CollectorInv
    <3> QED BY <3>6, <3>8, <3>9
  <2>4. CASE ~CollectorSteps
    <3>1. UNCHANGED vectorVars
      BY <2>4 DEF ToolchainNext, toolchainVars, streamVars
    <3> QED BY <1>1, <1>3, <2>1, <2>2, <3>1 DEF vectorVars, CollectorInv
  <2> QED BY <2>3, <2>4
<1>4. CASE running \notin {"ran"} \cup Errors
  <2>1. collecting = "no" /\ ~CollectorSteps
    BY <1>1, <1>4 DEF CollectorInv, CollectorSteps, StartCollecting, FailCollect, CollectOnFp32, Ready,
       CollectMatmul, EndCollectMatmul, CollectAttention, EndCollectAttention, EndCollecting
  <2>2. UNCHANGED vectorVars
    BY <2>1 DEF ToolchainNext, toolchainVars, streamVars
  <2>3. collected = 0
    BY <1>1, <2>1 DEF CollectorInv
  <2> QED BY <1>1, <1>2, <2>1, <2>2, <2>3 DEF vectorVars, CollectorInv, Called
<1> QED BY <1>3, <1>4

LEMMA TinyStep ==
  ASSUME ToolchainInv, [ToolchainNext]_toolchainVars
  PROVE  TinyInv'
<1>1. CASE UNCHANGED tinyVars
  BY <1>1, TinyKept
<1>2. CASE BuildStep
  BY <1>2, BuildStepOK
<1>3. CASE TinyGPTSteps /\ ~BuildStep
  BY <1>1, <1>3 DEF TinyGPTSteps, CompileStep, RunStep
<1> QED BY <1>1, <1>2, <1>3 DEF ToolchainNext, toolchainVars, streamVars

LEMMA ToolchainStep == ToolchainInv /\ [ToolchainNext]_toolchainVars => ToolchainInv'
<1> SUFFICES ASSUME ToolchainInv, [ToolchainNext]_toolchainVars PROVE ToolchainInv'
  OBVIOUS
<1>1. CompilerInv' /\ ProgramInv'
  BY ToolchainCompilerStep, CompilerStep, ProgramStep DEF ToolchainInv
<1> QED BY <1>1, TinyStep, RuntimeStep, CollectorStep DEF ToolchainInv

\* The inductive invariant of what is built around the compiler.
THEOREM ToolchainInvariance == ToolchainSpec => []ToolchainInv
BY ToolchainStarts, ToolchainStep, PTL DEF ToolchainSpec

\* Running a compiled program never asks for a value that is not there, whatever
\* the graph, the backends selected for its ops and the prompt, and ends with
\* every output of the graph.
THEOREM ToolchainFindsValues == ToolchainSpec => []RuntimeFindsValues
<1>1. ToolchainInv => RuntimeFindsValues
  <2> SUFFICES ASSUME ToolchainInv, compiling = "compiled", OneOutputEach
               PROVE  /\ running \notin {"KeyError", "IndexError"}
                      /\ running = "ran" => graph.outputs \subseteq DOMAIN values
    BY DEF RuntimeFindsValues
  <2>1. running \notin {"KeyError", "IndexError"}
    BY DEF ToolchainInv, RuntimeInv
  <2>2. ASSUME running = "ran" PROVE graph.outputs \subseteq DOMAIN values
    <3>1. ran = Len(graph.ops) /\ KnownBefore(ran + 1) \subseteq DOMAIN values
      BY <2>2 DEF ToolchainInv, RuntimeInv, ProgramInv
    <3>2. graph.outputs \subseteq KnownBefore(Len(graph.ops) + 1)
      BY DEF ToolchainInv, ProgramInv, OutputsKnown
    <3> QED BY <3>1, <3>2
  <2> QED BY <2>1, <2>2
<1> QED BY <1>1, ToolchainInvariance, PTL

-----------------------------------------------------------------------------
(* The two schedulers under their callers, the runtime and the collector.  *)

\* What a compiled program asks of a scheduler is a shape it is made for.
LEMMA CalledShapes ==
  ASSUME ToolchainInv, compiling = "compiled", NEW c \in RuntimeConfigs(graph),
         NEW i \in Nat, i < Len(schedule), schedule[i + 1].kind \in Binary
  PROVE  LET op == schedule[i + 1] IN
         /\ c.tiled_matmul \in Configs /\ c.decode \in Settings
         /\ Shape(op.inputs[1])[1] \in Nat \ {0} /\ Shape(op.inputs[1])[2] \in Nat \ {0}
         /\ Shape(op.inputs[2])[1] \in Nat \ {0} /\ Shape(op.inputs[2])[2] \in Nat \ {0}
<1>1. PICK comp \in Compilations : graph = comp.graph
  BY DEF ToolchainInv, ProgramInv, GivenArgs
<1>2. c.tiled_matmul \in Configs /\ c.decode \in Settings
  BY <1>1, RuntimeAssumption
<1>3. \A j \in DOMAIN graph.tensors : graph.tensors[j].shape \in Seq(PositiveNat)
  BY <1>1, RuntimeAssumption
<1>4. \A name \in TensorNames : Shape(name) \in Seq(PositiveNat)
  BY <1>3 DEF TensorNames, Shape, TensorSpec
<1> DEFINE op == schedule[i + 1]
           a  == Shape(op.inputs[1])
           b  == Shape(op.inputs[2])
<1>5. op.inputs = graph.ops[i + 1].inputs /\ op.kind = graph.ops[i + 1].kind
      /\ Refusal(graph.ops[i + 1]) = "none"
  BY ScheduledOp DEF ToolchainInv
<1>6. /\ op.inputs[1] \in TensorNames /\ op.inputs[2] \in TensorNames
      /\ Len(a) = 2 /\ Len(b) = 2
  BY <1>5, BinaryOperands
<1>7. a \in Seq(PositiveNat) /\ b \in Seq(PositiveNat)
  BY <1>4, <1>6
<1> HIDE DEF a, b
<1>8. a[1] \in Nat \ {0} /\ a[2] \in Nat \ {0} /\ b[1] \in Nat \ {0} /\ b[2] \in Nat \ {0}
  <2>1. a[1] \in PositiveNat /\ a[2] \in PositiveNat /\ b[1] \in PositiveNat /\ b[2] \in PositiveNat
    BY <1>6, <1>7, PairOf
  <2> QED BY <2>1 DEF PositiveNat
<1> QED BY <1>2, <1>8 DEF a, b

\* Both callers call on an op of a compiled program, with the runtime's configuration.
LEMMA CallingOp ==
  ASSUME ToolchainInv, RunInt8Matmul \/ RunAttentionDecode \/ CollectMatmul \/ CollectAttention
  PROVE  \E i \in Nat, c \in RuntimeConfigs(graph) :
           /\ compiling = "compiled" /\ i < Len(schedule) /\ config = <<c>>
           /\ RunInt8Matmul \/ CollectMatmul =>
                schedule[i + 1].kind = "matmul" /\ MultiplyOp(schedule[i + 1])
           /\ RunAttentionDecode \/ CollectAttention =>
                schedule[i + 1].kind = "attention_decode" /\ DecodeOp(schedule[i + 1])
<1>1. RuntimeInv /\ CollectorInv
  BY DEF ToolchainInv
<1>2. CASE RunInt8Matmul \/ RunAttentionDecode
  <2>1. running = "yes" /\ ran < Len(schedule)
    BY <1>2 DEF RunInt8Matmul, RunAttentionDecode
  <2>2. PICK c \in RuntimeConfigs(graph) : config = <<c>>
    BY <1>1, <2>1 DEF RuntimeInv
  <2>3. compiling = "compiled" /\ ran \in Nat /\ collecting = "no"
    BY <1>1, <2>1 DEF RuntimeInv, CollectorInv, Errors
  <2>4. ~CollectMatmul /\ ~CollectAttention
    BY <2>3 DEF CollectMatmul, CollectAttention, Ready
  <2>5. /\ RunInt8Matmul => Op.kind = "matmul" /\ MultiplyOp(Op)
        /\ RunAttentionDecode => Op.kind = "attention_decode" /\ DecodeOp(Op)
    BY DEF RunInt8Matmul, RunAttentionDecode, AcceleratesMatmul, SchedulesAttention
  <2> QED BY <2>1, <2>2, <2>3, <2>4, <2>5 DEF Op
<1>3. CASE CollectMatmul \/ CollectAttention
  <2>1. collecting = "yes" /\ collected < Len(schedule)
    BY <1>3 DEF CollectMatmul, CollectAttention, Ready
  <2>2. running \in {"ran"} \cup Errors
    BY <1>1, <2>1 DEF CollectorInv
  <2>3. running # "no" /\ running # "yes"
    BY <2>2 DEF Errors
  <2>4. PICK c \in RuntimeConfigs(graph) : config = <<c>>
    BY <1>1, <2>3 DEF RuntimeInv
  <2>5. compiling = "compiled" /\ collected \in Nat
    BY <1>1, <2>3 DEF RuntimeInv, CollectorInv
  <2>6. ~RunInt8Matmul /\ ~RunAttentionDecode
    BY <2>3 DEF RunInt8Matmul, RunAttentionDecode
  <2>7. /\ CollectMatmul => Current.kind = "matmul" /\ MultiplyOp(Current)
        /\ CollectAttention => Current.kind = "attention_decode" /\ DecodeOp(Current)
    BY DEF CollectMatmul, CollectAttention, should_accelerate_matmul, should_schedule_attention
  <2> QED BY <2>1, <2>4, <2>5, <2>6, <2>7 DEF Current
<1> QED BY <1>2, <1>3

LEMMA ToolchainMatmulStep ==
  ASSUME ToolchainInv, [ToolchainNext]_toolchainVars
  PROVE  [MatmulNext]_matmulVars
<1>1. CASE RunInt8Matmul \/ CollectMatmul
  <2>1. PICK i \in Nat, c \in RuntimeConfigs(graph) :
          /\ compiling = "compiled" /\ i < Len(schedule) /\ config = <<c>>
          /\ schedule[i + 1].kind = "matmul" /\ MultiplyOp(schedule[i + 1])
    BY <1>1, CallingOp
  <2> DEFINE op == schedule[i + 1]
             s  == [m |-> Shape(op.inputs[1])[1], k |-> Shape(op.inputs[1])[2], n |-> Shape(op.inputs[2])[2]]
  <2>2. op.kind \in Binary
    BY <2>1 DEF Binary
  <2>3. s \in Shapes /\ c.tiled_matmul \in Configs
    BY <2>1, <2>2, CalledShapes DEF Shapes, Positive
  <2>4. CallMatmul(s, c.tiled_matmul)
    BY <2>1 DEF MultiplyOp
  <2> HIDE DEF s
  <2> QED BY <2>3, <2>4 DEF MatmulNext
<1>2. CASE MatmulSteps \/ ReturnMatmul
  BY <1>2 DEF MatmulNext
<1>3. CASE UNCHANGED matmulVars
  BY <1>3
<1>4. RuntimeSteps => \/ RunInt8Matmul \/ ReturnMatmul \/ MatmulSteps \/ UNCHANGED matmulVars
  BY DEF RuntimeSteps, FailOp, RunOnFp32, EndRun, EndInt8Matmul, RunAttentionDecode, EndAttentionDecode,
     BackendSteps, backendVars
<1>5. CollectorSteps => \/ CollectMatmul \/ ReturnMatmul \/ UNCHANGED matmulVars
  BY DEF CollectorSteps, StartCollecting, FailCollect, CollectOnFp32, EndCollecting, EndCollectMatmul,
     CollectAttention, EndCollectAttention, backendVars
<1>6. RunGraph \/ TinyGPTSteps => UNCHANGED matmulVars
  BY DEF RunGraph, TinyGPTSteps, BuildStep, CompileStep, RunStep, StartRun, backendVars
<1> QED BY <1>1, <1>2, <1>3, <1>4, <1>5, <1>6 DEF ToolchainNext, toolchainVars, streamVars, backendVars

LEMMA ToolchainAttentionStep ==
  ASSUME ToolchainInv, [ToolchainNext]_toolchainVars
  PROVE  [AttentionNext]_attentionVars
<1>1. CASE RunAttentionDecode \/ CollectAttention
  <2>1. PICK i \in Nat, c \in RuntimeConfigs(graph) :
          /\ compiling = "compiled" /\ i < Len(schedule) /\ config = <<c>>
          /\ schedule[i + 1].kind = "attention_decode" /\ DecodeOp(schedule[i + 1])
    BY <1>1, CallingOp
  <2> DEFINE op == schedule[i + 1]
             kv == [tokens |-> Shape(op.inputs[2])[1], dim |-> Shape(op.inputs[2])[2]]
  <2>2. op.kind \in Binary
    BY <2>1 DEF Binary
  <2>3. kv \in Caches /\ c.decode \in Settings
    BY <2>1, <2>2, CalledShapes DEF Caches, PositiveNat
  <2>4. CallAttention(kv, c.decode)
    BY <2>1 DEF DecodeOp
  <2> HIDE DEF kv
  <2> QED BY <2>3, <2>4 DEF AttentionNext
<1>2. CASE AttentionSteps \/ ReturnAttention
  BY <1>2 DEF AttentionNext
<1>3. CASE UNCHANGED attentionVars
  BY <1>3
<1>4. RuntimeSteps => \/ RunAttentionDecode \/ ReturnAttention \/ AttentionSteps \/ UNCHANGED attentionVars
  BY DEF RuntimeSteps, FailOp, RunOnFp32, EndRun, RunInt8Matmul, EndInt8Matmul, EndAttentionDecode,
     BackendSteps, backendVars
<1>5. CollectorSteps => \/ CollectAttention \/ ReturnAttention \/ UNCHANGED attentionVars
  BY DEF CollectorSteps, StartCollecting, FailCollect, CollectOnFp32, EndCollecting, CollectMatmul,
     EndCollectMatmul, EndCollectAttention, backendVars
<1>6. RunGraph \/ TinyGPTSteps => UNCHANGED attentionVars
  BY DEF RunGraph, TinyGPTSteps, BuildStep, CompileStep, RunStep, StartRun, backendVars
<1> QED BY <1>1, <1>2, <1>3, <1>4, <1>5, <1>6 DEF ToolchainNext, toolchainVars, streamVars, backendVars

\* The runtime and the vector collector call the tiled matmul on operands of
\* legal shapes only, and leave its state alone until it returns.
THEOREM ToolchainMultiplies == ToolchainSpec => MatmulSpec
<1>1. ToolchainInit => MatmulInit
  BY DEF ToolchainInit, RuntimeInit
<1>2. ToolchainInv /\ [ToolchainNext]_toolchainVars => [MatmulNext]_matmulVars
  BY ToolchainMatmulStep
<1> QED BY <1>1, <1>2, ToolchainInvariance, PTL DEF ToolchainSpec, MatmulSpec

\* The same of the attention schedule.
THEOREM ToolchainDecodes == ToolchainSpec => AttentionSpec
<1>1. ToolchainInit => AttentionInit
  BY DEF ToolchainInit, RuntimeInit
<1>2. ToolchainInv /\ [ToolchainNext]_toolchainVars => [AttentionNext]_attentionVars
  BY ToolchainAttentionStep
<1> QED BY <1>1, <1>2, ToolchainInvariance, PTL DEF ToolchainSpec, AttentionSpec

\* What is proved of the schedulers by themselves holds under their callers.
THEOREM ToolchainSchedulers ==
  ToolchainSpec => [](/\ EveryProductOnce /\ WorkAddsUp /\ VectorsComputeProduct
                      /\ SoftmaxSeesEveryScore /\ ContextIsComplete /\ MacsMatchEstimate)
BY ToolchainMultiplies, ToolchainDecodes, MatmulEveryProductOnce, MatmulWorkAddsUp, VectorsOfProduct,
   AttentionScoresComplete, AttentionContextComplete, AttentionMacsMatch, PTL

-----------------------------------------------------------------------------
(* The timeline: the schedules of the backends, one after the other.       *)

\* The statistics hold whole schedules.
StatsOK(stats) ==
  /\ stats \in Seq({stats[i] : i \in DOMAIN stats})
  /\ \A i \in DOMAIN stats : LocalSchedule(stats[i].events, stats[i].cycles)

\* Events in order and apart, gaps allowed.
Laid(list, total) ==
  /\ list \in Seq({list[i] : i \in DOMAIN list}) /\ total \in Nat
  /\ \A i \in DOMAIN list :
       /\ EventOK(list[i]) /\ list[i].end <= total
       /\ list[i].end = list[i].start + list[i].cycles
       /\ i > 1 => list[i - 1].end <= list[i].start

TimelineInv ==
  /\ StatsOK(matmul_stats) /\ StatsOK(attention_stats)
  /\ placed \in Nat
  /\ timeline = "no" => events = <<>> /\ cycle = 0
  /\ timeline # "no" => running = "ran"
  /\ Laid(events, cycle)
  /\ include_fallback_ops => Contiguous(events, cycle)

-----------------------------------------------------------------------------
(* A local schedule behind what is there.                                  *)

LEMMA EmptyLaid == Laid(<<>>, 0) /\ Contiguous(<<>>, 0)
BY DEF Laid, Contiguous

\* Time passes without an event.
LEMMA LaidLater ==
  ASSUME NEW list, NEW total, Laid(list, total), NEW cycles \in Nat
  PROVE  Laid(list, total + cycles)
<1>1. total \in Nat /\ total + cycles \in Nat
  BY DEF Laid
<1>2. \A i \in DOMAIN list : list[i].end \in Nat /\ list[i].end <= total
  BY DEF Laid, EventOK
<1>3. \A i \in DOMAIN list : list[i].end <= total + cycles
  <2>1. \A x \in Nat : x <= total => x <= total + cycles
    BY <1>1
  <2> QED BY <1>2, <2>1
<1> QED BY <1>1, <1>3 DEF Laid

LEMMA SeqOfItsOwn ==
  ASSUME NEW S, NEW s \in Seq(S)
  PROVE  s \in Seq({s[i] : i \in DOMAIN s})
<1>1. Len(s) \in Nat /\ s \in [1 .. Len(s) -> S]
  OBVIOUS
<1>2. s \in [1 .. Len(s) -> {s[i] : i \in DOMAIN s}]
  BY <1>1
<1> QED BY <1>1, <1>2

\* A sequence made of two.
Joined(both, s, t) ==
  /\ both \in Seq({both[i] : i \in DOMAIN both})
  /\ Len(s) \in Nat /\ Len(t) \in Nat
  /\ DOMAIN s = 1 .. Len(s) /\ (Len(s) = 0 <=> s = <<>>)
  /\ DOMAIN both = 1 .. Len(s) + Len(t) /\ Len(both) = Len(s) + Len(t)
  /\ (both = <<>> <=> Len(s) + Len(t) = 0)
  /\ \A i \in 1 .. Len(s) : both[i] = s[i]
  /\ \A i \in 1 .. Len(t) : both[Len(s) + i] = t[i]

LEMMA PartsOf ==
  ASSUME NEW S, NEW s \in Seq(S), NEW t \in Seq(S)
  PROVE  Joined(s \o t, s, t)
<1> DEFINE both == s \o t
<1>1. both \in Seq(S) /\ Len(both) = Len(s) + Len(t)
  OBVIOUS
<1>2. \A i \in 1 .. Len(s) : both[i] = s[i]
  OBVIOUS
<1>3. \A i \in 1 .. Len(t) : both[Len(s) + i] = t[i]
  OBVIOUS
<1>4. /\ Len(s) \in Nat /\ Len(t) \in Nat
      /\ DOMAIN s = 1 .. Len(s) /\ (Len(s) = 0 <=> s = <<>>)
  OBVIOUS
<1> HIDE DEF both
<1>5. DOMAIN both = 1 .. Len(s) + Len(t) /\ (both = <<>> <=> Len(s) + Len(t) = 0)
  BY <1>1
<1>6. both \in Seq({both[i] : i \in DOMAIN both})
  BY <1>1, SeqOfItsOwn, Zenon
<1>7. Joined(both, s, t)
  BY <1>1, <1>2, <1>3, <1>4, <1>5, <1>6 DEF Joined
<1> QED BY <1>7 DEF both

LEMMA Parts ==
  ASSUME NEW s, NEW t, s \in Seq({s[i] : i \in DOMAIN s}), t \in Seq({t[i] : i \in DOMAIN t})
  PROVE  Joined(s \o t, s, t)
<1> DEFINE S == {s[i] : i \in DOMAIN s} \cup {t[i] : i \in DOMAIN t}
<1>1. s \in Seq(S) /\ t \in Seq(S)
  OBVIOUS
<1> HIDE DEF S
<1> QED BY <1>1, PartsOf

\* A schedule moved to where the clock stands.
Moving(moved, local, len) ==
  /\ Len(moved) = Len(local) /\ len \in Nat
  /\ \A i \in 1 .. Len(local) :
       /\ EventOK(moved[i]) /\ moved[i].end = moved[i].start + moved[i].cycles
       /\ cycle <= moved[i].start /\ moved[i].end <= cycle + len
       /\ moved[i].start = IF i = 1 THEN cycle ELSE moved[i - 1].end
  /\ cycle + len = IF Len(local) = 0 THEN cycle ELSE moved[Len(local)].end

LEMMA ShiftedEvents ==
  ASSUME NEW op, NEW source, NEW local, NEW len, LocalSchedule(local, len), cycle \in Nat,
         NEW moved, moved = Shifted(op, source, local)
  PROVE  moved \in Seq({moved[i] : i \in DOMAIN moved}) /\ Moving(moved, local, len)
<1>1. local \in Seq({local[i] : i \in DOMAIN local}) /\ len \in Nat
  BY DEF LocalSchedule
<1>2. Len(local) \in Nat /\ DOMAIN local = 1 .. Len(local) /\ (Len(local) = 0 <=> local = <<>>)
  BY <1>1
<1>3. DOMAIN moved = DOMAIN local
  BY DEF Shifted
<1>4. \A i \in DOMAIN local :
        /\ moved[i].start = cycle + local[i].start /\ moved[i].end = cycle + local[i].end
        /\ moved[i].cycles = local[i].cycles /\ moved[i].bytes = local[i].bytes
        /\ moved[i].macs = local[i].macs
  BY DEF Shifted
<1>5. moved \in [1 .. Len(local) -> {moved[i] : i \in DOMAIN moved}]
  BY <1>2, <1>3 DEF Shifted
<1>6. moved \in Seq({moved[i] : i \in DOMAIN moved}) /\ Len(moved) = Len(local)
  BY <1>2, <1>5
<1>7. \A i \in DOMAIN local :
        /\ local[i].start \in Nat /\ local[i].end \in Nat /\ local[i].cycles \in Nat
        /\ local[i].bytes \in Nat /\ local[i].macs \in Nat /\ local[i].end <= len
        /\ local[i].end = local[i].start + local[i].cycles
        /\ local[i].start = IF i = 1 THEN 0 ELSE local[i - 1].end
  BY DEF LocalSchedule, Contiguous, EventOK
<1>8. \A i \in DOMAIN local : EventOK(moved[i])
  <2>1. \A i \in DOMAIN local : cycle + local[i].start \in Nat /\ cycle + local[i].end \in Nat
    BY <1>7
  <2> QED BY <1>4, <1>7, <2>1 DEF EventOK
<1>9. \A i \in DOMAIN local : /\ moved[i].end = moved[i].start + moved[i].cycles
                              /\ cycle <= moved[i].start /\ moved[i].end <= cycle + len
  <2>1. \A a, b, c, d \in Nat : c <= d => cycle + (a + b) = (cycle + a) + b /\ cycle <= cycle + a
                                       /\ cycle + c <= cycle + d
    OBVIOUS
  <2> SUFFICES ASSUME NEW i \in DOMAIN local
               PROVE  /\ moved[i].end = moved[i].start + moved[i].cycles
                      /\ cycle <= moved[i].start /\ moved[i].end <= cycle + len
    OBVIOUS
  <2> DEFINE a == local[i].start
             b == local[i].cycles
             c == local[i].end
  <2>2. a \in Nat /\ b \in Nat /\ c \in Nat /\ c <= len /\ c = a + b
    BY <1>7
  <2>3. moved[i].start = cycle + a /\ moved[i].end = cycle + c /\ moved[i].cycles = b
    BY <1>4
  <2> HIDE DEF a, b, c
  <2> QED BY <1>1, <2>1, <2>2, <2>3
<1>10. \A i \in DOMAIN local : moved[i].start = IF i = 1 THEN cycle ELSE moved[i - 1].end
  <2> SUFFICES ASSUME NEW i \in DOMAIN local
               PROVE  moved[i].start = IF i = 1 THEN cycle ELSE moved[i - 1].end
    OBVIOUS
  <2>1. i # 1 => i - 1 \in DOMAIN local
    BY <1>2
  <2>2. i = 1 => moved[i].start = cycle
    <3>1. i = 1 => local[i].start = 0
      BY <1>7
    <3> QED BY <1>4, <3>1
  <2> QED BY <1>4, <1>7, <2>1, <2>2
<1>11. cycle + len = IF Len(local) = 0 THEN cycle ELSE moved[Len(local)].end
  <2>1. len = IF Len(local) = 0 THEN 0 ELSE local[Len(local)].end
    BY <1>2 DEF LocalSchedule, Contiguous
  <2>2. Len(local) # 0 => Len(local) \in DOMAIN local
    BY <1>2
  <2> QED BY <1>4, <2>1, <2>2
<1> QED BY <1>1, <1>2, <1>6, <1>8, <1>9, <1>10, <1>11 DEF Moving

LEMMA PlacedBehind ==
  ASSUME Laid(events, cycle), NEW op, NEW source, NEW local, NEW len, LocalSchedule(local, len)
  PROVE  /\ Laid(events \o Shifted(op, source, local), cycle + len)
         /\ Contiguous(events, cycle) => Contiguous(events \o Shifted(op, source, local), cycle + len)
<1> DEFINE moved == Shifted(op, source, local)
           all   == events \o moved
           E     == Len(events)
           M     == Len(local)
<1>1. events \in Seq({events[i] : i \in DOMAIN events}) /\ cycle \in Nat
  BY DEF Laid
<1> HIDE DEF moved
<1>2. moved \in Seq({moved[i] : i \in DOMAIN moved}) /\ Moving(moved, local, len)
  BY <1>1, ShiftedEvents DEF moved
<1>3. Joined(all, events, moved)
  BY <1>1, <1>2, Parts
<1> HIDE DEF all
<1>4. /\ all \in Seq({all[i] : i \in DOMAIN all})
      /\ E \in Nat /\ M \in Nat /\ DOMAIN events = 1 .. E /\ (E = 0 <=> events = <<>>)
      /\ DOMAIN all = 1 .. E + M /\ Len(all) = E + M /\ (all = <<>> <=> E + M = 0)
      /\ \A i \in 1 .. E : all[i] = events[i]
      /\ \A i \in 1 .. M : all[E + i] = moved[i]
  BY <1>2, <1>3 DEF Joined, Moving
<1> HIDE DEF E, M
<1>5. len \in Nat /\ cycle + len \in Nat
  BY <1>1, <1>2 DEF Moving
<1>6. \A i \in 1 .. E + M : i \in 1 .. E \/ \E j \in 1 .. M : i = E + j
  <2>1. \A i \in 1 .. E + M : i > E => i - E \in 1 .. M /\ i = E + (i - E)
    BY <1>4
  <2> QED BY <1>4, <2>1
\* What was there.
<1>7. \A i \in 1 .. E :
        /\ EventOK(all[i]) /\ all[i].end <= cycle /\ all[i].end \in Nat
        /\ all[i].end = all[i].start + all[i].cycles
        /\ i > 1 => all[i - 1].end <= all[i].start
  <2>1. \A i \in 1 .. E :
          /\ EventOK(events[i]) /\ events[i].end <= cycle /\ events[i].end \in Nat
          /\ events[i].end = events[i].start + events[i].cycles
          /\ i > 1 => events[i - 1].end <= events[i].start
    BY <1>4 DEF Laid, EventOK
  <2>2. \A i \in 1 .. E : i > 1 => i - 1 \in 1 .. E
    BY <1>4
  <2> QED BY <1>4, <2>1, <2>2
\* What is new.
<1>8. \A j \in 1 .. M :
        /\ EventOK(all[E + j]) /\ all[E + j].end <= cycle + len
        /\ all[E + j].start \in Nat /\ cycle <= all[E + j].start
        /\ all[E + j].end = all[E + j].start + all[E + j].cycles
        /\ all[E + j].start = IF j = 1 THEN cycle ELSE all[E + (j - 1)].end
  <2>1. \A j \in 1 .. M :
          /\ EventOK(moved[j]) /\ moved[j].end <= cycle + len
          /\ moved[j].start \in Nat /\ cycle <= moved[j].start
          /\ moved[j].end = moved[j].start + moved[j].cycles
          /\ moved[j].start = IF j = 1 THEN cycle ELSE moved[j - 1].end
    BY <1>2 DEF Moving, M, EventOK
  <2>2. \A j \in 1 .. M : j # 1 => j - 1 \in 1 .. M
    BY <1>4
  <2> SUFFICES ASSUME NEW j \in 1 .. M
               PROVE  /\ EventOK(all[E + j]) /\ all[E + j].end <= cycle + len
                      /\ all[E + j].start \in Nat /\ cycle <= all[E + j].start
                      /\ all[E + j].end = all[E + j].start + all[E + j].cycles
                      /\ all[E + j].start = IF j = 1 THEN cycle ELSE all[E + (j - 1)].end
    OBVIOUS
  <2>3. all[E + j] = moved[j]
    BY <1>4
  <2>4. j # 1 => all[E + (j - 1)] = moved[j - 1]
    BY <1>4, <2>2
  <2> QED BY <2>1, <2>3, <2>4
<1>9. Laid(all, cycle + len)
  <2>1. \A i \in 1 .. E : /\ EventOK(all[i]) /\ all[i].end <= cycle + len
                          /\ all[i].end = all[i].start + all[i].cycles
                          /\ i > 1 => all[i - 1].end <= all[i].start
    <3>1. \A x \in Nat : x <= cycle => x <= cycle + len
      BY <1>1, <1>5
    <3> QED BY <1>7, <3>1
  <2>2. \A j \in 1 .. M : E + j > 1 => all[(E + j) - 1].end <= all[E + j].start
    <3> SUFFICES ASSUME NEW j \in 1 .. M, E + j > 1
                 PROVE  all[(E + j) - 1].end <= all[E + j].start
      OBVIOUS
    <3>1. CASE j = 1
      <4>1. E \in 1 .. E /\ (E + j) - 1 = E
        BY <1>4, <3>1
      <4>2. all[E + j].start = cycle
        BY <1>8, <3>1
      <4> QED BY <1>7, <4>1, <4>2
    <3>2. CASE j # 1
      <4>1. (E + j) - 1 = E + (j - 1)
        BY <1>4
      <4>2. all[E + j].start = all[E + (j - 1)].end /\ all[E + j].start \in Nat
        BY <1>8, <3>2
      <4> QED BY <4>1, <4>2
    <3> QED BY <3>1, <3>2
  <2>3. \A i \in 1 .. E + M : /\ EventOK(all[i]) /\ all[i].end <= cycle + len
                              /\ all[i].end = all[i].start + all[i].cycles
                              /\ i > 1 => all[i - 1].end <= all[i].start
    <3>1. \A j \in 1 .. M : /\ EventOK(all[E + j]) /\ all[E + j].end <= cycle + len
                            /\ all[E + j].end = all[E + j].start + all[E + j].cycles
                            /\ E + j > 1 => all[(E + j) - 1].end <= all[E + j].start
      BY <1>8, <2>2
    <3> QED BY <1>6, <2>1, <3>1
  <2> QED BY <1>4, <1>5, <2>3 DEF Laid
<1>10. ASSUME Contiguous(events, cycle) PROVE Contiguous(all, cycle + len)
  <2>1. cycle = IF E = 0 THEN 0 ELSE all[E].end
    <3>1. E # 0 => E \in 1 .. E
      BY <1>4
    <3> QED BY <1>4, <1>10, <3>1 DEF Contiguous, E
  <2>2. \A i \in 1 .. E : /\ all[i].end = all[i].start + all[i].cycles
                          /\ all[i].start = IF i = 1 THEN 0 ELSE all[i - 1].end
    <3>1. \A i \in 1 .. E : i # 1 => i - 1 \in 1 .. E
      BY <1>4
    <3> QED BY <1>4, <1>7, <1>10, <3>1 DEF Contiguous
  <2>3. \A j \in 1 .. M : /\ all[E + j].end = all[E + j].start + all[E + j].cycles
                          /\ all[E + j].start = IF E + j = 1 THEN 0 ELSE all[(E + j) - 1].end
    <3> SUFFICES ASSUME NEW j \in 1 .. M
                 PROVE  /\ all[E + j].end = all[E + j].start + all[E + j].cycles
                        /\ all[E + j].start = IF E + j = 1 THEN 0 ELSE all[(E + j) - 1].end
      OBVIOUS
    <3>1. all[E + j].end = all[E + j].start + all[E + j].cycles
      BY <1>8
    <3>2. CASE j = 1
      <4>1. (E + j = 1 <=> E = 0) /\ (E + j) - 1 = E
        BY <1>4, <3>2
      <4>2. all[E + j].start = cycle
        BY <1>8, <3>2
      <4> QED BY <2>1, <3>1, <4>1, <4>2
    <3>3. CASE j # 1
      <4>1. E + j # 1 /\ (E + j) - 1 = E + (j - 1)
        BY <1>4, <3>3
      <4>2. all[E + j].start = all[E + (j - 1)].end
        BY <1>8, <3>3
      <4> QED BY <3>1, <4>1, <4>2
    <3> QED BY <3>2, <3>3
  <2>4. cycle + len = IF all = <<>> THEN 0 ELSE all[Len(all)].end
    <3>1. cycle + len = IF M = 0 THEN cycle ELSE moved[M].end
      BY <1>2 DEF Moving, M
    <3>2. CASE M = 0
      <4>1. E + M = E
        BY <1>4, <3>2
      <4> QED BY <1>4, <2>1, <3>1, <3>2, <4>1
    <3>3. CASE M # 0
      <4>1. M \in 1 .. M /\ E + M # 0
        BY <1>4, <3>3
      <4> QED BY <1>4, <3>1, <3>3, <4>1
    <3> QED BY <3>2, <3>3
  <2>5. \A i \in 1 .. E + M : /\ all[i].end = all[i].start + all[i].cycles
                              /\ all[i].start = IF i = 1 THEN 0 ELSE all[i - 1].end
    BY <1>6, <2>2, <2>3
  <2> QED BY <1>4, <2>4, <2>5 DEF Contiguous
<1> QED BY <1>9, <1>10 DEF all, moved

-----------------------------------------------------------------------------
(* The statistics of the runtime.                                          *)

LEMMA OneMoreStat ==
  ASSUME NEW stats, StatsOK(stats), NEW stat, LocalSchedule(stat.events, stat.cycles)
  PROVE  StatsOK(Append(stats, stat))
<1> DEFINE more == Append(stats, stat)
           len  == Len(stats)
<1>1. stats \in Seq({stats[i] : i \in DOMAIN stats})
  BY DEF StatsOK
<1>2. /\ more \in Seq({stats[i] : i \in DOMAIN stats} \cup {stat})
      /\ len \in Nat /\ DOMAIN stats = 1 .. len /\ DOMAIN more = 1 .. len + 1
      /\ more[len + 1] = stat /\ \A i \in 1 .. len : more[i] = stats[i]
  BY <1>1
<1> HIDE DEF more, len
<1>3. more \in Seq({more[i] : i \in DOMAIN more})
  <2>1. PICK T : more \in Seq(T)
    BY <1>2
  <2> QED BY <2>1, SeqOfItsOwn, Zenon
<1>4. \A i \in DOMAIN more : i \in 1 .. len \/ i = len + 1
  BY <1>2
<1>5. \A i \in 1 .. len : LocalSchedule(more[i].events, more[i].cycles)
  BY <1>2 DEF StatsOK
<1>6. \A i \in DOMAIN more : LocalSchedule(more[i].events, more[i].cycles)
  BY <1>2, <1>4, <1>5
<1>7. StatsOK(more)
  BY <1>3, <1>6 DEF StatsOK
<1> QED BY <1>7 DEF more

\* The statistics kept for a name are one of the statistics.
LEMMA StatFound ==
  ASSUME NEW stats, StatsOK(stats), NEW name, Named(stats, name) # {}
  PROVE  LocalSchedule(StatOf(stats, name).events, StatOf(stats, name).cycles)
<1>1. stats \in Seq({stats[i] : i \in DOMAIN stats})
  BY DEF StatsOK
<1>2. Len(stats) \in Nat /\ DOMAIN stats = 1 .. Len(stats)
  BY <1>1
<1>3. Named(stats, name) \in SUBSET Int /\ Len(stats) \in Int
      /\ \A j \in Named(stats, name) : j <= Len(stats)
  BY <1>2 DEF Named
<1>4. \E i \in Named(stats, name) : \A j \in Named(stats, name) : j <= i
  BY <1>3, GreatestInt
<1> DEFINE last == CHOOSE i \in Named(stats, name) : \A j \in Named(stats, name) : j <= i
<1>5. last \in Named(stats, name)
  BY <1>4
<1> HIDE DEF last
<1>6. last \in DOMAIN stats
  BY <1>5 DEF Named
<1> QED BY <1>6 DEF StatsOK, StatOf, last

\* The event of an op that no backend reported.
LEMMA WholeOp ==
  ASSUME NEW kind, NEW cycles \in Nat
  PROVE  LocalSchedule(<<[kind |-> kind, start |-> 0, end |-> cycles, cycles |-> cycles,
                          bytes |-> 0, macs |-> 0]>>, cycles)
<1> DEFINE e == [kind |-> kind, start |-> 0, end |-> cycles, cycles |-> cycles, bytes |-> 0, macs |-> 0]
<1>1. /\ EventOK(e) /\ e.start = 0 /\ e.end = 0 + e.cycles /\ 0 + e.cycles = cycles
  BY DEF EventOK
<1> HIDE DEF e
<1>2. LocalSchedule(Append(<<>>, e), 0 + e.cycles)
  BY <1>1, NoEvents, OneMoreEvent
<1>3. Append(<<>>, e) = <<e>>
  OBVIOUS
<1> QED BY <1>1, <1>2, <1>3 DEF e

-----------------------------------------------------------------------------
(* Every step of the toolchain keeps the timeline in order.                *)

FlowInv == ToolchainInv /\ MatmulInv /\ AttentionInv /\ TimelineInv

LEMMA FlowStarts == ToolchainInit => FlowInv
<1> SUFFICES ASSUME ToolchainInit PROVE FlowInv
  OBVIOUS
<1>1. MatmulInv /\ AttentionInv
  BY MatmulStarts, AttentionStarts DEF ToolchainInit, RuntimeInit
<1>2. /\ matmul_stats = <<>> /\ attention_stats = <<>>
      /\ placed = 0 /\ events = <<>> /\ cycle = 0 /\ timeline = "no"
  BY DEF ToolchainInit, RuntimeInit, TimelineInit
<1>3. StatsOK(<<>>)
  BY DEF StatsOK
<1>4. TimelineInv
  BY <1>2, <1>3, EmptyLaid DEF TimelineInv
<1> QED BY <1>1, <1>4, ToolchainStarts DEF FlowInv

\* A timeline that is not touched, by whoever adds statistics.
LEMMA TimelineKept ==
  ASSUME TimelineInv, UNCHANGED timelineVars, StatsOK(matmul_stats'), StatsOK(attention_stats'),
         timeline # "no" => running' = running
  PROVE  TimelineInv'
<1>1. /\ include_fallback_ops' = include_fallback_ops /\ placed' = placed /\ events' = events
      /\ cycle' = cycle /\ timeline' = timeline
  BY DEF timelineVars
<1>2. Laid(events, cycle)' /\ (include_fallback_ops => Contiguous(events, cycle))'
  BY <1>1 DEF TimelineInv
<1> QED BY <1>1, <1>2 DEF TimelineInv

LEMMA RuntimeTimeline ==
  ASSUME FlowInv, RuntimeSteps, UNCHANGED timelineVars
  PROVE  TimelineInv'
<1>1. TimelineInv /\ StatsOK(matmul_stats) /\ StatsOK(attention_stats)
  BY DEF FlowInv, TimelineInv
<1>2. running = "ran" => UNCHANGED runtimeVars
  BY DEF RuntimeSteps, FailOp, RunOnFp32, EndRun, RunInt8Matmul, EndInt8Matmul, RunAttentionDecode,
     EndAttentionDecode, BackendSteps
<1>3. timeline # "no" => running' = running
  BY <1>1, <1>2 DEF TimelineInv, runtimeVars
<1>4. CASE EndInt8Matmul
  <2> DEFINE stat == [op_name |-> Op.name, events |-> tile_events, cycles |-> tile_cycle]
  <2>1. LocalSchedule(stat.events, stat.cycles)
    BY DEF FlowInv, MatmulInv
  <2>2. matmul_stats' = Append(matmul_stats, stat) /\ attention_stats' = attention_stats
    BY <1>4 DEF EndInt8Matmul
  <2> HIDE DEF stat
  <2>3. StatsOK(matmul_stats')
    BY <1>1, <2>1, <2>2, OneMoreStat
  <2> QED BY <1>1, <1>3, <2>2, <2>3, TimelineKept
<1>5. CASE EndAttentionDecode
  <2> DEFINE stat == [op_name |-> Op.name, events |-> trace, cycles |-> now]
  <2>1. LocalSchedule(stat.events, stat.cycles)
    BY DEF FlowInv, AttentionInv
  <2>2. attention_stats' = Append(attention_stats, stat) /\ matmul_stats' = matmul_stats
    BY <1>5 DEF EndAttentionDecode
  <2> HIDE DEF stat
  <2>3. StatsOK(attention_stats')
    BY <1>1, <2>1, <2>2, OneMoreStat
  <2> QED BY <1>1, <1>3, <2>2, <2>3, TimelineKept
<1>6. CASE matmul_stats' = matmul_stats /\ attention_stats' = attention_stats
  BY <1>1, <1>3, <1>6, TimelineKept
<1>7. \/ EndInt8Matmul \/ EndAttentionDecode
      \/ matmul_stats' = matmul_stats /\ attention_stats' = attention_stats
  BY DEF RuntimeSteps, FailOp, RunOnFp32, EndRun, RunInt8Matmul, RunAttentionDecode, BackendSteps,
     runtimeVars
<1> QED BY <1>4, <1>5, <1>6, <1>7

LEMMA PlaceOpStep ==
  ASSUME FlowInv, PlaceOp, UNCHANGED runtimeVars
  PROVE  TimelineInv'
<1> DEFINE op == schedule[placed + 1]
<1>1. /\ StatsOK(matmul_stats) /\ StatsOK(attention_stats) /\ placed \in Nat
      /\ Laid(events, cycle) /\ cycle \in Nat
      /\ include_fallback_ops => Contiguous(events, cycle)
  BY DEF FlowInv, TimelineInv, Laid
<1>2. /\ timeline = "building" /\ timeline' = timeline /\ running = "ran" /\ running' = running
      /\ include_fallback_ops' = include_fallback_ops /\ placed' = placed + 1
      /\ matmul_stats' = matmul_stats /\ attention_stats' = attention_stats /\ placed < Len(schedule)
  BY DEF PlaceOp, runtimeVars, FlowInv, TimelineInv
<1>3. ASSUME NEW source, NEW stat, LocalSchedule(stat.events, stat.cycles), PlaceStat(op, source, stat)
      PROVE  Laid(events', cycle') /\ (include_fallback_ops => Contiguous(events', cycle'))
  <2>1. events' = events \o Shifted(op, source, stat.events) /\ cycle' = cycle + stat.cycles
    BY <1>3 DEF PlaceStat
  <2> QED BY <1>1, <1>3, <2>1, PlacedBehind
<1>4. ASSUME PlaceBaseline(op)
      PROVE  Laid(events', cycle') /\ (include_fallback_ops => Contiguous(events', cycle'))
  <2> DEFINE whole == [kind |-> op.kind, start |-> 0, end |-> op.cycles, cycles |-> op.cycles,
                       bytes |-> 0, macs |-> 0]
  <2>1. op.cycles \in Nat
    <3>1. placed + 1 \in DOMAIN schedule
      BY <1>1, <1>2, ScheduleLength DEF FlowInv, ToolchainInv, CompilerInv, Prefixes
    <3> QED BY <3>1 DEF FlowInv, ToolchainInv, ProgramInv, ScheduledOps
  <2>2. LocalSchedule(<<whole>>, op.cycles)
    BY <2>1, WholeOp
  <2>3. /\ events' = IF include_fallback_ops THEN events \o Shifted(op, "baseline", <<whole>>) ELSE events
        /\ cycle' = cycle + op.cycles
    BY <1>4 DEF PlaceBaseline
  <2> HIDE DEF op, whole
  <2>4. CASE include_fallback_ops
    BY <1>1, <2>2, <2>3, <2>4, PlacedBehind
  <2>5. CASE ~include_fallback_ops
    BY <1>1, <2>1, <2>3, <2>5, LaidLater
  <2> QED BY <2>4, <2>5
<1>5. Laid(events', cycle') /\ (include_fallback_ops => Contiguous(events', cycle'))
  <2>1. \/ /\ Named(matmul_stats, op.name) # {}
           /\ PlaceStat(op, "tiled_matmul", StatOf(matmul_stats, op.name))
        \/ /\ Named(attention_stats, op.name) # {}
           /\ PlaceStat(op, "kv_attention", StatOf(attention_stats, op.name))
        \/ PlaceBaseline(op)
    BY DEF PlaceOp
  <2> HIDE DEF op
  <2> QED BY <1>1, <1>3, <1>4, <2>1, StatFound
<1>6. placed' \in Nat
  BY <1>1, <1>2
<1> QED BY <1>1, <1>2, <1>5, <1>6 DEF TimelineInv

LEMMA TimelineStep ==
  ASSUME FlowInv, [ToolchainNext]_toolchainVars
  PROVE  TimelineInv'
<1>1. TimelineInv /\ StatsOK(matmul_stats) /\ StatsOK(attention_stats)
  BY DEF FlowInv, TimelineInv
<1>2. CASE UNCHANGED timelineVars /\ UNCHANGED runtimeVars
  BY <1>1, <1>2, TimelineKept DEF runtimeVars
<1>3. CASE (RunGraph \/ TinyGPTSteps) /\ UNCHANGED others
  <2>1. \/ UNCHANGED runtimeVars
        \/ running = "no" /\ matmul_stats' = matmul_stats /\ attention_stats' = attention_stats
    BY <1>3 DEF RunGraph, StartRun, TinyGPTSteps, BuildStep, CompileStep, RunStep
  <2> QED BY <1>1, <1>2, <1>3, <2>1, TimelineKept DEF TimelineInv, others
<1>4. CASE RuntimeSteps /\ UNCHANGED others
  BY <1>4, RuntimeTimeline DEF others
<1>5. CASE StartTimeline /\ UNCHANGED runtimeVars
  <2>1. /\ running' = "ran" /\ timeline' = "building" /\ placed' = placed /\ events' = events
        /\ cycle' = cycle /\ timeline = "no"
        /\ matmul_stats' = matmul_stats /\ attention_stats' = attention_stats
    BY <1>5 DEF StartTimeline, runtimeVars
  <2> QED BY <1>1, <2>1, EmptyLaid DEF TimelineInv
<1>6. CASE PlaceOp /\ UNCHANGED runtimeVars
  BY <1>6, PlaceOpStep
<1>7. CASE EndTimeline /\ UNCHANGED runtimeVars
  <2>1. /\ timeline = "building" /\ timeline' = "built" /\ running' = running
        /\ placed' = placed /\ events' = events /\ cycle' = cycle
        /\ include_fallback_ops' = include_fallback_ops
        /\ matmul_stats' = matmul_stats /\ attention_stats' = attention_stats
    BY <1>7 DEF EndTimeline, runtimeVars
  <2> QED BY <1>1, <2>1 DEF TimelineInv
<1> QED BY <1>2, <1>3, <1>4, <1>5, <1>6, <1>7
       DEF ToolchainNext, toolchainVars, streamVars, others, TimelineSteps

LEMMA FlowStep == FlowInv /\ [ToolchainNext]_toolchainVars => FlowInv'
<1> SUFFICES ASSUME FlowInv, [ToolchainNext]_toolchainVars PROVE FlowInv'
  OBVIOUS
<1>1. ToolchainInv' /\ MatmulInv' /\ AttentionInv'
  BY ToolchainStep, ToolchainMatmulStep, MatmulStep, ToolchainAttentionStep, AttentionStep DEF FlowInv
<1> QED BY <1>1, TimelineStep DEF FlowInv

\* The inductive invariant from the graph to the timeline.
THEOREM FlowInvariance == ToolchainSpec => []FlowInv
BY FlowStarts, FlowStep, PTL DEF ToolchainSpec

\* The global timeline has no overlap, and no gap when every op is in it, for
\* any graph and any mixture of backends: each backend reports whole local
\* schedules, and what is not reported is one event.
THEOREM ToolchainTimeline == ToolchainSpec => []TimelineOrdered
<1>1. FlowInv => TimelineOrdered
  BY DEF FlowInv, TimelineInv, Laid, TimelineOrdered
<1> QED BY <1>1, FlowInvariance, PTL

-----------------------------------------------------------------------------
(* The emitter: an instruction ends below what its bank is filled to.      *)

Region(instr, fill) ==
  /\ instr.bank \subseteq DOMAIN fill /\ instr.bytes_moved \in Nat
  /\ \A b \in instr.bank : \A o \in instr.offset :
       o \in Nat /\ o + instr.bytes_moved <= fill[b] /\ o < fill[b]

EmitterInv ==
  /\ layout = <<>> => instructions = <<>>
  /\ layout # <<>> => timeline = "built" /\ bank_fill \in [LayoutBanks(layout[1]) -> Nat]
  /\ emitted \in Nat
  /\ instructions \in Seq({instructions[i] : i \in DOMAIN instructions})
  /\ \A i \in DOMAIN instructions : Region(instructions[i], bank_fill)
  /\ RegionsGrow

LEMMA EmitterStarts == EmitterInit => EmitterInv
BY DEF EmitterInit, EmitterInv, RegionsGrow

LEMMA EmitterKept ==
  ASSUME EmitterInv, UNCHANGED emitterVars, timeline = "built" => timeline' = "built"
  PROVE  EmitterInv'
<1>1. layout' = layout /\ emitted' = emitted /\ bank_fill' = bank_fill /\ instructions' = instructions
  BY DEF emitterVars
<1> QED BY <1>1 DEF EmitterInv, Region, RegionsGrow

LEMMA StartEmittingStep ==
  ASSUME EmitterInv, StartEmitting, timeline' = timeline
  PROVE  EmitterInv'
<1>1. PICK l : layout' = <<l>> /\ bank_fill' = [b \in LayoutBanks(l) |-> 0]
  BY DEF StartEmitting
<1>2. timeline' = "built" /\ emitted' = emitted /\ instructions' = instructions /\ instructions = <<>>
  BY DEF StartEmitting, EmitterInv
<1>3. layout'[1] = l /\ layout' # <<>>
  BY <1>1
<1>4. bank_fill' \in [LayoutBanks(layout'[1]) -> Nat]
  BY <1>1, <1>3
<1>5. RegionsGrow'
  BY <1>2 DEF RegionsGrow
<1> QED BY <1>2, <1>3, <1>4, <1>5 DEF EmitterInv, LayoutBanks

LEMMA EmitInstructionStep ==
  ASSUME EmitterInv, TimelineInv, EmitInstruction, timeline' = timeline
  PROVE  EmitterInv'
<1> DEFINE event  == events[emitted + 1]
           bank   == BankOf(Opcode(event))
           offset == {bank_fill[b] : b \in bank}
           new    == [opcode |-> Opcode(event), start |-> event.start, end |-> event.end,
                      cycles |-> event.cycles, bank |-> bank, offset |-> offset,
                      bytes_moved |-> event.bytes, macs |-> event.macs]
           len    == Len(instructions)
           size   == Reserved(event)
<1>1. /\ layout # <<>> /\ emitted < Len(events) /\ layout' = layout /\ emitted' = emitted + 1
      /\ instructions' = Append(instructions, new)
      /\ bank_fill' = [b \in DOMAIN bank_fill |-> IF b \in bank THEN bank_fill[b] + size ELSE bank_fill[b]]
  BY DEF EmitInstruction
<1>2. /\ timeline' = "built" /\ emitted \in Nat /\ bank_fill \in [LayoutBanks(layout[1]) -> Nat]
      /\ \A i \in DOMAIN instructions : Region(instructions[i], bank_fill)
      /\ RegionsGrow
  BY <1>1 DEF EmitterInv
<1>3. event.bytes \in Nat
  <2>1. events \in Seq({events[i] : i \in DOMAIN events}) /\ \A i \in DOMAIN events : EventOK(events[i])
    BY DEF TimelineInv, Laid
  <2>2. emitted + 1 \in DOMAIN events
    BY <1>1, <1>2, <2>1
  <2> QED BY <2>1, <2>2 DEF EventOK
<1>4. size \in Nat /\ size >= 1 /\ size >= event.bytes
  BY <1>3 DEF Reserved
<1>5. /\ bank \subseteq DOMAIN bank_fill
      /\ \A b \in bank, o \in offset : o = bank_fill[b]
  BY <1>2 DEF BankOf, LayoutBanks
<1>6. new.bank = bank /\ new.offset = offset /\ new.bytes_moved = event.bytes
  OBVIOUS
<1>7. /\ Append(instructions, new) \in Seq({instructions[i] : i \in DOMAIN instructions} \cup {new})
      /\ len \in Nat /\ DOMAIN instructions = 1 .. len /\ DOMAIN Append(instructions, new) = 1 .. len + 1
      /\ Append(instructions, new)[len + 1] = new
      /\ \A i \in 1 .. len : Append(instructions, new)[i] = instructions[i]
  <2> HIDE DEF new
  <2> QED BY DEF EmitterInv
<1> HIDE DEF new, bank, offset, size, len
<1>8. /\ DOMAIN instructions' = 1 .. len + 1 /\ instructions'[len + 1] = new
      /\ \A i \in 1 .. len : instructions'[i] = instructions[i]
      /\ instructions' \in Seq({instructions'[i] : i \in DOMAIN instructions'})
  <2>1. instructions' \in Seq({instructions[i] : i \in DOMAIN instructions} \cup {new})
    BY <1>1, <1>7
  <2>2. instructions' \in Seq({instructions'[i] : i \in DOMAIN instructions'})
    BY <2>1, SeqOfItsOwn, Zenon
  <2> QED BY <1>1, <1>7, <2>2
<1>9. \A i \in DOMAIN instructions' : i \in 1 .. len \/ i = len + 1
  BY <1>7, <1>8
<1>10. /\ DOMAIN bank_fill' = DOMAIN bank_fill /\ bank_fill' \in [LayoutBanks(layout[1]) -> Nat]
       /\ \A b \in DOMAIN bank_fill : bank_fill[b] \in Nat /\ bank_fill'[b] \in Nat
                                      /\ bank_fill[b] <= bank_fill'[b]
       /\ \A b \in bank : bank_fill'[b] = bank_fill[b] + size
  BY <1>1, <1>2, <1>4, <1>5
<1>11. \A i \in 1 .. len : Region(instructions'[i], bank_fill')
  <2> SUFFICES ASSUME NEW i \in 1 .. len, NEW b \in instructions[i].bank, NEW o \in instructions[i].offset
               PROVE  o \in Nat /\ o + instructions[i].bytes_moved <= bank_fill'[b] /\ o < bank_fill'[b]
    <3>1. \A i \in 1 .. len : /\ instructions[i].bank \subseteq DOMAIN bank_fill
                              /\ instructions[i].bytes_moved \in Nat
      BY <1>2, <1>7 DEF Region
    <3> QED BY <1>8, <1>10, <3>1 DEF Region
  <2>1. /\ o \in Nat /\ o + instructions[i].bytes_moved <= bank_fill[b] /\ o < bank_fill[b]
        /\ b \in DOMAIN bank_fill /\ instructions[i].bytes_moved \in Nat
    BY <1>2, <1>7 DEF Region
  <2> QED BY <1>10, <2>1
<1>12. Region(new, bank_fill')
  <2> SUFFICES ASSUME NEW b \in bank, NEW o \in offset
               PROVE  o \in Nat /\ o + event.bytes <= bank_fill'[b] /\ o < bank_fill'[b]
    BY <1>3, <1>5, <1>6, <1>10 DEF Region
  <2>1. o = bank_fill[b] /\ bank_fill[b] \in Nat /\ bank_fill'[b] = bank_fill[b] + size
    BY <1>5, <1>10
  <2> QED BY <1>3, <1>4, <2>1
<1>13. RegionsGrow'
  <2> SUFFICES ASSUME NEW j \in DOMAIN instructions', NEW i \in 1 .. j - 1,
                      NEW b \in instructions'[i].bank \cap instructions'[j].bank,
                      NEW o \in instructions'[i].offset, NEW p \in instructions'[j].offset
               PROVE  o + instructions'[i].bytes_moved <= p /\ o < p
    BY DEF RegionsGrow
  <2>1. i \in 1 .. len
    BY <1>7, <1>8
  <2>2. CASE j \in 1 .. len
    <3>1. instructions'[i] = instructions[i] /\ instructions'[j] = instructions[j]
      BY <1>8, <2>1, <2>2
    <3> QED BY <1>2, <1>7, <2>2, <3>1 DEF RegionsGrow
  <2>3. CASE j = len + 1
    <3>1. instructions'[i] = instructions[i] /\ instructions'[j] = new
      BY <1>8, <2>1, <2>3
    <3>2. b \in bank /\ p = bank_fill[b]
      BY <1>5, <1>6, <3>1
    <3> QED BY <1>2, <1>7, <2>1, <3>1, <3>2 DEF Region
  <2> QED BY <1>9, <2>2, <2>3
<1>14. \A i \in DOMAIN instructions' : Region(instructions'[i], bank_fill')
  BY <1>8, <1>9, <1>11, <1>12
<1>15. emitted' \in Nat
  BY <1>1, <1>2
<1> QED BY <1>1, <1>2, <1>8, <1>10, <1>13, <1>14, <1>15 DEF EmitterInv

LEMMA EmitterStep ==
  ASSUME FlowInv, EmitterInv, [ToolchainNext]_toolchainVars
  PROVE  EmitterInv'
<1>1. CASE UNCHANGED emitterVars /\ UNCHANGED timelineVars
  BY <1>1, EmitterKept DEF timelineVars
<1>2. CASE TimelineSteps /\ UNCHANGED emitterVars
  <2>1. timeline # "built"
    BY <1>2 DEF TimelineSteps, StartTimeline, PlaceOp, EndTimeline
  <2> QED BY <1>2, <2>1, EmitterKept
<1>3. CASE EmitterSteps /\ UNCHANGED timelineVars
  BY <1>3, StartEmittingStep, EmitInstructionStep DEF EmitterSteps, timelineVars, FlowInv
<1> QED BY <1>1, <1>2, <1>3 DEF ToolchainNext, toolchainVars, streamVars, others

\* Whatever the layout makes of the banks, no two instructions of a bank share
\* a byte, in a stream of any length.
THEOREM ToolchainRegions == ToolchainSpec => []RegionsGrow
<1>1. ToolchainInit => EmitterInv
  BY EmitterStarts DEF ToolchainInit
<1>2. FlowInv /\ EmitterInv /\ [ToolchainNext]_toolchainVars => EmitterInv'
  BY EmitterStep
<1>3. EmitterInv => RegionsGrow
  BY DEF EmitterInv
<1> QED BY <1>1, <1>2, <1>3, FlowInvariance, PTL DEF ToolchainSpec

-----------------------------------------------------------------------------
(* The bank checker, given accesses by hand or what it makes of a stream.  *)

\* A call that converts a LOAD or a STORE ends before the checker begins.
CheckedInv == BankInv \/ verdict = "ValueError"

LEMMA CheckedStep == CheckedInv /\ [ToolchainNext]_toolchainVars => CheckedInv'
<1> SUFFICES ASSUME CheckedInv, [ToolchainNext]_toolchainVars PROVE CheckedInv'
  OBVIOUS
<1>1. CASE UNCHANGED bankVars
  <2>1. BankInv => BankInv'
    BY <1>1, BankStep
  <2> QED BY <1>1, <2>1 DEF CheckedInv, bankVars
<1>2. CASE CheckEmitted
  <2>1. <<>> \in Seq(MemoryAccess)
    OBVIOUS
  <2>2. verdict = "idle" /\ (verdict' = "ValueError" \/ \E b \in Banks : CallChecker(<<>>, b))
    BY <1>2 DEF CheckEmitted, CallChecker
  <2> QED BY <2>1, <2>2, CallCheckerStep DEF CheckedInv
<1>3. CASE CheckByHand
  <2>1. PICK list \in Streams, b \in Banks : CallChecker(list, b)
    BY <1>3 DEF CheckByHand
  <2>2. list \in Seq(MemoryAccess) /\ verdict = "idle"
    BY <2>1, MemoryBankAssumption DEF CallChecker
  <2> QED BY <2>1, <2>2, CallCheckerStep DEF CheckedInv
<1>4. CASE CheckerSteps
  <2>1. verdict = "open"
    BY <1>4 DEF CheckerSteps, BookAccess, JudgeSlot, Return
  <2> QED BY <1>4, <2>1, BankStep DEF CheckedInv, BankNext
<1> QED BY <1>1, <1>2, <1>3, <1>4 DEF ToolchainNext, toolchainVars, others

LEMMA CheckedInvariance == ToolchainSpec => []CheckedInv
<1>1. ToolchainInit => CheckedInv
  BY BankStarts DEF ToolchainInit, CheckedInv
<1> QED BY <1>1, CheckedStep, PTL DEF ToolchainSpec

\* The verdict is exact for every list of accesses the toolchain checks.
THEOREM ToolchainVerdicts == ToolchainSpec => [](VerdictIsExact /\ OkMeansInBounds)
<1>1. CheckedInv => VerdictIsExact /\ OkMeansInBounds
  <2>1. verdict = "ValueError" => VerdictIsExact /\ OkMeansInBounds
    BY DEF VerdictIsExact, OkMeansInBounds
  <2> QED BY <2>1, InvIsExact, InvIsInBounds DEF CheckedInv
<1> QED BY <1>1, CheckedInvariance, PTL
-----------------------------------------------------------------------------
(* The decode step: every value of a run is what its op makes of the       *)
(* values of its operands, so that a run of the decoder block solves the   *)
(* sixteen equations of the reference, and the caches it leaves are the    *)
(* window of the prompt.                                                   *)

(* The values of a run.                                                    *)

\* No op writes a name that is known before it.
SingleAssignment == \A i \in DOMAIN graph.ops : Outs(graph.ops[i]) \cap KnownBefore(i) = {}

\* What the caller gave is still there, and what has run is what its op makes
\* of the values its operands have now.
Solved(vals, count) ==
  /\ \A name \in KnownBefore(1) : vals[name] = given[name]
  /\ \A i \in 1 .. count : vals[graph.ops[i].outputs[1]] = Result(graph.ops[i], vals)
ValuesInv ==
  /\ running # "no" => given = IF adapter = "step" THEN step[1].values ELSE Supplied
  /\ running # "no" /\ OneOutputEach /\ SingleAssignment => Solved(values, ran)

LEMMA KnownGrows ==
  ASSUME NEW i \in Nat, NEW j \in Nat, i <= j
  PROVE  KnownBefore(i) \subseteq KnownBefore(j)
<1>1. \A m \in 1 .. i - 1 : m \in 1 .. j - 1
  OBVIOUS
<1> QED BY <1>1 DEF KnownBefore

\* A result is that of the op's operands.
LEMMA SameResult ==
  ASSUME NEW op, NEW g, NEW vals, NEW others_,
         op.kind = g.kind, op.inputs = g.inputs, op.max_len = g.max_len,
         Arity(g.kind) \in 1 .. 3, g.kind = "append_cache" => Arity(g.kind) = 2,
         \A i \in 1 .. Arity(g.kind) : others_[g.inputs[i]] = vals[g.inputs[i]]
  PROVE  Result(op, others_) = Result(g, vals)
<1>1. CASE g.kind = "append_cache"
  <2>1. 1 \in 1 .. Arity(g.kind) /\ 2 \in 1 .. Arity(g.kind)
    BY <1>1
  <2> QED BY <1>1, <2>1 DEF Result
<1>2. CASE g.kind # "append_cache"
  <2>1. [i \in 1 .. Arity(op.kind) |-> others_[op.inputs[i]]]
          = [i \in 1 .. Arity(g.kind) |-> vals[g.inputs[i]]]
    OBVIOUS
  <2> QED BY <1>2, <2>1 DEF Result
<1> QED BY <1>1, <1>2

LEMMA ArityOf ==
  ASSUME NEW op, Refusal(op) = "none"
  PROVE  Arity(op.kind) \in 1 .. 3 /\ (op.kind = "append_cache" => Arity(op.kind) = 2)
<1>1. op.kind \in Elementwise \cup Binary \cup {"softmax"}
  BY DEF Refusal
<1> QED BY <1>1 DEF Elementwise, Binary, Arity

\* The op at a place of a compiled program: it reads what is known before it and
\* writes one name.
LEMMA ProgramOp ==
  ASSUME CompilerInv, ProgramInv, compiling = "compiled", OneOutputEach,
         NEW i \in Nat, i < Len(schedule)
  PROVE  LET g == graph.ops[i + 1] IN
         /\ i + 1 \in DOMAIN graph.ops /\ Outs(g) = {g.outputs[1]}
         /\ Arity(g.kind) \in 1 .. 3 /\ (g.kind = "append_cache" => Arity(g.kind) = 2)
         /\ \A j \in 1 .. Arity(g.kind) : g.inputs[j] \in KnownBefore(i + 1)
<1> DEFINE g == graph.ops[i + 1]
<1>1. /\ i + 1 \in DOMAIN graph.ops /\ Refusal(g) = "none"
      /\ g.inputs \in Seq(STRING) /\ g.outputs \in Seq(STRING)
  BY ScheduledOp
<1>2. Len(g.outputs) = 1 /\ Len(g.inputs) >= Arity(g.kind)
  BY <1>1 DEF OneOutputEach
<1>3. Outs(g) = {g.outputs[1]}
  <2>1. DOMAIN g.outputs = {1}
    BY <1>1, <1>2, OneOfThem
  <2> QED BY <2>1 DEF Outs
<1>4. Arity(g.kind) \in 1 .. 3 /\ (g.kind = "append_cache" => Arity(g.kind) = 2)
  BY <1>1, ArityOf
<1>5. Ins(g) \subseteq KnownBefore(i + 1)
  <2>1. Validated(Len(graph.ops)) /\ Len(graph.ops) \in Nat
    BY DEF CompilerInv, Stages, ArgsOK, ArgsOf
  <2>2. i + 1 \in 1 .. Len(graph.ops)
    BY <1>1 DEF CompilerInv, ArgsOK, ArgsOf
  <2> QED BY <2>1, <2>2 DEF Validated
<1>6. \A j \in 1 .. Arity(g.kind) : j \in DOMAIN g.inputs
  BY <1>1, <1>2, <1>4
<1>7. \A j \in 1 .. Arity(g.kind) : g.inputs[j] \in KnownBefore(i + 1)
  BY <1>5, <1>6 DEF Ins
<1> QED BY <1>1, <1>3, <1>4, <1>7

\* Storing the next result leaves the ones before it what they are.
LEMMA StoredSolves ==
  ASSUME CompilerInv, ProgramInv, compiling = "compiled", OneOutputEach, SingleAssignment,
         NEW i \in Nat, i < Len(schedule), NEW vals,
         KnownBefore(i + 1) \subseteq DOMAIN vals, Solved(vals, i)
  PROVE  Solved(Stored(schedule[i + 1], vals), i + 1)
<1> DEFINE op  == schedule[i + 1]
           g   == graph.ops[i + 1]
           out == g.outputs[1]
           new == Stored(op, vals)
<1>1. /\ op.kind = g.kind /\ op.inputs = g.inputs /\ op.outputs = g.outputs /\ op.max_len = g.max_len
  BY ScheduledOp
<1>2. \A j \in 0 .. i : j \in Nat /\ j < Len(schedule)
  BY ScheduleLength
<1>3. out \notin KnownBefore(i + 1)
  BY ProgramOp DEF SingleAssignment
<1>4. \A name \in KnownBefore(i + 1) : new[name] = vals[name]
  BY <1>1, <1>3 DEF Stored
<1>5. \A j \in 1 .. i + 1 : KnownBefore(j) \subseteq KnownBefore(i + 1)
  BY KnownGrows
<1>6. \A j \in 1 .. i + 1 : Result(graph.ops[j], new) = Result(graph.ops[j], vals)
  <2> SUFFICES ASSUME NEW j \in 0 .. i
               PROVE  Result(graph.ops[j + 1], new) = Result(graph.ops[j + 1], vals)
    <3>1. \A j \in 1 .. i + 1 : j - 1 \in 0 .. i /\ (j - 1) + 1 = j
      OBVIOUS
    <3> QED BY <3>1
  <2> DEFINE h == graph.ops[j + 1]
  <2>1. /\ Arity(h.kind) \in 1 .. 3 /\ (h.kind = "append_cache" => Arity(h.kind) = 2)
        /\ \A m \in 1 .. Arity(h.kind) : h.inputs[m] \in KnownBefore(j + 1)
    BY <1>2, ProgramOp
  <2>2. KnownBefore(j + 1) \subseteq KnownBefore(i + 1)
    BY <1>5
  <2>3. \A m \in 1 .. Arity(h.kind) : new[h.inputs[m]] = vals[h.inputs[m]]
    BY <1>4, <2>1, <2>2
  <2> HIDE DEF h, new
  <2> QED BY <2>1, <2>3, SameResult DEF h
<1>7. \A j \in 1 .. i : graph.ops[j].outputs[1] \in KnownBefore(i + 1)
  <2> SUFFICES ASSUME NEW j \in 0 .. i - 1
               PROVE  graph.ops[j + 1].outputs[1] \in KnownBefore(i + 1)
    <3>1. \A j \in 1 .. i : j - 1 \in 0 .. i - 1 /\ (j - 1) + 1 = j
      OBVIOUS
    <3> QED BY <3>1
  <2> DEFINE h == graph.ops[j + 1]
  <2>1. Outs(h) = {h.outputs[1]}
    <3>1. j \in 0 .. i /\ j \in Nat
      OBVIOUS
    <3> QED BY <1>2, <3>1, ProgramOp
  <2>2. j + 1 \in 1 .. (i + 1) - 1
    OBVIOUS
  <2>3. h.outputs[1] \in Outs(h)
    BY <2>1
  <2> QED BY <2>2, <2>3 DEF KnownBefore
<1>8. new[out] = Result(g, vals)
  <2>1. Result(op, vals) = Result(g, vals)
    <3>1. /\ Arity(g.kind) \in 1 .. 3 /\ (g.kind = "append_cache" => Arity(g.kind) = 2)
      BY ProgramOp
    <3> HIDE DEF op, g
    <3> QED BY <1>1, <3>1, SameResult
  <2> QED BY <1>1, <2>1 DEF Stored
<1> HIDE DEF new, out, op
<1>9. \A j \in 1 .. i + 1 : new[graph.ops[j].outputs[1]] = Result(graph.ops[j], new)
  <2> SUFFICES ASSUME NEW j \in 1 .. i + 1
               PROVE  new[graph.ops[j].outputs[1]] = Result(graph.ops[j], new)
    OBVIOUS
  <2>1. CASE j = i + 1
    BY <1>6, <1>8, <2>1 DEF out
  <2>2. CASE j # i + 1
    <3>1. j \in 1 .. i
      BY <2>2
    <3> QED BY <1>4, <1>6, <1>7, <3>1 DEF Solved
  <2> QED BY <2>1, <2>2
<1>10. \A name \in KnownBefore(1) : new[name] = given[name]
  <2>1. KnownBefore(1) \subseteq KnownBefore(i + 1)
    BY <1>5
  <2> QED BY <1>4, <2>1 DEF Solved
<1> QED BY <1>9, <1>10 DEF Solved, new, op

LEMMA SameValues ==
  ASSUME graph' = graph, given' = given
  PROVE  /\ SingleAssignment' <=> SingleAssignment
         /\ \A vals, count : Solved(vals, count)' <=> Solved(vals, count)
<1>1. \A m : KnownBefore(m)' = KnownBefore(m)
  BY SameProgram
<1>2. \A op : Outs(op)' = Outs(op)
  BY DEF Outs
<1>3. \A op, vals : Result(op, vals)' = Result(op, vals)
  BY DEF Result, Shape, TensorSpec
<1>4. SingleAssignment' <=> SingleAssignment
  BY <1>1, <1>2 DEF SingleAssignment
<1>5. \A vals, count : Solved(vals, count)' <=> Solved(vals, count)
  BY <1>1, <1>3 DEF Solved
<1> QED BY <1>4, <1>5

\* The adapter is left alone once there is a program.
LEMMA AdapterRests ==
  ASSUME compiling # "idle", [ToolchainNext]_toolchainVars
  PROVE  UNCHANGED tinyVars
<1>1. TinyGPTSteps => UNCHANGED tinyVars
  BY DEF TinyGPTSteps, BuildStep, CompileStep, RunStep
<1> QED BY <1>1 DEF ToolchainNext, toolchainVars, streamVars

\* The runtime leaves its arguments alone and stores the result of the op in turn.
LEMMA RuntimeStores ==
  ASSUME RuntimeInv, [ToolchainNext]_toolchainVars, running # "no"
  PROVE  /\ running' # "no" /\ given' = given
         /\ \/ values' = values /\ ran' = ran
            \/ ran < Len(schedule) /\ values' = Stored(schedule[ran + 1], values) /\ ran' = ran + 1
<1> DEFINE Stays  == values' = values /\ ran' = ran
           Stores == ran < Len(schedule) /\ values' = Stored(schedule[ran + 1], values) /\ ran' = ran + 1
           Goal   == running' # "no" /\ given' = given /\ (Stays \/ Stores)
<1>1. CASE UNCHANGED runtimeVars
  BY <1>1 DEF runtimeVars
<1>2. CASE FailOp
  BY <1>2, ComplaintKinds DEF FailOp
<1>3. CASE RunOnFp32
  BY <1>3 DEF RunOnFp32, StoreValue, Op
<1>4. CASE EndRun \/ RunInt8Matmul \/ RunAttentionDecode
  BY <1>4 DEF EndRun, RunInt8Matmul, RunAttentionDecode
<1>5. CASE EndInt8Matmul \/ EndAttentionDecode
  <2>1. running \in Called /\ running' = "yes" /\ given' = given /\ StoreValue(Op)
    BY <1>5 DEF EndInt8Matmul, EndAttentionDecode, Called
  <2>2. ran < Len(schedule)
    BY <2>1 DEF RuntimeInv
  <2> QED BY <2>1, <2>2 DEF StoreValue, Op
<1>6. CASE BackendSteps
  BY <1>1, <1>6 DEF BackendSteps
<1>7. ~RunGraph /\ ~RunStep
  BY DEF RunGraph, RunStep, StartRun
<1>8. CASE BuildStep \/ CompileStep
  BY <1>1, <1>8 DEF BuildStep, CompileStep
<1> HIDE DEF Goal
<1>9. UNCHANGED runtimeVars => Goal
  BY <1>1 DEF Goal
<1>10. RuntimeSteps \/ TinyGPTSteps => Goal
  BY <1>2, <1>3, <1>4, <1>5, <1>6, <1>7, <1>8 DEF RuntimeSteps, TinyGPTSteps, Goal
<1>11. Goal
  BY <1>7, <1>9, <1>10 DEF ToolchainNext, toolchainVars, streamVars
<1> QED BY <1>11 DEF Goal

\* The runtime begins with what its caller gave it.
LEMMA RuntimeBegins ==
  ASSUME RuntimeInv, [ToolchainNext]_toolchainVars, running = "no", running' # "no"
  PROVE  /\ UNCHANGED <<tinyVars, compilerVars>> /\ ran' = 0 /\ values' = given'
         /\ given' = IF adapter = "step" THEN step[1].values ELSE Supplied
<1>1. ~(UNCHANGED runtimeVars)
  BY DEF runtimeVars
<1>2. ran = 0
  BY DEF RuntimeInv
<1>3. CASE RunGraph /\ UNCHANGED <<tinyVars, compilerVars>>
  BY <1>2, <1>3 DEF RunGraph, StartRun
<1>4. CASE RunStep
  BY <1>2, <1>4 DEF RunStep, StartRun
<1>5. RuntimeSteps => BackendSteps
  BY DEF RuntimeSteps, FailOp, RunOnFp32, EndRun, RunInt8Matmul, EndInt8Matmul,
     RunAttentionDecode, EndAttentionDecode
<1>6. ~BackendSteps
  BY <1>1 DEF BackendSteps
<1>7. ~BuildStep /\ ~CompileStep
  BY <1>1 DEF BuildStep, CompileStep
<1> QED BY <1>1, <1>3, <1>4, <1>5, <1>6, <1>7 DEF ToolchainNext, TinyGPTSteps, toolchainVars, streamVars

LEMMA ValuesStep ==
  ASSUME ToolchainInv, ValuesInv, [ToolchainNext]_toolchainVars
  PROVE  ValuesInv'
<1>1. CompilerInv /\ ProgramInv /\ RuntimeInv /\ [CompilerNext]_compilerVars
  BY ToolchainCompilerStep DEF ToolchainInv
<1>2. CASE running' = "no"
  BY <1>2 DEF ValuesInv
<1>3. CASE running = "no" /\ running' # "no"
  <2>1. /\ UNCHANGED <<tinyVars, compilerVars>> /\ ran' = 0 /\ values' = given'
        /\ given' = IF adapter = "step" THEN step[1].values ELSE Supplied
    BY <1>1, <1>3, RuntimeBegins
  <2>2. graph' = graph /\ adapter' = adapter /\ step' = step
    BY <2>1 DEF tinyVars, compilerVars, compilerArgs
  <2>3. Supplied' = Supplied
    BY <2>2 DEF Supplied, Weights
  <2>4. Solved(values, ran)'
    <3>1. 1 .. ran' = {}
      BY <2>1
    <3> QED BY <2>1, <3>1 DEF Solved
  <2> QED BY <2>1, <2>2, <2>3, <2>4 DEF ValuesInv
<1>4. CASE running # "no" /\ running' # "no"
  <2>1. compiling = "compiled" /\ graph' = graph /\ schedule' = schedule
    BY <1>1, <1>4, CompiledStays DEF RuntimeInv
  <2>2. adapter' = adapter /\ step' = step
    BY <2>1, AdapterRests DEF tinyVars
  <2>3. given' = given
    BY <1>1, <1>4, RuntimeStores
  <2>4. Supplied' = Supplied
    BY <2>1 DEF Supplied, Weights
  <2>5. ASSUME OneOutputEach, SingleAssignment PROVE Solved(values', ran')
    <3>1. Solved(values, ran) /\ KnownBefore(ran + 1) \subseteq DOMAIN values /\ ran \in Nat
      BY <1>1, <1>4, <2>5 DEF ValuesInv, RuntimeInv
    <3>2. CASE values' = values /\ ran' = ran
      BY <3>1, <3>2
    <3>3. CASE ran < Len(schedule) /\ values' = Stored(schedule[ran + 1], values) /\ ran' = ran + 1
      BY <1>1, <2>1, <2>5, <3>1, <3>3, StoredSolves
    <3> QED BY <1>1, <1>4, <3>2, <3>3, RuntimeStores
  <2>6. Solved(values, ran)' <=> Solved(values', ran')
    <3>1. \A m : KnownBefore(m)' = KnownBefore(m)
      BY <2>1, SameProgram
    <3>2. \A op, vals : Result(op, vals)' = Result(op, vals)
      BY <2>1 DEF Result, Shape, TensorSpec
    <3> QED BY <2>1, <2>3, <3>1, <3>2 DEF Solved
  <2> QED BY <1>4, <2>1, <2>2, <2>3, <2>4, <2>5, <2>6, SameProgram, SameValues DEF ValuesInv
<1> QED BY <1>2, <1>3, <1>4

\* Every value of a run is the result of its op on the values of its operands.
THEOREM ToolchainValues == ToolchainSpec => []ValuesInv
<1>1. ToolchainInit => ValuesInv
  BY DEF ToolchainInit, RuntimeInit, ValuesInv
<1>2. ToolchainInv /\ ValuesInv /\ [ToolchainNext]_toolchainVars => ValuesInv'
  BY ValuesStep
<1> QED BY <1>1, <1>2, ToolchainInvariance, PTL DEF ToolchainSpec

-----------------------------------------------------------------------------
(* Rows, and the zeros that pad them.                                      *)

\* The last rows of a list, behind zeros where there are too few.
Padded(rows, count) ==
  [j \in 1 .. count |-> IF j + Len(rows) - count < 1 THEN <<"zeros">> ELSE rows[j + Len(rows) - count]]
Zeros(count) == [i \in 1 .. count |-> <<"zeros">>]

\* What the last rows are, as a sequence of elements of S.
AreLast(last, rows, count, S) ==
  /\ last \in Seq(S)
  /\ Len(last) = IF Len(rows) <= count THEN Len(rows) ELSE count
  /\ \A j \in 1 .. Len(last) : last[j] = rows[Len(rows) - Len(last) + j]

LEMMA LastRowsAt ==
  ASSUME NEW S, NEW rows \in Seq(S), NEW count \in Nat \ {0}
  PROVE  AreLast(LastRows(rows, count), rows, count, S)
<1> USE DEF AreLast
<1>1. Len(rows) \in Nat
  OBVIOUS
<1>2. CASE Len(rows) <= count
  <2>1. LastRows(rows, count) = rows
    BY <1>2 DEF LastRows
  <2>2. \A j \in 1 .. Len(rows) : Len(rows) - Len(rows) + j = j
    BY <1>1
  <2> QED BY <1>2, <2>1, <2>2
<1>3. CASE ~(Len(rows) <= count)
  <2> DEFINE m == Len(rows) - count + 1
             sub == SubSeq(rows, m, Len(rows))
  <2>1. LastRows(rows, count) = sub
    BY <1>3 DEF LastRows
  <2>2. m \in 1 .. Len(rows) + 1
    BY <1>1, <1>3
  <2> HIDE DEF m
  <2>3. sub \in Seq(S)
    BY <2>2
  <2>4. Len(sub) = Len(rows) - m + 1
    BY <2>2
  <2>5. \A j \in 1 .. Len(rows) - m + 1 : sub[j] = rows[m + j - 1]
    BY <2>2
  <2> HIDE DEF sub
  <2>6. Len(sub) = count
    BY <1>1, <1>3, <2>4 DEF m
  <2>7. \A j \in 1 .. count : sub[j] = rows[Len(rows) - count + j]
    <3>1. Len(rows) - m + 1 = count /\ \A j \in 1 .. count : m + j - 1 = Len(rows) - count + j
      BY <1>1, <1>3 DEF m
    <3> QED BY <2>5, <3>1
  <2> QED BY <1>3, <2>1, <2>3, <2>6, <2>7
<1> QED BY <1>2, <1>3

LEMMA ZerosSeq ==
  ASSUME NEW S, NEW count \in Nat
  PROVE  /\ Zeros(count) \in Seq(S \cup {<<"zeros">>}) /\ Len(Zeros(count)) = count
         /\ \A i \in 1 .. count : Zeros(count)[i] = <<"zeros">>
<1>1. Zeros(count) \in [1 .. count -> S \cup {<<"zeros">>}]
  BY DEF Zeros
<1>2. Zeros(count) \in Seq(S \cup {<<"zeros">>}) /\ Len(Zeros(count)) = count
  BY <1>1
<1> QED BY <1>2 DEF Zeros

LEMMA PaddedSeq ==
  ASSUME NEW S, NEW rows \in Seq(S), NEW count \in Nat \ {0}
  PROVE  /\ Padded(rows, count) \in Seq(S \cup {<<"zeros">>}) /\ Len(Padded(rows, count)) = count
         /\ \A j \in 1 .. count :
              Padded(rows, count)[j] = IF j + Len(rows) - count < 1 THEN <<"zeros">>
                                       ELSE rows[j + Len(rows) - count]
<1>1. Len(rows) \in Nat
  OBVIOUS
<1>2. \A j \in 1 .. count : Padded(rows, count)[j] \in S \cup {<<"zeros">>}
  <2> SUFFICES ASSUME NEW j \in 1 .. count PROVE Padded(rows, count)[j] \in S \cup {<<"zeros">>}
    OBVIOUS
  <2>1. CASE j + Len(rows) - count < 1
    BY <2>1 DEF Padded
  <2>2. CASE ~(j + Len(rows) - count < 1)
    <3>1. j + Len(rows) - count \in 1 .. Len(rows)
      BY <1>1, <2>2
    <3>2. rows[j + Len(rows) - count] \in S
      BY <3>1
    <3> QED BY <2>2, <3>2 DEF Padded
  <2> QED BY <2>1, <2>2
<1>3. Padded(rows, count) \in [1 .. count -> S \cup {<<"zeros">>}]
  BY <1>2 DEF Padded
<1>4. Padded(rows, count) \in Seq(S \cup {<<"zeros">>}) /\ Len(Padded(rows, count)) = count
  BY <1>3
<1> QED BY <1>4 DEF Padded

\* Two sequences of a length that agree at every place.
LEMMA SameSequence ==
  ASSUME NEW S, NEW T, NEW s \in Seq(S), NEW t \in Seq(T), Len(s) = Len(t),
         \A j \in 1 .. Len(s) : s[j] = t[j]
  PROVE  s = t
<1>1. s \in [1 .. Len(s) -> S] /\ t \in [1 .. Len(s) -> T]
  OBVIOUS
<1> QED BY <1>1

LEMMA ZerosBefore ==
  ASSUME NEW S, NEW rows \in Seq(S), NEW count \in Nat \ {0}
  PROVE  LET last == LastRows(rows, count) IN
         Zeros(count - Len(last)) \o last = Padded(rows, count)
<1> DEFINE last == LastRows(rows, count)
           m == count - Len(last)
           both == Zeros(m) \o last
<1>1. /\ last \in Seq(S) /\ Len(rows) \in Nat
      /\ Len(last) = IF Len(rows) <= count THEN Len(rows) ELSE count
      /\ \A j \in 1 .. Len(last) : last[j] = rows[Len(rows) - Len(last) + j]
  BY LastRowsAt DEF AreLast
<1>2. last \in Seq(S \cup {<<"zeros">>})
  BY <1>1
<1> HIDE DEF last
<1>3. Len(last) \in Nat /\ m \in Nat /\ Len(last) = count - m
  BY <1>1
<1> HIDE DEF m
<1>4. Zeros(m) \in Seq(S \cup {<<"zeros">>}) /\ Len(Zeros(m)) = m /\ \A i \in 1 .. m : Zeros(m)[i] = <<"zeros">>
  BY <1>3, ZerosSeq
<1>5. /\ both \in Seq(S \cup {<<"zeros">>}) /\ Len(both) = count
  BY <1>2, <1>3, <1>4
<1>6. \A j \in 1 .. count : both[j] = IF j <= m THEN Zeros(m)[j] ELSE last[j - m]
  BY <1>2, <1>3, <1>4
<1> HIDE DEF both
<1>7. \A j \in 1 .. count : both[j] = Padded(rows, count)[j]
  <2> SUFFICES ASSUME NEW j \in 1 .. count PROVE both[j] = Padded(rows, count)[j]
    OBVIOUS
  <2>1. CASE j <= m
    <3>1. m = count - Len(rows)
      BY <1>1, <1>3, <2>1
    <3>2. j + Len(rows) - count < 1 /\ j \in 1 .. m
      BY <1>1, <1>3, <2>1, <3>1
    <3>3. both[j] = <<"zeros">>
      BY <1>4, <1>6, <2>1, <3>2
    <3>4. Padded(rows, count)[j] = <<"zeros">>
      BY <3>2, PaddedSeq
    <3> QED BY <3>3, <3>4
  <2>2. CASE ~(j <= m)
    <3>0. Len(rows) \in Nat /\ j \in Nat /\ j <= count /\ count \in Nat
      BY <1>1
    <3>1. j - m \in 1 .. Len(last) /\ Len(rows) - Len(last) + (j - m) = j + Len(rows) - count
      BY <1>3, <2>2, <3>0
    <3>2. ~(j + Len(rows) - count < 1)
      BY <1>1, <1>3, <2>2
    <3>3. last[j - m] = rows[j + Len(rows) - count]
      BY <1>1, <3>1
    <3>4. both[j] = last[j - m]
      BY <1>6, <2>2
    <3>5. Padded(rows, count)[j] = rows[j + Len(rows) - count]
      BY <3>2, PaddedSeq
    <3> QED BY <3>3, <3>4, <3>5
  <2> QED BY <2>1, <2>2
<1>8. both = Padded(rows, count)
  <2>1. Padded(rows, count) \in Seq(S \cup {<<"zeros">>}) /\ Len(Padded(rows, count)) = count
    BY PaddedSeq
  <2> QED BY <1>5, <1>7, <2>1, SameSequence
<1> QED BY <1>8 DEF both, m, last

LEMMA LastOfPadded ==
  ASSUME NEW S, NEW rows \in Seq(S), rows # <<>>, NEW count \in Nat \ {0}
  PROVE  LastRows(Zeros(count) \o rows, count) = Padded(rows, count)
<1> DEFINE both == Zeros(count) \o rows
           last == LastRows(both, count)
           T == S \cup {<<"zeros">>}
<1>0. count \in Nat /\ count > 0
  OBVIOUS
<1>1. rows \in Seq(T) /\ Len(rows) \in Nat /\ Len(rows) > 0
  OBVIOUS
<1>2. /\ Zeros(count) \in Seq(T) /\ Len(Zeros(count)) = count
      /\ \A i \in 1 .. count : Zeros(count)[i] = <<"zeros">>
  BY ZerosSeq
<1> HIDE DEF T
<1>3. /\ both \in Seq(T) /\ Len(both) = count + Len(rows)
      /\ \A j \in 1 .. count + Len(rows) : both[j] = IF j <= count THEN Zeros(count)[j] ELSE rows[j - count]
  <2> DEFINE zeros == Zeros(count)
  <2>1. zeros \in Seq(T) /\ Len(zeros) = count
    BY <1>2
  <2> HIDE DEF zeros
  <2>2. /\ zeros \o rows \in Seq(T) /\ Len(zeros \o rows) = Len(zeros) + Len(rows)
        /\ \A j \in 1 .. Len(zeros) + Len(rows) :
             (zeros \o rows)[j] = IF j <= Len(zeros) THEN zeros[j] ELSE rows[j - Len(zeros)]
    BY <1>1, <2>1, Concatenated, Zenon
  <2> QED BY <2>1, <2>2, Zenon DEF both, zeros
<1>4. \A j \in 1 .. count + Len(rows) : both[j] = IF j <= count THEN Zeros(count)[j] ELSE rows[j - count]
  BY <1>3, Zenon
<1> HIDE DEF both
<1>5. ~(Len(both) <= count)
  BY <1>1, <1>3
<1>6. /\ last \in Seq(T) /\ Len(last) = count
      /\ \A j \in 1 .. count : last[j] = both[Len(both) - count + j]
  <2>1. /\ last \in Seq(T) /\ Len(last) = (IF Len(both) <= count THEN Len(both) ELSE count)
        /\ \A j \in 1 .. Len(last) : last[j] = both[Len(both) - Len(last) + j]
    <3>1. AreLast(last, both, count, T)
      BY <1>3, LastRowsAt, Zenon
    <3> QED BY <3>1, Zenon DEF AreLast
  <2> HIDE DEF last
  <2>2. Len(last) = count
    BY <1>5, <2>1
  <2> QED BY <2>1, <2>2
<1> HIDE DEF last
<1>7. \A j \in 1 .. count : last[j] = Padded(rows, count)[j]
  <2> SUFFICES ASSUME NEW j \in 1 .. count PROVE last[j] = Padded(rows, count)[j]
    OBVIOUS
  <2>1. last[j] = both[Len(rows) + j] /\ Len(rows) + j \in 1 .. count + Len(rows)
    <3>1. Len(both) - count + j = Len(rows) + j
      BY <1>1, <1>3
    <3> QED BY <1>1, <1>6, <3>1, SMTT(30)
  <2>2. CASE Len(rows) + j <= count
    <3>1. j + Len(rows) - count < 1 /\ Len(rows) + j \in 1 .. count
      BY <1>1, <2>2
    <3>2. last[j] = <<"zeros">>
      BY <1>2, <1>4, <2>1, <2>2, <3>1
    <3>3. Padded(rows, count)[j] = <<"zeros">>
      BY <3>1, PaddedSeq
    <3> QED BY <3>2, <3>3
  <2>3. CASE ~(Len(rows) + j <= count)
    <3>1. ~(j + Len(rows) - count < 1) /\ (Len(rows) + j) - count = j + Len(rows) - count
      BY <1>1, <2>3
    <3>2. last[j] = rows[j + Len(rows) - count]
      BY <1>4, <2>1, <2>3, <3>1
    <3>3. Padded(rows, count)[j] = rows[j + Len(rows) - count]
      BY <3>1, PaddedSeq
    <3> QED BY <3>2, <3>3
  <2> QED BY <2>2, <2>3
<1>8. last = Padded(rows, count)
  <2>1. Padded(rows, count) \in Seq(S \cup {<<"zeros">>}) /\ Len(Padded(rows, count)) = count
    BY PaddedSeq
  <2> QED BY <1>6, <1>7, <2>1, SameSequence
<1> QED BY <1>8 DEF last, both

\* One more row drops the first.
LEMMA PaddedMoves ==
  ASSUME NEW S, NEW rows \in Seq(S), NEW row \in S, NEW count \in Nat \ {0}
  PROVE  LastRows(Append(Padded(rows, count), row), count) = Padded(Append(rows, row), count)
<1> DEFINE more == Append(rows, row)
           next == Append(Padded(rows, count), row)
           last == LastRows(next, count)
           T == S \cup {<<"zeros">>}
<1>1. more \in Seq(S) /\ Len(rows) \in Nat /\ Len(more) = Len(rows) + 1
      /\ \A j \in 1 .. Len(rows) + 1 : more[j] = IF j <= Len(rows) THEN rows[j] ELSE row
  OBVIOUS
<1>2. /\ Padded(rows, count) \in Seq(T) /\ Len(Padded(rows, count)) = count
  BY PaddedSeq
<1>3. row \in T
  OBVIOUS
<1> HIDE DEF T, more
<1>4. next \in Seq(T) /\ Len(next) = count + 1
  BY <1>2, <1>3
<1>5. \A j \in 1 .. count + 1 : next[j] = IF j <= count THEN Padded(rows, count)[j] ELSE row
  BY <1>2, <1>3
<1> HIDE DEF next
<1>6. ~(Len(next) <= count)
  BY <1>4
<1>7. /\ last \in Seq(T) /\ Len(last) = count
      /\ \A j \in 1 .. count : last[j] = next[Len(next) - count + j]
  <2>1. AreLast(last, next, count, T)
    BY <1>4, LastRowsAt, Zenon
  <2>2. /\ last \in Seq(T) /\ Len(last) = (IF Len(next) <= count THEN Len(next) ELSE count)
        /\ \A j \in 1 .. Len(last) : last[j] = next[Len(next) - Len(last) + j]
    BY <2>1, Zenon DEF AreLast
  <2> HIDE DEF last
  <2>3. Len(last) = count
    BY <1>6, <2>2
  <2> QED BY <2>2, <2>3
<1> HIDE DEF last
<1>8. \A j \in 1 .. count : last[j] = Padded(more, count)[j]
  <2> SUFFICES ASSUME NEW j \in 1 .. count PROVE last[j] = Padded(more, count)[j]
    OBVIOUS
  <2>1. last[j] = next[j + 1] /\ j + 1 \in 1 .. count + 1
    <3>1. Len(next) - count + j = j + 1
      BY <1>4
    <3> QED BY <1>7, <3>1
  <2>2. Padded(more, count)[j] = IF j + Len(more) - count < 1 THEN <<"zeros">>
                                 ELSE more[j + Len(more) - count]
    BY <1>1, PaddedSeq
  <2>3. CASE j = count
    <3>1. j + Len(more) - count = Len(rows) + 1 /\ ~(j + Len(more) - count < 1)
      BY <1>1, <2>3
    <3> QED BY <1>1, <1>5, <2>1, <2>2, <2>3, <3>1
  <2>4. CASE j # count
    <3>0. Len(rows) \in Nat /\ Len(more) = Len(rows) + 1 /\ j \in Nat /\ j < count /\ count \in Nat /\ j >= 1
      BY <1>1, <2>4
    <3>1. j + 1 \in 1 .. count /\ (j + 1) + Len(rows) - count = j + Len(more) - count
      BY <3>0
    <3>4. Padded(rows, count)[j + 1] = IF (j + 1) + Len(rows) - count < 1 THEN <<"zeros">>
                                       ELSE rows[(j + 1) + Len(rows) - count]
      BY <3>1, PaddedSeq
    <3>5. j + 1 <= count
      BY <3>1
    <3>2. next[j + 1] = IF j + Len(more) - count < 1 THEN <<"zeros">> ELSE rows[j + Len(more) - count]
      BY <1>5, <2>1, <3>1, <3>4, <3>5
    <3>3. ~(j + Len(more) - count < 1) => more[j + Len(more) - count] = rows[j + Len(more) - count]
      <4>1. ~(j + Len(more) - count < 1) => j + Len(more) - count \in 1 .. Len(rows)
        BY <1>1, <2>4
      <4> QED BY <1>1, <4>1
    <3> QED BY <2>1, <2>2, <3>2, <3>3
  <2> QED BY <2>3, <2>4
<1>9. last = Padded(more, count)
  <2>1. Padded(more, count) \in Seq(S \cup {<<"zeros">>}) /\ Len(Padded(more, count)) = count
    BY <1>1, PaddedSeq
  <2> QED BY <1>7, <1>8, <2>1, SameSequence
<1> QED BY <1>9 DEF last, next, more

-----------------------------------------------------------------------------
(* The decoder block.                                                      *)

\* Op i of the block, in the four fields that say what it computes.
IsOp(i, kind, ins, out) ==
  graph.ops[i].kind = kind /\ graph.ops[i].inputs = ins /\ graph.ops[i].outputs = <<out>>

DecoderProgram ==
  /\ DOMAIN graph.ops = 1 .. 16
  /\ IsOp(1, "matmul", <<"x", "w_q">>, "q") /\ IsOp(2, "matmul", <<"x", "w_k">>, "k_new")
  /\ IsOp(3, "matmul", <<"x", "w_v">>, "v_new")
  /\ IsOp(4, "append_cache", <<"k_cache", "k_new">>, "k_all")
  /\ IsOp(5, "append_cache", <<"v_cache", "v_new">>, "v_all")
  /\ IsOp(6, "attention_decode", <<"q", "k_all", "v_all">>, "attn_ctx")
  /\ IsOp(7, "matmul", <<"attn_ctx", "w_o">>, "attn_out")
  /\ IsOp(8, "add", <<"x", "attn_out">>, "resid_1")
  /\ IsOp(9, "rmsnorm", <<"resid_1", "gamma_1">>, "norm_1")
  /\ IsOp(10, "matmul", <<"norm_1", "w_ff1">>, "ff1") /\ IsOp(11, "silu", <<"ff1">>, "ff_act")
  /\ IsOp(12, "matmul", <<"ff_act", "w_ff2">>, "ff2")
  /\ IsOp(13, "add", <<"norm_1", "ff2">>, "resid_2")
  /\ IsOp(14, "rmsnorm", <<"resid_2", "gamma_2">>, "norm_2")
  /\ IsOp(15, "matmul", <<"norm_2", "w_vocab">>, "logits")
  /\ IsOp(16, "argmax", <<"logits">>, "next_token")

LEMMA DecoderOpsAre ==
  ASSUME NEW c \in TinyGPTConfigs, graph = DecoderGraph(c)
  PROVE  /\ DecoderProgram
         /\ graph.ops[4].max_len = {c.cache_len} /\ graph.ops[5].max_len = {c.cache_len}
<1>1. graph.ops = DecoderOps(c)
  BY DEF DecoderGraph
<1>2. DOMAIN graph.ops = 1 .. 16
  BY <1>1 DEF DecoderOps
<1>3. /\ graph.ops[4].max_len = {c.cache_len} /\ graph.ops[5].max_len = {c.cache_len}
      /\ IsOp(4, "append_cache", <<"k_cache", "k_new">>, "k_all")
      /\ IsOp(5, "append_cache", <<"v_cache", "v_new">>, "v_all")
  BY <1>1 DEF DecoderOps, IsOp
<1>4. /\ IsOp(1, "matmul", <<"x", "w_q">>, "q") /\ IsOp(2, "matmul", <<"x", "w_k">>, "k_new")
      /\ IsOp(3, "matmul", <<"x", "w_v">>, "v_new")
      /\ IsOp(6, "attention_decode", <<"q", "k_all", "v_all">>, "attn_ctx")
      /\ IsOp(7, "matmul", <<"attn_ctx", "w_o">>, "attn_out")
      /\ IsOp(8, "add", <<"x", "attn_out">>, "resid_1")
  BY <1>1 DEF DecoderOps, IsOp
<1>5. /\ IsOp(9, "rmsnorm", <<"resid_1", "gamma_1">>, "norm_1")
      /\ IsOp(10, "matmul", <<"norm_1", "w_ff1">>, "ff1") /\ IsOp(11, "silu", <<"ff1">>, "ff_act")
      /\ IsOp(12, "matmul", <<"ff_act", "w_ff2">>, "ff2")
  BY <1>1 DEF DecoderOps, IsOp
<1>6. /\ IsOp(13, "add", <<"norm_1", "ff2">>, "resid_2")
      /\ IsOp(14, "rmsnorm", <<"resid_2", "gamma_2">>, "norm_2")
      /\ IsOp(15, "matmul", <<"norm_2", "w_vocab">>, "logits")
      /\ IsOp(16, "argmax", <<"logits">>, "next_token")
  BY <1>1 DEF DecoderOps, IsOp
<1> QED BY <1>2, <1>3, <1>4, <1>5, <1>6 DEF DecoderProgram

\* The name op i writes.
OutName == <<"q", "k_new", "v_new", "k_all", "v_all", "attn_ctx", "attn_out", "resid_1", "norm_1",
             "ff1", "ff_act", "ff2", "resid_2", "norm_2", "logits", "next_token">>

LEMMA Tuples ==
  ASSUME NEW a, NEW b, NEW d
  PROVE  /\ <<a>> \in Seq({a}) /\ Len(<<a>>) = 1
         /\ <<a, b>> \in Seq({a, b}) /\ Len(<<a, b>>) = 2
         /\ <<a, b, d>> \in Seq({a, b, d}) /\ Len(<<a, b, d>>) = 3
<1>1. <<a>> \in Seq({a}) /\ Len(<<a>>) = 1
  OBVIOUS
<1>2. <<a, b>> \in Seq({a, b}) /\ Len(<<a, b>>) = 2
  OBVIOUS
<1>3. <<a, b, d>> \in Seq({a, b, d}) /\ Len(<<a, b, d>>) = 3
  OBVIOUS
<1> QED BY <1>1, <1>2, <1>3

\* What an op of two operands is.
LEMMA TwoOperands ==
  ASSUME NEW i, NEW kind, NEW a, NEW b, NEW out, IsOp(i, kind, <<a, b>>, out)
  PROVE  /\ graph.ops[i].kind = kind /\ graph.ops[i].outputs = <<out>>
         /\ graph.ops[i].inputs[2] = b /\ Len(graph.ops[i].inputs) = 2
BY Tuples DEF IsOp

LEMMA OneOperand ==
  ASSUME NEW i, NEW kind, NEW a, NEW out, IsOp(i, kind, <<a>>, out)
  PROVE  graph.ops[i].kind = kind /\ graph.ops[i].outputs = <<out>> /\ Len(graph.ops[i].inputs) = 1
BY Tuples DEF IsOp

LEMMA TermOfOne ==
  ASSUME NEW k, NEW a
  PROVE  <<k>> \o <<a>> = <<k, a>>
<1> DEFINE S == {k, a}
           s == <<k>> \o <<a>>
<1>1. <<k>> \in Seq(S) /\ <<a>> \in Seq(S) /\ <<k, a>> \in Seq(S) /\ Len(<<k, a>>) = 2
  OBVIOUS
<1>2. s \in Seq(S) /\ Len(s) = 2 /\ s[1] = k /\ s[2] = a
  BY <1>1
<1> HIDE DEF s, S
<1>3. \A j \in 1 .. 2 : s[j] = <<k, a>>[j]
  BY <1>2
<1> QED BY <1>1, <1>2, <1>3, SameSequence DEF s

LEMMA TermOfTwo ==
  ASSUME NEW k, NEW a, NEW b
  PROVE  <<k>> \o <<a, b>> = <<k, a, b>>
<1> DEFINE S == {k, a, b}
           s == <<k>> \o <<a, b>>
<1>1. <<k>> \in Seq(S) /\ <<a, b>> \in Seq(S) /\ <<k, a, b>> \in Seq(S) /\ Len(<<k, a, b>>) = 3
  OBVIOUS
<1>2. s \in Seq(S) /\ Len(s) = 3 /\ s[1] = k /\ s[2] = a /\ s[3] = b
  BY <1>1
<1> HIDE DEF s, S
<1>3. \A j \in 1 .. 3 : s[j] = <<k, a, b>>[j]
  BY <1>2
<1> QED BY <1>1, <1>2, <1>3, SameSequence DEF s

LEMMA TermOfThree ==
  ASSUME NEW k, NEW a, NEW b, NEW d
  PROVE  <<k>> \o <<a, b, d>> = <<k, a, b, d>>
<1> DEFINE S == {k, a, b, d}
           s == <<k>> \o <<a, b, d>>
<1>1. <<k>> \in Seq(S) /\ <<a, b, d>> \in Seq(S) /\ <<k, a, b, d>> \in Seq(S) /\ Len(<<k, a, b, d>>) = 4
  OBVIOUS
<1>2. s \in Seq(S) /\ Len(s) = 4 /\ s[1] = k /\ s[2] = a /\ s[3] = b /\ s[4] = d
  BY <1>1
<1> HIDE DEF s, S
<1>3. \A j \in 1 .. 4 : s[j] = <<k, a, b, d>>[j]
  BY <1>2
<1>4. s = <<k, a, b, d>>
  <2> DEFINE t == <<k, a, b, d>>
  <2>1. t \in Seq(S) /\ Len(t) = 4 /\ \A j \in 1 .. 4 : s[j] = t[j]
    BY <1>1, <1>3
  <2> HIDE DEF t
  <2>2. s = t
    BY <1>2, <2>1, SameSequence
  <2> QED BY <2>2 DEF t
<1> QED BY <1>4 DEF s

LEMMA DecoderNames ==
  ASSUME NEW c \in TinyGPTConfigs, graph = DecoderGraph(c)
  PROVE  /\ graph.inputs \cup Weights \subseteq {"x", "k_cache", "v_cache"} \cup WeightNames
         /\ \A i \in 1 .. 16 : /\ graph.ops[i].outputs = <<OutName[i]>> /\ Outs(graph.ops[i]) = {OutName[i]}
                               /\ OutName[i] \notin {"x", "k_cache", "v_cache"} \cup WeightNames
         /\ \A i, j \in 1 .. 16 : j < i => OutName[j] # OutName[i]
<1>1. DecoderProgram /\ graph.ops[4].max_len # {} /\ graph.ops[5].max_len # {}
  BY DecoderOpsAre
<1> DEFINE Given == {"x", "k_cache", "v_cache"} \cup WeightNames
<1>3. \A i \in 1 .. 16 : graph.ops[i].outputs = <<OutName[i]>>
  <2>1. \A i \in 1 .. 16 : i \in {1, 2, 3, 4, 5, 6, 7, 8, 9, 10, 11, 12, 13, 14, 15, 16}
    OBVIOUS
  <2> DEFINE Out(i, name) == graph.ops[i].outputs = <<name>>
  <2>2. \A i, kind, ins, name : IsOp(i, kind, ins, name) => Out(i, name)
    BY DEF IsOp
  <2> HIDE DEF Out
  <2>3. /\ Out(1, "q") /\ Out(2, "k_new") /\ Out(3, "v_new") /\ Out(4, "k_all") /\ Out(5, "v_all")
        /\ Out(6, "attn_ctx") /\ Out(7, "attn_out") /\ Out(8, "resid_1")
    BY <1>1, <2>2 DEF DecoderProgram
  <2>4. /\ Out(9, "norm_1") /\ Out(10, "ff1") /\ Out(11, "ff_act") /\ Out(12, "ff2")
        /\ Out(13, "resid_2") /\ Out(14, "norm_2") /\ Out(15, "logits") /\ Out(16, "next_token")
    BY <1>1, <2>2 DEF DecoderProgram
  <2>5. \A i \in 1 .. 16 : Out(i, OutName[i])
    BY <2>1, <2>3, <2>4 DEF OutName
  <2> QED BY <2>5 DEF Out
<1>4. \A i \in 1 .. 16 : OutName[i] \notin Given
  BY DEF OutName, WeightNames
<1>5. \A i, j \in 1 .. 16 : j < i => OutName[j] # OutName[i]
  BY DEF OutName
<1>6. \A i \in 1 .. 16 : Outs(graph.ops[i]) = {OutName[i]}
  BY <1>3 DEF Outs
<1> QED BY <1>3, <1>4, <1>5, <1>6, DecoderSupplied

LEMMA DecoderIsSSA ==
  ASSUME NEW c \in TinyGPTConfigs, graph = DecoderGraph(c)
  PROVE  OneOutputEach /\ SingleAssignment
<1>1. DecoderProgram /\ graph.ops[4].max_len # {} /\ graph.ops[5].max_len # {}
  BY DecoderOpsAre
<1> DEFINE Given == {"x", "k_cache", "v_cache"} \cup WeightNames
<1>2. graph.inputs \cup Weights \subseteq Given
  BY DecoderSupplied
<1>3. \A i \in 1 .. 16 : graph.ops[i].outputs = <<OutName[i]>> /\ Outs(graph.ops[i]) = {OutName[i]}
  BY DecoderNames
<1>4. \A i \in 1 .. 16 : OutName[i] \notin Given
  BY DecoderNames
<1>5. \A i, j \in 1 .. 16 : j < i => OutName[j] # OutName[i]
  BY DecoderNames
<1>6. \A i \in 1 .. 16 : Outs(graph.ops[i]) = {OutName[i]}
  BY <1>3
<1>7. OneOutputEach
  <2> SUFFICES ASSUME NEW i \in 1 .. 16
               PROVE  /\ Len(graph.ops[i].outputs) = 1 /\ Len(graph.ops[i].inputs) >= Arity(graph.ops[i].kind)
                      /\ graph.ops[i].kind = "append_cache" => graph.ops[i].max_len # {}
    BY <1>1 DEF OneOutputEach, DecoderProgram
  <2>1. Len(graph.ops[i].outputs) = 1
    BY <1>3, Tuples
  <2>2. i \in {1, 2, 3, 7, 8, 9, 10, 12, 13, 14, 15} \/ i = 4 \/ i = 5 \/ i = 6 \/ i = 11 \/ i = 16
    OBVIOUS
  <2>3. CASE i \in {1, 2, 3, 7, 8, 9, 10, 12, 13, 14, 15}
    <3> DEFINE Two(j) == graph.ops[j].kind \in {"matmul", "add", "rmsnorm"} /\ Len(graph.ops[j].inputs) = 2
    <3>2. \A j, a, b, out : (\/ IsOp(j, "matmul", <<a, b>>, out) \/ IsOp(j, "add", <<a, b>>, out)
                              \/ IsOp(j, "rmsnorm", <<a, b>>, out)) => Two(j)
      BY TwoOperands
    <3> HIDE DEF Two
    <3>3. Two(1) /\ Two(2) /\ Two(3) /\ Two(7) /\ Two(8) /\ Two(9)
      BY <1>1, <3>2 DEF DecoderProgram
    <3>4. Two(10) /\ Two(12) /\ Two(13) /\ Two(14) /\ Two(15)
      BY <1>1, <3>2 DEF DecoderProgram
    <3>1. graph.ops[i].kind \in {"matmul", "add", "rmsnorm"} /\ Len(graph.ops[i].inputs) = 2
      BY <2>3, <3>3, <3>4 DEF Two
    <3> QED BY <2>1, <3>1 DEF Arity
  <2>4. CASE i = 4 \/ i = 5
    <3>1. graph.ops[i].kind = "append_cache" /\ Len(graph.ops[i].inputs) = 2 /\ graph.ops[i].max_len # {}
      <4>1. \E a, b, out : IsOp(i, "append_cache", <<a, b>>, out)
        BY <1>1, <2>4 DEF DecoderProgram
      <4> QED BY <1>1, <2>4, <4>1, TwoOperands
    <3> QED BY <2>1, <3>1 DEF Arity
  <2>5. CASE i = 6
    <3>1. graph.ops[i].kind = "attention_decode" /\ Len(graph.ops[i].inputs) = 3
      <4>1. IsOp(6, "attention_decode", <<"q", "k_all", "v_all">>, "attn_ctx")
        BY <1>1 DEF DecoderProgram
      <4> QED BY <2>5, <4>1, Tuples DEF IsOp
    <3> QED BY <2>1, <3>1 DEF Arity
  <2>6. CASE i = 11 \/ i = 16
    <3>1. graph.ops[i].kind \in {"silu", "argmax"} /\ Len(graph.ops[i].inputs) = 1
      <4>1. \E kind \in {"silu", "argmax"} : \E a, out : IsOp(i, kind, <<a>>, out)
        BY <1>1, <2>6 DEF DecoderProgram
      <4> QED BY <4>1, OneOperand
    <3> QED BY <2>1, <3>1 DEF Arity
  <2> QED BY <2>2, <2>3, <2>4, <2>5, <2>6
<1>8. SingleAssignment
  <2> SUFFICES ASSUME NEW i \in 1 .. 16, OutName[i] \in KnownBefore(i) PROVE FALSE
    BY <1>1, <1>6 DEF SingleAssignment, DecoderProgram
  <2>1. PICK j \in 1 .. i - 1 : OutName[i] \in Outs(graph.ops[j])
    BY <1>2, <1>4 DEF KnownBefore
  <2>2. j \in 1 .. 16 /\ j < i
    OBVIOUS
  <2> QED BY <1>5, <1>6, <2>1, <2>2
<1> QED BY <1>7, <1>8

-----------------------------------------------------------------------------
(* The terms of its values.                                                *)

LEMMA ResultOfOne ==
  ASSUME NEW op, NEW vals, NEW a, op.kind \in {"silu", "argmax"}, op.inputs = <<a>>
  PROVE  Result(op, vals) = <<op.kind, vals[a]>>
<1> DEFINE operands == [i \in 1 .. 1 |-> vals[op.inputs[i]]]
<1>1. Result(op, vals) = <<op.kind>> \o operands
  BY DEF Result, Arity
<1>2. operands = <<vals[a]>>
  OBVIOUS
<1>3. <<op.kind>> \o <<vals[a]>> = <<op.kind, vals[a]>>
  BY TermOfOne
<1> QED BY <1>1, <1>2, <1>3

LEMMA ResultOfTwo ==
  ASSUME NEW op, NEW vals, NEW a, NEW b, op.kind \in {"matmul", "add", "rmsnorm"}, op.inputs = <<a, b>>
  PROVE  Result(op, vals) = <<op.kind, vals[a], vals[b]>>
<1> DEFINE operands == [i \in 1 .. 2 |-> vals[op.inputs[i]]]
<1>1. Result(op, vals) = <<op.kind>> \o operands
  BY DEF Result, Arity
<1>2. operands = <<vals[a], vals[b]>>
  OBVIOUS
<1>3. <<op.kind>> \o <<vals[a], vals[b]>> = <<op.kind, vals[a], vals[b]>>
  BY TermOfTwo
<1> QED BY <1>1, <1>2, <1>3

LEMMA ResultOfThree ==
  ASSUME NEW op, NEW vals, NEW a, NEW b, NEW d, op.kind = "attention_decode", op.inputs = <<a, b, d>>
  PROVE  Result(op, vals) = <<op.kind, vals[a], vals[b], vals[d]>>
<1> DEFINE operands == [i \in 1 .. 3 |-> vals[op.inputs[i]]]
<1>1. Result(op, vals) = <<op.kind>> \o operands
  BY DEF Result, Arity
<1>2. operands = <<vals[a], vals[b], vals[d]>>
  OBVIOUS
<1>3. <<op.kind>> \o <<vals[a], vals[b], vals[d]>> = <<op.kind, vals[a], vals[b], vals[d]>>
  BY TermOfThree
<1> QED BY <1>1, <1>2, <1>3

-----------------------------------------------------------------------------
(* What shifts a cache and what fills one.                                 *)

LEMMA Associates ==
  ASSUME NEW S, NEW r \in Seq(S), NEW s \in Seq(S), NEW t \in Seq(S)
  PROVE  (r \o s) \o t = r \o (s \o t)
<1> DEFINE left == (r \o s) \o t
           right == r \o (s \o t)
           a == Len(r)
           b == Len(s)
           d == Len(t)
<1>1. a \in Nat /\ b \in Nat /\ d \in Nat
  OBVIOUS
<1>2. /\ r \o s \in Seq(S) /\ Len(r \o s) = a + b
      /\ \A i \in 1 .. a + b : (r \o s)[i] = IF i <= a THEN r[i] ELSE s[i - a]
  BY Concatenated
<1>3. /\ s \o t \in Seq(S) /\ Len(s \o t) = b + d
      /\ \A i \in 1 .. b + d : (s \o t)[i] = IF i <= b THEN s[i] ELSE t[i - b]
  BY Concatenated
<1>4. /\ left \in Seq(S) /\ Len(left) = (a + b) + d
      /\ \A i \in 1 .. (a + b) + d : left[i] = IF i <= a + b THEN (r \o s)[i] ELSE t[i - (a + b)]
  BY <1>2, Concatenated
<1>5. /\ right \in Seq(S) /\ Len(right) = a + (b + d)
      /\ \A i \in 1 .. a + (b + d) : right[i] = IF i <= a THEN r[i] ELSE (s \o t)[i - a]
  BY <1>3, Concatenated
<1> HIDE DEF left, right, a, b, d
<1>6. \A i \in 1 .. Len(left) : left[i] = right[i]
  <2> SUFFICES ASSUME NEW i \in 1 .. (a + b) + d PROVE left[i] = right[i]
    BY <1>4
  <2>1. CASE i <= a
    <3>1. i \in 1 .. a + b /\ i <= a + b /\ i \in 1 .. a + (b + d)
      BY <1>1, <2>1
    <3> QED BY <1>2, <1>4, <1>5, <2>1, <3>1
  <2>2. CASE ~(i <= a) /\ i <= a + b
    <3>1. i \in 1 .. a + b /\ i \in 1 .. a + (b + d) /\ i - a \in 1 .. b + d /\ i - a <= b
      BY <1>1, <2>2
    <3>2. left[i] = s[i - a] /\ right[i] = s[i - a]
      BY <1>2, <1>3, <1>4, <1>5, <2>2, <3>1
    <3> QED BY <3>2
  <2>3. CASE ~(i <= a + b)
    <3>1. i \in 1 .. a + (b + d) /\ i - a \in 1 .. b + d /\ ~(i - a <= b) /\ (i - a) - b = i - (a + b) /\ ~(i <= a)
      BY <1>1, <2>3
    <3>2. left[i] = t[i - (a + b)] /\ right[i] = t[i - (a + b)]
      BY <1>3, <1>4, <1>5, <2>3, <3>1
    <3> QED BY <3>2
  <2> QED BY <2>1, <2>2, <2>3
<1>7. Len(left) = Len(right)
  BY <1>1, <1>4, <1>5
<1>8. left = right
  BY <1>4, <1>5, <1>6, <1>7, SameSequence
<1> QED BY <1>8 DEF left, right

\* What is written behind "rows" is read back.
LEMMA RowsBack ==
  ASSUME NEW S, NEW rows \in Seq(S), NEW count
  PROVE  Rows(<<"rows">> \o rows, count) = rows
<1> DEFINE T == S \cup {"rows"}
           term == <<"rows">> \o rows
<1>1. <<"rows">> \in Seq(T) /\ rows \in Seq(T) /\ Len(<<"rows">>) = 1 /\ <<"rows">>[1] = "rows"
  OBVIOUS
<1> HIDE DEF T
<1>2. /\ term \in Seq(T) /\ Len(term) = Len(<<"rows">>) + Len(rows)
      /\ \A i \in 1 .. Len(<<"rows">>) + Len(rows) :
           term[i] = IF i <= Len(<<"rows">>) THEN <<"rows">>[i] ELSE rows[i - Len(<<"rows">>)]
  BY <1>1, Concatenated
<1>3. Len(rows) \in Nat
  OBVIOUS
<1> HIDE DEF term
<1>4. /\ Len(term) = 1 + Len(rows) /\ term[1] = "rows"
      /\ \A i \in 2 .. 1 + Len(rows) : term[i] = rows[i - 1]
  BY <1>1, <1>2, <1>3
<1>5. term # <<>>
  BY <1>2, <1>3, <1>4
<1>6. Head(term) = "rows"
  BY <1>2, <1>4, <1>5
<1>7. Tail(term) \in Seq(T) /\ Len(Tail(term)) = Len(rows)
  BY <1>2, <1>3, <1>4, <1>5
<1>8. \A j \in 1 .. Len(rows) : Tail(term)[j] = rows[j]
  <2>1. \A j \in 1 .. Len(rows) : Tail(term)[j] = term[j + 1]
    BY <1>2, <1>3, <1>4, <1>5
  <2>2. \A j \in 1 .. Len(rows) : j + 1 \in 2 .. 1 + Len(rows) /\ (j + 1) - 1 = j
    BY <1>3
  <2> QED BY <1>4, <2>1, <2>2
<1>9. Tail(term) = rows
  BY <1>7, <1>8, SameSequence
<1> QED BY <1>6, <1>9 DEF Rows, term

\* A cache the caller gave by its name is as many rows as it has.
LEMMA NamedRows ==
  ASSUME NEW name \in {"k_cache", "v_cache"}, NEW count \in Nat \ {0}
  PROVE  \E S : Rows(<<name>>, count) \in Seq(S)
<1> DEFINE S == {<<name>>} \cup {<<"row", <<name>>, i>> : i \in 1 .. count}
<1>1. Head(<<name>>) # "rows"
  <2>1. Head(<<name>>) = <<name>>[1]
    OBVIOUS
  <2> QED BY <2>1
<1>2. <<(<<name>>)>> \in Seq(S)
  OBVIOUS
<1>3. [i \in 1 .. count |-> <<"row", <<name>>, i>>] \in Seq(S)
  OBVIOUS
<1>4. Rows(<<name>>, count) \in Seq(S)
  BY <1>1, <1>2, <1>3 DEF Rows
<1> QED BY <1>4

\* An op that appends row b to cache a, of len rows.
AppendsRow(op, a, b, len) ==
  /\ op.kind = "append_cache" /\ op.inputs = <<a, b>>
  /\ op.max_len = {len} /\ len \in Nat \ {0}

LEMMA ResultOfAppend ==
  ASSUME NEW op, NEW vals, NEW a, NEW b, NEW len, AppendsRow(op, a, b, len)
  PROVE  Result(op, vals) = AppendCache(Rows(vals[a], Shape(a)[1]), vals[b], len)
<1>1. (CHOOSE l \in {len} : TRUE) = len
  OBVIOUS
<1>2. op.kind = "append_cache" /\ op.inputs[1] = a /\ op.inputs[2] = b /\ op.max_len = {len}
  BY DEF AppendsRow
<1> QED BY <1>1, <1>2 DEF Result

LEMMA AppendedRows ==
  ASSUME NEW S, NEW rows \in Seq(S), NEW row, NEW len \in Nat \ {0}
  PROVE  AppendCache(rows, row, len) = <<"rows">> \o LastRows(Append(rows, row), len)
<1> DEFINE out == Append(rows, row)
<1>1. Len(out) \in Nat
  OBVIOUS
<1> HIDE DEF out
<1>2. (IF Len(out) > len THEN LastRows(out, len) ELSE out) = LastRows(out, len)
  BY <1>1 DEF LastRows
<1>3. AppendCache(rows, row, len) = <<"rows">> \o (IF Len(out) > len THEN LastRows(out, len) ELSE out)
  BY DEF AppendCache, out
<1> QED BY <1>2, <1>3 DEF out

-----------------------------------------------------------------------------
(* The caches of the adapter.                                              *)

\* The rows hidden @ weight.
Products(hidden, weight) == [i \in DOMAIN hidden |-> <<"matmul", hidden[i], <<weight>>>>]

LEMMA ProductsSeq ==
  ASSUME NEW S, NEW hidden \in Seq(S), NEW weight
  PROVE  /\ Products(hidden, weight) \in Seq({<<"matmul", h, <<weight>>>> : h \in S})
         /\ Len(Products(hidden, weight)) = Len(hidden)
<1>1. DOMAIN hidden = 1 .. Len(hidden) /\ Len(hidden) \in Nat
  OBVIOUS
<1>2. Products(hidden, weight) \in [1 .. Len(hidden) -> {<<"matmul", h, <<weight>>>> : h \in S}]
  BY <1>1 DEF Products
<1> QED BY <1>1, <1>2

\* A row more, a product more.
LEMMA ProductsGrow ==
  ASSUME NEW S, NEW hidden \in Seq(S), NEW h \in S, NEW weight
  PROVE  Products(Append(hidden, h), weight) = Append(Products(hidden, weight), <<"matmul", h, <<weight>>>>)
<1> DEFINE T == {<<"matmul", g, <<weight>>>> : g \in S}
           more == Append(hidden, h)
           p    == Products(hidden, weight)
           next == Append(p, <<"matmul", h, <<weight>>>>)
<1>1. /\ more \in Seq(S) /\ Len(more) = Len(hidden) + 1 /\ Len(hidden) \in Nat
      /\ \A i \in 1 .. Len(hidden) + 1 : more[i] = IF i <= Len(hidden) THEN hidden[i] ELSE h
  OBVIOUS
<1>2. /\ p \in Seq(T) /\ Len(p) = Len(hidden)
      /\ \A i \in 1 .. Len(hidden) : p[i] = <<"matmul", hidden[i], <<weight>>>>
  <2>1. p \in Seq(T) /\ Len(p) = Len(hidden)
    BY ProductsSeq
  <2> QED BY <2>1 DEF Products
<1>3. <<"matmul", h, <<weight>>>> \in T
  OBVIOUS
<1>4. /\ Products(more, weight) \in Seq(T) /\ Len(Products(more, weight)) = Len(hidden) + 1
      /\ \A i \in 1 .. Len(hidden) + 1 : Products(more, weight)[i] = <<"matmul", more[i], <<weight>>>>
  <2> HIDE DEF more, T
  <2>1. Products(more, weight) \in Seq(T) /\ Len(Products(more, weight)) = Len(hidden) + 1
    BY <1>1, ProductsSeq DEF T
  <2>2. DOMAIN more = 1 .. Len(hidden) + 1
    BY <1>1
  <2> QED BY <2>1, <2>2 DEF Products
<1> HIDE DEF more, p, T
<1>5. next \in Seq(T) /\ Len(next) = Len(hidden) + 1
  BY <1>2, <1>3
<1>6. \A i \in 1 .. Len(hidden) + 1 : next[i] = IF i <= Len(hidden) THEN p[i] ELSE <<"matmul", h, <<weight>>>>
  BY <1>2, <1>3
<1> HIDE DEF next
<1>7. \A i \in 1 .. Len(hidden) + 1 : next[i] = Products(more, weight)[i]
  <2> SUFFICES ASSUME NEW i \in 1 .. Len(hidden) + 1 PROVE next[i] = Products(more, weight)[i]
    OBVIOUS
  <2>1. CASE i <= Len(hidden)
    <3>1. i \in 1 .. Len(hidden)
      BY <1>1, <2>1
    <3> QED BY <1>1, <1>2, <1>4, <1>6, <2>1, <3>1
  <2>2. CASE ~(i <= Len(hidden))
    BY <1>1, <1>4, <1>6, <2>2
  <2> QED BY <2>1, <2>2
<1>8. next = Products(more, weight)
  BY <1>4, <1>5, <1>7, SameSequence
<1> QED BY <1>8 DEF next, more, p

\* Prefilling is padding the products of all tokens but the last.
LEMMA PrefilledIs ==
  ASSUME NEW S, NEW past \in Seq(S), NEW h \in S, NEW weight, NEW len \in Nat \ {0}
  PROVE  PrefilledCache(Append(past, h), weight, len) = <<"rows">> \o Padded(Products(past, weight), len)
<1> DEFINE T == {<<"matmul", g, <<weight>>>> : g \in S}
           U == T \cup {<<"zeros">>} \cup {"rows"}
           p    == Products(past, weight)
           last == LastRows(p, len)
           hidden == Append(past, h)
           made == [i \in 1 .. Len(hidden) - 1 |-> <<"matmul", hidden[i], <<weight>>>>]
<1>1. Len(hidden) - 1 = Len(past) /\ Len(past) \in Nat /\ DOMAIN past = 1 .. Len(past)
  OBVIOUS
<1>2. \A i \in 1 .. Len(past) : hidden[i] = past[i]
  OBVIOUS
<1>3. made = p
  BY <1>1, <1>2 DEF Products
<1>4. p \in Seq(T)
  BY ProductsSeq
<1> HIDE DEF T, p, made, hidden
<1>5. last \in Seq(T) /\ Len(last) \in Nat /\ Len(last) <= len
  <2>1. last \in Seq(T) /\ Len(last) = IF Len(p) <= len THEN Len(p) ELSE len
    <3>1. AreLast(last, p, len, T)
      BY <1>4, LastRowsAt, Zenon
    <3> QED BY <3>1 DEF AreLast
  <2>2. Len(p) \in Nat
    BY <1>4
  <2> QED BY <2>1, <2>2
<1>6. Zeros(len - Len(last)) \o last = Padded(p, len)
  BY <1>4, ZerosBefore
<1>7. PrefilledCache(hidden, weight, len) = (<<"rows">> \o Zeros(len - Len(last))) \o last
  BY <1>3 DEF PrefilledCache, Zeros, made
<1> HIDE DEF last
<1>8. <<"rows">> \in Seq(U) /\ Zeros(len - Len(last)) \in Seq(U) /\ last \in Seq(U)
  <2>1. len - Len(last) \in Nat
    BY <1>5
  <2>2. Zeros(len - Len(last)) \in Seq(T \cup {<<"zeros">>})
    BY <2>1, ZerosSeq
  <2> QED BY <1>5, <2>2
<1>9. (<<"rows">> \o Zeros(len - Len(last))) \o last = <<"rows">> \o (Zeros(len - Len(last)) \o last)
  <2> HIDE DEF U
  <2> QED BY <1>8, Associates
<1> QED BY <1>6, <1>7, <1>9 DEF hidden, p

LEMMA LastOff ==
  ASSUME NEW S, NEW s \in Seq(S), s # <<>>
  PROVE  \E past \in Seq(S) : s = Append(past, s[Len(s)]) /\ s[Len(s)] \in S
<1> DEFINE m == Len(s) - 1
           past == [i \in 1 .. m |-> s[i]]
           back == Append(past, s[Len(s)])
<1>1. Len(s) \in Nat /\ m \in Nat /\ Len(s) = m + 1
  OBVIOUS
<1>2. \A i \in 1 .. Len(s) : s[i] \in S
  OBVIOUS
<1>3. s[Len(s)] \in S /\ past \in [1 .. m -> S]
  <2>1. Len(s) \in 1 .. Len(s) /\ \A i \in 1 .. m : i \in 1 .. Len(s)
    BY <1>1
  <2> HIDE DEF m
  <2> QED BY <1>2, <2>1
<1> HIDE DEF m
<1>4. past \in Seq(S) /\ Len(past) = m /\ \A i \in 1 .. m : past[i] = s[i]
  BY <1>1, <1>3
<1> HIDE DEF past
<1>5. back \in Seq(S) /\ Len(back) = m + 1
  BY <1>3, <1>4
<1>6. \A i \in 1 .. m + 1 : back[i] = IF i <= m THEN past[i] ELSE s[Len(s)]
  BY <1>3, <1>4
<1> HIDE DEF back
<1>7. \A i \in 1 .. m + 1 : back[i] = s[i]
  <2> SUFFICES ASSUME NEW i \in 1 .. m + 1 PROVE back[i] = s[i]
    OBVIOUS
  <2>1. CASE i <= m
    <3>1. i \in 1 .. m
      BY <1>1, <2>1
    <3> QED BY <1>4, <1>6, <2>1, <3>1
  <2>2. CASE ~(i <= m)
    <3>1. i = m + 1
      BY <1>1, <2>2
    <3> QED BY <1>1, <1>6, <2>2, <3>1
  <2> QED BY <2>1, <2>2
<1>8. back = s
  BY <1>1, <1>5, <1>7, SameSequence
<1> QED BY <1>3, <1>4, <1>8 DEF back

\* A prompt is the tokens before the last, and the last.
EndsIn(tokens, S) ==
  \E past \in Seq(S), h \in S :
    Hidden(tokens) = Append(past, h) /\ Hidden(tokens)[Len(Hidden(tokens))] = h

LEMMA HiddenParts ==
  ASSUME NEW tokens \in Seq(Int), tokens # <<>>
  PROVE  \E S : EndsIn(tokens, S)
<1> DEFINE S == {<<"hidden", tokens[i], i>> : i \in DOMAIN tokens}
           hidden == Hidden(tokens)
<1>1. DOMAIN tokens = 1 .. Len(tokens) /\ Len(tokens) \in Nat /\ Len(tokens) # 0
  OBVIOUS
<1>2. hidden \in [1 .. Len(tokens) -> S]
  BY <1>1 DEF Hidden
<1> HIDE DEF hidden, S
<1>3. hidden \in Seq(S) /\ Len(hidden) = Len(tokens) /\ hidden # <<>>
  BY <1>1, <1>2
<1>4. PICK past \in Seq(S) : hidden = Append(past, hidden[Len(hidden)]) /\ hidden[Len(hidden)] \in S
  BY <1>3, LastOff
<1> QED BY <1>4 DEF hidden, EndsIn

LEMMA StepValues ==
  ASSUME NEW tokens, NEW c
  PROVE  LET v == TinyGPTStep(tokens, c).values IN
         /\ v["x"] = Hidden(tokens)[Len(Hidden(tokens))]
         /\ v["w_k"] = <<"w_k">> /\ v["w_v"] = <<"w_v">>
         /\ v["k_cache"] = PrefilledCache(Hidden(tokens), "w_k", c.cache_len)
         /\ v["v_cache"] = PrefilledCache(Hidden(tokens), "w_v", c.cache_len)
BY DEF TinyGPTStep, WeightNames

-----------------------------------------------------------------------------
(* The reference.                                                          *)

\* Whatever the caller, the caches it gives are made of rows.
LEMMA GivenRows ==
  ASSUME ToolchainInv, ValuesInv, running # "no", NEW c \in TinyGPTConfigs, graph = DecoderGraph(c),
         NEW name \in {"k_cache", "v_cache"}, NEW count \in Nat \ {0}
  PROVE  \E S : Rows(given[name], count) \in Seq(S)
<1>1. CASE adapter = "step"
  <2>1. PICK tokens \in Prompts, g \in TinyGPTConfigs : ValidTokens(tokens, g) /\ step = <<TinyGPTStep(tokens, g)>>
    BY <1>1 DEF ToolchainInv, TinyInv
  <2>2. tokens \in Seq(Int) /\ tokens # <<>> /\ g.cache_len \in Nat \ {0}
    BY <2>1, TinyGPTAssumption DEF ValidTokens
  <2>3. PICK S : EndsIn(tokens, S)
    BY <2>2, HiddenParts
  <2>4. PICK past \in Seq(S), h \in S : Hidden(tokens) = Append(past, h)
    BY <2>3 DEF EndsIn
  <2>5. given = TinyGPTStep(tokens, g).values
    BY <1>1, <2>1 DEF ValuesInv
  <2>6. PICK weight \in {"w_k", "w_v"} : given[name] = PrefilledCache(Append(past, h), weight, g.cache_len)
    BY <2>4, <2>5, StepValues
  <2>7. given[name] = <<"rows">> \o Padded(Products(past, weight), g.cache_len)
    BY <2>2, <2>6, PrefilledIs
  <2> DEFINE T == {<<"matmul", x, <<weight>>>> : x \in S}
             rows == Padded(Products(past, weight), g.cache_len)
  <2>8. Products(past, weight) \in Seq(T)
    BY ProductsSeq
  <2> HIDE DEF T
  <2>9. rows \in Seq(T \cup {<<"zeros">>})
    BY <2>2, <2>8, PaddedSeq
  <2> HIDE DEF rows
  <2>10. Rows(given[name], count) = rows
    BY <2>7, <2>9, RowsBack DEF rows
  <2> QED BY <2>9, <2>10
<1>2. CASE adapter # "step"
  <2>1. given = Supplied
    BY <1>2 DEF ValuesInv
  <2>2. graph.inputs = {"x", "k_cache", "v_cache"}
    BY DEF DecoderGraph
  <2>3. given[name] = <<name>>
    BY <2>1, <2>2 DEF Supplied
  <2> QED BY <2>3, NamedRows
<1> QED BY <1>1, <1>2

LEMMA DecoderLength ==
  ASSUME CompilerInv, DecoderProgram
  PROVE  Len(graph.ops) = 16
<1>1. Len(graph.ops) \in Nat /\ 1 .. Len(graph.ops) = 1 .. 16
  <2>1. Len(graph.ops) \in Nat /\ DOMAIN graph.ops = 1 .. Len(graph.ops)
    BY DEF CompilerInv, ArgsOK, ArgsOf
  <2>2. DOMAIN graph.ops = 1 .. 16
    BY DEF DecoderProgram
  <2> QED BY <2>1, <2>2
<1>2. ASSUME NEW len \in Nat, 1 .. len = 1 .. 16 PROVE len = 16
  <2>1. 16 \in 1 .. len /\ len \in 1 .. 16
    <3>1. 16 \in 1 .. 16
      OBVIOUS
    <3>2. 16 \in 1 .. len
      BY <1>2, <3>1
    <3>3. len \in 1 .. len
      BY <1>2, <3>2
    <3> QED BY <1>2, <3>2, <3>3
  <2> QED BY <2>1
<1> QED BY <1>1, <1>2

\* The inputs and weights of the block are not written.
LEMMA DecoderGiven ==
  ASSUME ToolchainInv, ValuesInv, running = "ran", NEW c \in TinyGPTConfigs, graph = DecoderGraph(c)
  PROVE  \A name \in {"x", "k_cache", "v_cache"} \cup WeightNames : values[name] = given[name]
<1>1. CompilerInv /\ ProgramInv /\ RuntimeInv /\ compiling = "compiled"
  BY DEF ToolchainInv, RuntimeInv
<1>2. OneOutputEach /\ SingleAssignment /\ DecoderProgram
  BY DecoderIsSSA, DecoderOpsAre
<1>3. \A name \in KnownBefore(1) : values[name] = given[name]
  BY <1>2 DEF ValuesInv, Solved
<1>4. Len(schedule) = 16
  <2>1. Len(schedule) = Len(graph.ops)
    BY <1>1 DEF ProgramInv
  <2> QED BY <1>1, <1>2, <2>1, DecoderLength
<1>5. KnownBefore(1) = graph.inputs \cup Weights
  <2>1. 1 .. 1 - 1 = {}
    OBVIOUS
  <2> QED BY <2>1 DEF KnownBefore
<1>6. graph.inputs = {"x", "k_cache", "v_cache"}
  BY DEF DecoderGraph
<1>7. \A i \in 1 .. 16 : \A name \in KnownBefore(i) \cap WeightNames : name \in KnownBefore(1)
  <2>1. \A i \in 1 .. 16 : \A j \in 1 .. i - 1 : j \in 1 .. 16
    OBVIOUS
  <2>2. \A j \in 1 .. 16 : Outs(graph.ops[j]) \cap WeightNames = {}
    BY DecoderNames
  <2> QED BY <1>5, <2>1, <2>2 DEF KnownBefore
<1>8. \A i \in 0 .. 15 : \A j \in 1 .. Arity(graph.ops[i + 1].kind) :
        graph.ops[i + 1].inputs[j] \in KnownBefore(i + 1)
  <2> SUFFICES ASSUME NEW i \in 0 .. 15
               PROVE  \A j \in 1 .. Arity(graph.ops[i + 1].kind) :
                        graph.ops[i + 1].inputs[j] \in KnownBefore(i + 1)
    OBVIOUS
  <2>1. i \in Nat /\ i < Len(schedule)
    BY <1>4
  <2> QED BY <1>1, <1>2, <2>1, ProgramOp
<1>9. \A i \in 1 .. 16 : \A j \in 1 .. Arity(graph.ops[i].kind) : graph.ops[i].inputs[j] \in KnownBefore(i)
  <2>1. \A i \in 1 .. 16 : i - 1 \in 0 .. 15 /\ (i - 1) + 1 = i
    OBVIOUS
  <2> QED BY <1>8, <2>1
<1>10. \A i \in 1 .. 16 : graph.ops[i].kind \in {"matmul", "rmsnorm"} =>
         graph.ops[i].inputs[2] \in KnownBefore(i)
  <2>1. ASSUME NEW i \in 1 .. 16, graph.ops[i].kind \in {"matmul", "rmsnorm"}
        PROVE  2 \in 1 .. Arity(graph.ops[i].kind)
    <3>1. Arity(graph.ops[i].kind) = 2
      BY <2>1 DEF Arity
    <3> QED BY <3>1
  <2> QED BY <1>9, <2>1
<1>11. /\ "w_q" \in KnownBefore(1) /\ "w_k" \in KnownBefore(2) /\ "w_v" \in KnownBefore(3)
       /\ "w_o" \in KnownBefore(7) /\ "gamma_1" \in KnownBefore(9) /\ "w_ff1" \in KnownBefore(10)
       /\ "w_ff2" \in KnownBefore(12) /\ "gamma_2" \in KnownBefore(14) /\ "w_vocab" \in KnownBefore(15)
  <2> DEFINE In(i, name) == graph.ops[i].kind \in {"matmul", "rmsnorm"} /\ graph.ops[i].inputs[2] = name
  <2>4. \A i \in 1 .. 16 : \A name : In(i, name) => name \in KnownBefore(i)
    BY <1>10
  <2>6. \A i, a, b, out : IsOp(i, "matmul", <<a, b>>, out) \/ IsOp(i, "rmsnorm", <<a, b>>, out) => In(i, b)
    BY TwoOperands
  <2> HIDE DEF In
  <2>1. In(1, "w_q") /\ In(2, "w_k") /\ In(3, "w_v")
    BY <1>2, <2>6 DEF DecoderProgram
  <2>2. In(7, "w_o") /\ In(9, "gamma_1") /\ In(10, "w_ff1")
    BY <1>2, <2>6 DEF DecoderProgram
  <2>3. In(12, "w_ff2") /\ In(14, "gamma_2") /\ In(15, "w_vocab")
    BY <1>2, <2>6 DEF DecoderProgram
  <2>5. \A i \in {1, 2, 3, 7, 9, 10, 12, 14, 15} : i \in 1 .. 16
    OBVIOUS
  <2> QED BY <2>1, <2>2, <2>3, <2>4, <2>5
<1>12. WeightNames \subseteq KnownBefore(1)
  BY <1>7, <1>11 DEF WeightNames
<1> QED BY <1>3, <1>5, <1>6, <1>12

\* The sixteen equations of the block, whatever ran them.
LEMMA DecoderEquations ==
  ASSUME ToolchainInv, ValuesInv, running = "ran", NEW c \in TinyGPTConfigs, graph = DecoderGraph(c)
  PROVE  LET v == values
             Window(old, row) == <<"rows">> \o LastRows(Append(Rows(given[old], c.cache_len), v[row]), c.cache_len)
         IN /\ v["q"] = <<"matmul", given["x"], given["w_q"]>>
            /\ v["k_new"] = <<"matmul", given["x"], given["w_k"]>>
            /\ v["v_new"] = <<"matmul", given["x"], given["w_v"]>>
            /\ v["k_all"] = Window("k_cache", "k_new") /\ v["v_all"] = Window("v_cache", "v_new")
            /\ v["attn_ctx"] = <<"attention_decode", v["q"], v["k_all"], v["v_all"]>>
            /\ v["attn_out"] = <<"matmul", v["attn_ctx"], given["w_o"]>>
            /\ v["resid_1"] = <<"add", given["x"], v["attn_out"]>>
            /\ v["norm_1"] = <<"rmsnorm", v["resid_1"], given["gamma_1"]>>
            /\ v["ff1"] = <<"matmul", v["norm_1"], given["w_ff1"]>> /\ v["ff_act"] = <<"silu", v["ff1"]>>
            /\ v["ff2"] = <<"matmul", v["ff_act"], given["w_ff2"]>>
            /\ v["resid_2"] = <<"add", v["norm_1"], v["ff2"]>>
            /\ v["norm_2"] = <<"rmsnorm", v["resid_2"], given["gamma_2"]>>
            /\ v["logits"] = <<"matmul", v["norm_2"], given["w_vocab"]>>
            /\ v["next_token"] = <<"argmax", v["logits"]>>
<1> DEFINE ops == graph.ops
           v   == values
<1>1. CompilerInv /\ ProgramInv /\ RuntimeInv /\ compiling = "compiled" /\ ran = Len(schedule)
  BY DEF ToolchainInv, RuntimeInv
<1>2. /\ OneOutputEach /\ SingleAssignment /\ DecoderProgram
      /\ ops[4].max_len = {c.cache_len} /\ ops[5].max_len = {c.cache_len}
  BY DecoderIsSSA, DecoderOpsAre
<1>3. ran = 16
  <2>1. Len(schedule) = Len(graph.ops)
    BY <1>1 DEF ProgramInv
  <2> QED BY <1>1, <1>2, <2>1, DecoderLength
<1>4. \A i \in 1 .. 16 : v[ops[i].outputs[1]] = Result(ops[i], v)
  BY <1>2, <1>3 DEF ValuesInv, Solved
<1>5. c.cache_len \in Nat \ {0}
  BY TinyGPTAssumption
<1>6. Shape("k_cache")[1] = c.cache_len /\ Shape("v_cache")[1] = c.cache_len
  BY <1>1, DecoderCaches
<1>7. \A name \in {"x", "k_cache", "v_cache"} \cup WeightNames : v[name] = given[name]
  BY DecoderGiven
<1> HIDE DEF ops, v
<1>8. /\ v["x"] = given["x"] /\ v["k_cache"] = given["k_cache"] /\ v["v_cache"] = given["v_cache"]
      /\ v["w_q"] = given["w_q"] /\ v["w_k"] = given["w_k"] /\ v["w_v"] = given["w_v"]
      /\ v["w_o"] = given["w_o"] /\ v["gamma_1"] = given["gamma_1"] /\ v["gamma_2"] = given["gamma_2"]
      /\ v["w_ff1"] = given["w_ff1"] /\ v["w_ff2"] = given["w_ff2"] /\ v["w_vocab"] = given["w_vocab"]
  BY <1>7 DEF WeightNames
<1> DEFINE One(i, kind, a, out) == ops[i].kind = kind /\ ops[i].inputs = <<a>> /\ ops[i].outputs = <<out>>
           Two(i, kind, a, b, out) == ops[i].kind = kind /\ ops[i].inputs = <<a, b>> /\ ops[i].outputs = <<out>>
<1>9. ASSUME NEW i \in 1 .. 16, NEW kind \in {"silu", "argmax"}, NEW a, NEW out, One(i, kind, a, out)
      PROVE  v[out] = <<kind, v[a]>>
  <2>1. Result(ops[i], v) = <<ops[i].kind, v[a]>>
    BY <1>9, ResultOfOne
  <2>2. ops[i].outputs[1] = out /\ ops[i].kind = kind
    BY <1>9
  <2> QED BY <1>4, <2>1, <2>2
<1>10. ASSUME NEW i \in 1 .. 16, NEW kind \in {"matmul", "add", "rmsnorm"}, NEW a, NEW b, NEW out,
              Two(i, kind, a, b, out)
       PROVE  v[out] = <<kind, v[a], v[b]>>
  <2>1. Result(ops[i], v) = <<ops[i].kind, v[a], v[b]>>
    BY <1>10, ResultOfTwo
  <2>2. ops[i].outputs[1] = out /\ ops[i].kind = kind
    BY <1>10
  <2> QED BY <1>4, <2>1, <2>2
<1>11. v["attn_ctx"] = <<"attention_decode", v["q"], v["k_all"], v["v_all"]>>
  <2>1. /\ ops[6].kind = "attention_decode" /\ ops[6].inputs = <<"q", "k_all", "v_all">>
        /\ ops[6].outputs[1] = "attn_ctx"
    <3>1. IsOp(6, "attention_decode", <<"q", "k_all", "v_all">>, "attn_ctx")
      BY <1>2 DEF DecoderProgram
    <3> QED BY <3>1 DEF IsOp, ops
  <2> QED BY <1>4, <2>1, ResultOfThree
<1>12. ASSUME NEW old \in {"k_cache", "v_cache"}, NEW i \in {4, 5}, NEW row, NEW out,
              Two(i, "append_cache", old, row, out)
       PROVE  v[out] = <<"rows">> \o LastRows(Append(Rows(given[old], c.cache_len), v[row]), c.cache_len)
  <2>1. PICK S : Rows(given[old], c.cache_len) \in Seq(S)
    BY <1>5, GivenRows
  <2>2. Rows(v[old], Shape(old)[1]) = Rows(given[old], c.cache_len)
    BY <1>6, <1>8
  <2>3. ops[i].max_len = {c.cache_len}
    BY <1>2 DEF ops
  <2>4. Result(ops[i], v) = <<"rows">> \o LastRows(Append(Rows(given[old], c.cache_len), v[row]), c.cache_len)
    <3> DEFINE rows == Rows(v[old], Shape(old)[1])
               op   == ops[i]
               len  == c.cache_len
    <3>1. AppendsRow(op, old, row, len)
      BY <1>5, <1>12, <2>3 DEF AppendsRow
    <3>2. rows \in Seq(S) /\ rows = Rows(given[old], c.cache_len)
      BY <2>1, <2>2
    <3> HIDE DEF op, len
    <3>3. Result(op, v) = AppendCache(rows, v[row], len)
      BY <3>1, ResultOfAppend, SMT
    <3> HIDE DEF rows
    <3>4. AppendCache(rows, v[row], len) = <<"rows">> \o LastRows(Append(rows, v[row]), len)
      BY <1>5, <3>2, AppendedRows DEF len
    <3> QED BY <3>2, <3>3, <3>4 DEF op, len
  <2>5. i \in 1 .. 16
    OBVIOUS
  <2>6. ops[i].outputs[1] = out
    BY <1>12
  <2> QED BY <1>4, <2>4, <2>5, <2>6
<1>13. /\ Two(4, "append_cache", "k_cache", "k_new", "k_all")
       /\ Two(5, "append_cache", "v_cache", "v_new", "v_all")
  BY <1>2 DEF DecoderProgram, IsOp, ops
<1>14. /\ v["k_all"] = <<"rows">> \o LastRows(Append(Rows(given["k_cache"], c.cache_len), v["k_new"]), c.cache_len)
       /\ v["v_all"] = <<"rows">> \o LastRows(Append(Rows(given["v_cache"], c.cache_len), v["v_new"]), c.cache_len)
  BY <1>12, <1>13
<1>15. /\ Two(1, "matmul", "x", "w_q", "q") /\ Two(2, "matmul", "x", "w_k", "k_new")
       /\ Two(3, "matmul", "x", "w_v", "v_new") /\ Two(7, "matmul", "attn_ctx", "w_o", "attn_out")
       /\ Two(8, "add", "x", "attn_out", "resid_1") /\ Two(9, "rmsnorm", "resid_1", "gamma_1", "norm_1")
  BY <1>2 DEF DecoderProgram, IsOp, ops
<1>16. /\ Two(10, "matmul", "norm_1", "w_ff1", "ff1") /\ One(11, "silu", "ff1", "ff_act")
       /\ Two(12, "matmul", "ff_act", "w_ff2", "ff2") /\ Two(13, "add", "norm_1", "ff2", "resid_2")
       /\ Two(14, "rmsnorm", "resid_2", "gamma_2", "norm_2")
       /\ Two(15, "matmul", "norm_2", "w_vocab", "logits") /\ One(16, "argmax", "logits", "next_token")
  BY <1>2 DEF DecoderProgram, IsOp, ops
<1> HIDE DEF One, Two
<1>17. /\ v["q"] = <<"matmul", v["x"], v["w_q"]>> /\ v["k_new"] = <<"matmul", v["x"], v["w_k"]>>
       /\ v["v_new"] = <<"matmul", v["x"], v["w_v"]>> /\ v["attn_out"] = <<"matmul", v["attn_ctx"], v["w_o"]>>
       /\ v["resid_1"] = <<"add", v["x"], v["attn_out"]>>
       /\ v["norm_1"] = <<"rmsnorm", v["resid_1"], v["gamma_1"]>>
  BY <1>10, <1>15
<1>18. /\ v["ff1"] = <<"matmul", v["norm_1"], v["w_ff1"]>> /\ v["ff_act"] = <<"silu", v["ff1"]>>
       /\ v["ff2"] = <<"matmul", v["ff_act"], v["w_ff2"]>> /\ v["resid_2"] = <<"add", v["norm_1"], v["ff2"]>>
       /\ v["norm_2"] = <<"rmsnorm", v["resid_2"], v["gamma_2"]>>
       /\ v["logits"] = <<"matmul", v["norm_2"], v["w_vocab"]>> /\ v["next_token"] = <<"argmax", v["logits"]>>
  BY <1>9, <1>10, <1>16
<1> QED BY <1>8, <1>11, <1>14, <1>17, <1>18 DEF v

ReferenceNames == {"q", "k_new", "v_new", "k_all", "v_all", "attn_ctx", "attn_out", "resid_1", "norm_1",
                   "ff1", "ff_act", "ff2", "resid_2", "norm_2", "logits", "next_token"}

\* The equations the eager reference solves.
LEMMA ReferenceEquations ==
  ASSUME NEW g, NEW len
  PROVE  LET r == eager_reference(g, len)
             Window(old, row) == <<"rows">> \o LastRows(Append(Rows(g[old], len), row), len)
         IN /\ DOMAIN r = ReferenceNames
            /\ r.q = <<"matmul", g["x"], g["w_q"]>> /\ r.k_new = <<"matmul", g["x"], g["w_k"]>>
            /\ r.v_new = <<"matmul", g["x"], g["w_v"]>>
            /\ r.k_all = Window("k_cache", r.k_new) /\ r.v_all = Window("v_cache", r.v_new)
            /\ r.attn_ctx = <<"attention_decode", r.q, r.k_all, r.v_all>>
            /\ r.attn_out = <<"matmul", r.attn_ctx, g["w_o"]>>
            /\ r.resid_1 = <<"add", g["x"], r.attn_out>> /\ r.norm_1 = <<"rmsnorm", r.resid_1, g["gamma_1"]>>
            /\ r.ff1 = <<"matmul", r.norm_1, g["w_ff1"]>> /\ r.ff_act = <<"silu", r.ff1>>
            /\ r.ff2 = <<"matmul", r.ff_act, g["w_ff2"]>> /\ r.resid_2 = <<"add", r.norm_1, r.ff2>>
            /\ r.norm_2 = <<"rmsnorm", r.resid_2, g["gamma_2"]>>
            /\ r.logits = <<"matmul", r.norm_2, g["w_vocab"]>> /\ r.next_token = <<"argmax", r.logits>>
<1> DEFINE r == eager_reference(g, len)
<1>1. DOMAIN r = ReferenceNames
  BY DEF eager_reference, ReferenceNames
<1>2. /\ r.q = <<"matmul", g["x"], g["w_q"]>> /\ r.k_new = <<"matmul", g["x"], g["w_k"]>>
      /\ r.v_new = <<"matmul", g["x"], g["w_v"]>>
  BY DEF eager_reference
<1>3. /\ r.k_all = <<"rows">> \o LastRows(Append(Rows(g["k_cache"], len), r.k_new), len)
      /\ r.v_all = <<"rows">> \o LastRows(Append(Rows(g["v_cache"], len), r.v_new), len)
  BY DEF eager_reference
<1>4. /\ r.attn_ctx = <<"attention_decode", r.q, r.k_all, r.v_all>>
      /\ r.attn_out = <<"matmul", r.attn_ctx, g["w_o"]>>
      /\ r.resid_1 = <<"add", g["x"], r.attn_out>> /\ r.norm_1 = <<"rmsnorm", r.resid_1, g["gamma_1"]>>
  BY DEF eager_reference
<1>5. /\ r.ff1 = <<"matmul", r.norm_1, g["w_ff1"]>> /\ r.ff_act = <<"silu", r.ff1>>
      /\ r.ff2 = <<"matmul", r.ff_act, g["w_ff2"]>> /\ r.resid_2 = <<"add", r.norm_1, r.ff2>>
  BY DEF eager_reference
<1>6. /\ r.norm_2 = <<"rmsnorm", r.resid_2, g["gamma_2"]>>
      /\ r.logits = <<"matmul", r.norm_2, g["w_vocab"]>> /\ r.next_token = <<"argmax", r.logits>>
  BY DEF eager_reference
<1> QED BY <1>1, <1>2, <1>3, <1>4, <1>5, <1>6

\* Two solutions of the same equations are one.
LEMMA DecoderIsReference ==
  ASSUME ToolchainInv, ValuesInv, running = "ran", NEW c \in TinyGPTConfigs, graph = DecoderGraph(c)
  PROVE  \A name \in ReferenceNames : values[name] = eager_reference(given, c.cache_len)[name]
<1> DEFINE v == values
           r == eager_reference(given, c.cache_len)
           Window(old, row) == <<"rows">> \o LastRows(Append(Rows(given[old], c.cache_len), row), c.cache_len)
<1>1. v["q"] = r.q /\ v["k_new"] = r.k_new /\ v["v_new"] = r.v_new
  <2>1. /\ v["q"] = <<"matmul", given["x"], given["w_q"]>> /\ v["k_new"] = <<"matmul", given["x"], given["w_k"]>>
        /\ v["v_new"] = <<"matmul", given["x"], given["w_v"]>>
    BY DecoderEquations
  <2>2. /\ r.q = <<"matmul", given["x"], given["w_q"]>> /\ r.k_new = <<"matmul", given["x"], given["w_k"]>>
        /\ r.v_new = <<"matmul", given["x"], given["w_v"]>>
    BY ReferenceEquations
  <2> QED BY <2>1, <2>2
<1>2. v["k_all"] = Window("k_cache", v["k_new"]) /\ r.k_all = Window("k_cache", r.k_new)
      /\ v["v_all"] = Window("v_cache", v["v_new"]) /\ r.v_all = Window("v_cache", r.v_new)
  <2>1. v["k_all"] = Window("k_cache", v["k_new"]) /\ v["v_all"] = Window("v_cache", v["v_new"])
    BY DecoderEquations
  <2>2. r.k_all = Window("k_cache", r.k_new) /\ r.v_all = Window("v_cache", r.v_new)
    BY ReferenceEquations
  <2> QED BY <2>1, <2>2
<1>3. /\ v["attn_ctx"] = <<"attention_decode", v["q"], v["k_all"], v["v_all"]>>
      /\ r.attn_ctx = <<"attention_decode", r.q, r.k_all, r.v_all>>
      /\ v["attn_out"] = <<"matmul", v["attn_ctx"], given["w_o"]>>
      /\ r.attn_out = <<"matmul", r.attn_ctx, given["w_o"]>>
      /\ v["resid_1"] = <<"add", given["x"], v["attn_out"]>>
      /\ r.resid_1 = <<"add", given["x"], r.attn_out>>
      /\ v["norm_1"] = <<"rmsnorm", v["resid_1"], given["gamma_1"]>>
      /\ r.norm_1 = <<"rmsnorm", r.resid_1, given["gamma_1"]>>
  BY DecoderEquations, ReferenceEquations
<1>4. /\ v["ff1"] = <<"matmul", v["norm_1"], given["w_ff1"]>> /\ v["ff_act"] = <<"silu", v["ff1"]>>
      /\ r.ff1 = <<"matmul", r.norm_1, given["w_ff1"]>> /\ r.ff_act = <<"silu", r.ff1>>
      /\ v["ff2"] = <<"matmul", v["ff_act"], given["w_ff2"]>>
      /\ r.ff2 = <<"matmul", r.ff_act, given["w_ff2"]>>
      /\ v["resid_2"] = <<"add", v["norm_1"], v["ff2"]>> /\ r.resid_2 = <<"add", r.norm_1, r.ff2>>
  BY DecoderEquations, ReferenceEquations
<1>5. /\ v["norm_2"] = <<"rmsnorm", v["resid_2"], given["gamma_2"]>>
      /\ r.norm_2 = <<"rmsnorm", r.resid_2, given["gamma_2"]>>
      /\ v["logits"] = <<"matmul", v["norm_2"], given["w_vocab"]>>
      /\ r.logits = <<"matmul", r.norm_2, given["w_vocab"]>>
      /\ v["next_token"] = <<"argmax", v["logits"]>> /\ r.next_token = <<"argmax", r.logits>>
  BY DecoderEquations, ReferenceEquations
<1> HIDE DEF v, r, Window
<1>6. v["k_all"] = r.k_all /\ v["v_all"] = r.v_all
  BY <1>1, <1>2
<1>7. /\ v["attn_ctx"] = r.attn_ctx /\ v["attn_out"] = r.attn_out
      /\ v["resid_1"] = r.resid_1 /\ v["norm_1"] = r.norm_1
  BY <1>1, <1>3, <1>6
<1>8. v["ff1"] = r.ff1 /\ v["ff_act"] = r.ff_act /\ v["ff2"] = r.ff2 /\ v["resid_2"] = r.resid_2
  BY <1>4, <1>7
<1>9. v["norm_2"] = r.norm_2 /\ v["logits"] = r.logits /\ v["next_token"] = r.next_token
  BY <1>5, <1>8
<1>10. \A name \in ReferenceNames : v[name] = r[name]
  BY <1>1, <1>6, <1>7, <1>8, <1>9 DEF ReferenceNames
<1> QED BY <1>10 DEF v, r

\* Whatever backends its ops run on, a compiled decode step of any configuration
\* computes the values of the eager reference.
THEOREM ToolchainDecodeMatches == ToolchainSpec => []DecodeMatchesReference
<1>1. ToolchainInv /\ ValuesInv => DecodeMatchesReference
  <2> SUFFICES ASSUME ToolchainInv, ValuesInv, running = "ran", IsDecoder
               PROVE  LET reference == eager_reference(given, Shape("k_cache")[1]) IN
                      \A name \in DOMAIN reference : values[name] = reference[name]
    BY DEF DecodeMatchesReference
  <2>1. PICK c \in TinyGPTConfigs : graph = DecoderGraph(c)
    BY DEF IsDecoder
  <2>2. ProgramInv /\ compiling = "compiled"
    BY DEF ToolchainInv, RuntimeInv
  <2>3. Shape("k_cache")[1] = c.cache_len
    BY <2>1, <2>2, DecoderCaches
  <2>4. \A name \in ReferenceNames : values[name] = eager_reference(given, c.cache_len)[name]
    BY <2>1, DecoderIsReference
  <2>5. DOMAIN eager_reference(given, c.cache_len) = ReferenceNames
    BY ReferenceEquations
  <2> QED BY <2>3, <2>4, <2>5
<1> QED BY <1>1, ToolchainInvariance, ToolchainValues, PTL

\* What a decode step leaves in a cache of the adapter: the products of the whole
\* prompt, the last len of them.
KeepsWindow(all, h, weight, len, before) ==
  /\ LastRows(Append(Rows(before, len), <<"matmul", h, <<weight>>>>), len) = Padded(Products(all, weight), len)
  /\ LastRows(Zeros(len) \o Products(all, weight), len) = Padded(Products(all, weight), len)
  /\ \A next : PrefilledCache(Append(all, next), weight, len) = <<"rows">> \o Padded(Products(all, weight), len)

LEMMA CacheOfStep ==
  ASSUME NEW S, NEW past \in Seq(S), NEW h \in S, NEW len \in Nat \ {0}, NEW weight, NEW before,
         before = PrefilledCache(Append(past, h), weight, len)
  PROVE  KeepsWindow(Append(past, h), h, weight, len, before)
<1> DEFINE T == {<<"matmul", g, <<weight>>>> : g \in S}
           all == Append(past, h)
           new == <<"matmul", h, <<weight>>>>
<1>1. Products(past, weight) \in Seq(T) /\ new \in T
  BY ProductsSeq
<1>2. all \in Seq(S) /\ all # <<>> /\ Len(all) \in Nat /\ Len(all) # 0
  OBVIOUS
<1>3. Products(all, weight) \in Seq(T) /\ Products(all, weight) # <<>>
  <2> HIDE DEF all
  <2>1. Products(all, weight) \in Seq(T) /\ Len(Products(all, weight)) = Len(all)
    BY <1>2, ProductsSeq
  <2> HIDE DEF T
  <2> QED BY <1>2, <2>1
<1>4. Products(all, weight) = Append(Products(past, weight), new)
  BY ProductsGrow
<1> HIDE DEF T
<1>5. Rows(before, len) = Padded(Products(past, weight), len)
  <2>1. Padded(Products(past, weight), len) \in Seq(T \cup {<<"zeros">>})
    BY <1>1, PaddedSeq
  <2>2. before = <<"rows">> \o Padded(Products(past, weight), len)
    BY PrefilledIs
  <2> DEFINE rows == Padded(Products(past, weight), len)
  <2> HIDE DEF rows
  <2>3. Rows(<<"rows">> \o rows, len) = rows
    BY <2>1, RowsBack DEF rows
  <2> QED BY <2>2, <2>3 DEF rows
<1> HIDE DEF all, new
<1>6. LastRows(Append(Padded(Products(past, weight), len), new), len) = Padded(Products(all, weight), len)
  BY <1>1, <1>4, PaddedMoves
<1>7. LastRows(Zeros(len) \o Products(all, weight), len) = Padded(Products(all, weight), len)
  BY <1>3, LastOfPadded
<1>8. ASSUME NEW next PROVE PrefilledCache(Append(all, next), weight, len)
                              = <<"rows">> \o Padded(Products(all, weight), len)
  <2>1. all \in Seq(S \cup {next}) /\ next \in S \cup {next}
    BY <1>2
  <2> QED BY <2>1, PrefilledIs
<1>9. KeepsWindow(all, h, weight, len, before)
  BY <1>5, <1>6, <1>7, <1>8 DEF KeepsWindow, new
<1> QED BY <1>9 DEF all

\* A decode step leaves the window of the last keys and values of the whole
\* prompt, for any prompt, longer or shorter than the cache.
THEOREM ToolchainCacheIsWindow == ToolchainSpec => []CacheIsWindow
<1>1. ToolchainInv /\ ValuesInv => CacheIsWindow
  <2> SUFFICES ASSUME ToolchainInv, ValuesInv, running = "ran", adapter = "step" PROVE CacheIsWindow
    BY DEF CacheIsWindow
  <2>1. compiling = "compiled"
    BY DEF ToolchainInv, RuntimeInv
  <2>2. PICK tokens \in Prompts, c \in TinyGPTConfigs :
          ValidTokens(tokens, c) /\ step = <<TinyGPTStep(tokens, c)>> /\ graph = DecoderGraph(c)
    BY <2>1 DEF ToolchainInv, TinyInv
  <2>3. tokens \in Seq(Int) /\ tokens # <<>> /\ c.cache_len \in Nat \ {0}
    BY <2>2, TinyGPTAssumption DEF ValidTokens
  <2>4. given = TinyGPTStep(tokens, c).values
    BY <2>2 DEF ValuesInv
  <2>5. PICK S : EndsIn(tokens, S)
    BY <2>3, HiddenParts
  <2>6. PICK past \in Seq(S), h \in S :
          Hidden(tokens) = Append(past, h) /\ Hidden(tokens)[Len(Hidden(tokens))] = h
    BY <2>5 DEF EndsIn
  <2> DEFINE hidden == Append(past, h)
             len == c.cache_len
             Whole(w) == <<"rows">> \o Padded(Products(hidden, w), len)
             Kept(before, row) == <<"rows">> \o LastRows(Append(Rows(given[before], len), row), len)
             Window(w) == <<"rows">> \o LastRows([i \in 1 .. len |-> <<"zeros">>]
                            \o [i \in DOMAIN hidden |-> <<"matmul", hidden[i], <<w>>>>], len)
             Next_(w) == PrefilledCache(Append(hidden, <<"next">>), w, len)
  <2>7. /\ given["x"] = h /\ given["w_k"] = <<"w_k">> /\ given["w_v"] = <<"w_v">>
        /\ given["k_cache"] = PrefilledCache(hidden, "w_k", len)
        /\ given["v_cache"] = PrefilledCache(hidden, "w_v", len)
    BY <2>4, <2>6, StepValues
  <2>8. /\ values["k_all"] = Kept("k_cache", values["k_new"]) /\ values["v_all"] = Kept("v_cache", values["v_new"])
        /\ values["k_new"] = <<"matmul", given["x"], given["w_k"]>>
        /\ values["v_new"] = <<"matmul", given["x"], given["w_v"]>>
    BY <2>2, DecoderEquations
  <2>9. /\ Kept("k_cache", <<"matmul", h, <<"w_k">>>>) = Whole("w_k")
        /\ Window("w_k") = Whole("w_k") /\ Next_("w_k") = Whole("w_k")
    <3>1. KeepsWindow(hidden, h, "w_k", len, given["k_cache"])
      BY <2>3, <2>7, CacheOfStep
    <3>2. LastRows(Zeros(len) \o Products(hidden, "w_k"), len) = Padded(Products(hidden, "w_k"), len)
      BY <3>1 DEF KeepsWindow
    <3>3. /\ Next_("w_k") = Whole("w_k")
          /\ Kept("k_cache", <<"matmul", h, <<"w_k">>>>) = Whole("w_k")
      BY <3>1 DEF KeepsWindow
    <3>4. Window("w_k") = <<"rows">> \o LastRows(Zeros(len) \o Products(hidden, "w_k"), len)
      BY DEF Zeros, Products
    <3> QED BY <3>2, <3>3, <3>4
  <2>10. /\ Kept("v_cache", <<"matmul", h, <<"w_v">>>>) = Whole("w_v")
        /\ Window("w_v") = Whole("w_v") /\ Next_("w_v") = Whole("w_v")
    <3>1. KeepsWindow(hidden, h, "w_v", len, given["v_cache"])
      BY <2>3, <2>7, CacheOfStep
    <3>2. LastRows(Zeros(len) \o Products(hidden, "w_v"), len) = Padded(Products(hidden, "w_v"), len)
      BY <3>1 DEF KeepsWindow
    <3>3. /\ Next_("w_v") = Whole("w_v")
          /\ Kept("v_cache", <<"matmul", h, <<"w_v">>>>) = Whole("w_v")
      BY <3>1 DEF KeepsWindow
    <3>4. Window("w_v") = <<"rows">> \o LastRows(Zeros(len) \o Products(hidden, "w_v"), len)
      BY DEF Zeros, Products
    <3> QED BY <3>2, <3>3, <3>4
  <2>11. step[1].prompt_token_ids = tokens /\ step[1].config = c
    BY <2>2 DEF TinyGPTStep
  <2>12. /\ values["k_all"] = Window("w_k") /\ Window("w_k") = Next_("w_k")
         /\ values["v_all"] = Window("w_v") /\ Window("w_v") = Next_("w_v")
    <3> HIDE DEF Kept, Whole, Window, Next_
    <3> QED BY <2>7, <2>8, <2>9, <2>10
  <2> QED BY <2>6, <2>11, <2>12 DEF CacheIsWindow
<1> QED BY <1>1, ToolchainInvariance, ToolchainValues, PTL

-----------------------------------------------------------------------------
(* Sums.                                                                   *)

\* A sum is what a sequence of partial sums ends in.
LEMMA SumTelescopes ==
  ASSUME NEW list \in Seq(Int), NEW g, g[0] = 0,
         \A i \in 1 .. Len(list) : g[i] = g[i - 1] + list[i]
  PROVE  SumOf(list) = g[Len(list)]
<1> DEFINE top == Len(list)
<1>1. PICK f \in [0 .. top -> Int] :
           /\ f[0] = 0 /\ SumOf(list) = f[top]
           /\ \A i \in 1 .. top : f[i] = f[i - 1] + list[i]
  BY SumRun
<1>2. top \in Nat
  OBVIOUS
<1> DEFINE Same == {i \in 0 .. top : f[i] = g[i]}
<1>3. 0 \in Same
  BY <1>1, <1>2
<1>4. ASSUME NEW i \in 0 .. top - 1, i \in Same PROVE i + 1 \in Same
  <2>1. i + 1 \in 1 .. top /\ (i + 1) - 1 = i /\ i + 1 \in 0 .. top
    BY <1>2
  <2>2. f[i + 1] = f[i] + list[i + 1] /\ g[i + 1] = g[i] + list[i + 1]
    BY <1>1, <2>1
  <2> QED BY <1>4, <2>1, <2>2
<1> HIDE DEF Same
<1>5. \A i \in 0 .. top : i \in Same
  BY <1>2, <1>3, <1>4, UpTo
<1> QED BY <1>1, <1>2, <1>5 DEF Same

\* A place in two joined lists, the first of S and the second of T entries.
LEMMA InFirst ==
  ASSUME NEW S \in Nat, NEW T \in Nat, NEW i \in 1 .. S + T, i <= S
  PROVE  i \in 1 .. S /\ i - 1 <= S /\ i - 1 \in 0 .. S + T /\ i \in 0 .. S + T
OBVIOUS

LEMMA InSecond ==
  ASSUME NEW S \in Nat, NEW T \in Nat, NEW i \in 1 .. S + T, i > S
  PROVE  /\ i - S \in 1 .. T /\ i = S + (i - S) /\ (i - 1) - S = (i - S) - 1
         /\ i - 1 \in 0 .. S + T /\ i \in 0 .. S + T /\ (i - S) - 1 \in 0 .. T /\ S \in 0 .. S
OBVIOUS

LEMMA SumJoined ==
  ASSUME NEW s \in Seq(Int), NEW t \in Seq(Int)
  PROVE  SumOf(s \o t) = SumOf(s) + SumOf(t)
<1> DEFINE both == s \o t
           S    == Len(s)
           T    == Len(t)
<1>1. /\ both \in Seq(Int) /\ S \in Nat /\ T \in Nat /\ Len(both) = S + T
      /\ \A i \in 1 .. S : both[i] = s[i]
      /\ \A i \in 1 .. T : both[S + i] = t[i]
  OBVIOUS
<1>2. PICK f \in [0 .. S -> Int] :
           /\ f[0] = 0 /\ SumOf(s) = f[S]
           /\ \A i \in 1 .. S : f[i] = f[i - 1] + s[i]
  BY SumRun
<1>3. PICK h \in [0 .. T -> Int] :
           /\ h[0] = 0 /\ SumOf(t) = h[T]
           /\ \A i \in 1 .. T : h[i] = h[i - 1] + t[i]
  BY SumRun
<1> HIDE DEF both, S, T
<1> DEFINE g == [i \in 0 .. S + T |-> IF i <= S THEN f[i] ELSE f[S] + h[i - S]]
<1>4. g[0] = 0
  BY <1>1, <1>2
<1>5. ASSUME NEW i \in 1 .. S + T PROVE g[i] = g[i - 1] + both[i]
  <2>1. CASE i <= S
    <3>1. i \in 1 .. S /\ i - 1 <= S /\ i - 1 \in 0 .. S + T /\ i \in 0 .. S + T
      <4>1. S \in Nat /\ T \in Nat
        BY <1>1
      <4> HIDE DEF g
      <4> QED BY <2>1, <4>1, InFirst
    <3>2. g[i] = f[i] /\ g[i - 1] = f[i - 1]
      BY <2>1, <3>1
    <3> QED BY <1>1, <1>2, <3>1, <3>2
  <2>2. CASE i > S
    <3>1. i \in Int /\ S \in Int /\ T \in Int
      BY <1>1
    <3>2. /\ i - S \in 1 .. T /\ i = S + (i - S) /\ (i - 1) - S = (i - S) - 1
          /\ i - 1 \in 0 .. S + T /\ i \in 0 .. S + T /\ (i - S) - 1 \in 0 .. T /\ S \in 0 .. S
      <4>1. S \in Nat /\ T \in Nat
        BY <1>1
      <4> HIDE DEF g
      <4> QED BY <2>2, <4>1, InSecond
    <3>3. g[i] = f[S] + h[i - S]
      BY <1>1, <2>2, <3>2
    <3>4. g[i - 1] = f[S] + h[(i - S) - 1]
      <4>1. CASE i - 1 <= S
        <5>1. i - 1 = S /\ (i - S) - 1 = 0
          BY <2>2, <3>1, <4>1
        <5>2. g[i - 1] = f[S]
          BY <1>1, <3>2, <5>1
        <5> QED BY <1>2, <1>3, <3>2, <5>1, <5>2
      <4>2. CASE ~(i - 1 <= S)
        BY <3>2, <4>2
      <4> QED BY <4>1, <4>2
    <3>5. both[i] = t[i - S] /\ h[i - S] = h[(i - S) - 1] + t[i - S]
      BY <1>1, <1>3, <3>2
    <3>6. f[S] \in Int /\ h[(i - S) - 1] \in Int /\ t[i - S] \in Int
      <4>1. \A j \in 1 .. T : t[j] \in Int
        BY DEF T
      <4> QED BY <3>2, <4>1
    <3> QED BY <3>3, <3>4, <3>5, <3>6
  <2> QED BY <1>1, <2>1, <2>2
<1>6. g[S + T] = f[S] + h[T]
  <2>1. CASE T = 0
    <3>1. S + T = S /\ S \in 0 .. S + T /\ f[S] \in Int
      BY <1>1, <2>1
    <3> QED BY <1>1, <1>3, <2>1, <3>1
  <2>2. CASE T # 0
    <3>1. ~(S + T <= S) /\ (S + T) - S = T /\ S + T \in 0 .. S + T
      BY <1>1, <2>2
    <3> QED BY <3>1
  <2> QED BY <2>1, <2>2
<1> HIDE DEF g
<1>7. SumOf(both) = g[S + T]
  BY <1>1, <1>4, <1>5, SumTelescopes
<1> QED BY <1>2, <1>3, <1>6, <1>7 DEF both

\* The sum of the numbers w[1] .. w[count].
SumTo(w, count) == SumOf([i \in 1 .. count |-> w[i]])

LEMMA SumToNone == ASSUME NEW w PROVE SumTo(w, 0) = 0
<1>1. [i \in 1 .. 0 |-> w[i]] = <<>>
  <2>1. 1 .. 0 = {}
    OBVIOUS
  <2>2. DOMAIN <<>> = {}
    OBVIOUS
  <2> QED BY <2>1, <2>2
<1> QED BY <1>1, SumEmpty DEF SumTo

LEMMA FirstOf ==
  ASSUME NEW count \in Nat, NEW w, \A i \in 1 .. count : w[i] \in Int
  PROVE  [i \in 1 .. count |-> w[i]] \in Seq(Int) /\ Len([i \in 1 .. count |-> w[i]]) = count
<1> DEFINE list == [i \in 1 .. count |-> w[i]]
<1>1. list \in [1 .. count -> Int]
  OBVIOUS
<1> HIDE DEF list
<1>2. list \in Seq(Int) /\ Len(list) = count
  BY <1>1
<1> QED BY <1>2 DEF list

LEMMA SumToType ==
  ASSUME NEW count \in Nat, NEW w, \A i \in 1 .. count : w[i] \in Int
  PROVE  SumTo(w, count) \in Int
BY FirstOf, SumType DEF SumTo

LEMMA SumToNext ==
  ASSUME NEW count \in Nat, NEW w, \A i \in 1 .. count + 1 : w[i] \in Int
  PROVE  SumTo(w, count + 1) = SumTo(w, count) + w[count + 1]
<1> DEFINE less == [i \in 1 .. count |-> w[i]]
           more == [i \in 1 .. count + 1 |-> w[i]]
<1>1. \A i \in 1 .. count : w[i] \in Int
  OBVIOUS
<1>2. less \in Seq(Int) /\ Len(less) = count /\ more \in Seq(Int) /\ Len(more) = count + 1
  BY <1>1, FirstOf
<1>3. \A i \in 1 .. count : more[i] = less[i]
  OBVIOUS
<1>4. more[count + 1] = w[count + 1] /\ w[count + 1] \in Int
  OBVIOUS
<1> HIDE DEF less, more
<1>5. more = Append(less, w[count + 1])
  BY <1>2, <1>3, <1>4
<1>6. SumOf(more) = SumOf(less) + w[count + 1]
  BY <1>2, <1>4, <1>5, SumAppend
<1> QED BY <1>6 DEF SumTo, less, more

LEMMA SumToSame ==
  ASSUME NEW count \in Nat, NEW w, NEW v, \A i \in 1 .. count : w[i] = v[i]
  PROVE  SumTo(w, count) = SumTo(v, count)
<1>1. [i \in 1 .. count |-> w[i]] = [i \in 1 .. count |-> v[i]]
  OBVIOUS
<1> QED BY <1>1 DEF SumTo

LEMMA SumToAll ==
  ASSUME NEW list, DOMAIN list = 1 .. Len(list)
  PROVE  SumTo(list, Len(list)) = SumOf([i \in DOMAIN list |-> list[i]])
BY DEF SumTo

\* Two sums added, with the terms of the first step kept apart.
LEMMA Regroup ==
  ASSUME NEW p \in Int, NEW q \in Int, NEW x \in Int, NEW y \in Int
  PROVE  (p + x) + (q + y) = (p + q) + (x + y)
OBVIOUS

\* Sums of two lists, term by term.
LEMMA SumToPlus ==
  ASSUME NEW count \in Nat, NEW w, NEW v, NEW u,
         \A i \in 1 .. count : w[i] \in Int /\ v[i] \in Int /\ u[i] = w[i] + v[i]
  PROVE  SumTo(u, count) = SumTo(w, count) + SumTo(v, count)
<1> DEFINE ws == [i \in 1 .. count |-> w[i]]
           vs == [i \in 1 .. count |-> v[i]]
           us == [i \in 1 .. count |-> u[i]]
<1>1. ws \in Seq(Int) /\ Len(ws) = count /\ vs \in Seq(Int) /\ Len(vs) = count /\ us \in Seq(Int) /\ Len(us) = count
  <2>1. \A i \in 1 .. count : w[i] \in Int
    OBVIOUS
  <2>2. \A i \in 1 .. count : v[i] \in Int
    OBVIOUS
  <2>3. \A i \in 1 .. count : u[i] \in Int
    OBVIOUS
  <2> QED BY <2>1, <2>2, <2>3, FirstOf
<1>2. \A i \in 1 .. count : us[i] = ws[i] + vs[i] /\ ws[i] \in Int /\ vs[i] \in Int
  OBVIOUS
<1> HIDE DEF ws, vs, us
<1>3. ws \in Seq(Int) /\ count = Len(ws)
  BY <1>1
<1>4. vs \in Seq(Int) /\ count = Len(vs)
  BY <1>1
<1>5. PICK f \in [0 .. count -> Int] :
           /\ f[0] = 0 /\ SumOf(ws) = f[count]
           /\ \A i \in 1 .. count : f[i] = f[i - 1] + ws[i]
  BY <1>3, SumRun
<1>6. PICK h \in [0 .. count -> Int] :
           /\ h[0] = 0 /\ SumOf(vs) = h[count]
           /\ \A i \in 1 .. count : h[i] = h[i - 1] + vs[i]
  BY <1>4, SumRun
<1> DEFINE g == [i \in 0 .. count |-> f[i] + h[i]]
<1>7. g[0] = 0
  BY <1>5, <1>6
<1>8. \A i \in 1 .. count : g[i] = g[i - 1] + us[i]
  <2> SUFFICES ASSUME NEW i \in 1 .. count PROVE g[i] = g[i - 1] + us[i]
    OBVIOUS
  <2>1. i \in 0 .. count /\ i - 1 \in 0 .. count
    OBVIOUS
  <2>2. g[i] = f[i] + h[i] /\ g[i - 1] = f[i - 1] + h[i - 1]
    BY <2>1
  <2>3. f[i - 1] \in Int /\ h[i - 1] \in Int /\ ws[i] \in Int /\ vs[i] \in Int
    BY <1>2, <2>1
  <2>4. f[i] = f[i - 1] + ws[i] /\ h[i] = h[i - 1] + vs[i] /\ us[i] = ws[i] + vs[i]
    BY <1>2, <1>5, <1>6
  <2>5. (f[i - 1] + ws[i]) + (h[i - 1] + vs[i]) = (f[i - 1] + h[i - 1]) + (ws[i] + vs[i])
    BY <2>3, Regroup
  <2> QED BY <2>2, <2>4, <2>5
<1>9. g[count] = f[count] + h[count]
  OBVIOUS
<1> HIDE DEF g
<1>10. SumOf(us) = g[count]
  BY <1>1, <1>7, <1>8, SumTelescopes
<1> QED BY <1>5, <1>6, <1>9, <1>10 DEF SumTo, ws, vs, us

-----------------------------------------------------------------------------
(* What the events of a timeline weigh: the work of all, or the number and *)
(* the cycles of those with a key.                                         *)

Weigh(what, key, e) ==
  CASE what = "work"   -> e.macs + e.bytes
    [] what = "rows"   -> IF KeyOf(e) = key THEN 1 ELSE 0
    [] what = "cycles" -> IF KeyOf(e) = key THEN e.cycles ELSE 0
Measured == {"work", "rows", "cycles"}
Weight(what, key, list) == SumOf([i \in DOMAIN list |-> Weigh(what, key, list[i])])

LEMMA WeightIs ==
  ASSUME NEW list, NEW key
  PROVE  /\ Weight("work", key, list) = Moved(list)
         /\ Weight("rows", key, list) = EventsOf(list, key)
         /\ Weight("cycles", key, list) = CyclesOf(list, key)
BY DEF Weight, Weigh, Moved, EventsOf, CyclesOf

\* A list of events.
EventList(list) ==
  /\ list \in Seq({list[i] : i \in DOMAIN list})
  /\ \A i \in DOMAIN list : EventOK(list[i])

LEMMA WeighInt ==
  ASSUME NEW e, EventOK(e), NEW what \in Measured, NEW key
  PROVE  Weigh(what, key, e) \in Int
<1>1. e.macs + e.bytes \in Int /\ e.cycles \in Int
  BY DEF EventOK
<1> QED BY <1>1 DEF Weigh, Measured

LEMMA WeighList ==
  ASSUME NEW list, EventList(list), NEW what \in Measured, NEW key
  PROVE  /\ [i \in DOMAIN list |-> Weigh(what, key, list[i])] \in Seq(Int)
         /\ Len([i \in DOMAIN list |-> Weigh(what, key, list[i])]) = Len(list)
         /\ Len(list) \in Nat /\ DOMAIN list = 1 .. Len(list)
<1>1. Len(list) \in Nat /\ DOMAIN list = 1 .. Len(list)
  BY DEF EventList
<1> DEFINE w == [i \in DOMAIN list |-> Weigh(what, key, list[i])]
<1>2. \A i \in DOMAIN list : Weigh(what, key, list[i]) \in Int
  BY WeighInt DEF EventList
<1>3. w \in [1 .. Len(list) -> Int]
  BY <1>1, <1>2
<1> HIDE DEF w
<1>4. w \in Seq(Int) /\ Len(w) = Len(list)
  BY <1>1, <1>3
<1> QED BY <1>1, <1>4 DEF w

LEMMA WeightInt ==
  ASSUME NEW list, EventList(list), NEW what \in Measured, NEW key
  PROVE  Weight(what, key, list) \in Int
BY WeighList, SumType DEF Weight

LEMMA WeightJoined ==
  ASSUME NEW s, NEW t, EventList(s), EventList(t), NEW what \in Measured, NEW key
  PROVE  Weight(what, key, s \o t) = Weight(what, key, s) + Weight(what, key, t)
<1> DEFINE both == s \o t
           ws == [i \in DOMAIN s |-> Weigh(what, key, s[i])]
           wt == [i \in DOMAIN t |-> Weigh(what, key, t[i])]
           wb == [i \in DOMAIN both |-> Weigh(what, key, both[i])]
           S  == Len(s)
           T  == Len(t)
<1>1. Joined(both, s, t)
  BY Parts DEF EventList
<1>2. /\ ws \in Seq(Int) /\ Len(ws) = S /\ wt \in Seq(Int) /\ Len(wt) = T
      /\ DOMAIN s = 1 .. S /\ DOMAIN t = 1 .. T /\ S \in Nat /\ T \in Nat
  BY WeighList
<1> HIDE DEF both
<1>3. /\ DOMAIN both = 1 .. S + T
      /\ \A i \in 1 .. S : both[i] = s[i]
      /\ \A i \in 1 .. T : both[S + i] = t[i]
  BY <1>1 DEF Joined
<1>4. /\ \A i \in 1 .. S : ws[i] = Weigh(what, key, s[i])
      /\ \A i \in 1 .. T : wt[i] = Weigh(what, key, t[i])
      /\ \A i \in 1 .. S + T : wb[i] = Weigh(what, key, both[i])
      /\ DOMAIN wb = 1 .. S + T
  BY <1>2, <1>3
<1>5. wb = [i \in 1 .. S + T |-> wb[i]]
  BY <1>4
<1> HIDE DEF ws, wt, wb, S, T
<1> DEFINE wst == ws \o wt
<1>6. /\ wst \in Seq(Int) /\ Len(wst) = S + T
      /\ \A i \in 1 .. S : wst[i] = ws[i]
      /\ \A i \in 1 .. T : wst[S + i] = wt[i]
  BY <1>2
<1>7. wst = [i \in 1 .. S + T |-> wst[i]]
  <2>1. \A q \in Seq(Int) : q = [i \in 1 .. Len(q) |-> q[i]]
    OBVIOUS
  <2> QED BY <1>6, <2>1
<1> HIDE DEF wst
<1>8. \A i \in 1 .. S + T : wb[i] = wst[i]
  <2> SUFFICES ASSUME NEW i \in 1 .. S + T PROVE wb[i] = wst[i]
    OBVIOUS
  <2>1. CASE i <= S
    <3>1. i \in 1 .. S
      BY <1>2, <2>1
    <3> QED BY <1>3, <1>4, <1>6, <3>1
  <2>2. CASE ~(i <= S)
    <3>1. i \in Int /\ S \in Int /\ T \in Int
      BY <1>2
    <3>2. i - S \in 1 .. T /\ i = S + (i - S)
      BY <2>2, <3>1
    <3>3. wst[i] = wt[i - S] /\ both[i] = t[i - S]
      BY <1>3, <1>6, <3>2
    <3> QED BY <1>4, <3>2, <3>3
  <2> QED BY <2>1, <2>2
<1>9. wb = wst
  BY <1>5, <1>7, <1>8
<1>10. SumOf(wb) = SumOf(ws) + SumOf(wt)
  BY <1>2, <1>9, SumJoined DEF wst
<1> QED BY <1>10 DEF Weight, ws, wt, wb, both

\* Moving events to an op of the timeline leaves their work, and gives them its key.
LEMMA WeightShifted ==
  ASSUME NEW op, NEW source, NEW local, NEW len, LocalSchedule(local, len), cycle \in Nat,
         NEW moved, moved = Shifted(op, source, local), NEW key
  PROVE  /\ EventList(moved) /\ Len(moved) = Len(local) /\ DOMAIN moved = DOMAIN local
         /\ \A i \in DOMAIN moved : KeyOf(moved[i]) = <<op.name, source>>
         /\ Weight("work", key, moved) = Moved(local)
         /\ Weight("rows", key, moved) = IF key = <<op.name, source>> THEN Len(local) ELSE 0
         /\ Weight("cycles", key, moved) = IF key = <<op.name, source>> THEN len ELSE 0
<1> DEFINE own == <<op.name, source>>
           L   == Len(local)
<1>1. local \in Seq({local[i] : i \in DOMAIN local}) /\ len \in Nat
  BY DEF LocalSchedule
<1>2. L \in Nat /\ DOMAIN local = 1 .. L /\ (L = 0 <=> local = <<>>)
  BY <1>1
<1>3. moved \in Seq({moved[i] : i \in DOMAIN moved}) /\ Moving(moved, local, len)
  BY ShiftedEvents
<1>4. DOMAIN moved = DOMAIN local
  BY DEF Shifted
<1>5. Len(moved) = L /\ EventList(moved)
  BY <1>2, <1>3, <1>4 DEF Moving, EventList
<1>6. \A i \in DOMAIN local :
        /\ KeyOf(moved[i]) = own /\ moved[i].cycles = local[i].cycles
        /\ moved[i].macs = local[i].macs /\ moved[i].bytes = local[i].bytes
  BY DEF Shifted, KeyOf
<1>7. Weight("work", key, moved) = Moved(local)
  <2>1. [i \in DOMAIN moved |-> Weigh("work", key, moved[i])]
        = [i \in DOMAIN local |-> local[i].macs + local[i].bytes]
    BY <1>4, <1>6 DEF Weigh
  <2> QED BY <2>1 DEF Weight, Moved
<1> HIDE DEF own
<1> DEFINE rows   == [i \in DOMAIN moved |-> Weigh("rows", key, moved[i])]
           cycles == [i \in DOMAIN moved |-> Weigh("cycles", key, moved[i])]
<1>8. /\ rows \in Seq(Int) /\ Len(rows) = L /\ cycles \in Seq(Int) /\ Len(cycles) = L
  <2>1. "rows" \in Measured /\ "cycles" \in Measured /\ Len(moved) = L
    BY <1>5 DEF Measured
  <2>2. ASSUME NEW what \in Measured
        PROVE  /\ [i \in DOMAIN moved |-> Weigh(what, key, moved[i])] \in Seq(Int)
               /\ Len([i \in DOMAIN moved |-> Weigh(what, key, moved[i])]) = Len(moved)
    BY <1>5, WeighList
  <2>3. rows \in Seq(Int) /\ Len(rows) = Len(moved)
    BY <2>1, <2>2
  <2>4. cycles \in Seq(Int) /\ Len(cycles) = Len(moved)
    BY <2>1, <2>2
  <2> QED BY <2>1, <2>3, <2>4
<1>9. \A i \in 1 .. L : /\ rows[i] = IF key = own THEN 1 ELSE 0
                        /\ cycles[i] = IF key = own THEN local[i].cycles ELSE 0
  BY <1>2, <1>4, <1>6 DEF Weigh
<1> HIDE DEF rows, cycles
<1>10. SumOf(rows) = IF key = own THEN L ELSE 0
  <2> DEFINE g == [i \in 0 .. L |-> IF key = own THEN i ELSE 0]
  <2>1. g[0] = 0 /\ \A i \in 1 .. L : g[i] = g[i - 1] + rows[i]
    BY <1>2, <1>9
  <2>2. g[L] = IF key = own THEN L ELSE 0
    BY <1>2
  <2> HIDE DEF g
  <2> QED BY <1>8, <2>1, <2>2, SumTelescopes
<1>11. SumOf(cycles) = IF key = own THEN len ELSE 0
  <2> DEFINE g == [i \in 0 .. L |-> IF key = own /\ i # 0 THEN local[i].end ELSE 0]
  <2>1. g[0] = 0
    BY <1>2
  <2>2. \A i \in 1 .. L : g[i] = g[i - 1] + cycles[i]
    <3> SUFFICES ASSUME NEW i \in 1 .. L PROVE g[i] = g[i - 1] + cycles[i]
      OBVIOUS
    <3>1. /\ local[i].end = local[i].start + local[i].cycles
          /\ local[i].start = IF i = 1 THEN 0 ELSE local[i - 1].end
      BY <1>2 DEF LocalSchedule, Contiguous
    <3>2. i \in 0 .. L /\ i - 1 \in 0 .. L /\ i # 0 /\ (i - 1 = 0 <=> i = 1)
      BY <1>2
    <3>3. g[i] = (IF key = own THEN local[i].end ELSE 0)
          /\ g[i - 1] = (IF key = own /\ i # 1 THEN local[i - 1].end ELSE 0)
      BY <3>2
    <3>4. CASE key = own
      BY <1>9, <3>1, <3>3, <3>4
    <3>5. CASE key # own
      BY <1>9, <3>3, <3>5
    <3> QED BY <3>4, <3>5
  <2>3. g[L] = IF key = own THEN len ELSE 0
    <3>1. len = IF L = 0 THEN 0 ELSE local[L].end
      BY <1>2 DEF LocalSchedule, Contiguous
    <3>2. L \in 0 .. L
      BY <1>2
    <3> QED BY <3>1, <3>2
  <2> HIDE DEF g
  <2> QED BY <1>8, <2>1, <2>2, <2>3, SumTelescopes
<1> QED BY <1>4, <1>5, <1>6, <1>7, <1>10, <1>11 DEF Weight, rows, cycles, own

-----------------------------------------------------------------------------
(* The statistics as the timeline finds them: by the name of the op.       *)

Source(m, a, name) ==
  IF Named(m, name) # {} THEN "tiled_matmul" ELSE IF Named(a, name) # {} THEN "kv_attention" ELSE "baseline"
ReportFor(m, a, name) == IF Named(m, name) # {} THEN StatOf(m, name) ELSE StatOf(a, name)

\* The work or the cycles of a report, of all of them, and of each op.
Amounts == {"work", "cycles"}
Worth(what, stat)   == IF what = "work" THEN Moved(stat.events) ELSE stat.cycles
Total(what, stats)  == SumOf([i \in DOMAIN stats |-> Worth(what, stats[i])])
OpWorth(what, m, a) ==
  [i \in DOMAIN schedule |->
     IF Source(m, a, schedule[i].name) = "baseline" THEN 0 ELSE Worth(what, ReportFor(m, a, schedule[i].name))]

\* Each report is that of one of the first ops, and no other has its name.
OwnedBy(stats, count) ==
  \A j \in DOMAIN stats :
    /\ stats[j].events # <<>> /\ \E i \in 1 .. count : stats[j].op_name = schedule[i].name
    /\ \A k \in DOMAIN stats : stats[k].op_name = stats[j].op_name => k = j

StatsKeep(m, a, count) ==
  /\ OwnedBy(m, count) /\ OwnedBy(a, count)
  /\ \A j \in DOMAIN m, k \in DOMAIN a : m[j].op_name # a[k].op_name
  /\ \A what \in Amounts : Total(what, m) + Total(what, a) = SumTo(OpWorth(what, m, a), count)

LEMMA WorthInt ==
  ASSUME NEW stat, LocalSchedule(stat.events, stat.cycles), NEW what \in Amounts
  PROVE  Worth(what, stat) \in Int
<1>1. EventList(stat.events) /\ stat.cycles \in Int
  BY DEF LocalSchedule, EventList
<1>2. Moved(stat.events) \in Int
  BY <1>1, WeightInt, WeightIs DEF Measured
<1> QED BY <1>1, <1>2 DEF Worth

LEMMA TotalMore ==
  ASSUME NEW stats, StatsOK(stats), NEW stat, LocalSchedule(stat.events, stat.cycles), NEW what \in Amounts
  PROVE  /\ Total(what, stats) \in Int
         /\ Total(what, Append(stats, stat)) = Total(what, stats) + Worth(what, stat)
<1> DEFINE more == Append(stats, stat)
           w == [i \in DOMAIN stats |-> Worth(what, stats[i])]
           v == [i \in DOMAIN more |-> Worth(what, more[i])]
           L == Len(stats)
<1>1. stats \in Seq({stats[i] : i \in DOMAIN stats})
  BY DEF StatsOK
<1>2. /\ L \in Nat /\ DOMAIN stats = 1 .. L /\ DOMAIN more = 1 .. L + 1
      /\ more[L + 1] = stat /\ \A i \in 1 .. L : more[i] = stats[i]
  BY <1>1
<1>3. \A i \in DOMAIN stats : Worth(what, stats[i]) \in Int
  BY WorthInt DEF StatsOK
<1> HIDE DEF more, L
<1>4. w \in [1 .. L -> Int]
  BY <1>2, <1>3
<1>5. \A i \in 1 .. L : w[i] = Worth(what, stats[i])
  BY <1>2
<1>6. DOMAIN v = 1 .. L + 1 /\ \A i \in 1 .. L + 1 : v[i] = Worth(what, more[i])
  BY <1>2
<1>7. v = [i \in 1 .. L + 1 |-> v[i]]
  BY <1>6
<1> HIDE DEF w, v
<1>8. w \in Seq(Int) /\ Len(w) = L
  BY <1>2, <1>4
<1>9. Worth(what, stat) \in Int
  BY WorthInt
<1> DEFINE x == Worth(what, stat)
           q == Append(w, x)
<1>10. q \in Seq(Int) /\ Len(q) = L + 1 /\ q[L + 1] = x /\ \A i \in 1 .. L : q[i] = w[i]
  BY <1>2, <1>8, <1>9
<1>11. q = [i \in 1 .. L + 1 |-> q[i]]
  <2>1. \A s \in Seq(Int) : s = [i \in 1 .. Len(s) |-> s[i]]
    OBVIOUS
  <2> QED BY <1>10, <2>1
<1> HIDE DEF q
<1>12. \A i \in 1 .. L + 1 : q[i] = v[i]
  <2>1. \A i \in 1 .. L + 1 : i \in 1 .. L \/ i = L + 1
    BY <1>2
  <2>2. \A i \in 1 .. L : i \in 1 .. L + 1
    BY <1>2
  <2>3. L + 1 \in 1 .. L + 1
    BY <1>2
  <2>4. q[L + 1] = v[L + 1]
    BY <1>2, <1>6, <1>10, <2>3
  <2>5. \A i \in 1 .. L : q[i] = v[i]
    BY <1>2, <1>5, <1>6, <1>10, <2>2
  <2> QED BY <2>1, <2>4, <2>5
<1>13. v = q
  BY <1>7, <1>11, <1>12
<1>14. SumOf(v) = SumOf(w) + x /\ SumOf(w) \in Int
  BY <1>8, <1>9, <1>13, SumAppend, SumType DEF q
<1> QED BY <1>14 DEF Total, v, w, more

LEMMA TotalNone == ASSUME NEW what PROVE Total(what, <<>>) = 0
<1>1. [i \in DOMAIN <<>> |-> Worth(what, <<>>[i])] = <<>>
  OBVIOUS
<1> QED BY <1>1, SumEmpty DEF Total

LEMMA OpWorthInt ==
  ASSUME NEW m, NEW a, StatsOK(m), StatsOK(a), NEW what \in Amounts, NEW i \in DOMAIN schedule
  PROVE  OpWorth(what, m, a)[i] \in Int
<1> DEFINE name == schedule[i].name
<1>1. CASE Named(m, name) # {}
  <2>1. Worth(what, StatOf(m, name)) \in Int
    BY <1>1, StatFound, WorthInt
  <2> QED BY <1>1, <2>1 DEF OpWorth, ReportFor, Source
<1>2. CASE Named(m, name) = {} /\ Named(a, name) # {}
  <2>1. Worth(what, StatOf(a, name)) \in Int
    BY <1>2, StatFound, WorthInt
  <2> QED BY <1>2, <2>1 DEF OpWorth, ReportFor, Source
<1>3. CASE Named(m, name) = {} /\ Named(a, name) = {}
  BY <1>3 DEF OpWorth, Source
<1> QED BY <1>1, <1>2, <1>3

\* A report is found by the name of its op.
LEMMA OwnFound ==
  ASSUME NEW stats, DOMAIN stats \in SUBSET Int, NEW count, OwnedBy(stats, count), NEW j \in DOMAIN stats
  PROVE  Named(stats, stats[j].op_name) = {j} /\ StatOf(stats, stats[j].op_name) = stats[j]
<1>1. Named(stats, stats[j].op_name) = {j}
  BY DEF Named, OwnedBy
<1> DEFINE N == Named(stats, stats[j].op_name)
<1>2. (CHOOSE i \in N : \A k \in N : k <= i) = j
  <2>1. j \in DOMAIN stats /\ N = {j}
    BY <1>1
  <2> HIDE DEF N
  <2>2. N = {j} => \A i \in N : i = j
    OBVIOUS
  <2>3. \E i \in N : \A k \in N : k <= i
    <3>1. j <= j
      OBVIOUS
    <3> QED BY <2>1, <3>1
  <2> QED BY <2>1, <2>2, <2>3
<1> QED BY <1>1, <1>2 DEF StatOf

\* An op that is not one of the first count has no report.
LEMMA NoneLater ==
  ASSUME NEW stats, NEW count \in Nat, OwnedBy(stats, count), DistinctNames,
         NEW i \in DOMAIN schedule, i \notin 1 .. count,
         1 .. count \subseteq DOMAIN schedule
  PROVE  Named(stats, schedule[i].name) = {}
BY DEF OwnedBy, Named, DistinctNames

\* The reports with that of the next op behind them.
Grown(more, stats, stat, count, next) ==
  /\ OwnedBy(more, next)
  /\ Named(more, schedule[next].name) # {} /\ StatOf(more, schedule[next].name) = stat
  /\ \A i \in 1 .. count :
       /\ Named(more, schedule[i].name) = Named(stats, schedule[i].name)
       /\ Named(stats, schedule[i].name) # {} =>
            StatOf(more, schedule[i].name) = StatOf(stats, schedule[i].name)
  /\ \A j \in DOMAIN more : (j \in DOMAIN stats /\ more[j] = stats[j]) \/ more[j] = stat

\* One more report, of the next op.
LEMMA OwnedMore ==
  ASSUME NEW stats, StatsOK(stats), NEW count \in Nat, NEW next, next = count + 1,
         OwnedBy(stats, count), DistinctNames,
         1 .. next \subseteq DOMAIN schedule,
         NEW stat, stat.op_name = schedule[next].name, stat.events # <<>>,
         NEW more, more = Append(stats, stat)
  PROVE  Grown(more, stats, stat, count, next)
<1> DEFINE L == Len(stats)
           own == schedule[next].name
<1>1. stats \in Seq({stats[i] : i \in DOMAIN stats})
  BY DEF StatsOK
<1>2. /\ L \in Nat /\ DOMAIN stats = 1 .. L /\ DOMAIN more = 1 .. L + 1
      /\ more[L + 1] = stat /\ \A i \in 1 .. L : more[i] = stats[i]
  BY <1>1
<1> HIDE DEF L
<1>3. \A j \in DOMAIN more : \/ j \in DOMAIN stats /\ more[j] = stats[j]
                             \/ j = L + 1 /\ more[j] = stat
  <2>1. \A j \in 1 .. L + 1 : j \in 1 .. L \/ j = L + 1
    BY <1>2
  <2> QED BY <1>2, <2>1
<1>4. /\ L + 1 \in DOMAIN more /\ L + 1 \notin DOMAIN stats /\ \A j \in DOMAIN stats : j \in DOMAIN more
      /\ DOMAIN stats \in SUBSET Int /\ DOMAIN more \in SUBSET Int
  BY <1>2
<1>5. next \in 1 .. next /\ next \notin 1 .. count /\ \A i \in 1 .. count : i \in 1 .. next
  OBVIOUS
<1>6. \A i \in 1 .. count : schedule[i].name # own
  BY <1>5 DEF DistinctNames
<1>7. \A j \in DOMAIN stats : stats[j].op_name # own
  BY <1>6 DEF OwnedBy
<1>8. OwnedBy(more, next)
  <2> SUFFICES ASSUME NEW j \in DOMAIN more
               PROVE  /\ more[j].events # <<>> /\ \E i \in 1 .. next : more[j].op_name = schedule[i].name
                      /\ \A k \in DOMAIN more : more[k].op_name = more[j].op_name => k = j
    BY DEF OwnedBy
  <2>1. CASE j \in DOMAIN stats /\ more[j] = stats[j]
    <3>1. /\ stats[j].events # <<>> /\ \E i \in 1 .. count : stats[j].op_name = schedule[i].name
          /\ \A k \in DOMAIN stats : stats[k].op_name = stats[j].op_name => k = j
      BY <2>1 DEF OwnedBy
    <3> QED BY <1>3, <1>5, <1>7, <2>1, <3>1
  <2>2. CASE j = L + 1 /\ more[j] = stat
    BY <1>3, <1>5, <1>7, <2>2
  <2> QED BY <1>3, <2>1, <2>2
<1> DEFINE Found(q) == \A j \in DOMAIN q : Named(q, q[j].op_name) = {j} /\ StatOf(q, q[j].op_name) = q[j]
<1>9. Found(more)
  <2>1. DOMAIN more \in SUBSET Int /\ OwnedBy(more, next)
    BY <1>4, <1>8
  <2> QED BY <2>1, OwnFound
<1>10. Found(stats)
  <2>1. DOMAIN stats \in SUBSET Int /\ OwnedBy(stats, count)
    BY <1>4
  <2> QED BY <2>1, OwnFound
<1>11. Named(more, own) # {} /\ StatOf(more, own) = stat
  <2>1. more[L + 1].op_name = own
    BY <1>2
  <2>2. Named(more, own) = {L + 1} /\ StatOf(more, own) = more[L + 1]
    BY <1>4, <1>9, <2>1
  <2> QED BY <1>2, <2>2
<1>12. \A i \in 1 .. count : Named(more, schedule[i].name) = Named(stats, schedule[i].name)
  BY <1>3, <1>4, <1>6 DEF Named
<1>13. \A i \in 1 .. count : Named(stats, schedule[i].name) # {} =>
                   StatOf(more, schedule[i].name) = StatOf(stats, schedule[i].name)
  <2> SUFFICES ASSUME NEW i \in 1 .. count, NEW j \in Named(stats, schedule[i].name)
               PROVE  StatOf(more, schedule[i].name) = StatOf(stats, schedule[i].name)
    OBVIOUS
  <2>1. j \in DOMAIN stats /\ stats[j].op_name = schedule[i].name /\ j \in DOMAIN more /\ more[j] = stats[j]
    BY <1>2, <1>4 DEF Named
  <2>2. StatOf(stats, schedule[i].name) = stats[j]
    BY <1>10, <2>1
  <2>3. StatOf(more, schedule[i].name) = more[j]
    BY <1>4, <1>9, <2>1
  <2> QED BY <2>1, <2>2, <2>3
<1> QED BY <1>3, <1>8, <1>11, <1>12, <1>13 DEF Grown

LEMMA OwnedLater ==
  ASSUME NEW stats, NEW count \in Nat, NEW next, next = count + 1, OwnedBy(stats, count)
  PROVE  OwnedBy(stats, next)
<1>1. \A i \in 1 .. count : i \in 1 .. next
  OBVIOUS
<1> QED BY <1>1 DEF OwnedBy

-----------------------------------------------------------------------------
(* One op more has run.                                                    *)

\* The worth of the first ops stays, that of the next one is added.
LEMMA WorthAdded ==
  ASSUME NEW m, NEW a, NEW m2, NEW a2, StatsOK(m), StatsOK(a), StatsOK(m2), StatsOK(a2),
         NEW what \in Amounts, NEW count \in Nat, NEW next, next = count + 1, 1 .. next \subseteq DOMAIN schedule,
         \A i \in 1 .. count : OpWorth(what, m2, a2)[i] = OpWorth(what, m, a)[i]
  PROVE  SumTo(OpWorth(what, m2, a2), next) = SumTo(OpWorth(what, m, a), count) + OpWorth(what, m2, a2)[next]
<1> DEFINE w == OpWorth(what, m, a)
           v == OpWorth(what, m2, a2)
<1>1. \A i \in 1 .. next : v[i] \in Int
  BY OpWorthInt
<1>2. \A i \in 1 .. count : v[i] = w[i]
  OBVIOUS
<1> HIDE DEF v, w
<1>3. SumTo(v, next) = SumTo(v, count) + v[next]
  BY <1>1, SumToNext
<1>4. SumTo(v, count) = SumTo(w, count)
  BY <1>2, SumToSame
<1> QED BY <1>3, <1>4 DEF v, w

LEMMA KeepNone ==
  ASSUME NEW m, NEW a, StatsOK(m), StatsOK(a), NEW count \in Nat, NEW next, next = count + 1,
         StatsKeep(m, a, count), DistinctNames,
         1 .. next \subseteq DOMAIN schedule
  PROVE  StatsKeep(m, a, next)
<1>1. OwnedBy(m, count) /\ OwnedBy(a, count) /\ OwnedBy(m, next) /\ OwnedBy(a, next)
  BY OwnedLater DEF StatsKeep
<1>2. next \in DOMAIN schedule /\ next \notin 1 .. count /\ 1 .. count \subseteq DOMAIN schedule
  <2>1. 1 .. count \subseteq 1 .. next /\ next \in 1 .. next /\ next \notin 1 .. count
    OBVIOUS
  <2> QED BY <2>1
<1>3. Named(m, schedule[next].name) = {} /\ Named(a, schedule[next].name) = {}
  BY <1>1, <1>2, NoneLater
<1>4. ASSUME NEW what \in Amounts
      PROVE  Total(what, m) + Total(what, a) = SumTo(OpWorth(what, m, a), next)
  <2>1. OpWorth(what, m, a)[next] = 0
    BY <1>2, <1>3 DEF OpWorth, Source
  <2>2. SumTo(OpWorth(what, m, a), next) = SumTo(OpWorth(what, m, a), count) + OpWorth(what, m, a)[next]
    BY WorthAdded
  <2>3. SumTo(OpWorth(what, m, a), count) \in Int
    BY <1>2, OpWorthInt, SumToType
  <2> QED BY <2>1, <2>2, <2>3 DEF StatsKeep
<1> QED BY <1>1, <1>4 DEF StatsKeep

LEMMA KeepMatmul ==
  ASSUME NEW m, NEW a, StatsOK(m), StatsOK(a), NEW count \in Nat, NEW next, next = count + 1,
         StatsKeep(m, a, count), DistinctNames,
         1 .. next \subseteq DOMAIN schedule, NEW stat, LocalSchedule(stat.events, stat.cycles),
         stat.op_name = schedule[next].name, stat.events # <<>>
  PROVE  StatsKeep(Append(m, stat), a, next)
<1> DEFINE more == Append(m, stat)
<1>1. OwnedBy(m, count) /\ OwnedBy(a, count) /\ OwnedBy(a, next)
  BY OwnedLater DEF StatsKeep
<1>2. next \in DOMAIN schedule /\ next \notin 1 .. count /\ 1 .. count \subseteq DOMAIN schedule
  <2>1. 1 .. count \subseteq 1 .. next /\ next \in 1 .. next /\ next \notin 1 .. count
    OBVIOUS
  <2> QED BY <2>1
<1>3. Named(a, schedule[next].name) = {}
  BY <1>1, <1>2, NoneLater
<1>4. Grown(more, m, stat, count, next)
  <2>1. StatsOK(m) /\ OwnedBy(m, count) /\ more = Append(m, stat)
    BY <1>1
  <2> QED BY <2>1, OwnedMore
<1>5. StatsOK(more)
  BY OneMoreStat
<1>6. \A j \in DOMAIN more, k \in DOMAIN a : more[j].op_name # a[k].op_name
  BY <1>3, <1>4 DEF StatsKeep, Named, Grown
<1>7. ASSUME NEW what \in Amounts
      PROVE  Total(what, more) + Total(what, a) = SumTo(OpWorth(what, more, a), next)
  <2>1. Total(what, more) = Total(what, m) + Worth(what, stat) /\ Total(what, m) \in Int
        /\ Total(what, a) \in Int /\ Worth(what, stat) \in Int
    BY TotalMore, WorthInt
  <2>2. \A i \in 1 .. count : OpWorth(what, more, a)[i] = OpWorth(what, m, a)[i]
    BY <1>2, <1>4 DEF OpWorth, Source, ReportFor, Grown
  <2>3. OpWorth(what, more, a)[next] = Worth(what, stat)
    BY <1>2, <1>4 DEF OpWorth, Source, ReportFor, Grown
  <2> HIDE DEF more
  <2>4. SumTo(OpWorth(what, more, a), next) = SumTo(OpWorth(what, m, a), count) + OpWorth(what, more, a)[next]
    BY <1>5, <2>2, WorthAdded
  <2> QED BY <2>1, <2>3, <2>4 DEF StatsKeep
<1> QED BY <1>1, <1>4, <1>6, <1>7 DEF StatsKeep, Grown

LEMMA KeepAttention ==
  ASSUME NEW m, NEW a, StatsOK(m), StatsOK(a), NEW count \in Nat, NEW next, next = count + 1,
         StatsKeep(m, a, count), DistinctNames,
         1 .. next \subseteq DOMAIN schedule, NEW stat, LocalSchedule(stat.events, stat.cycles),
         stat.op_name = schedule[next].name, stat.events # <<>>
  PROVE  StatsKeep(m, Append(a, stat), next)
<1> DEFINE more == Append(a, stat)
<1>1. OwnedBy(m, count) /\ OwnedBy(a, count) /\ OwnedBy(m, next)
  BY OwnedLater DEF StatsKeep
<1>2. next \in DOMAIN schedule /\ next \notin 1 .. count /\ 1 .. count \subseteq DOMAIN schedule
  <2>1. 1 .. count \subseteq 1 .. next /\ next \in 1 .. next /\ next \notin 1 .. count
    OBVIOUS
  <2> QED BY <2>1
<1>3. Named(m, schedule[next].name) = {}
  BY <1>1, <1>2, NoneLater
<1>4. Grown(more, a, stat, count, next)
  <2>1. StatsOK(a) /\ OwnedBy(a, count) /\ more = Append(a, stat)
    BY <1>1
  <2> QED BY <2>1, OwnedMore
<1>5. StatsOK(more)
  BY OneMoreStat
<1>6. \A j \in DOMAIN m, k \in DOMAIN more : m[j].op_name # more[k].op_name
  BY <1>3, <1>4 DEF StatsKeep, Named, Grown
<1>7. ASSUME NEW what \in Amounts
      PROVE  Total(what, m) + Total(what, more) = SumTo(OpWorth(what, m, more), next)
  <2>1. Total(what, more) = Total(what, a) + Worth(what, stat) /\ Total(what, a) \in Int
        /\ Total(what, m) \in Int /\ Worth(what, stat) \in Int
    BY TotalMore, WorthInt
  <2>2. \A i \in 1 .. count : OpWorth(what, m, more)[i] = OpWorth(what, m, a)[i]
    BY <1>2, <1>4 DEF OpWorth, Source, ReportFor, Grown
  <2>3. OpWorth(what, m, more)[next] = Worth(what, stat)
    BY <1>2, <1>3, <1>4 DEF OpWorth, Source, ReportFor, Grown
  <2> HIDE DEF more
  <2>4. SumTo(OpWorth(what, m, more), next) = SumTo(OpWorth(what, m, a), count) + OpWorth(what, m, more)[next]
    BY <1>5, <2>2, WorthAdded
  <2> QED BY <2>1, <2>3, <2>4 DEF StatsKeep
<1> QED BY <1>1, <1>4, <1>6, <1>7 DEF StatsKeep, Grown

-----------------------------------------------------------------------------
(* Every step keeps the reports those of the ops that ran.                 *)

StatsInv ==
  /\ running = "no" => matmul_stats = <<>> /\ attention_stats = <<>>
  /\ running # "no" /\ DistinctNames => StatsKeep(matmul_stats, attention_stats, ran)

\* A schedule that computed something is not empty.
LEMMA PositiveProduct ==
  ASSUME NEW a \in Nat \ {0}, NEW b \in Nat \ {0}
  PROVE  a * b \in Nat \ {0}
<1>1. a >= 1 /\ b >= 1 /\ a * b \in Int
  OBVIOUS
<1>2. (a - 1) * b >= 0
  <2>1. a - 1 \in Nat /\ b \in Nat
    BY <1>1
  <2>2. (a - 1) * b \in Nat
    BY <2>1, ProductsAreNat
  <2> QED BY <2>2
<1>3. (a - 1) * b = a * b - b
  OBVIOUS
<1> QED BY <1>1, <1>2, <1>3

LEMMA MatmulReports ==
  ASSUME MatmulInv, WorkAddsUp, stage = "end"
  PROVE  tile_events # <<>>
<1>1. shape.m \in Nat \ {0} /\ shape.n \in Nat \ {0} /\ shape.k \in Nat \ {0}
  BY InvTiles DEF MatmulInv, TilesOK
<1>2. shape.m * shape.n * shape.k \in Nat \ {0}
  BY <1>1, PositiveProduct
<1>3. MacsOf(tile_events) = shape.m * shape.n * shape.k
  BY DEF WorkAddsUp
<1> QED BY <1>2, <1>3, MacsEmpty

LEMMA AttentionReports ==
  ASSUME AttentionInv, MacsMatchEstimate, phase = "end"
  PROVE  trace # <<>>
<1>1. cache.tokens \in Nat \ {0} /\ cache.dim \in Nat \ {0}
  BY DEF AttentionInv, AttentionTypeOK, Caches, PositiveNat
<1>2. 2 * cache.tokens * cache.dim \in Nat \ {0}
  <2>1. 2 \in Nat \ {0}
    OBVIOUS
  <2> QED BY <1>1, <2>1, PositiveProduct
<1>3. MacsOf(trace) = 2 * cache.tokens * cache.dim
  BY DEF MacsMatchEstimate
<1> QED BY <1>2, <1>3, MacsEmpty

LEMMA SameKeep ==
  ASSUME schedule' = schedule
  PROVE  /\ DistinctNames' <=> DistinctNames
         /\ StatsKeep(matmul_stats', attention_stats', ran') =>
              StatsKeep(matmul_stats, attention_stats, ran)'
BY DEF DistinctNames, StatsKeep, OwnedBy, OpWorth

LEMMA NothingKept == ASSUME NEW count, count = 0 PROVE StatsKeep(<<>>, <<>>, count)
<1>1. OwnedBy(<<>>, count)
  BY DEF OwnedBy
<1>2. \A what \in Amounts : Total(what, <<>>) + Total(what, <<>>) = SumTo(OpWorth(what, <<>>, <<>>), count)
  BY TotalNone, SumToNone
<1> QED BY <1>1, <1>2 DEF StatsKeep

\* An op has run, and left a report or none.
LEMMA OpReported ==
  ASSUME FlowInv, WorkAddsUp, MacsMatchEstimate, StatsInv, RunOnFp32 \/ EndInt8Matmul \/ EndAttentionDecode,
         DistinctNames
  PROVE  StatsKeep(matmul_stats', attention_stats', ran')
<1>1. running # "no" /\ ran < Len(schedule) /\ ran \in Nat /\ Len(schedule) \in Nat
      /\ DOMAIN schedule = 1 .. Len(schedule)
  <2>1. RuntimeInv /\ CompilerInv
    BY DEF FlowInv, ToolchainInv
  <2>2. running # "no"
    BY DEF RunOnFp32, EndInt8Matmul, EndAttentionDecode
  <2>3. ran < Len(schedule)
    BY <2>1 DEF RunOnFp32, EndInt8Matmul, EndAttentionDecode, RuntimeInv, Called
  <2> QED BY <2>1, <2>2, <2>3, ScheduleLength DEF RuntimeInv, CompilerInv, Prefixes
<1>2. StatsKeep(matmul_stats, attention_stats, ran) /\ StatsOK(matmul_stats) /\ StatsOK(attention_stats)
  BY <1>1 DEF StatsInv, FlowInv, TimelineInv
<1> DEFINE next == ran + 1
<1>3. next = ran + 1 /\ 1 .. next \subseteq DOMAIN schedule /\ Op = schedule[next]
  BY <1>1 DEF Op
<1>4. ran' = next
  BY DEF RunOnFp32, EndInt8Matmul, EndAttentionDecode, StoreValue
<1> HIDE DEF next
<1>5. CASE RunOnFp32
  <2>1. matmul_stats' = matmul_stats /\ attention_stats' = attention_stats
    BY <1>5 DEF RunOnFp32
  <2> QED BY <1>1, <1>2, <1>3, <1>4, <2>1, KeepNone
<1>6. CASE EndInt8Matmul
  <2> DEFINE stat == [op_name |-> Op.name, events |-> tile_events, cycles |-> tile_cycle]
  <2>1. matmul_stats' = Append(matmul_stats, stat) /\ attention_stats' = attention_stats /\ stage = "end"
    BY <1>6 DEF EndInt8Matmul, ReturnMatmul
  <2>2. stat.op_name = schedule[next].name /\ stat.events # <<>>
    BY <1>3, <2>1, MatmulReports DEF FlowInv
  <2>3. LocalSchedule(stat.events, stat.cycles)
    BY DEF FlowInv, MatmulInv
  <2> HIDE DEF stat
  <2>4. StatsKeep(Append(matmul_stats, stat), attention_stats, next)
    BY <1>1, <1>2, <1>3, <2>2, <2>3, KeepMatmul
  <2> QED BY <1>4, <2>1, <2>4
<1>7. CASE EndAttentionDecode
  <2> DEFINE stat == [op_name |-> Op.name, events |-> trace, cycles |-> now]
  <2>1. attention_stats' = Append(attention_stats, stat) /\ matmul_stats' = matmul_stats /\ phase = "end"
    BY <1>7 DEF EndAttentionDecode, ReturnAttention
  <2>2. stat.op_name = schedule[next].name /\ stat.events # <<>>
    BY <1>3, <2>1, AttentionReports DEF FlowInv
  <2>3. LocalSchedule(stat.events, stat.cycles)
    BY DEF FlowInv, AttentionInv
  <2> HIDE DEF stat
  <2>4. StatsKeep(matmul_stats, Append(attention_stats, stat), next)
    BY <1>1, <1>2, <1>3, <2>2, <2>3, KeepAttention
  <2> QED BY <1>4, <2>1, <2>4
<1> QED BY <1>5, <1>6, <1>7

LEMMA StatsStep ==
  FlowInv /\ WorkAddsUp /\ MacsMatchEstimate /\ StatsInv /\ [ToolchainNext]_toolchainVars => StatsInv'
<1> SUFFICES ASSUME FlowInv, WorkAddsUp, MacsMatchEstimate, StatsInv, [ToolchainNext]_toolchainVars
             PROVE  StatsInv'
  OBVIOUS
<1>1. RuntimeInv /\ CompilerInv /\ [CompilerNext]_compilerVars
  BY ToolchainCompilerStep DEF FlowInv, ToolchainInv
<1>2. running # "no" => schedule' = schedule
  BY <1>1, CompiledStays DEF RuntimeInv
<1>3. CASE matmul_stats' = matmul_stats /\ attention_stats' = attention_stats /\ ran' = ran
           /\ (running = "no" <=> running' = "no")
  <2>1. CASE running = "no"
    BY <1>3, <2>1 DEF StatsInv
  <2>2. CASE running # "no"
    BY <1>2, <1>3, <2>2, SameKeep DEF StatsInv
  <2> QED BY <2>1, <2>2
<1>4. CASE (\E inputs : StartRun(inputs)) /\ UNCHANGED compilerVars
  <2>1. /\ running = "no" /\ running' = "yes" /\ matmul_stats' = matmul_stats
        /\ attention_stats' = attention_stats /\ ran' = ran /\ ran = 0
    BY <1>1, <1>4 DEF StartRun, RuntimeInv
  <2>2. matmul_stats' = <<>> /\ attention_stats' = <<>> /\ ran' = 0
    BY <2>1 DEF StatsInv
  <2>3. schedule' = schedule
    BY <1>4 DEF compilerVars
  <2>4. StatsKeep(matmul_stats', attention_stats', ran')
    BY <2>2, NothingKept
  <2> QED BY <2>1, <2>3, <2>4, SameKeep DEF StatsInv
<1>5. CASE RunOnFp32 \/ EndInt8Matmul \/ EndAttentionDecode
  <2>1. running # "no" /\ running' # "no"
    BY <1>5 DEF RunOnFp32, EndInt8Matmul, EndAttentionDecode
  <2>2. schedule' = schedule
    BY <1>2, <2>1
  <2>3. DistinctNames => StatsKeep(matmul_stats', attention_stats', ran')
    BY <1>5, OpReported
  <2> QED BY <2>1, <2>2, <2>3, SameKeep DEF StatsInv
<1>6. CASE UNCHANGED runtimeVars
  BY <1>3, <1>6 DEF runtimeVars
<1>7. CASE RuntimeSteps
  <2>1. CASE FailOp
    <3>1. running' # "no"
      BY <2>1, ComplaintKinds DEF FailOp, Runs
    <3> QED BY <1>3, <2>1, <3>1 DEF FailOp
  <2>2. CASE EndRun \/ RunInt8Matmul \/ RunAttentionDecode
    BY <1>3, <2>2 DEF EndRun, RunInt8Matmul, RunAttentionDecode
  <2> QED BY <1>5, <1>6, <1>7, <2>1, <2>2 DEF RuntimeSteps, BackendSteps
<1>8. CASE RunGraph /\ UNCHANGED compilerVars
  BY <1>4, <1>8 DEF RunGraph
<1>9. CASE TinyGPTSteps
  BY <1>4, <1>6, <1>9 DEF TinyGPTSteps, BuildStep, CompileStep, RunStep
<1> QED BY <1>6, <1>7, <1>8, <1>9 DEF ToolchainNext, toolchainVars, streamVars

LEMMA StatsInvariance == ToolchainSpec => []StatsInv
<1>1. ToolchainInit => StatsInv
  BY DEF ToolchainInit, RuntimeInit, StatsInv
<1> QED BY <1>1, StatsStep, FlowInvariance, ToolchainSchedulers, PTL DEF ToolchainSpec

-----------------------------------------------------------------------------
(* What the timeline has to show of the ops that are placed.               *)

SourceOf(i)   == Source(matmul_stats, attention_stats, schedule[i].name)
ReportedOf(i) == ReportFor(matmul_stats, attention_stats, schedule[i].name)
OpKey(i)      == <<schedule[i].name, SourceOf(i)>>
Has(i)        == SourceOf(i) # "baseline" \/ include_fallback_ops
RowsOf(i)     == IF SourceOf(i) = "baseline" THEN 1 ELSE Len(ReportedOf(i).events)
Work          == OpWorth("work", matmul_stats, attention_stats)
Takes         == [i \in DOMAIN schedule |->
                    IF SourceOf(i) = "baseline" THEN schedule[i].cycles ELSE ReportedOf(i).cycles]

Row(list, i) ==
  /\ EventsOf(list, OpKey(i)) = RowsOf(i) /\ CyclesOf(list, OpKey(i)) = Takes[i]
  /\ \E j \in DOMAIN list : KeyOf(list[j]) = OpKey(i)

Shows(list, total, count) ==
  /\ Moved(list) = SumTo(Work, count) /\ total = SumTo(Takes, count)
  /\ \A i \in 1 .. count : Has(i) => Row(list, i)
  /\ \A j \in DOMAIN list : \E i \in 1 .. count : Has(i) /\ KeyOf(list[j]) = OpKey(i)

PlacedInv ==
  /\ timeline = "no" => placed = 0
  /\ timeline # "no" => placed <= Len(schedule)
  /\ timeline = "built" => placed = Len(schedule)
  /\ timeline # "no" /\ DistinctNames => Shows(events, cycle, placed)

\* No event has the key of an op that is not there.
LEMMA NoRow ==
  ASSUME NEW list, EventList(list), NEW key, \A j \in DOMAIN list : KeyOf(list[j]) # key
  PROVE  EventsOf(list, key) = 0 /\ CyclesOf(list, key) = 0
<1> DEFINE Of(what) == [i \in DOMAIN list |-> Weigh(what, key, list[i])]
<1>1. ASSUME NEW what \in {"rows", "cycles"} PROVE SumOf(Of(what)) = 0
  <2> DEFINE w == Of(what)
  <2>1. what \in Measured
    BY DEF Measured
  <2>2. w \in Seq(Int) /\ Len(w) = Len(list) /\ DOMAIN list = 1 .. Len(list) /\ Len(list) \in Nat
    BY <2>1, WeighList
  <2>3. \A i \in DOMAIN list : w[i] = 0
    BY DEF Weigh
  <2> HIDE DEF w
  <2> DEFINE g == [i \in 0 .. Len(w) |-> 0]
  <2>4. /\ g[0] = 0 /\ g[Len(w)] = 0
        /\ \A i \in 1 .. Len(w) : g[i] = g[i - 1] + w[i]
    BY <2>2, <2>3
  <2> HIDE DEF g
  <2>5. SumOf(w) = 0
    BY <2>2, <2>4, SumTelescopes
  <2> QED BY <2>5 DEF w
<1>2. Weight("rows", key, list) = 0 /\ Weight("cycles", key, list) = 0
  BY <1>1 DEF Weight
<1> QED BY <1>2, WeightIs

LEMMA TakesNat ==
  ASSUME StatsOK(matmul_stats), StatsOK(attention_stats), ScheduledOps, NEW i \in DOMAIN schedule
  PROVE  Takes[i] \in Nat
<1> DEFINE name == schedule[i].name
<1>1. CASE Named(matmul_stats, name) # {}
  <2>1. StatOf(matmul_stats, name).cycles \in Nat
    BY <1>1, StatFound DEF LocalSchedule
  <2> QED BY <1>1, <2>1 DEF Takes, ReportedOf, SourceOf, ReportFor, Source
<1>2. CASE Named(matmul_stats, name) = {} /\ Named(attention_stats, name) # {}
  <2>1. StatOf(attention_stats, name).cycles \in Nat
    BY <1>2, StatFound DEF LocalSchedule
  <2> QED BY <1>2, <2>1 DEF Takes, ReportedOf, SourceOf, ReportFor, Source
<1>3. CASE Named(matmul_stats, name) = {} /\ Named(attention_stats, name) = {}
  BY <1>3 DEF Takes, SourceOf, Source, ScheduledOps
<1> QED BY <1>1, <1>2, <1>3

LEMMA SumsAdded ==
  ASSUME StatsOK(matmul_stats), StatsOK(attention_stats), ScheduledOps,
         NEW count \in Nat, NEW next, next = count + 1, 1 .. next \subseteq DOMAIN schedule
  PROVE  /\ SumTo(Work, next) = SumTo(Work, count) + Work[next] /\ SumTo(Work, count) \in Int /\ Work[next] \in Int
         /\ SumTo(Takes, next) = SumTo(Takes, count) + Takes[next] /\ SumTo(Takes, count) \in Int
<1>1. \A i \in 1 .. next : Work[i] \in Int
  BY OpWorthInt DEF Work, Amounts
<1>2. \A i \in 1 .. next : Takes[i] \in Int
  <2>1. \A i \in DOMAIN schedule : Takes[i] \in Nat
    BY TakesNat
  <2> QED BY <2>1
<1>3. next \in 1 .. next /\ \A i \in 1 .. count : i \in 1 .. next
  OBVIOUS
<1> QED BY <1>1, <1>2, <1>3, SumToNext, SumToType

\* Only the op itself has its key.
LEMMA OtherKeys ==
  ASSUME DistinctNames, NEW i \in DOMAIN schedule, NEW j \in DOMAIN schedule, OpKey(i) = OpKey(j)
  PROVE  i = j
BY DEF DistinctNames, OpKey

\* An op that leaves no event.
LEMMA ShowsNothing ==
  ASSUME StatsOK(matmul_stats), StatsOK(attention_stats), ScheduledOps,
         NEW list, NEW total, NEW count \in Nat, NEW next, next = count + 1,
         1 .. next \subseteq DOMAIN schedule, Shows(list, total, count), ~Has(next)
  PROVE  Shows(list, total + schedule[next].cycles, next)
<1>1. next \in DOMAIN schedule
  BY SMT
<1>2. Work[next] = 0 /\ Takes[next] = schedule[next].cycles
  BY <1>1 DEF Has, Work, Takes, OpWorth, SourceOf
<1>3. \A i \in 1 .. next : i \in 1 .. count \/ i = next
  OBVIOUS
<1>4. \A i \in 1 .. count : i \in 1 .. next
  OBVIOUS
<1>5. Moved(list) = SumTo(Work, next) /\ total + schedule[next].cycles = SumTo(Takes, next)
  BY <1>2, SumsAdded DEF Shows
<1> QED BY <1>3, <1>4, <1>5 DEF Shows

\* An op whose events are put behind the others.
LEMMA ShowsMore ==
  ASSUME StatsOK(matmul_stats), StatsOK(attention_stats), ScheduledOps, DistinctNames,
         EventList(events), cycle \in Nat,
         NEW count \in Nat, NEW next, next = count + 1,
         1 .. next \subseteq DOMAIN schedule, Shows(events, cycle, count), Has(next),
         NEW local, NEW len, LocalSchedule(local, len), local # <<>>,
         Len(local) = RowsOf(next), len = Takes[next], Moved(local) = Work[next],
         NEW moved, moved = Shifted(schedule[next], SourceOf(next), local)
  PROVE  Shows(events \o moved, cycle + len, next)
<1> DEFINE all == events \o moved
           own == OpKey(next)
<1>1. /\ next \in DOMAIN schedule /\ 1 .. count \subseteq DOMAIN schedule /\ next \notin 1 .. count
      /\ \A i \in 1 .. next : i \in 1 .. count \/ i = next
      /\ \A i \in 1 .. count : i \in 1 .. next
      /\ next \in 1 .. next
  <2>1. next \in 1 .. next /\ next \notin 1 .. count
        /\ \A i \in 1 .. next : i \in 1 .. count \/ i = next
    OBVIOUS
  <2>2. \A i \in 1 .. count : i \in 1 .. next
    OBVIOUS
  <2> QED BY <2>1, <2>2
<1>2. own = <<schedule[next].name, SourceOf(next)>>
  BY DEF OpKey
<1> HIDE DEF own
<1>3. ASSUME NEW key
      PROVE  /\ EventList(moved) /\ Len(moved) = Len(local) /\ DOMAIN moved = DOMAIN local
             /\ \A i \in DOMAIN moved : KeyOf(moved[i]) = own
             /\ Moved(moved) = Moved(local)
             /\ EventsOf(moved, key) = IF key = own THEN Len(local) ELSE 0
             /\ CyclesOf(moved, key) = IF key = own THEN len ELSE 0
  BY <1>2, WeightShifted, WeightIs
<1>4. EventList(moved)
  BY <1>3
<1>5. ASSUME NEW key
      PROVE  /\ Moved(all) = Moved(events) + Moved(moved)
             /\ EventsOf(all, key) = EventsOf(events, key) + EventsOf(moved, key)
             /\ CyclesOf(all, key) = CyclesOf(events, key) + CyclesOf(moved, key)
             /\ EventsOf(events, key) \in Int /\ CyclesOf(events, key) \in Int
  <2>1. ASSUME NEW what \in Measured
        PROVE  /\ Weight(what, key, all) = Weight(what, key, events) + Weight(what, key, moved)
               /\ Weight(what, key, events) \in Int
    BY <1>4, WeightJoined, WeightInt
  <2>2. "work" \in Measured /\ "rows" \in Measured /\ "cycles" \in Measured
    BY DEF Measured
  <2> HIDE DEF all
  <2> QED BY <2>1, <2>2, WeightIs
<1>6. Joined(all, events, moved)
  BY <1>4, Parts DEF EventList
<1> HIDE DEF all
<1>7. Moved(all) = SumTo(Work, next) /\ cycle + len = SumTo(Takes, next)
  <2>1. Moved(all) = Moved(events) + Work[next]
    BY <1>3, <1>5
  <2> QED BY <2>1, SumsAdded DEF Shows
<1>8. \A j \in DOMAIN events : \E i \in 1 .. count : Has(i) /\ KeyOf(events[j]) = OpKey(i)
  BY DEF Shows
<1>9. \A i \in 1 .. count : OpKey(i) # own
  BY <1>1, OtherKeys DEF own
<1>10. EventsOf(events, own) = 0 /\ CyclesOf(events, own) = 0
  BY <1>8, <1>9, NoRow
<1>11. Len(local) \in Nat /\ 1 \in DOMAIN moved /\ len \in Int
  <2>1. local \in Seq({local[i] : i \in DOMAIN local}) /\ len \in Nat
    BY DEF LocalSchedule
  <2>2. 1 \in DOMAIN local /\ Len(local) \in Nat
    BY <2>1
  <2> QED BY <1>3, <2>1, <2>2
<1>12. /\ \A i \in DOMAIN events : i \in DOMAIN all /\ all[i] = events[i]
       /\ \A i \in DOMAIN moved : Len(events) + i \in DOMAIN all /\ all[Len(events) + i] = moved[i]
       /\ \A j \in DOMAIN all : (j \in DOMAIN events /\ all[j] = events[j])
                                \/ \E i \in DOMAIN moved : all[j] = moved[i]
  <2> DEFINE E == Len(events)
             M == Len(moved)
  <2>1. DOMAIN moved = 1 .. M
    BY <1>4 DEF EventList
  <2>2. /\ E \in Nat /\ M \in Nat /\ DOMAIN events = 1 .. E /\ DOMAIN all = 1 .. E + M
        /\ \A i \in 1 .. E : all[i] = events[i]
        /\ \A i \in 1 .. M : all[E + i] = moved[i]
    BY <1>6 DEF Joined
  <2> HIDE DEF E, M
  <2>3. \A j \in 1 .. E + M : j \in 1 .. E \/ (j - E \in 1 .. M /\ j = E + (j - E))
    BY <2>2
  <2>4. \A i \in 1 .. E : i \in 1 .. E + M
    BY <2>2
  <2>5. \A i \in 1 .. M : E + i \in 1 .. E + M
    BY <2>2
  <2>6. \A j \in DOMAIN all : (j \in DOMAIN events /\ all[j] = events[j])
                                \/ \E i \in DOMAIN moved : all[j] = moved[i]
    <3> SUFFICES ASSUME NEW j \in DOMAIN all, j \notin DOMAIN events
                 PROVE  \E i \in DOMAIN moved : all[j] = moved[i]
      BY <2>2
    <3> DEFINE i == j - E
    <3>1. i \in 1 .. M /\ j = E + i
      BY <2>2, <2>3
    <3> HIDE DEF i
    <3>2. all[j] = moved[i]
      BY <2>2, <3>1
    <3> QED BY <2>1, <3>1, <3>2
  <2> QED BY <2>1, <2>2, <2>4, <2>5, <2>6 DEF E
<1>13. ASSUME NEW i \in 1 .. next, Has(i) PROVE Row(all, i)
  <2>1. CASE i = next
    <3>1. EventsOf(all, own) = RowsOf(next) /\ CyclesOf(all, own) = Takes[next]
      BY <1>3, <1>5, <1>10, <1>11
    <3>2. \E j \in DOMAIN all : KeyOf(all[j]) = own
      BY <1>3, <1>11, <1>12
    <3> QED BY <2>1, <3>1, <3>2 DEF Row, own
  <2>2. CASE i \in 1 .. count
    <3>1. Row(events, i) /\ OpKey(i) # own
      BY <1>9, <1>13, <2>2 DEF Shows
    <3>2. /\ EventsOf(all, OpKey(i)) = EventsOf(events, OpKey(i))
          /\ CyclesOf(all, OpKey(i)) = CyclesOf(events, OpKey(i))
      BY <1>3, <1>5, <3>1
    <3>3. \E j \in DOMAIN all : KeyOf(all[j]) = OpKey(i)
      BY <1>12, <3>1 DEF Row
    <3> QED BY <3>1, <3>2, <3>3 DEF Row
  <2> QED BY <1>1, <2>1, <2>2
<1>14. \A j \in DOMAIN all : \E i \in 1 .. next : Has(i) /\ KeyOf(all[j]) = OpKey(i)
  <2> SUFFICES ASSUME NEW j \in DOMAIN all
               PROVE  \E i \in 1 .. next : Has(i) /\ KeyOf(all[j]) = OpKey(i)
    OBVIOUS
  <2>1. CASE j \in DOMAIN events /\ all[j] = events[j]
    BY <1>1, <1>8, <2>1
  <2>2. CASE \E i \in DOMAIN moved : all[j] = moved[i]
    <3>1. KeyOf(all[j]) = own
      BY <1>3, <2>2
    <3> QED BY <1>1, <3>1 DEF own
  <2> QED BY <1>12, <2>1, <2>2
<1>15. Shows(all, cycle + len, next)
  BY <1>7, <1>13, <1>14 DEF Shows
<1> QED BY <1>15 DEF all

\* What the runtime reported does not change behind the timeline.
SameReports ==
  /\ schedule' = schedule /\ matmul_stats' = matmul_stats /\ attention_stats' = attention_stats
  /\ include_fallback_ops' = include_fallback_ops

LEMMA SameShows ==
  ASSUME SameReports
  PROVE  /\ DistinctNames' <=> DistinctNames
         /\ Shows(events', cycle', placed') => Shows(events, cycle, placed)'
BY DEF SameReports, DistinctNames, Shows, Row, RowsOf, Takes, Work, OpWorth, Has, OpKey, SourceOf, ReportedOf

\* The report of an op, under its source.
LEMMA ReportFound ==
  ASSUME StatsOK(matmul_stats), StatsOK(attention_stats), StatsInv, running # "no", DistinctNames,
         NEW i \in DOMAIN schedule, SourceOf(i) # "baseline"
  PROVE  /\ LocalSchedule(ReportedOf(i).events, ReportedOf(i).cycles) /\ ReportedOf(i).events # <<>>
         /\ Work[i] = Moved(ReportedOf(i).events) /\ Takes[i] = ReportedOf(i).cycles
         /\ RowsOf(i) = Len(ReportedOf(i).events)
<1> DEFINE name == schedule[i].name
<1>1. ASSUME NEW stats, StatsOK(stats), OwnedBy(stats, ran), NEW j \in Named(stats, name)
      PROVE  /\ LocalSchedule(StatOf(stats, name).events, StatOf(stats, name).cycles)
             /\ StatOf(stats, name).events # <<>>
  <2>1. j \in DOMAIN stats /\ stats[j].op_name = name
    BY DEF Named
  <2>2. DOMAIN stats \in SUBSET Int
    <3>1. stats \in Seq({stats[k] : k \in DOMAIN stats})
      BY <1>1 DEF StatsOK
    <3> QED BY <3>1
  <2>3. StatOf(stats, name) = stats[j]
    BY <1>1, <2>1, <2>2, OwnFound
  <2> QED BY <1>1, <2>1, <2>3 DEF StatsOK, OwnedBy
<1>2. OwnedBy(matmul_stats, ran) /\ OwnedBy(attention_stats, ran)
  BY DEF StatsInv, StatsKeep
<1>3. LocalSchedule(ReportedOf(i).events, ReportedOf(i).cycles) /\ ReportedOf(i).events # <<>>
  <2>1. CASE Named(matmul_stats, name) # {}
    BY <1>1, <1>2, <2>1 DEF ReportedOf, ReportFor
  <2>2. CASE Named(matmul_stats, name) = {} /\ Named(attention_stats, name) # {}
    BY <1>1, <1>2, <2>2 DEF ReportedOf, ReportFor
  <2> QED BY <2>1, <2>2 DEF SourceOf, Source
<1> QED BY <1>3 DEF Work, OpWorth, Takes, RowsOf, SourceOf, ReportedOf, Worth

LEMMA PlacedStep ==
  ASSUME FlowInv, StatsInv, PlacedInv, PlaceOp, running = "ran", DistinctNames
  PROVE  Shows(events', cycle', placed')
<1> DEFINE next == placed + 1
<1>1. /\ StatsOK(matmul_stats) /\ StatsOK(attention_stats) /\ ScheduledOps
      /\ EventList(events) /\ cycle \in Nat /\ placed \in Nat
  BY DEF FlowInv, TimelineInv, Laid, ToolchainInv, ProgramInv, EventList
<1>2. /\ timeline = "building" /\ placed < Len(schedule) /\ placed' = next
      /\ Shows(events, cycle, placed)
  BY DEF PlaceOp, PlacedInv
<1>3. DOMAIN schedule = 1 .. Len(schedule) /\ Len(schedule) \in Nat
  BY ScheduleLength DEF FlowInv, ToolchainInv, CompilerInv, Prefixes
<1>4. next = placed + 1 /\ 1 .. next \subseteq DOMAIN schedule /\ next \in DOMAIN schedule
  BY <1>1, <1>2, <1>3
<1> DEFINE op == schedule[next]
<1>5. \/ /\ SourceOf(next) = "tiled_matmul" /\ PlaceStat(op, "tiled_matmul", StatOf(matmul_stats, op.name))
         /\ ReportedOf(next) = StatOf(matmul_stats, op.name)
      \/ /\ SourceOf(next) = "kv_attention" /\ PlaceStat(op, "kv_attention", StatOf(attention_stats, op.name))
         /\ ReportedOf(next) = StatOf(attention_stats, op.name)
      \/ SourceOf(next) = "baseline" /\ PlaceBaseline(op)
  BY DEF PlaceOp, SourceOf, Source, ReportedOf, ReportFor
<1> HIDE DEF next
<1>6. CASE SourceOf(next) # "baseline"
  <2>1. /\ events' = events \o Shifted(op, SourceOf(next), ReportedOf(next).events)
        /\ cycle' = cycle + ReportedOf(next).cycles
    BY <1>5, <1>6 DEF PlaceStat
  <2>2. /\ LocalSchedule(ReportedOf(next).events, ReportedOf(next).cycles) /\ ReportedOf(next).events # <<>>
        /\ Work[next] = Moved(ReportedOf(next).events) /\ Takes[next] = ReportedOf(next).cycles
        /\ RowsOf(next) = Len(ReportedOf(next).events)
    BY <1>1, <1>4, <1>6, ReportFound
  <2>3. Has(next)
    BY <1>6 DEF Has
  <2> DEFINE local == ReportedOf(next).events
             len   == ReportedOf(next).cycles
             moved == Shifted(op, SourceOf(next), local)
  <2> HIDE DEF local, len, moved
  <2>4. Shows(events \o moved, cycle + len, next)
    BY <1>1, <1>2, <1>4, <2>2, <2>3, ShowsMore DEF local, len, moved
  <2> QED BY <1>2, <2>1, <2>4 DEF local, len, moved
<1>7. CASE SourceOf(next) = "baseline"
  <2> DEFINE whole == [kind |-> op.kind, start |-> 0, end |-> op.cycles, cycles |-> op.cycles,
                       bytes |-> 0, macs |-> 0]
             local == <<whole>>
  <2>1. /\ events' = IF include_fallback_ops THEN events \o Shifted(op, "baseline", local) ELSE events
        /\ cycle' = cycle + op.cycles
    BY <1>5, <1>7 DEF PlaceBaseline
  <2>2. op.cycles \in Nat
    BY <1>1, <1>4 DEF ScheduledOps
  <2>3. LocalSchedule(local, op.cycles) /\ local # <<>> /\ Len(local) = 1
    BY <2>2, WholeOp
  <2>4. RowsOf(next) = 1 /\ Takes[next] = op.cycles /\ Work[next] = 0
    BY <1>4, <1>7 DEF RowsOf, Takes, Work, OpWorth, SourceOf
  <2>5. Moved(local) = 0
    <3>1. [i \in DOMAIN local |-> local[i].macs + local[i].bytes] = Append(<<>>, 0)
      <4>1. DOMAIN local = {1} /\ local[1].macs + local[1].bytes = 0
        OBVIOUS
      <4>2. Append(<<>>, 0) = <<0>>
        OBVIOUS
      <4>3. [i \in {1} |-> 0] = <<0>>
        OBVIOUS
      <4> QED BY <4>1, <4>2, <4>3
    <3>2. <<>> \in Seq(Int) /\ 0 \in Int
      OBVIOUS
    <3>3. SumOf(Append(<<>>, 0)) = 0
      <4>1. SumOf(Append(<<>>, 0)) = SumOf(<<>>) + 0
        BY <3>2, SumAppend, Zenon
      <4> QED BY <4>1, SumEmpty
    <3> HIDE DEF local
    <3> QED BY <3>1, <3>3 DEF Moved
  <2>6. CASE include_fallback_ops
    <3>1. Has(next)
      BY <2>6 DEF Has
    <3> DEFINE moved == Shifted(op, SourceOf(next), local)
               len   == op.cycles
    <3>2. events' = events \o moved
      BY <1>7, <2>1, <2>6
    <3> HIDE DEF local, moved, len
    <3>3. Shows(events \o moved, cycle + len, next)
      BY <1>1, <1>2, <1>4, <2>3, <2>4, <2>5, <3>1, ShowsMore DEF moved, len
    <3> QED BY <1>2, <2>1, <3>2, <3>3 DEF len
  <2>7. CASE ~include_fallback_ops
    <3>1. ~Has(next)
      BY <1>7, <2>7 DEF Has
    <3>2. Shows(events, cycle + op.cycles, next)
      BY <1>1, <1>2, <1>4, <3>1, ShowsNothing
    <3> QED BY <1>2, <2>1, <2>7, <3>2
  <2> QED BY <2>6, <2>7
<1> QED BY <1>6, <1>7

LEMMA ShowsNone == ASSUME NEW count, count = 0 PROVE Shows(<<>>, 0, count)
<1>1. Moved(<<>>) = 0
  <2>1. [i \in DOMAIN <<>> |-> <<>>[i].macs + <<>>[i].bytes] = <<>>
    OBVIOUS
  <2> QED BY <2>1, SumEmpty DEF Moved
<1> QED BY <1>1, SumToNone DEF Shows

LEMMA ShowsNoOp == Shows(<<>>, 0, 0)
BY ShowsNone

LEMMA PlacedNext == FlowInv /\ StatsInv /\ PlacedInv /\ [ToolchainNext]_toolchainVars => PlacedInv'
<1> SUFFICES ASSUME FlowInv, StatsInv, PlacedInv, [ToolchainNext]_toolchainVars PROVE PlacedInv'
  OBVIOUS
<1>1. RuntimeInv /\ CompilerInv /\ TimelineInv /\ [CompilerNext]_compilerVars /\ Len(schedule) \in Nat
      /\ placed \in Nat
  BY ToolchainCompilerStep, ScheduleLength DEF FlowInv, ToolchainInv, TimelineInv
<1>2. running = "ran" => schedule' = schedule /\ UNCHANGED runtimeVars
  BY <1>1, CompiledStays, RuntimeRests DEF RuntimeInv
<1>3. CASE UNCHANGED timelineVars
  <2>1. CASE timeline = "no"
    BY <1>3, <2>1 DEF timelineVars, PlacedInv
  <2>2. CASE timeline # "no"
    <3>1. running = "ran"
      BY <1>1, <2>2 DEF TimelineInv
    <3>2. SameReports
      BY <1>2, <1>3, <3>1 DEF SameReports, runtimeVars, timelineVars
    <3>3. events' = events /\ cycle' = cycle /\ placed' = placed /\ timeline' = timeline
      BY <1>3 DEF timelineVars
    <3> QED BY <2>2, <3>2, <3>3, SameShows DEF PlacedInv, SameReports
  <2> QED BY <2>1, <2>2
<1>4. CASE TimelineSteps
  <2>1. running = "ran"
    BY <1>1, <1>4 DEF TimelineSteps, StartTimeline, PlaceOp, EndTimeline, TimelineInv
  <2>2. schedule' = schedule /\ matmul_stats' = matmul_stats /\ attention_stats' = attention_stats
    BY <1>2, <2>1 DEF runtimeVars
  <2>3. CASE StartTimeline
    <3>1. /\ timeline = "no" /\ timeline' = "building" /\ events' = events /\ cycle' = cycle
          /\ placed' = placed /\ placed = 0 /\ events = <<>> /\ cycle = 0
      BY <1>1, <2>3 DEF StartTimeline, TimelineInv, PlacedInv
    <3>2. Shows(<<>>, 0, 0)'
      BY ShowsNoOp, PTL
    <3>3. Shows(events, cycle, placed)'
      BY <3>1, <3>2 DEF Shows
    <3>4. placed' <= Len(schedule')
      BY <1>1, <2>2, <3>1
    <3> QED BY <3>1, <3>3, <3>4 DEF PlacedInv
  <2>4. CASE PlaceOp
    <3>1. timeline = "building" /\ timeline' = "building" /\ placed' = placed + 1 /\ placed < Len(schedule)
          /\ include_fallback_ops' = include_fallback_ops
      BY <2>4 DEF PlaceOp
    <3>2. placed' <= Len(schedule')
      BY <1>1, <2>2, <3>1
    <3>3. DistinctNames => Shows(events', cycle', placed')
      BY <2>1, <2>4, PlacedStep
    <3> QED BY <2>2, <3>1, <3>2, <3>3, SameShows DEF PlacedInv, SameReports
  <2>5. CASE EndTimeline
    <3>1. /\ timeline = "building" /\ timeline' = "built" /\ placed = Len(schedule) /\ placed' = placed
          /\ events' = events /\ cycle' = cycle /\ include_fallback_ops' = include_fallback_ops
      BY <2>5 DEF EndTimeline
    <3>2. DistinctNames => Shows(events', cycle', placed')
      BY <3>1 DEF PlacedInv
    <3> QED BY <1>1, <2>2, <3>1, <3>2, SameShows DEF PlacedInv, SameReports
  <2> QED BY <1>4, <2>3, <2>4, <2>5 DEF TimelineSteps
<1> QED BY <1>3, <1>4 DEF ToolchainNext, toolchainVars, streamVars, others, TimelineSteps

LEMMA PlacedInvariance == ToolchainSpec => []PlacedInv
<1>1. ToolchainInit => PlacedInv
  BY DEF ToolchainInit, TimelineInit, PlacedInv
<1> QED BY <1>1, PlacedNext, StatsInvariance, FlowInvariance, PTL DEF ToolchainSpec

-----------------------------------------------------------------------------
(* At the end every op is there.                                           *)

LEMMA SummaryIsWhole ==
  ASSUME StatsKeep(matmul_stats, attention_stats, Len(schedule)), DistinctNames,
         StatsOK(matmul_stats), StatsOK(attention_stats), DOMAIN schedule = 1 .. Len(schedule),
         Shows(events, cycle, Len(schedule))
  PROVE  op_summary(events) =
           RowOf("tiled_matmul", matmul_stats) \cup RowOf("kv_attention", attention_stats)
           \cup IF include_fallback_ops
                THEN {<<schedule[i].name, "baseline", 1, schedule[i].cycles>> : i \in Baseline} ELSE {}
<1> DEFINE m == matmul_stats
           a == attention_stats
           Line(i) == <<schedule[i].name, SourceOf(i), RowsOf(i), Takes[i]>>
           Own(list) == {KeyOf(list[j]) : j \in DOMAIN list}
<1>1. DOMAIN m \in SUBSET Int /\ DOMAIN a \in SUBSET Int
  <2>1. m \in Seq({m[j] : j \in DOMAIN m}) /\ a \in Seq({a[j] : j \in DOMAIN a})
    BY DEF StatsOK
  <2> QED BY <2>1
<1>2. \A j \in DOMAIN m : /\ Named(m, m[j].op_name) = {j} /\ StatOf(m, m[j].op_name) = m[j]
                          /\ \E i \in DOMAIN schedule : m[j].op_name = schedule[i].name
  <2>1. DOMAIN m \in SUBSET Int /\ OwnedBy(m, Len(schedule))
    BY <1>1 DEF StatsKeep
  <2>2. \A j \in DOMAIN m : Named(m, m[j].op_name) = {j} /\ StatOf(m, m[j].op_name) = m[j]
    BY <2>1, OwnFound
  <2>3. \A j \in DOMAIN m : \E i \in DOMAIN schedule : m[j].op_name = schedule[i].name
    BY <2>1 DEF OwnedBy
  <2> QED BY <2>2, <2>3
<1>3. \A j \in DOMAIN a : /\ Named(a, a[j].op_name) = {j} /\ StatOf(a, a[j].op_name) = a[j]
                          /\ \E i \in DOMAIN schedule : a[j].op_name = schedule[i].name
  <2>1. DOMAIN a \in SUBSET Int /\ OwnedBy(a, Len(schedule))
    BY <1>1 DEF StatsKeep
  <2>2. \A j \in DOMAIN a : Named(a, a[j].op_name) = {j} /\ StatOf(a, a[j].op_name) = a[j]
    BY <2>1, OwnFound
  <2>3. \A j \in DOMAIN a : \E i \in DOMAIN schedule : a[j].op_name = schedule[i].name
    BY <2>1 DEF OwnedBy
  <2> QED BY <2>2, <2>3
<1>4. \A j \in DOMAIN a : Named(m, a[j].op_name) = {}
  BY DEF StatsKeep, Named
\* The summary has the line of each op that left events, and no other.
<1>5. op_summary(events) = {Line(i) : i \in {k \in DOMAIN schedule : Has(k)}}
  <2>1. ASSUME NEW r \in op_summary(events)
        PROVE  r \in {Line(i) : i \in {k \in DOMAIN schedule : Has(k)}}
    <3>1. PICK j \in DOMAIN events :
            r = <<KeyOf(events[j])[1], KeyOf(events[j])[2], EventsOf(events, KeyOf(events[j])),
                  CyclesOf(events, KeyOf(events[j]))>>
      BY DEF op_summary
    <3>2. PICK i \in DOMAIN schedule : Has(i) /\ KeyOf(events[j]) = OpKey(i)
      BY DEF Shows
    <3>3. EventsOf(events, OpKey(i)) = RowsOf(i) /\ CyclesOf(events, OpKey(i)) = Takes[i]
      BY <3>2 DEF Shows, Row
    <3>4. OpKey(i)[1] = schedule[i].name /\ OpKey(i)[2] = SourceOf(i)
      BY DEF OpKey
    <3>5. r = Line(i)
      BY <3>1, <3>2, <3>3, <3>4
    <3> QED BY <3>2, <3>5
  <2>2. ASSUME NEW i \in DOMAIN schedule, Has(i)
        PROVE  Line(i) \in op_summary(events)
    <3>1. Row(events, i)
      BY <2>2 DEF Shows
    <3>2. PICK j \in DOMAIN events : KeyOf(events[j]) = OpKey(i)
      BY <3>1 DEF Row
    <3>3. OpKey(i)[1] = schedule[i].name /\ OpKey(i)[2] = SourceOf(i)
      BY DEF OpKey
    <3>4. Line(i) = <<KeyOf(events[j])[1], KeyOf(events[j])[2], EventsOf(events, KeyOf(events[j])),
                      CyclesOf(events, KeyOf(events[j]))>>
      BY <3>1, <3>2, <3>3 DEF Row
    <3> HIDE DEF Line
    <3> QED BY <3>2, <3>4 DEF op_summary
  <2> HIDE DEF Line
  <2> QED BY <2>1, <2>2
<1>6. ASSUME NEW i \in DOMAIN schedule, SourceOf(i) = "tiled_matmul"
      PROVE  Line(i) \in RowOf("tiled_matmul", m)
  <2>1. PICK j \in Named(m, schedule[i].name) : TRUE
    BY <1>6 DEF SourceOf, Source
  <2>2. j \in DOMAIN m /\ m[j].op_name = schedule[i].name
    BY <2>1 DEF Named
  <2>3. ReportedOf(i) = m[j]
    BY <1>2, <2>1, <2>2 DEF ReportedOf, ReportFor
  <2>4. Line(i) = <<m[j].op_name, "tiled_matmul", Len(m[j].events), m[j].cycles>>
    BY <1>6, <2>2, <2>3 DEF RowsOf, Takes
  <2> HIDE DEF Line
  <2> QED BY <2>2, <2>4 DEF RowOf
<1>7. ASSUME NEW i \in DOMAIN schedule, SourceOf(i) = "kv_attention"
      PROVE  Line(i) \in RowOf("kv_attention", a)
  <2>1. Named(m, schedule[i].name) = {} /\ \E j \in Named(a, schedule[i].name) : TRUE
    BY <1>7 DEF SourceOf, Source
  <2>2. PICK j \in Named(a, schedule[i].name) : TRUE
    BY <2>1
  <2>3. j \in DOMAIN a /\ a[j].op_name = schedule[i].name
    BY <2>2 DEF Named
  <2>4. ReportedOf(i) = a[j]
    BY <1>3, <2>1, <2>3 DEF ReportedOf, ReportFor
  <2>5. Line(i) = <<a[j].op_name, "kv_attention", Len(a[j].events), a[j].cycles>>
    BY <1>7, <2>3, <2>4 DEF RowsOf, Takes
  <2> HIDE DEF Line
  <2> QED BY <2>3, <2>5 DEF RowOf
<1>8. \A i \in DOMAIN schedule : i \in Baseline <=> SourceOf(i) = "baseline"
  BY DEF Baseline, SourceOf, Source
<1>9. \A i \in DOMAIN schedule : SourceOf(i) = "baseline" =>
        Line(i) = <<schedule[i].name, "baseline", 1, schedule[i].cycles>>
  BY DEF RowsOf, Takes
<1>10. \A j \in DOMAIN m : \E i \in DOMAIN schedule :
         Has(i) /\ Line(i) = <<m[j].op_name, "tiled_matmul", Len(m[j].events), m[j].cycles>>
  <2> SUFFICES ASSUME NEW j \in DOMAIN m
               PROVE  \E i \in DOMAIN schedule :
                        Has(i) /\ Line(i) = <<m[j].op_name, "tiled_matmul", Len(m[j].events), m[j].cycles>>
    OBVIOUS
  <2>1. PICK i \in DOMAIN schedule : m[j].op_name = schedule[i].name
    BY <1>2
  <2>2. SourceOf(i) = "tiled_matmul" /\ ReportedOf(i) = m[j]
    BY <1>2, <2>1 DEF SourceOf, Source, ReportedOf, ReportFor
  <2>3. Has(i) /\ RowsOf(i) = Len(m[j].events) /\ Takes[i] = m[j].cycles
    BY <2>2 DEF Has, RowsOf, Takes
  <2> QED BY <2>1, <2>2, <2>3
<1>11. \A j \in DOMAIN a : \E i \in DOMAIN schedule :
         Has(i) /\ Line(i) = <<a[j].op_name, "kv_attention", Len(a[j].events), a[j].cycles>>
  <2> SUFFICES ASSUME NEW j \in DOMAIN a
               PROVE  \E i \in DOMAIN schedule :
                        Has(i) /\ Line(i) = <<a[j].op_name, "kv_attention", Len(a[j].events), a[j].cycles>>
    OBVIOUS
  <2>1. PICK i \in DOMAIN schedule : a[j].op_name = schedule[i].name
    BY <1>3
  <2>2. SourceOf(i) = "kv_attention" /\ ReportedOf(i) = a[j]
    BY <1>3, <1>4, <2>1 DEF SourceOf, Source, ReportedOf, ReportFor
  <2>3. Has(i) /\ RowsOf(i) = Len(a[j].events) /\ Takes[i] = a[j].cycles
    BY <2>2 DEF Has, RowsOf, Takes
  <2> QED BY <2>1, <2>2, <2>3
<1>12. \A i \in DOMAIN schedule : /\ SourceOf(i) \in {"tiled_matmul", "kv_attention", "baseline"}
                                  /\ Has(i) <=> SourceOf(i) # "baseline" \/ include_fallback_ops
  BY DEF SourceOf, Source, Has
<1> DEFINE Lines == {Line(i) : i \in {k \in DOMAIN schedule : Has(k)}}
           Base  == {<<schedule[i].name, "baseline", 1, schedule[i].cycles>> : i \in Baseline}
           Whole == RowOf("tiled_matmul", m) \cup RowOf("kv_attention", a)
                    \cup IF include_fallback_ops THEN Base ELSE {}
<1> HIDE DEF Line
<1>13. \A i \in DOMAIN schedule : Has(i) => Line(i) \in Whole
  BY <1>6, <1>7, <1>8, <1>9, <1>12
<1>14. ASSUME NEW r \in Whole PROVE \E i \in DOMAIN schedule : Has(i) /\ r = Line(i)
  <2>1. CASE r \in RowOf("tiled_matmul", m)
    BY <1>10, <2>1 DEF RowOf
  <2>2. CASE r \in RowOf("kv_attention", a)
    BY <1>11, <2>2 DEF RowOf
  <2>3. CASE include_fallback_ops /\ r \in Base
    <3>1. Baseline \subseteq DOMAIN schedule
      BY DEF Baseline
    <3>2. PICK i \in Baseline : r = <<schedule[i].name, "baseline", 1, schedule[i].cycles>>
      BY <2>3
    <3> QED BY <1>8, <1>9, <1>12, <2>3, <3>1, <3>2
  <2> QED BY <1>14, <2>1, <2>2, <2>3
<1> HIDE DEF Whole
<1>15. Lines = Whole
  BY <1>13, <1>14
<1> QED BY <1>5, <1>15 DEF Whole

\* The timeline loses nothing and counts nothing twice, for any graph and any
\* mixture of backends, as long as the op names differ: the reports are those
\* of the ops that ran, one each, and every op placed adds its own.
THEOREM ToolchainKeepsWork == ToolchainSpec => []TimelineKeepsWork
<1>1. FlowInv /\ StatsInv /\ PlacedInv => TimelineKeepsWork
  <2> SUFFICES ASSUME FlowInv, StatsInv, PlacedInv, timeline = "built", DistinctNames
               PROVE  TimelineKeepsWork
    BY DEF TimelineKeepsWork
  <2> DEFINE L == Len(schedule)
  <2>1. /\ StatsOK(matmul_stats) /\ StatsOK(attention_stats) /\ ScheduledOps /\ running = "ran"
        /\ DOMAIN schedule = 1 .. L /\ L \in Nat /\ ran = L
    BY ScheduleLength DEF FlowInv, ToolchainInv, TimelineInv, RuntimeInv, ProgramInv, CompilerInv, Prefixes
  <2>2. Shows(events, cycle, L) /\ StatsKeep(matmul_stats, attention_stats, L)
    BY <2>1 DEF PlacedInv, StatsInv
  <2>3. /\ AllMoved(matmul_stats) = Total("work", matmul_stats)
        /\ AllMoved(attention_stats) = Total("work", attention_stats)
        /\ Cycles(matmul_stats) = Total("cycles", matmul_stats)
        /\ Cycles(attention_stats) = Total("cycles", attention_stats)
    BY DEF AllMoved, Total, Worth, Cycles
  <2>4. Moved(events) = AllMoved(matmul_stats) + AllMoved(attention_stats)
    BY <2>2, <2>3 DEF Shows, StatsKeep, Work, Amounts
  <2>5. op_summary(events) =
          RowOf("tiled_matmul", matmul_stats) \cup RowOf("kv_attention", attention_stats)
          \cup IF include_fallback_ops
               THEN {<<schedule[i].name, "baseline", 1, schedule[i].cycles>> : i \in Baseline} ELSE {}
    BY <2>1, <2>2, SummaryIsWhole
  <2> DEFINE base     == [i \in DOMAIN schedule |-> IF i \in Baseline THEN schedule[i].cycles ELSE 0]
             reported == OpWorth("cycles", matmul_stats, attention_stats)
  <2>6. \A i \in 1 .. L : reported[i] \in Int /\ base[i] \in Int /\ Takes[i] = reported[i] + base[i]
    <3> SUFFICES ASSUME NEW i \in DOMAIN schedule
                 PROVE  reported[i] \in Int /\ base[i] \in Int /\ Takes[i] = reported[i] + base[i]
      BY <2>1
    <3>1. reported[i] \in Int /\ schedule[i].cycles \in Int
      BY <2>1, OpWorthInt DEF Amounts, ScheduledOps
    <3>2. i \in Baseline <=> SourceOf(i) = "baseline"
      BY DEF Baseline, SourceOf, Source
    <3>3. reported[i] = IF SourceOf(i) = "baseline" THEN 0 ELSE ReportedOf(i).cycles
      BY DEF OpWorth, SourceOf, ReportedOf, Worth
    <3>4. Takes[i] = IF SourceOf(i) = "baseline" THEN schedule[i].cycles ELSE ReportedOf(i).cycles
      BY DEF Takes
    <3>5. base[i] = IF SourceOf(i) = "baseline" THEN schedule[i].cycles ELSE 0
      BY <3>2
    <3> HIDE DEF reported, base
    <3> QED BY <3>1, <3>3, <3>4, <3>5
  <2> HIDE DEF reported, L
  <2>7. SumTo(Takes, L) = SumTo(reported, L) + SumTo(base, L)
    <3> HIDE DEF base
    <3> QED BY <2>1, <2>6, SumToPlus
  <2>8. SumTo(base, L) = SumOf([i \in DOMAIN schedule |-> IF i \in Baseline THEN schedule[i].cycles ELSE 0])
    BY <2>1 DEF SumTo
  <2>9. total_accelerator_cycles = SumTo(reported, L)
    BY <2>2, <2>3 DEF total_accelerator_cycles, StatsKeep, Amounts, reported
  <2>10. cycle = total_accelerator_cycles
                 + SumOf([i \in DOMAIN schedule |-> IF i \in Baseline THEN schedule[i].cycles ELSE 0])
    <3>1. cycle = SumTo(Takes, L)
      BY <2>2 DEF Shows
    <3> QED BY <2>7, <2>8, <2>9, <3>1
  <2> QED BY <2>4, <2>5, <2>10 DEF TimelineKeepsWork
<1> QED BY <1>1, FlowInvariance, StatsInvariance, PlacedInvariance, PTL

-----------------------------------------------------------------------------
(* The two interpreters of a program.  What an interpreter has after some  *)
(* ops is what any interpreter has after them.                             *)

ShapeOf(op) ==
  [m |-> Shape(op.inputs[1])[1], k |-> Shape(op.inputs[1])[2], n |-> Shape(op.inputs[2])[2]]

Refused(op, vals) == Complaint(op, vals, Accelerated(op))

\* What an op adds to the reports of the tiled matmul.
Reports(op, stats, more) ==
  IF AcceleratesMatmul(op)
  THEN \E list, cycles :
         /\ Outcome(ShapeOf(op), config[1].tiled_matmul, list, cycles)
         /\ more = Append(stats, [op_name |-> op.name, events |-> list, cycles |-> cycles])
  ELSE more = stats

\* The values and the reports after each of the first ops.
History(V, M, count) ==
  /\ V[0] = given /\ M[0] = <<>>
  /\ \A i \in 1 .. count :
       /\ Refused(schedule[i], V[i - 1]) = "none"
       /\ V[i] = Stored(schedule[i], V[i - 1])
       /\ Reports(schedule[i], M[i - 1], M[i])

Reached(vals, stats, count) ==
  \E V, M : History(V, M, count) /\ V[count] = vals /\ M[count] = stats

\* Where an interpreter is, which has called s and c: it stopped at the end, or
\* at the first op that is refused.
Turn(flag, count, vals, s, c) ==
  LET op == schedule[count + 1] IN
  /\ flag \in Errors => count < Len(schedule) /\ Refused(op, vals) = flag
  /\ flag = "ran" => count = Len(schedule)
  /\ flag \in Called => count < Len(schedule) /\ Refused(op, vals) = "none"
  /\ flag = "matmul" => AcceleratesMatmul(op) /\ s = ShapeOf(op) /\ c = config[1].tiled_matmul
  /\ flag = "attention" => ~AcceleratesMatmul(op)

\* A group tells what a report does.
Tells(group, stat) ==
  /\ group.op_name = stat.op_name
  /\ group.schedule_event_count = Len(stat.events) /\ group.schedule_cycles = stat.cycles
  /\ group.k_tile_count = InnerPairs(stat.events)

Mirrors(list, stats) ==
  /\ list \in Seq({list[i] : i \in DOMAIN list}) /\ stats \in Seq({stats[i] : i \in DOMAIN stats})
  /\ Len(list) = Len(stats) /\ \A i \in DOMAIN list : Tells(list[i], stats[i])

Mirrored(vals, list, count) == \E stats : Reached(vals, stats, count) /\ Mirrors(list, stats)

ReplayInv ==
  /\ running = "no" => matmul_stats = <<>>
  /\ running # "no" => Reached(values, matmul_stats, ran) /\ Turn(running, ran, values, shape, cfg)
  /\ collecting = "no" => groups = <<>>
  /\ collecting # "no" =>
       Mirrored(vec_values, groups, collected) /\ Turn(collecting, collected, vec_values, shape, cfg)

-----------------------------------------------------------------------------
LEMMA ReachedFirst == Reached(given, <<>>, 0)
<1> DEFINE V == [i \in {0} |-> given]
           M == [i \in {0} |-> <<>>]
<1>1. V[0] = given /\ M[0] = <<>>
  OBVIOUS
<1>2. 1 .. 0 = {}
  OBVIOUS
<1> HIDE DEF V, M
<1>3. History(V, M, 0)
  BY <1>1, <1>2 DEF History
<1> QED BY <1>1, <1>3 DEF Reached

LEMMA ReachedNext ==
  ASSUME NEW vals, NEW stats, NEW count \in Nat, Reached(vals, stats, count),
         NEW more, Refused(schedule[count + 1], vals) = "none", Reports(schedule[count + 1], stats, more)
  PROVE  Reached(Stored(schedule[count + 1], vals), more, count + 1)
<1>1. PICK V, M : History(V, M, count) /\ V[count] = vals /\ M[count] = stats
  BY DEF Reached
<1>2. PICK new : new = Stored(schedule[count + 1], vals)
  OBVIOUS
<1> DEFINE W == [i \in 0 .. count + 1 |-> IF i <= count THEN V[i] ELSE new]
           N == [i \in 0 .. count + 1 |-> IF i <= count THEN M[i] ELSE more]
<1>3. /\ W[0] = V[0] /\ N[0] = M[0] /\ W[count + 1] = new /\ N[count + 1] = more
      /\ \A i \in 0 .. count : W[i] = V[i] /\ N[i] = M[i]
  OBVIOUS
<1> HIDE DEF W, N
<1>4. ASSUME NEW i \in 1 .. count + 1
      PROVE  /\ Refused(schedule[i], W[i - 1]) = "none"
             /\ W[i] = Stored(schedule[i], W[i - 1]) /\ Reports(schedule[i], N[i - 1], N[i])
  <2>1. CASE i <= count
    <3>1. i \in 1 .. count /\ i \in 0 .. count /\ i - 1 \in 0 .. count
      BY <2>1
    <3>2. W[i] = V[i] /\ N[i] = M[i] /\ W[i - 1] = V[i - 1] /\ N[i - 1] = M[i - 1]
      BY <1>3, <3>1
    <3>3. /\ Refused(schedule[i], V[i - 1]) = "none"
          /\ V[i] = Stored(schedule[i], V[i - 1]) /\ Reports(schedule[i], M[i - 1], M[i])
      BY <1>1, <3>1 DEF History
    <3> QED BY <3>2, <3>3
  <2>2. CASE i = count + 1
    <3>1. i - 1 = count /\ count \in 0 .. count
      BY <2>2
    <3>2. W[i - 1] = vals /\ N[i - 1] = stats /\ W[i] = new /\ N[i] = more
      BY <1>1, <1>3, <2>2, <3>1
    <3> QED BY <1>2, <2>2, <3>2
  <2> QED BY <2>1, <2>2
<1>5. History(W, N, count + 1)
  BY <1>1, <1>3, <1>4 DEF History
<1> QED BY <1>2, <1>3, <1>5 DEF Reached

\* Two histories are the same as far as both go.
LEMMA HistoriesAgree ==
  ASSUME NEW V, NEW M, NEW W, NEW N, NEW i \in Nat, NEW j \in Nat, i <= j,
         History(V, M, i), History(W, N, j)
  PROVE  V[i] = W[i] /\ M[i] = N[i]
<1> DEFINE Same == {x \in 0 .. i : V[x] = W[x] /\ M[x] = N[x]}
<1>1. 0 \in Same
  BY DEF History
<1>2. ASSUME NEW x \in 0 .. i - 1, x \in Same PROVE x + 1 \in Same
  <2>1. x + 1 \in 1 .. i /\ x + 1 \in 1 .. j /\ (x + 1) - 1 = x /\ x + 1 \in 0 .. i
    OBVIOUS
  <2>2. /\ V[x + 1] = Stored(schedule[x + 1], V[x]) /\ Reports(schedule[x + 1], M[x], M[x + 1])
        /\ W[x + 1] = Stored(schedule[x + 1], W[x]) /\ Reports(schedule[x + 1], N[x], N[x + 1])
    BY <2>1 DEF History
  <2>3. V[x] = W[x] /\ M[x] = N[x]
    BY <1>2
  <2>4. M[x + 1] = N[x + 1]
    <3> DEFINE op == schedule[x + 1]
    <3>1. CASE AcceleratesMatmul(op)
      <4>1. PICK list, cycles :
              /\ Outcome(ShapeOf(op), config[1].tiled_matmul, list, cycles)
              /\ M[x + 1] = Append(M[x], [op_name |-> op.name, events |-> list, cycles |-> cycles])
        BY <2>2, <3>1 DEF Reports
      <4>2. PICK other, taken :
              /\ Outcome(ShapeOf(op), config[1].tiled_matmul, other, taken)
              /\ N[x + 1] = Append(N[x], [op_name |-> op.name, events |-> other, cycles |-> taken])
        BY <2>2, <3>1 DEF Reports
      <4>3. list = other /\ cycles = taken
        BY <4>1, <4>2, OneOutcome
      <4> QED BY <2>3, <4>1, <4>2, <4>3
    <3>2. CASE ~AcceleratesMatmul(op)
      BY <2>2, <2>3, <3>2 DEF Reports
    <3> QED BY <3>1, <3>2
  <2> QED BY <2>1, <2>2, <2>3, <2>4
<1> HIDE DEF Same
<1>3. \A x \in 0 .. i : x \in Same
  BY <1>1, <1>2, UpTo
<1> QED BY <1>3 DEF Same

\* What is reached after some ops is reached once, and no op on the way is refused.
LEMMA ReachedOnce ==
  ASSUME NEW vals, NEW stats, NEW i \in Nat, Reached(vals, stats, i),
         NEW found, NEW more, NEW j \in Nat, Reached(found, more, j), i <= j
  PROVE  /\ i = j => vals = found /\ stats = more
         /\ i < j => Refused(schedule[i + 1], vals) = "none"
<1>1. PICK V, M : History(V, M, i) /\ V[i] = vals /\ M[i] = stats
  BY DEF Reached
<1>2. PICK W, N : History(W, N, j) /\ W[j] = found /\ N[j] = more
  BY DEF Reached
<1>3. W[i] = vals /\ N[i] = stats
  <2>1. History(V, M, i) /\ History(W, N, j)
    BY <1>1, <1>2
  <2>2. V[i] = W[i] /\ M[i] = N[i]
    BY <2>1, HistoriesAgree
  <2> QED BY <1>1, <2>2
<1>4. i < j => i + 1 \in 1 .. j /\ (i + 1) - 1 = i
  OBVIOUS
<1>5. i < j => Refused(schedule[i + 1], vals) = "none"
  BY <1>2, <1>3, <1>4 DEF History
<1> QED BY <1>2, <1>3, <1>5

\* Nothing of this changes while a program runs.
LEMMA ReplayKept ==
  ASSUME graph' = graph, schedule' = schedule, config' = config, given' = given
  PROVE  /\ Reached(values, matmul_stats, ran)' <=> Reached(values', matmul_stats', ran')
         /\ Mirrored(vec_values, groups, collected)' <=> Mirrored(vec_values', groups', collected')
         /\ Turn(running, ran, values, shape, cfg)' <=> Turn(running', ran', values', shape', cfg')
         /\ Turn(collecting, collected, vec_values, shape, cfg)'
              <=> Turn(collecting', collected', vec_values', shape', cfg')
<1>1. \A name : Shape(name)' = Shape(name)
  BY DEF Shape, TensorSpec
<1>2. \A op : /\ (SchedulesAttention(op)' <=> SchedulesAttention(op))
              /\ (AcceleratesMatmul(op)' <=> AcceleratesMatmul(op))
  BY DEF SchedulesAttention, AcceleratesMatmul
<1>3. \A op : ShapeOf(op)' = ShapeOf(op)
  BY <1>1 DEF ShapeOf
<1>4. \A op, vals : Refused(op, vals)' = Refused(op, vals)
  <2>1. \A op, accelerated : OperandsFit(op, accelerated)' = OperandsFit(op, accelerated)
    BY <1>1 DEF OperandsFit, Decodes, Attends, Appends
  <2>2. \A op : Accelerated(op)' = Accelerated(op)
    BY <1>2 DEF Accelerated
  <2> QED BY <2>1, <2>2 DEF Refused, Complaint
<1>5. \A op, vals : Stored(op, vals)' = Stored(op, vals)
  BY <1>1 DEF Stored, Result
<1>6. \A op, stats, more : Reports(op, stats, more)' <=> Reports(op, stats, more)
  BY <1>2, <1>3 DEF Reports
<1>7. \A V, M, count : History(V, M, count)' <=> History(V, M, count)
  BY <1>4, <1>5, <1>6 DEF History
<1>8. Reached(values, matmul_stats, ran)' <=> Reached(values', matmul_stats', ran')
  BY <1>7 DEF Reached
<1>9. Mirrored(vec_values, groups, collected)' <=> Mirrored(vec_values', groups', collected')
  BY <1>7 DEF Reached, Mirrored
<1>10. Turn(running, ran, values, shape, cfg)' <=> Turn(running', ran', values', shape', cfg')
  BY <1>2, <1>3, <1>4 DEF Turn
<1>11. Turn(collecting, collected, vec_values, shape, cfg)'
         <=> Turn(collecting', collected', vec_values', shape', cfg')
  BY <1>2, <1>3, <1>4 DEF Turn
<1> QED BY <1>8, <1>9, <1>10, <1>11

LEMMA TurnKept ==
  ASSUME NEW flag, NEW count, NEW vals, NEW s, NEW c, NEW next, NEW then, Turn(flag, count, vals, s, c),
         flag = "matmul" => next = s /\ then = c
  PROVE  Turn(flag, count, vals, next, then)
BY DEF Turn

LEMMA TurnFree == \A count, vals, s, c : Turn("yes", count, vals, s, c)
BY DEF Turn, Errors, Called

\* An op that is refused ends the interpreter there.
LEMMA TurnRefused ==
  ASSUME NEW count, count < Len(schedule), NEW vals, NEW s, NEW c, Refused(schedule[count + 1], vals) # "none"
  PROVE  Turn(Refused(schedule[count + 1], vals), count, vals, s, c)
<1>1. Refused(schedule[count + 1], vals) \in {"ValueError", "KeyError", "IndexError"}
  BY ComplaintKinds DEF Refused
<1> QED BY <1>1 DEF Turn, Errors, Called

\* A call is under way.
LEMMA TurnCalls ==
  ASSUME NEW count, count < Len(schedule), NEW vals, NEW s, NEW c, Refused(schedule[count + 1], vals) = "none"
  PROVE  /\ AcceleratesMatmul(schedule[count + 1])
            /\ s = ShapeOf(schedule[count + 1]) /\ c = config[1].tiled_matmul => Turn("matmul", count, vals, s, c)
         /\ SchedulesAttention(schedule[count + 1]) => Turn("attention", count, vals, s, c)
BY DEF Turn, Errors, Called, SchedulesAttention, AcceleratesMatmul

LEMMA TurnEnds ==
  \A vals, s, c : Turn("ran", Len(schedule), vals, s, c)
BY DEF Turn, Errors, Called

\* A call of the tiled matmul keeps its arguments until it returns.
LEMMA ArgsStay ==
  ASSUME ToolchainInv, [ToolchainNext]_toolchainVars, running = "matmul" \/ collecting = "matmul"
  PROVE  shape' = shape /\ cfg' = cfg
<1>1. RuntimeInv /\ CollectorInv
  BY DEF ToolchainInv
<1>2. ~RunInt8Matmul /\ ~CollectMatmul
  BY <1>1 DEF CollectorInv, RunInt8Matmul, CollectMatmul, Ready, Errors
<1>3. CASE MatmulSteps \/ ReturnMatmul
  BY <1>3 DEF MatmulSteps, LoadATile, LoadBTile, MacTile, StoreCTile, ReturnMatmul, args
<1>4. CASE UNCHANGED matmulVars
  BY <1>4 DEF matmulVars, args
<1>5. RuntimeSteps => ReturnMatmul \/ MatmulSteps \/ UNCHANGED matmulVars
  BY <1>2 DEF RuntimeSteps, FailOp, RunOnFp32, EndRun, EndInt8Matmul, RunAttentionDecode, EndAttentionDecode,
     BackendSteps, backendVars
<1>6. CollectorSteps => ReturnMatmul \/ UNCHANGED matmulVars
  BY <1>2 DEF CollectorSteps, StartCollecting, FailCollect, CollectOnFp32, EndCollecting, EndCollectMatmul,
     CollectAttention, EndCollectAttention, backendVars
<1>7. RunGraph \/ TinyGPTSteps => UNCHANGED matmulVars
  BY DEF RunGraph, TinyGPTSteps, BuildStep, CompileStep, RunStep, StartRun, backendVars
<1> QED BY <1>3, <1>4, <1>5, <1>6, <1>7 DEF ToolchainNext, toolchainVars, streamVars, backendVars

LEMMA MirrorsMore ==
  ASSUME NEW list, NEW stats, Mirrors(list, stats), NEW group, NEW stat, Tells(group, stat)
  PROVE  Mirrors(Append(list, group), Append(stats, stat))
<1> DEFINE S == {list[i] : i \in DOMAIN list} \cup {group}
           T == {stats[i] : i \in DOMAIN stats} \cup {stat}
           new == Append(list, group)
           more == Append(stats, stat)
<1>1. list \in Seq(S) /\ stats \in Seq(T) /\ Len(list) = Len(stats) /\ group \in S /\ stat \in T
  BY DEF Mirrors
<1>2. \A i \in DOMAIN list : Tells(list[i], stats[i])
  BY DEF Mirrors
<1> HIDE DEF S, T
<1>3. new \in Seq(S) /\ more \in Seq(T)
  BY <1>1
<1>4. Len(new) = Len(list) + 1 /\ Len(more) = Len(list) + 1 /\ Len(list) \in Nat
  BY <1>1
<1>5. /\ new[Len(list) + 1] = group /\ more[Len(list) + 1] = stat
      /\ \A i \in 1 .. Len(list) : new[i] = list[i] /\ more[i] = stats[i]
  BY <1>1
<1>6. DOMAIN new = 1 .. Len(list) + 1 /\ DOMAIN list = 1 .. Len(list)
  BY <1>1, <1>3, <1>4
<1> HIDE DEF new, more
<1>7. \A i \in DOMAIN new : Tells(new[i], more[i])
  BY <1>2, <1>4, <1>5, <1>6
<1>8. new \in Seq({new[i] : i \in DOMAIN new}) /\ more \in Seq({more[i] : i \in DOMAIN more})
  BY <1>3, SeqOfItsOwn
<1> QED BY <1>4, <1>7, <1>8 DEF Mirrors, new, more

MatmulEnds ==
  stage = "end" => Outcome(shape, cfg, tile_events, tile_cycle) /\ k_tile_count = InnerPairs(tile_events)

\* A step of the runtime.
LEMMA RunnerStep ==
  ASSUME ToolchainInv, ReplayInv, MatmulEnds, [ToolchainNext]_toolchainVars, running # "no"
  PROVE  Reached(values', matmul_stats', ran') /\ Turn(running', ran', values', shape', cfg')
<1> DEFINE Goal == Reached(values', matmul_stats', ran') /\ Turn(running', ran', values', shape', cfg')
<1>1. Reached(values, matmul_stats, ran) /\ Turn(running, ran, values, shape, cfg) /\ ran \in Nat
  BY DEF ReplayInv, ToolchainInv, RuntimeInv
<1>2. PICK vals, stats, count, s, c : /\ vals = values /\ stats = matmul_stats /\ count = ran /\ count \in Nat
                                      /\ s = shape /\ c = cfg
  BY <1>1
<1>3. PICK vals2, stats2, s2, c2 : vals2 = values' /\ stats2 = matmul_stats' /\ s2 = shape' /\ c2 = cfg'
  OBVIOUS
<1> DEFINE op == schedule[count + 1]
<1>4. Op = op /\ (Runs(Op) <=> Refused(op, vals) = "none")
  BY <1>2 DEF Op, Runs, Refused
<1> HIDE DEF op
<1>5. Reached(vals, stats, count) /\ Turn(running, count, vals, s, c)
  BY <1>1, <1>2
<1>6. ASSUME NEW more, Refused(op, vals) = "none", Reports(op, stats, more)
      PROVE  Reached(Stored(op, vals), more, count + 1)
  BY <1>2, <1>5, <1>6, ReachedNext DEF op
<1>7. ASSUME UNCHANGED runtimeVars PROVE Goal
  <2>1. /\ vals2 = vals /\ stats2 = stats /\ ran' = count /\ running' = running
    BY <1>2, <1>3, <1>7 DEF runtimeVars
  <2>2. running = "matmul" => s2 = s /\ c2 = c
    BY <1>2, <1>3, ArgsStay
  <2>3. Turn(running, count, vals, s2, c2)
    BY <1>5, <2>2, TurnKept
  <2> QED BY <1>3, <1>5, <2>1, <2>3
<1>8. ASSUME FailOp PROVE Goal
  <2>1. /\ vals2 = vals /\ stats2 = stats /\ ran' = count /\ running' = Refused(op, vals)
        /\ Refused(op, vals) # "none" /\ count < Len(schedule)
    BY <1>2, <1>3, <1>4, <1>8 DEF FailOp, Refused
  <2>2. Turn(Refused(op, vals), count, vals, s2, c2)
    BY <2>1, TurnRefused DEF op
  <2> QED BY <1>3, <1>5, <2>1, <2>2
<1>9. ASSUME RunOnFp32 PROVE Goal
  <2>1. /\ vals2 = Stored(op, vals) /\ stats2 = stats /\ ran' = count + 1 /\ running' = "yes"
        /\ Refused(op, vals) = "none" /\ ~AcceleratesMatmul(op)
    BY <1>2, <1>3, <1>4, <1>9 DEF RunOnFp32, StoreValue
  <2>2. Reached(Stored(op, vals), stats, count + 1)
    BY <1>6, <2>1 DEF Reports
  <2> QED BY <1>3, <2>1, <2>2, TurnFree
<1>10. ASSUME EndRun PROVE Goal
  <2>1. vals2 = vals /\ stats2 = stats /\ ran' = count /\ running' = "ran" /\ count = Len(schedule)
    BY <1>2, <1>3, <1>10 DEF EndRun
  <2> QED BY <1>3, <1>5, <2>1, TurnEnds
<1>11. ASSUME RunInt8Matmul PROVE Goal
  <2>1. /\ vals2 = vals /\ stats2 = stats /\ ran' = count /\ running' = "matmul" /\ count < Len(schedule)
        /\ Refused(op, vals) = "none" /\ AcceleratesMatmul(op) /\ MultiplyOp(op)
    BY <1>2, <1>3, <1>4, <1>11 DEF RunInt8Matmul
  <2>2. s2 = ShapeOf(op) /\ c2 = config[1].tiled_matmul
    BY <1>3, <2>1 DEF MultiplyOp, CallMatmul, ShapeOf
  <2>3. Turn("matmul", count, vals, s2, c2)
    BY <2>1, <2>2, TurnCalls DEF op
  <2> QED BY <1>3, <1>5, <2>1, <2>3
<1>12. ASSUME RunAttentionDecode PROVE Goal
  <2>1. /\ vals2 = vals /\ stats2 = stats /\ ran' = count /\ running' = "attention" /\ count < Len(schedule)
        /\ Refused(op, vals) = "none" /\ SchedulesAttention(op)
    BY <1>2, <1>3, <1>4, <1>12 DEF RunAttentionDecode
  <2>2. Turn("attention", count, vals, s2, c2)
    BY <2>1, TurnCalls DEF op
  <2> QED BY <1>3, <1>5, <2>1, <2>2
<1>13. ASSUME EndInt8Matmul PROVE Goal
  <2>1. /\ vals2 = Stored(op, vals) /\ ran' = count + 1 /\ running' = "yes" /\ running = "matmul" /\ stage = "end"
        /\ stats2 = Append(stats, [op_name |-> op.name, events |-> tile_events, cycles |-> tile_cycle])
    BY <1>2, <1>3, <1>4, <1>13 DEF EndInt8Matmul, ReturnMatmul, StoreValue
  <2>2. /\ Refused(op, vals) = "none" /\ AcceleratesMatmul(op)
        /\ shape = ShapeOf(op) /\ cfg = config[1].tiled_matmul
    BY <1>2, <1>5, <2>1 DEF Turn, Called, op
  <2>3. Outcome(ShapeOf(op), config[1].tiled_matmul, tile_events, tile_cycle)
    BY <2>1, <2>2 DEF MatmulEnds
  <2>4. Reports(op, stats, stats2)
    BY <2>1, <2>2, <2>3 DEF Reports
  <2>5. Reached(Stored(op, vals), stats2, count + 1)
    BY <1>6, <2>2, <2>4
  <2> QED BY <1>3, <2>1, <2>5, TurnFree
<1>14. ASSUME EndAttentionDecode PROVE Goal
  <2>1. /\ vals2 = Stored(op, vals) /\ ran' = count + 1 /\ running' = "yes" /\ running = "attention" /\ stats2 = stats
    BY <1>2, <1>3, <1>4, <1>14 DEF EndAttentionDecode, StoreValue
  <2>2. Refused(op, vals) = "none" /\ ~AcceleratesMatmul(op)
    BY <1>5, <2>1 DEF Turn, Called, op
  <2>3. Reached(Stored(op, vals), stats, count + 1)
    BY <1>6, <2>2 DEF Reports
  <2> QED BY <1>3, <2>1, <2>3, TurnFree
<1> HIDE DEF Goal
<1>15. ~RunGraph /\ ~RunStep
  BY DEF RunGraph, RunStep, StartRun
<1>16. BackendSteps \/ BuildStep \/ CompileStep => UNCHANGED runtimeVars
  BY DEF BackendSteps, BuildStep, CompileStep
<1>17. RuntimeSteps \/ TinyGPTSteps => Goal
  BY <1>7, <1>8, <1>9, <1>10, <1>11, <1>12, <1>13, <1>14, <1>15, <1>16 DEF RuntimeSteps, TinyGPTSteps
<1>18. Goal
  BY <1>7, <1>15, <1>17 DEF ToolchainNext, toolchainVars, streamVars
<1> QED BY <1>18 DEF Goal

\* A step of the collector.
LEMMA ReplayerStep ==
  ASSUME ToolchainInv, ReplayInv, MatmulEnds, [ToolchainNext]_toolchainVars, collecting # "no"
  PROVE  /\ collecting' # "no" /\ Mirrored(vec_values', groups', collected')
         /\ Turn(collecting', collected', vec_values', shape', cfg')
<1> DEFINE Goal == /\ collecting' # "no" /\ Mirrored(vec_values', groups', collected')
                   /\ Turn(collecting', collected', vec_values', shape', cfg')
<1>1. /\ Mirrored(vec_values, groups, collected) /\ collected \in Nat
      /\ Turn(collecting, collected, vec_values, shape, cfg)
  BY DEF ReplayInv, ToolchainInv, CollectorInv
<1>2. PICK vals, list, count, s, c : /\ vals = vec_values /\ list = groups /\ count = collected /\ count \in Nat
                                     /\ s = shape /\ c = cfg
  BY <1>1
<1>3. PICK vals2, list2, s2, c2 : vals2 = vec_values' /\ list2 = groups' /\ s2 = shape' /\ c2 = cfg'
  OBVIOUS
<1> DEFINE op == schedule[count + 1]
<1>4. /\ Current = op /\ CollectError = Refused(op, vals)
      /\ \A x : /\ should_accelerate_matmul(x) <=> AcceleratesMatmul(x)
                /\ should_schedule_attention(x) <=> SchedulesAttention(x)
  <2>1. \A x : /\ should_accelerate_matmul(x) <=> AcceleratesMatmul(x)
               /\ should_schedule_attention(x) <=> SchedulesAttention(x)
    BY DEF should_accelerate_matmul, AcceleratesMatmul, should_schedule_attention, SchedulesAttention
  <2>2. Current = op
    BY <1>2 DEF Current
  <2>3. (should_accelerate_matmul(Current) \/ should_schedule_attention(Current)) = Accelerated(Current)
    BY DEF should_accelerate_matmul, AcceleratesMatmul, should_schedule_attention, SchedulesAttention, Accelerated
  <2> HIDE DEF op
  <2>4. CollectError = Complaint(op, vals, Accelerated(op))
    BY <1>2, <2>2, <2>3 DEF CollectError
  <2> QED BY <2>1, <2>2, <2>4 DEF Refused
<1> HIDE DEF op
<1>5. /\ Mirrored(vals, list, count) /\ Turn(collecting, count, vals, s, c)
  BY <1>1, <1>2
<1>6. PICK stats : Reached(vals, stats, count) /\ Mirrors(list, stats)
  BY <1>5 DEF Mirrored
<1>7. ASSUME NEW more, Refused(op, vals) = "none", Reports(op, stats, more)
      PROVE  Reached(Stored(op, vals), more, count + 1)
  BY <1>2, <1>6, <1>7, ReachedNext DEF op
<1>8. ASSUME UNCHANGED vectorVars PROVE Goal
  <2>1. vals2 = vals /\ list2 = list /\ collected' = count /\ collecting' = collecting
    BY <1>2, <1>3, <1>8 DEF vectorVars
  <2>2. collecting = "matmul" => s2 = s /\ c2 = c
    BY <1>2, <1>3, ArgsStay
  <2>3. Turn(collecting, count, vals, s2, c2)
    BY <1>5, <2>2, TurnKept
  <2> QED BY <1>3, <1>5, <2>1, <2>3
<1>9. ASSUME FailCollect PROVE Goal
  <2>1. /\ vals2 = vals /\ list2 = list /\ collected' = count /\ collecting' = Refused(op, vals)
        /\ Refused(op, vals) # "none" /\ count < Len(schedule)
    BY <1>2, <1>3, <1>4, <1>9 DEF FailCollect
  <2>2. Turn(Refused(op, vals), count, vals, s2, c2)
    BY <2>1, TurnRefused DEF op
  <2>3. Refused(op, vals) # "no"
    BY ComplaintKinds DEF Refused
  <2> QED BY <1>3, <1>5, <2>1, <2>2, <2>3
<1>10. ASSUME CollectOnFp32 PROVE Goal
  <2>1. /\ vals2 = Stored(op, vals) /\ list2 = list /\ collected' = count + 1 /\ collecting' = "yes"
        /\ Refused(op, vals) = "none" /\ ~AcceleratesMatmul(op)
    BY <1>2, <1>3, <1>4, <1>10 DEF CollectOnFp32, Ready, Keep
  <2>2. Reached(Stored(op, vals), stats, count + 1)
    BY <1>7, <2>1 DEF Reports
  <2>3. Mirrored(Stored(op, vals), list, count + 1)
    BY <1>6, <2>2 DEF Mirrored
  <2> QED BY <1>3, <2>1, <2>3, TurnFree
<1>11. ASSUME EndCollecting PROVE Goal
  <2>1. vals2 = vals /\ list2 = list /\ collected' = count /\ collecting' = "ran" /\ count = Len(schedule)
    BY <1>2, <1>3, <1>11 DEF EndCollecting
  <2> QED BY <1>3, <1>5, <2>1, TurnEnds
<1>12. ASSUME CollectMatmul PROVE Goal
  <2>1. /\ vals2 = vals /\ list2 = list /\ collected' = count /\ collecting' = "matmul" /\ count < Len(schedule)
        /\ Refused(op, vals) = "none" /\ AcceleratesMatmul(op) /\ MultiplyOp(op)
    BY <1>2, <1>3, <1>4, <1>12 DEF CollectMatmul, Ready
  <2>2. s2 = ShapeOf(op) /\ c2 = config[1].tiled_matmul
    BY <1>3, <2>1 DEF MultiplyOp, CallMatmul, ShapeOf
  <2>3. Turn("matmul", count, vals, s2, c2)
    BY <2>1, <2>2, TurnCalls DEF op
  <2> QED BY <1>3, <1>5, <2>1, <2>3
<1>13. ASSUME CollectAttention PROVE Goal
  <2>1. /\ vals2 = vals /\ list2 = list /\ collected' = count /\ collecting' = "attention" /\ count < Len(schedule)
        /\ Refused(op, vals) = "none" /\ SchedulesAttention(op)
    BY <1>2, <1>3, <1>4, <1>13 DEF CollectAttention, Ready
  <2>2. Turn("attention", count, vals, s2, c2)
    BY <2>1, TurnCalls DEF op
  <2> QED BY <1>3, <1>5, <2>1, <2>2
<1>14. ASSUME EndCollectMatmul PROVE Goal
  <2> DEFINE group == ScheduleVectorGroup(op)
             stat  == [op_name |-> op.name, events |-> tile_events, cycles |-> tile_cycle]
  <2>1. /\ vals2 = Stored(op, vals) /\ collected' = count + 1 /\ collecting' = "yes"
        /\ collecting = "matmul" /\ stage = "end" /\ list2 = Append(list, group)
    BY <1>2, <1>3, <1>4, <1>14 DEF EndCollectMatmul, ReturnMatmul, Keep
  <2>2. /\ Refused(op, vals) = "none" /\ AcceleratesMatmul(op)
        /\ shape = ShapeOf(op) /\ cfg = config[1].tiled_matmul
    BY <1>2, <1>5, <2>1 DEF Turn, Called, op
  <2>3. Outcome(ShapeOf(op), config[1].tiled_matmul, tile_events, tile_cycle)
    BY <2>1, <2>2 DEF MatmulEnds
  <2>4. Tells(group, stat)
    BY <2>1 DEF Tells, ScheduleVectorGroup, MatmulEnds
  <2> HIDE DEF group
  <2>5. Reports(op, stats, Append(stats, stat))
    BY <2>2, <2>3 DEF Reports
  <2>6. PICK g, t : g = group /\ t = stat
    OBVIOUS
  <2>7. Mirrors(Append(list, g), Append(stats, t))
    BY <1>6, <2>4, <2>6, MirrorsMore
  <2>8. Reached(Stored(op, vals), Append(stats, t), count + 1)
    BY <1>7, <2>2, <2>5, <2>6
  <2>9. Mirrored(Stored(op, vals), Append(list, g), count + 1)
    BY <2>7, <2>8 DEF Mirrored
  <2> QED BY <1>3, <2>1, <2>6, <2>9, TurnFree
<1>15. ASSUME EndCollectAttention PROVE Goal
  <2>1. /\ vals2 = Stored(op, vals) /\ list2 = list /\ collected' = count + 1 /\ collecting' = "yes"
        /\ collecting = "attention"
    BY <1>2, <1>3, <1>4, <1>15 DEF EndCollectAttention, Keep
  <2>2. Refused(op, vals) = "none" /\ ~AcceleratesMatmul(op)
    BY <1>5, <2>1 DEF Turn, Called, op
  <2>3. Reached(Stored(op, vals), stats, count + 1)
    BY <1>7, <2>2 DEF Reports
  <2>4. Mirrored(Stored(op, vals), list, count + 1)
    BY <1>6, <2>3 DEF Mirrored
  <2> QED BY <1>3, <2>1, <2>4, TurnFree
<1>16. ~StartCollecting
  BY DEF StartCollecting
<1> HIDE DEF Goal
<1>17. CollectorSteps => Goal
  BY <1>9, <1>10, <1>11, <1>12, <1>13, <1>14, <1>15, <1>16 DEF CollectorSteps
<1>18. Goal
  BY <1>8, <1>17 DEF ToolchainNext, toolchainVars, streamVars
<1> QED BY <1>18 DEF Goal

LEMMA ConfigStays ==
  ASSUME [ToolchainNext]_toolchainVars, running # "no"
  PROVE  config' = config
<1>1. RuntimeSteps => config' = config
  BY DEF RuntimeSteps, FailOp, RunOnFp32, EndRun, RunInt8Matmul, EndInt8Matmul, RunAttentionDecode,
     EndAttentionDecode, BackendSteps, runtimeVars
<1>2. ~RunGraph /\ ~RunStep
  BY DEF RunGraph, RunStep, StartRun
<1>3. BuildStep \/ CompileStep => config' = config
  BY DEF BuildStep, CompileStep, runtimeVars
<1>4. UNCHANGED runtimeVars => config' = config
  BY DEF runtimeVars
<1> QED BY <1>1, <1>2, <1>3, <1>4 DEF ToolchainNext, TinyGPTSteps, toolchainVars, streamVars

\* Nothing of the collector changes before it is started.
LEMMA CollectorWaits ==
  ASSUME [ToolchainNext]_toolchainVars, collecting = "no", ~StartCollecting
  PROVE  UNCHANGED vectorVars
<1>1. ~CollectorSteps
  BY DEF CollectorSteps, FailCollect, CollectOnFp32, Ready, CollectMatmul, EndCollectMatmul,
     CollectAttention, EndCollectAttention, EndCollecting
<1> QED BY <1>1 DEF ToolchainNext, toolchainVars, streamVars

\* Before the runtime begins, and when it does.
LEMMA ReplayBegins ==
  ASSUME ToolchainInv, ReplayInv, [ToolchainNext]_toolchainVars, running = "no"
  PROVE  ReplayInv'
<1>1. RuntimeInv /\ collecting = "no" /\ matmul_stats = <<>> /\ groups = <<>>
  BY DEF ToolchainInv, CollectorInv, ReplayInv, Errors
<1>2. ~StartCollecting
  BY DEF StartCollecting, Errors
<1>3. collecting' = "no" /\ groups' = <<>>
  BY <1>1, <1>2, CollectorWaits DEF vectorVars
<1>4. RuntimeSteps => BackendSteps
  BY DEF RuntimeSteps, FailOp, RunOnFp32, EndRun, RunInt8Matmul, EndInt8Matmul,
     RunAttentionDecode, EndAttentionDecode
<1>5. RunGraph \/ RunStep => running' = "yes" /\ matmul_stats' = matmul_stats
  BY DEF RunGraph, RunStep, StartRun
<1>6. BackendSteps \/ BuildStep \/ CompileStep => UNCHANGED runtimeVars
  BY DEF BackendSteps, BuildStep, CompileStep
<1>7. \/ UNCHANGED runtimeVars
      \/ running' = "yes" /\ matmul_stats' = matmul_stats
  BY <1>4, <1>5, <1>6 DEF ToolchainNext, TinyGPTSteps, toolchainVars, streamVars
<1>8. matmul_stats' = <<>> /\ running' \in {"no", "yes"}
  BY <1>1, <1>7 DEF runtimeVars
<1>9. ASSUME running' # "no" PROVE Reached(values, matmul_stats, ran)' /\ Turn(running, ran, values, shape, cfg)'
  <2>1. ran' = 0 /\ values' = given' /\ running' = "yes"
    BY <1>1, <1>8, <1>9, RuntimeBegins
  <2> DEFINE V == [i \in {0} |-> given']
             M == [i \in {0} |-> <<>>]
  <2>2. V[0] = given' /\ M[0] = <<>> /\ V[ran'] = values' /\ M[ran'] = matmul_stats' /\ 1 .. ran' = {}
    BY <1>8, <2>1
  <2> HIDE DEF V, M
  <2>3. Reached(values, matmul_stats, ran)'
    BY <2>2 DEF Reached, History
  <2>4. Turn(running, ran, values, shape, cfg)'
    BY <2>1 DEF Turn, Errors, Called
  <2> QED BY <2>3, <2>4
<1> QED BY <1>3, <1>8, <1>9 DEF ReplayInv

LEMMA ReplayStep == ToolchainInv /\ ReplayInv /\ MatmulEnds /\ [ToolchainNext]_toolchainVars => ReplayInv'
<1> SUFFICES ASSUME ToolchainInv, ReplayInv, MatmulEnds, [ToolchainNext]_toolchainVars PROVE ReplayInv'
  OBVIOUS
<1>1. CASE running = "no"
  BY <1>1, ReplayBegins
<1>2. CASE running # "no"
  <2>1. RuntimeInv /\ CollectorInv /\ compiling = "compiled"
    BY <1>2 DEF ToolchainInv, RuntimeInv
  <2>2. graph' = graph /\ schedule' = schedule
    BY <2>1, CompiledStays, ToolchainCompilerStep
  <2>3. config' = config /\ given' = given /\ running' # "no"
    BY <1>2, <2>1, ConfigStays, RuntimeStores
  <2>4. Reached(values, matmul_stats, ran)' /\ Turn(running, ran, values, shape, cfg)'
    BY <1>2, <2>2, <2>3, RunnerStep, ReplayKept
  <2>5. CASE collecting # "no"
    <3>1. /\ collecting' # "no" /\ Mirrored(vec_values, groups, collected)'
          /\ Turn(collecting, collected, vec_values, shape, cfg)'
      BY <2>2, <2>3, <2>5, ReplayerStep, ReplayKept
    <3> QED BY <2>3, <2>4, <3>1 DEF ReplayInv
  <2>6. CASE collecting = "no" /\ StartCollecting
    <3>1. /\ collecting' = "yes" /\ vec_values' = given /\ collected' = 0 /\ groups' = <<>>
      BY <2>1, <2>6 DEF StartCollecting, CollectorInv, ReplayInv
    <3>2. Mirrors(<<>>, <<>>)
      BY DEF Mirrors
    <3>3. Mirrored(given, <<>>, 0)
      BY <3>2, ReachedFirst DEF Mirrored
    <3>4. Mirrored(vec_values', groups', collected')
      BY <3>1, <3>3
    <3>5. Turn(collecting', collected', vec_values', shape', cfg')
      BY <3>1 DEF Turn, Errors, Called
    <3>6. Mirrored(vec_values, groups, collected)' /\ Turn(collecting, collected, vec_values, shape, cfg)'
      BY <2>2, <2>3, <3>4, <3>5, ReplayKept
    <3> QED BY <2>3, <2>4, <3>1, <3>6 DEF ReplayInv
  <2>7. CASE collecting = "no" /\ ~StartCollecting
    <3>1. collecting' = "no" /\ groups' = <<>>
      BY <2>7, CollectorWaits DEF vectorVars, ReplayInv
    <3> QED BY <2>3, <2>4, <3>1 DEF ReplayInv
  <2> QED BY <2>5, <2>6, <2>7
<1> QED BY <1>1, <1>2

\* The vector collector ends as the runtime did, for any program, values and
\* configuration: with the same exception at the same op, or with the same
\* values, and with a group for each matmul the runtime accelerated, of the
\* same events and cycles, that has an inner step for every two inner indices
\* and each window of each of its mac_tiles.
THEOREM ToolchainMirrors == ToolchainSpec => []CollectorMirrorsRuntime
<1>1. ToolchainInv /\ ReplayInv => CollectorMirrorsRuntime
  <2> SUFFICES ASSUME ToolchainInv, ReplayInv, collecting \in {"ran"} \cup Errors
               PROVE  /\ collecting = running /\ vec_values = values
                      /\ Len(groups) = Len(matmul_stats)
                      /\ \A i \in DOMAIN groups : Tells(groups[i], matmul_stats[i])
    BY DEF CollectorMirrorsRuntime, Tells
  <2>1. running \in {"ran"} \cup Errors /\ collecting # "no" /\ running # "no"
    BY DEF ToolchainInv, CollectorInv, Errors
  <2>2. ran \in Nat /\ collected \in Nat /\ ran <= Len(schedule) /\ collected <= Len(schedule) /\ Len(schedule) \in Nat
    BY ScheduleLength DEF ToolchainInv, RuntimeInv, CollectorInv
  <2>3. /\ Reached(values, matmul_stats, ran) /\ Turn(running, ran, values, shape, cfg)
        /\ Mirrored(vec_values, groups, collected) /\ Turn(collecting, collected, vec_values, shape, cfg)
    BY <2>1 DEF ReplayInv
  <2>4. PICK stats : Reached(vec_values, stats, collected) /\ Mirrors(groups, stats)
    BY <2>3 DEF Mirrored
  <2>5. PICK vals, found, own, i, j : /\ vals = values /\ found = vec_values /\ own = matmul_stats
                                            /\ i = ran /\ j = collected
    OBVIOUS
  <2>6. "none" \notin Errors
    BY DEF Errors
  <2>7. Reached(vals, own, i) /\ Reached(found, stats, j) /\ i \in Nat /\ j \in Nat
    BY <2>2, <2>3, <2>4, <2>5
  <2>8. ~(i < j)
    <3>1. i < j => Refused(schedule[i + 1], vals) = "none" /\ i # Len(schedule)
      BY <2>2, <2>5, <2>7, ReachedOnce
    <3> QED BY <2>1, <2>3, <2>5, <2>6, <3>1 DEF Turn
  <2>9. ~(j < i)
    <3>1. j < i => Refused(schedule[j + 1], found) = "none" /\ j # Len(schedule)
      BY <2>2, <2>5, <2>7, ReachedOnce
    <3> QED BY <2>3, <2>5, <2>6, <3>1 DEF Turn
  <2>10. i = j
    BY <2>7, <2>8, <2>9
  <2>11. vals = found /\ own = stats
    BY <2>7, <2>10, ReachedOnce
  <2>12. collecting = running
    <3>1. \/ running = "ran" /\ i = Len(schedule)
          \/ running \in Errors /\ i < Len(schedule) /\ running = Refused(schedule[i + 1], vals)
      BY <2>1, <2>3, <2>5 DEF Turn
    <3>2. \/ collecting = "ran" /\ j = Len(schedule)
          \/ collecting \in Errors /\ j < Len(schedule) /\ collecting = Refused(schedule[j + 1], found)
      BY <2>3, <2>5 DEF Turn
    <3>3. ~(i = Len(schedule) /\ i < Len(schedule))
      BY <2>2
    <3> QED BY <2>10, <2>11, <3>1, <3>2, <3>3
  <2> QED BY <2>4, <2>5, <2>11, <2>12 DEF Mirrors
<1>2. ToolchainInit => ReplayInv
  BY DEF ToolchainInit, RuntimeInit, VectorInit, ReplayInv
<1>3. ToolchainSpec => []MatmulEnds
  BY MatmulRepeats, ToolchainMultiplies, PTL DEF MatmulEnds
<1>4. ToolchainSpec => []ReplayInv
  BY <1>2, <1>3, ReplayStep, ToolchainInvariance, PTL DEF ToolchainSpec
<1> QED BY <1>1, <1>4, ToolchainInvariance, PTL
=============================================================================
