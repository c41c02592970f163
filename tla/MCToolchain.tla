----------------------------- MODULE MCToolchain -----------------------------
(***************************************************************************)
(* Seven families of small inputs: graphs that are only compiled, graphs   *)
(* taken to a checked instruction stream, single matmuls and single decode *)
(* steps of sizes and tiles that divide each other and do not, whole       *)
(* decoder blocks with and without a prompt, pairs of quantised vectors,   *)
(* and lists of accesses written by hand.                                  *)
(***************************************************************************)
EXTENDS Toolchain

Tensor(name, shp, weight, bank, nbytes) ==
  [name |-> name, shape |-> shp, nbytes |-> nbytes, is_weight |-> weight, bank |-> bank]
CacheOp(name, inputs, outputs, max_len) ==
  [name |-> name, kind |-> "append_cache", inputs |-> inputs, outputs |-> outputs, max_len |-> max_len]
GraphOp(name, kind, inputs, outputs) ==
  [name |-> name, kind |-> kind, inputs |-> inputs, outputs |-> outputs, max_len |-> {}]
Accelerator(size) ==
  [num_banks |-> 2, bank_size_bytes |-> size, mac_lanes |-> 4, elem_lanes |-> 4,
   matmul |-> 2, elementwise |-> 1, softmax |-> 1]

-----------------------------------------------------------------------------
(* Every order of the ops, legal or not; tensors placed by position, in a  *)
(* given bank, or in a bank that does not exist.                           *)

Proj == GraphOp("proj", "matmul", <<"x", "w">>, <<"y">>)
OddOps ==
  {Proj,
   GraphOp("act", "silu", <<"y">>, <<"z">>),
   GraphOp("attend", "attention_decode", <<"z", "kv", "kv">>, <<"ctx">>),
   GraphOp("norm", "softmax", <<"ctx">>, <<"z">>),
   GraphOp("bad_dims", "matmul", <<"w", "x">>, <<"y">>),
   GraphOp("rank", "matmul", <<"ctx", "w">>, <<"y">>),
   GraphOp("alone", "matmul", <<"x">>, <<"y">>),
   GraphOp("empty", "add", <<"x", "x">>, <<>>),
   GraphOp("outside", "matmul", <<"x", "side">>, <<"y">>),
   GraphOp("odd", "conv", <<"x">>, <<"y">>),
   GraphOp("lost", "add", <<"x", "x">>, <<"nowhere">>)}

OddTensors ==
  {<<Tensor("x", <<1, 3>>, FALSE, b1, 2), Tensor("w", <<3, 2>>, TRUE, {}, 2),
     Tensor("y", <<1, 2>>, FALSE, b2, 2), Tensor("kv", <<2, 2>>, FALSE, b3, 2),
     Tensor("z", <<1, 2>>, FALSE, {}, 2), Tensor("ctx", <<2>>, FALSE, {}, 2)>>
     : b1 \in {{}, {1}}, b2 \in {{}, {0}}, b3 \in {{}, {0}, {2}}}

\* bound: lists of at most three ops, those of three beginning with the projection
OddGraphs ==
  [tensors : OddTensors,
   ops : UNION {[1 .. len -> OddOps] : len \in 0 .. 2} \cup {<<Proj, b, c>> : b, c \in OddOps},
   inputs : {{"x", "kv", "ctx", "side"}}, outputs : {{}, {"z"}}]

-----------------------------------------------------------------------------
(* Graphs that are run, with every choice of backends.                     *)

Both == GraphOp("both", "add", <<"x", "x">>, <<"y", "z">>)
StreamOps ==
  {Proj,
   GraphOp("proj_2", "matmul", <<"y", "w">>, <<"z">>),
   GraphOp("act", "silu", <<"y">>, <<"z">>),
   GraphOp("attend", "attention_decode", <<"y", "kv", "kv">>, <<"z">>),
   GraphOp("attend_2", "attention_decode", <<"y", "kv">>, <<"z">>),
   GraphOp("attend_w", "attention_decode", <<"y", "w", "x">>, <<"z">>),
   Both,
   GraphOp("sum", "add", <<"z", "z">>, <<"x">>)}

StreamTensors ==
  <<Tensor("x", <<1, 2>>, FALSE, {}, 1), Tensor("w", <<2, 2>>, TRUE, {}, 1),
    Tensor("kv", <<2, 2>>, FALSE, {}, 1), Tensor("y", <<1, 2>>, FALSE, {}, 1),
    Tensor("z", <<1, 2>>, FALSE, {}, 1), Tensor("bias", <<3>>, TRUE, {}, 1)>>

\* A cache that is shifted, ops without a length, with too many rows, with a gap.
CacheOps ==
  {CacheOp("append", <<"kv", "y">>, <<"kv">>, {2}), CacheOp("endless", <<"kv", "y">>, <<"kv">>, {}),
   CacheOp("rows", <<"kv", "kv">>, <<"kv">>, {2}), CacheOp("alone", <<"kv">>, <<"kv">>, {2})}

\* What one backend takes and another refuses, or refuses for another reason.
PickyOps ==
  {GraphOp("attend_rows", "attention_decode", <<"kv", "kv", "kv">>, <<"kv">>),
   GraphOp("attend_z", "attention_decode", <<"z", "kv">>, <<"z">>),
   GraphOp("attend_bias", "attention_decode", <<"x", "kv", "bias">>, <<>>),
   GraphOp("project_z", "matmul", <<"z", "w">>, <<>>),
   GraphOp("shift", "add", <<"bias", "kv">>, <<"z">>),
   GraphOp("norm", "rmsnorm", <<"kv", "y">>, <<"kv">>),
   GraphOp("norm_bias", "rmsnorm", <<"y", "bias">>, <<"z">>)}

StreamGraphs ==
  [tensors : {StreamTensors},
   ops : [1 .. 2 -> StreamOps] \cup [1 .. 3 -> StreamOps]
         \cup {<<p, c>> : p \in {Proj, Both}, c \in PickyOps}
         \cup {<<Proj, c, GraphOp("attend", "attention_decode", <<"y", "kv", "kv">>, <<"z">>)>> : c \in CacheOps},
   inputs : {{"x", "kv"}}, outputs : {{"z"}}]

-----------------------------------------------------------------------------
(* One matmul, one decode step.                                            *)

MatmulGraph(m, k, n_) ==
  [tensors |-> <<Tensor("a", <<m, k>>, FALSE, {}, 1), Tensor("b", <<k, n_>>, TRUE, {}, 1),
                 Tensor("c", <<m, n_>>, FALSE, {}, 4)>>,
   ops |-> <<GraphOp("mm", "matmul", <<"a", "b">>, <<"c">>)>>, inputs |-> {"a"}, outputs |-> {"c"}]
MatmulGraphs == {MatmulGraph(m, k, n_) : m \in {1, 3}, k \in {1, 4, 5}, n_ \in {2, 3}}

DecodeGraph(tokens, dim) ==
  [tensors |-> <<Tensor("q", <<1, dim>>, FALSE, {}, 4), Tensor("k", <<tokens, dim>>, FALSE, {}, 4),
                 Tensor("v", <<tokens, dim>>, FALSE, {}, 4), Tensor("o", <<1, dim>>, FALSE, {}, 4)>>,
   ops |-> <<GraphOp("decode", "attention_decode", <<"q", "k", "v">>, <<"o">>)>>,
   inputs |-> {"q", "k", "v"}, outputs |-> {"o"}]
DecodeGraphs == {DecodeGraph(tokens, dim) : tokens \in 1 .. 5, dim \in {1, 3, 16}}

-----------------------------------------------------------------------------
(* Decode steps of a whole block, of prompts shorter and longer than the   *)
(* cache, and too long, empty, or with a token that is none.               *)

MCTinyGPTConfigs ==
  {[vocab_size |-> 2, d_model |-> 2, d_ff |-> 3, max_seq_len |-> 4, cache_len |-> len] : len \in 1 .. 3}
MCPrompts == {<<>>, <<0>>, <<1, 0>>, <<0, 1, 1>>, <<1, 0, 0, 1>>, <<0, 0, 0, 0, 0>>, <<2>>, <<0, -1>>}

DecoderGraphs ==
  {DecoderGraph(c) : c \in MCTinyGPTConfigs} \cup {build_tiny_voice_decoder_graph(2, 3, 2, 2)}

-----------------------------------------------------------------------------
MCCompilations ==
  [graph : OddGraphs, hw : {Accelerator(20), Accelerator(32)}]
  \cup [graph : StreamGraphs \cup MatmulGraphs \cup DecodeGraphs \cup DecoderGraphs,
        hw : {Accelerator(512)}]

Tiles(m, n_, k) ==
  [tile_m |-> m, tile_n |-> n_, tile_k |-> k, mac_lanes |-> 2, load_lanes |-> 3,
   store_lanes |-> 2, load |-> 2, compute |-> 0, store |-> 1]
MCConfigs == {Tiles(m, n_, k) : m \in {1, 2}, n_ \in {1, 2, 4}, k \in {1, 2, 3, 8}}

CacheTiles(tile, lanes) ==
  [cache_tile |-> tile, vector_lanes |-> 2, mac_lanes |-> lanes, load_lanes |-> 4,
   store_lanes |-> 8, load |-> 2, compute |-> 1, reduce |-> 3, store |-> 2]
MCSettings == {CacheTiles(tile, lanes) : tile \in {1, 2, 3, 8}, lanes \in {1, 16}}

Runtime(matmuls, tiles, decodes, caches) ==
  [matmul : matmuls, tiled_matmul : tiles, attention : decodes, decode : caches]

\* bound: an odd graph is only compiled
MCRuntimeConfigs(g) ==
  IF g \in MatmulGraphs THEN Runtime({{}}, MCConfigs, {{}}, {CacheTiles(1, 1)})
  ELSE IF g \in DecodeGraphs THEN Runtime({{}}, {Tiles(1, 1, 1)}, {{}}, MCSettings)
  ELSE IF g \in StreamGraphs
       THEN Runtime({{}, {{"proj"}}}, {Tiles(1, 2, 1)}, {{}, {{}}}, {CacheTiles(2, 1)})
  ELSE IF g \in DecoderGraphs
       THEN Runtime({{}, {{"q_proj", "ffn_up"}}}, {Tiles(1, 4, 8)}, {{}, {{}}}, {CacheTiles(2, 1)})
  ELSE {}

\* bound: instructions are emitted for the graphs of several ops
MCLayouts(g) ==
  IF g \in StreamGraphs
  THEN {[a |-> 0, b |-> 1, c |-> 2, kv |-> 3, temp |-> 4],
        [a |-> 0, b |-> 0, c |-> 1, kv |-> 1, temp |-> 0]}
  ELSE {}

\* bound: vectors are collected from the graphs of two ops and the whole blocks
MCVectorGraphs(g) == (g \in StreamGraphs /\ Len(g.ops) = 2) \/ g \in DecoderGraphs

-----------------------------------------------------------------------------
(* Rows and columns with zeros, ties and outliers; a scale that is derived, *)
(* that saturates, and that is not positive.                               *)

MCQuantTensors == [1 .. 2 -> {-60, -7, -1, 0, 1, 2, 5}]
MCGivenScales  == {{}, {<<1, 8>>}, {<<0, 1>>}}

-----------------------------------------------------------------------------
(* Accesses that touch, overlap and nest, legal and not.                   *)

Access(start, cycles, bank, kind, offset) ==
  [start_cycle |-> start, cycles |-> cycles, bank |-> bank, offset |-> offset,
   size_bytes |-> 2, kind |-> kind]

Legal == {Access(s, c, 0, k, 0) : s \in {0, 1, 2}, c \in {1, 2}, k \in {"read", "write"}}
Odd   == {Access(0, 3, 1, "read", 2), Access(1, 0, 0, "write", 0), Access(0, 1, 2, "read", 0),
          Access(1, 1, 0, "write", 3), Access(-1, 2, 0, "read", 0), Access(0, 1, 0, "copy", 0)}

\* bound: lists of at most three accesses
MCStreams == UNION {[1 .. len -> Legal] : len \in 0 .. 3} \cup [1 .. 2 -> Legal \cup Odd]

MCBanks ==
  {[num_banks |-> 2, bank_size_bytes |-> 4, read_ports |-> r, write_ports |-> 1, same_cycle |-> rw]
     : r \in {1, 2}, rw \in BOOLEAN}
=============================================================================
