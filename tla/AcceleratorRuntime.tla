-------------------------- MODULE AcceleratorRuntime --------------------------
(***************************************************************************)
(* run_schedule_int8_tiled of opentsp/accelerator_runtime.py on a compiled *)
(* program: each op runs on the tiled matmul, on the attention schedule,   *)
(* or on the FP32 executor of opentsp/simulator.py.  A value is the term   *)
(* that computes it, in exact arithmetic: an operation and its operands, a *)
(* name the caller supplies, or <<"rows", r, ...>>, a cache by its rows.   *)
(* It has the shape its tensor declares.                                   *)
(***************************************************************************)
EXTENDS Compiler, ScheduleVectors, AttentionSchedule

\* bound: the Int8RuntimeConfig values a graph is run with; no name set is {},
\* a name set is {S}.  A graph that is run has no empty tensor and none without a
\* dimension, and declares the tensors of its inputs.
CONSTANT RuntimeConfigs(_)
ASSUME RuntimeAssumption ==
  \A c \in Compilations :
    /\ RuntimeConfigs(c.graph) \subseteq
         [matmul : SUBSET SUBSET STRING, tiled_matmul : Configs,
          attention : SUBSET SUBSET STRING, decode : Settings]
    /\ RuntimeConfigs(c.graph) # {} =>
         /\ \A i \in DOMAIN c.graph.tensors : c.graph.tensors[i].shape \in Seq(PositiveNat) \ {<<>>}
         /\ c.graph.inputs \subseteq {c.graph.tensors[i].name : i \in DOMAIN c.graph.tensors}

VARIABLES
  config,            \* the argument, as <<config>> once there is one
  given, values,     \* names to terms: the argument inputs_and_weights, and what there is
  matmul_stats, attention_stats,
  ran,               \* ops executed
  running            \* "no", "yes", the backend that was called, "ran", or the exception

runtimeVars  == <<config, given, values, matmul_stats, attention_stats, ran, running>>
backendVars  == <<matmulVars, attentionVars>>

RuntimeInit ==
  /\ config = <<>> /\ given = <<>> /\ values = <<>> /\ matmul_stats = <<>> /\ attention_stats = <<>>
  /\ ran = 0 /\ running = "no"
  /\ MatmulInit /\ AttentionInit

\* The caller supplies every graph input and weight.
Supplied == [name \in graph.inputs \cup Weights |-> <<name>>]

StartRun(inputs_and_weights) ==
  /\ compiling = "compiled" /\ running = "no"
  /\ \E c \in RuntimeConfigs(graph) : config' = <<c>>
  /\ running' = "yes" /\ given' = inputs_and_weights /\ values' = given'
  /\ UNCHANGED <<matmul_stats, attention_stats, ran, backendVars>>

Selected(names, op) == \A S \in names : op.name \in S
AcceleratesMatmul(op)  == op.kind = "matmul" /\ Selected(config[1].matmul, op)
SchedulesAttention(op) == op.kind = "attention_decode" /\ Selected(config[1].attention, op)

Arity(kind) == CASE kind \in {"matmul", "add", "rmsnorm", "append_cache"} -> 2
                 [] kind = "attention_decode" -> 3
                 [] kind \in {"silu", "softmax", "argmax"} -> 1

\* The FP32 executor fetches its operands one by one; an accelerated backend
\* takes all the names before it looks up a value.
Fetch(op, vals, accelerated) ==
  LET bad   == {i \in 1 .. Arity(op.kind) : i > Len(op.inputs) \/ op.inputs[i] \notin DOMAIN vals}
      first == CHOOSE i \in bad : \A j \in bad : i <= j
      asked == IF accelerated THEN Arity(op.kind) ELSE first
  IN IF bad = {} THEN "none" ELSE IF asked > Len(op.inputs) THEN "IndexError" ELSE "KeyError"

\* What schedule_attention_decode asks of its operands beyond the compiler.
Decodes(op) ==
  /\ Shape(op.inputs[1])[1] = 1
  /\ Shape(op.inputs[3]) = Shape(op.inputs[2])

\* What probs @ v_cache asks: of v_cache as many rows as k_cache has.
Attends(op) ==
  LET v == Shape(op.inputs[3]) IN v[IF Len(v) = 1 THEN 1 ELSE Len(v) - 1] = Shape(op.inputs[2])[1]

\* Two arrays meet elementwise: from the last dimension on, equal or 1.
Broadcasts(a, b) ==
  \A i \in 1 .. Len(a) : i <= Len(b) =>
    LET p == a[Len(a) - i + 1] q == b[Len(b) - i + 1] IN p = q \/ 1 \in {p, q}

\* What _append_cache and np.concatenate ask.
Appends(op) ==
  LET cached == Shape(op.inputs[1]) item == Shape(op.inputs[2]) IN
  Len(item) = 2 /\ item[1] = 1 /\ Len(cached) = 2 /\ cached[2] = item[2]

\* The operands fit the op on its backend.
OperandsFit(op, accelerated) ==
  /\ op.kind = "append_cache" => Appends(op)
  /\ op.kind = "attention_decode" => IF accelerated THEN Decodes(op) ELSE Attends(op)
  /\ op.kind \in {"add", "rmsnorm"} => Broadcasts(Shape(op.inputs[1]), Shape(op.inputs[2]))

\* The executor asks for the output's name last, an accelerated backend first.
Complaint(op, vals, accelerated) ==
  IF op.kind = "append_cache" /\ op.max_len = {} THEN "KeyError"
  ELSE IF accelerated /\ op.outputs = <<>> THEN "IndexError"
  ELSE IF Fetch(op, vals, accelerated) # "none" THEN Fetch(op, vals, accelerated)
  ELSE IF ~OperandsFit(op, accelerated) THEN "ValueError"
  ELSE IF op.outputs = <<>> THEN "IndexError" ELSE "none"

Op == schedule[ran + 1]
Accelerated(op) == AcceleratesMatmul(op) \/ SchedulesAttention(op)
Runs(op) == Complaint(op, values, Accelerated(op)) = "none"

FailOp ==
  /\ running = "yes" /\ ran < Len(schedule) /\ ~Runs(Op)
  /\ running' = Complaint(Op, values, Accelerated(Op))
  /\ UNCHANGED <<config, given, values, matmul_stats, attention_stats, ran, backendVars>>

Rows(value, count) ==
  IF Head(value) = "rows" THEN Tail(value)
  ELSE IF count = 1 THEN <<value>> ELSE [i \in 1 .. count |-> <<"row", value, i>>]

\* rows[-count:]; a count of 0 takes them all.
LastRows(rows, count) ==
  IF count = 0 \/ Len(rows) <= count THEN rows ELSE SubSeq(rows, Len(rows) - count + 1, Len(rows))

\* Makes room for the new item only.
MutantAppendCache(rows, item, max_len) ==
  <<"rows">> \o Append(IF Len(rows) > max_len THEN Tail(rows) ELSE rows, item)
AppendCache(rows, item, max_len) ==
  LET out == Append(rows, item) IN
  <<"rows">> \o IF Len(out) > max_len THEN LastRows(out, max_len) ELSE out

Result(op, vals) ==
  LET Value(i) == vals[op.inputs[i]] IN
  IF op.kind = "append_cache"
  THEN AppendCache(Rows(Value(1), Shape(op.inputs[1])[1]), Value(2), CHOOSE len \in op.max_len : TRUE)
  ELSE <<op.kind>> \o [i \in 1 .. Arity(op.kind) |-> Value(i)]

\* Every backend stores outputs[0] and nothing else.
Stored(op, vals) ==
  [name \in DOMAIN vals \cup {op.outputs[1]} |-> IF name = op.outputs[1] THEN Result(op, vals) ELSE vals[name]]
StoreValue(op) == values' = Stored(op, values) /\ ran' = ran + 1

MultiplyOp(op) ==
  LET a == Shape(op.inputs[1]) b == Shape(op.inputs[2]) IN
  CallMatmul([m |-> a[1], k |-> a[2], n |-> b[2]], config[1].tiled_matmul)
DecodeOp(op) ==
  LET kv == Shape(op.inputs[2]) IN CallAttention([tokens |-> kv[1], dim |-> kv[2]], config[1].decode)

RunOnFp32 ==
  /\ running = "yes" /\ ran < Len(schedule) /\ Runs(Op)
  /\ ~AcceleratesMatmul(Op) /\ ~SchedulesAttention(Op)
  /\ StoreValue(Op)
  /\ UNCHANGED <<config, given, matmul_stats, attention_stats, running, backendVars>>

RunInt8Matmul ==
  /\ running = "yes" /\ ran < Len(schedule) /\ Runs(Op) /\ AcceleratesMatmul(Op)
  /\ MultiplyOp(Op)
  /\ running' = "matmul"
  /\ UNCHANGED <<config, given, values, matmul_stats, attention_stats, ran, attentionVars>>

EndInt8Matmul ==
  /\ running = "matmul" /\ ReturnMatmul /\ running' = "yes"
  /\ matmul_stats' = Append(matmul_stats,
       [op_name |-> Op.name, events |-> tile_events, cycles |-> tile_cycle])
  /\ StoreValue(Op)
  /\ UNCHANGED <<config, given, attention_stats, attentionVars>>

RunAttentionDecode ==
  /\ running = "yes" /\ ran < Len(schedule) /\ Runs(Op) /\ SchedulesAttention(Op)
  /\ DecodeOp(Op)
  /\ running' = "attention"
  /\ UNCHANGED <<config, given, values, matmul_stats, attention_stats, ran, matmulVars>>

EndAttentionDecode ==
  /\ running = "attention" /\ ReturnAttention /\ running' = "yes"
  /\ attention_stats' = Append(attention_stats,
       [op_name |-> Op.name, events |-> trace, cycles |-> now])
  /\ StoreValue(Op)
  /\ UNCHANGED <<config, given, matmul_stats, matmulVars>>

EndRun ==
  /\ running = "yes" /\ ran = Len(schedule) /\ running' = "ran"
  /\ UNCHANGED <<config, given, values, matmul_stats, attention_stats, ran, backendVars>>

\* A called backend takes its own steps until it returns.
BackendSteps ==
  \/ MatmulSteps /\ UNCHANGED <<runtimeVars, attentionVars>>
  \/ AttentionSteps /\ UNCHANGED <<runtimeVars, matmulVars>>

RuntimeSteps ==
  \/ FailOp \/ RunOnFp32 \/ EndRun
  \/ RunInt8Matmul \/ EndInt8Matmul \/ RunAttentionDecode \/ EndAttentionDecode
  \/ BackendSteps

\* Int8RuntimeResult
Cycles(stats) == SumOf([i \in DOMAIN stats |-> stats[i].cycles])
total_accelerator_cycles == Cycles(matmul_stats) + Cycles(attention_stats)

-----------------------------------------------------------------------------
\* A compiled program runs without a missing value, and ends with every graph
\* output, as long as each op has one output and is given its operands (and
\* append_cache its max_len): the validator also takes ops of two outputs, of
\* which only the first is stored.
OneOutputEach == \A i \in DOMAIN graph.ops :
  LET op == graph.ops[i] IN
  /\ Len(op.outputs) = 1 /\ Len(op.inputs) >= Arity(op.kind)
  /\ op.kind = "append_cache" => op.max_len # {}
RuntimeFindsValues ==
  (compiling = "compiled" /\ OneOutputEach) =>
    /\ running \notin {"KeyError", "IndexError"}
    /\ running = "ran" => graph.outputs \subseteq DOMAIN values
=============================================================================
