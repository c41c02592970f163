------------------------------- MODULE Compiler -------------------------------
(***************************************************************************)
(* compile_graph of opentsp/compiler.py: Graph.validate (ir.py), then      *)
(* _allocate_banks, then the schedule.  Each step is one iteration of one  *)
(* of the three loops; an exception ends the compilation.                  *)
(***************************************************************************)
EXTENDS ScheduleMath

CONSTANT Compilations   \* bound: the graphs compiled, each with its AcceleratorConfig

ASSUME CompilerAssumption ==
  Compilations # {} /\ \A c \in Compilations :
    LET g == c.graph IN
    /\ g.tensors \in Seq([name : STRING, shape : Seq(Nat), nbytes : Nat \ {0},
                          is_weight : BOOLEAN, bank : SUBSET Nat])
    /\ g.ops \in Seq([name : STRING, kind : STRING, inputs : Seq(STRING), outputs : Seq(STRING),
                      max_len : SUBSET Nat])
    /\ g.inputs \subseteq STRING /\ g.outputs \subseteq STRING
    /\ \A i, j \in DOMAIN g.tensors : g.tensors[i].name = g.tensors[j].name => i = j
    /\ \A i \in DOMAIN g.tensors : \A b, d \in g.tensors[i].bank : b = d
    /\ c.hw \in [num_banks : Nat \ {0}, bank_size_bytes : Nat, mac_lanes : Nat \ {0},
                  elem_lanes : Nat \ {0}, matmul : Nat, elementwise : Nat, softmax : Nat]

VARIABLES
  graph, hw,                  \* the arguments
  compiling,                  \* "idle", the loop it is in, "compiled", or the exception
  n,                          \* iterations of that loop done
  produced,                   \* the names validate knows
  bank_offsets, allocations,  \* _allocate_banks
  schedule, clock             \* the ScheduledOps and the cycle they end at

compilerArgs == <<graph, hw>>
compilerVars == <<compilerArgs, compiling, n, produced, bank_offsets, allocations, schedule, clock>>

Errors == {"ValueError", "KeyError", "IndexError", "MemoryError"}

TensorNames == {graph.tensors[i].name : i \in DOMAIN graph.tensors}
Weights     == {graph.tensors[i].name : i \in {i \in DOMAIN graph.tensors : graph.tensors[i].is_weight}}
Ins(op)     == {op.inputs[i] : i \in DOMAIN op.inputs}
Outs(op)    == {op.outputs[i] : i \in DOMAIN op.outputs}

NoGraph    == [tensors |-> <<>>, ops |-> <<>>, inputs |-> {}, outputs |-> {}]
EmptyBanks == [b \in 0 .. hw.num_banks - 1 |-> 0]

CompilerInit ==
  /\ graph = NoGraph /\ hw = (CHOOSE c \in Compilations : TRUE).hw
  /\ compiling = "idle" /\ n = 0 /\ produced = {}
  /\ bank_offsets = EmptyBanks /\ allocations = <<>>
  /\ schedule = <<>> /\ clock = 0

Compile(c) ==
  /\ compiling = "idle" /\ compiling' = "validate"
  /\ graph' = c.graph /\ hw' = c.hw
  /\ produced' = graph'.inputs \cup Weights'
  /\ bank_offsets' = EmptyBanks'
  /\ UNCHANGED <<n, allocations, schedule, clock>>

Raise(error) ==
  /\ compiling' = error
  /\ UNCHANGED <<compilerArgs, n, produced, bank_offsets, allocations, schedule, clock>>

-----------------------------------------------------------------------------
(* Graph.validate *)

\* An op may read what any op of the graph produces.
MutantMissing(op) == Ins(op) \ (produced \cup UNION {Outs(graph.ops[i]) : i \in DOMAIN graph.ops})
Missing(op) == Ins(op) \ produced

ValidateOp ==
  /\ compiling = "validate" /\ n < Len(graph.ops)
  /\ LET op == graph.ops[n + 1] IN
       \/ (Missing(op) # {} \/ ~(Outs(op) \subseteq TensorNames)) /\ Raise("ValueError")
       \/ /\ Missing(op) = {} /\ Outs(op) \subseteq TensorNames
          /\ produced' = produced \cup Outs(op) /\ n' = n + 1
          /\ UNCHANGED <<compilerArgs, compiling, bank_offsets, allocations, schedule, clock>>

ValidateOutputs ==
  /\ compiling = "validate" /\ n = Len(graph.ops)
  /\ \/ ~(graph.outputs \subseteq produced) /\ Raise("ValueError")
     \/ /\ graph.outputs \subseteq produced
        /\ compiling' = "allocate" /\ n' = 0
        /\ UNCHANGED <<compilerArgs, produced, bank_offsets, allocations, schedule, clock>>

-----------------------------------------------------------------------------
(* _allocate_banks *)

NumEl(spec)     == ProductOf(spec.shape)
SizeBytes(spec) == NumEl(spec) * spec.nbytes

\* The bank the tensor asks for, else round robin over the position.
Bank == LET spec == graph.tensors[n + 1] IN
        IF spec.bank # {} THEN CHOOSE b \in spec.bank : TRUE ELSE n % hw.num_banks

Beyond(size) == bank_offsets[Bank] + size > hw.bank_size_bytes

\* Forgets that an explicit bank takes room, too.
MutantTakeRoom(size) ==
  bank_offsets' = IF graph.tensors[n + 1].bank # {} THEN bank_offsets
                  ELSE [bank_offsets EXCEPT ![Bank] = @ + size]
MutantSubtractRoom(size) == bank_offsets' = [bank_offsets EXCEPT ![Bank] = @ - size]
TakeRoom(size) == bank_offsets' = [bank_offsets EXCEPT ![Bank] = @ + size]

AllocateTensor ==
  /\ compiling = "allocate" /\ n < Len(graph.tensors)
  /\ LET spec == graph.tensors[n + 1] size == SizeBytes(spec) IN
       \/ Bank >= hw.num_banks /\ Raise("IndexError")
       \/ Bank < hw.num_banks /\ Beyond(size) /\ Raise("MemoryError")
       \/ /\ Bank < hw.num_banks /\ ~Beyond(size)
          /\ allocations' = Append(allocations, [tensor |-> spec.name, bank |-> Bank,
                                                 offset |-> bank_offsets[Bank], size_bytes |-> size])
          /\ TakeRoom(size)
          /\ n' = n + 1
          /\ UNCHANGED <<compilerArgs, compiling, produced, schedule, clock>>

AllocatedAll ==
  /\ compiling = "allocate" /\ n = Len(graph.tensors)
  /\ compiling' = "schedule" /\ n' = 0
  /\ UNCHANGED <<compilerArgs, produced, bank_offsets, allocations, schedule, clock>>

-----------------------------------------------------------------------------
(* _estimate_cycles and the schedule *)

TensorSpec(name) == graph.tensors[CHOOSE i \in DOMAIN graph.tensors : graph.tensors[i].name = name]
Shape(name) == TensorSpec(name).shape

Elementwise == {"add", "silu", "rmsnorm", "argmax", "append_cache"}
Binary      == {"matmul", "attention_decode"}

\* The exception estimating op raises, or "none": of the two operands in turn,
\* an index past the list, an unknown tensor; then shapes that do not fit.
Refusal(op) ==
  IF op.kind \in Binary THEN
    IF op.inputs = <<>> THEN "IndexError"
    ELSE IF op.inputs[1] \notin TensorNames THEN "KeyError"
    ELSE IF Len(op.inputs) < 2 THEN "IndexError"
    ELSE IF op.inputs[2] \notin TensorNames THEN "KeyError"
    ELSE LET a == Shape(op.inputs[1]) b == Shape(op.inputs[2]) IN
         IF Len(a) # 2 \/ Len(b) # 2 \/ a[2] # (IF op.kind = "matmul" THEN b[1] ELSE b[2])
         THEN "ValueError" ELSE "none"
  ELSE IF op.kind \notin Elementwise \cup {"softmax"} THEN "ValueError"
  ELSE IF op.outputs = <<>> THEN "IndexError" ELSE "none"

Estimate(op) ==
  CASE op.kind = "matmul" ->
         LET a == Shape(op.inputs[1]) b == Shape(op.inputs[2]) IN
         hw.matmul + CeilDiv(a[1] * b[2] * a[2], hw.mac_lanes)
    [] op.kind = "attention_decode" ->
         LET k == Shape(op.inputs[2]) IN
         hw.softmax + CeilDiv(2 * k[1] * k[2], hw.mac_lanes) + k[1]
    [] op.kind = "softmax" -> hw.softmax + CeilDiv(NumEl(TensorSpec(op.outputs[1])), hw.elem_lanes)
    [] op.kind \in Elementwise -> hw.elementwise + CeilDiv(NumEl(TensorSpec(op.outputs[1])), hw.elem_lanes)

Tick(cycles) == clock' = clock + cycles

ScheduleOp ==
  /\ compiling = "schedule" /\ n < Len(graph.ops)
  /\ LET op == graph.ops[n + 1] IN
       \/ Refusal(op) # "none" /\ Raise(Refusal(op))
       \/ /\ Refusal(op) = "none"
          /\ LET cycles == Estimate(op) IN
               /\ schedule' = Append(schedule,
                    [name |-> op.name, kind |-> op.kind, inputs |-> op.inputs, outputs |-> op.outputs,
                     max_len |-> op.max_len, start |-> clock, end |-> clock + cycles, cycles |-> cycles])
               /\ Tick(cycles)
          /\ n' = n + 1
          /\ UNCHANGED <<compilerArgs, compiling, produced, bank_offsets, allocations>>

ScheduledAll ==
  /\ compiling = "schedule" /\ n = Len(graph.ops)
  /\ compiling' = "compiled" /\ n' = 0
  /\ UNCHANGED <<compilerArgs, produced, bank_offsets, allocations, schedule, clock>>

CompilerSteps == ValidateOp \/ ValidateOutputs \/ AllocateTensor \/ AllocatedAll \/ ScheduleOp \/ ScheduledAll

\* The compiler by itself, called with any of the graphs.
CompilerNext == (compiling = "idle" /\ \E c \in Compilations : Compile(c)) \/ CompilerSteps
CompilerSpec == CompilerInit /\ [][CompilerNext]_compilerVars

-----------------------------------------------------------------------------
\* The compiler's variables keep their shape, whatever graph it is given.
CompilerTypeOK ==
  /\ compiling \in {"idle", "validate", "allocate", "schedule", "compiled"} \cup Errors
  /\ n \in Nat
  /\ produced \subseteq STRING
  /\ bank_offsets \in [0 .. hw.num_banks - 1 -> Nat]
  /\ allocations \in Seq([tensor : STRING, bank : 0 .. hw.num_banks - 1, offset : Nat, size_bytes : Nat])
  /\ clock \in Nat

\* Tensors of one bank never share a byte and none leaves its bank, with
\* explicit and round-robin banks in any mixture.
AllocationsDisjoint ==
  \A i \in DOMAIN allocations :
    LET a == allocations[i] IN
    /\ a.offset + a.size_bytes <= hw.bank_size_bytes
    /\ \A j \in DOMAIN allocations :
         (j # i /\ allocations[j].bank = a.bank) =>
           \/ a.offset + a.size_bytes <= allocations[j].offset
           \/ allocations[j].offset + allocations[j].size_bytes <= a.offset

\* Every scheduled op reads what the caller supplies, a weight, or an output of
\* an op scheduled before it, and writes into a tensor that has a place in SRAM.
OperandsReady ==
  \A i \in DOMAIN schedule :
    /\ Ins(schedule[i]) \subseteq
         graph.inputs \cup Weights \cup UNION {Outs(schedule[j]) : j \in 1 .. i - 1}
    /\ Outs(schedule[i]) \subseteq {allocations[j].tensor : j \in DOMAIN allocations}

=============================================================================
