---------------------------- MODULE VectorCollector ----------------------------
(***************************************************************************)
(* collect_schedule_vectors_from_program of                                *)
(* opentsp/rtl_schedule_vectors.py: a second interpreter of a compiled     *)
(* program, which runs the backends as the runtime does and cuts each      *)
(* tiled matmul into RTL test vectors.  It is given a program, values and  *)
(* a configuration that the runtime was given before.                      *)
(***************************************************************************)
EXTENDS AcceleratorRuntime

CONSTANT VectorGraphs(_)   \* bound: whether a graph's vectors are collected
ASSUME VectorAssumption == \A c \in Compilations : VectorGraphs(c.graph) \in BOOLEAN

VARIABLES
  collecting,   \* "no", "yes", the backend that was called, "ran", or the exception
  collected,    \* ops executed
  vec_values,   \* the collector's own map of values
  groups        \* ScheduleVectorGroups

vectorVars == <<collecting, collected, vec_values, groups>>

VectorInit == collecting = "no" /\ collected = 0 /\ vec_values = <<>> /\ groups = <<>>

StartCollecting ==
  /\ running \in {"ran"} \cup Errors /\ collecting = "no" /\ VectorGraphs(graph)
  /\ collecting' = "yes" /\ vec_values' = given
  /\ UNCHANGED <<collected, groups, backendVars>>

\* Forgets the name set.
MutantAccelerates(op) == op.kind = "matmul"
should_accelerate_matmul(op)  == op.kind = "matmul" /\ Selected(config[1].matmul, op)
should_schedule_attention(op) == op.kind = "attention_decode" /\ Selected(config[1].attention, op)

Current == schedule[collected + 1]
CollectError ==
  Complaint(Current, vec_values, should_accelerate_matmul(Current) \/ should_schedule_attention(Current))
Ready == collecting = "yes" /\ collected < Len(schedule) /\ CollectError = "none"
Keep(op) == vec_values' = Stored(op, vec_values) /\ collected' = collected + 1

FailCollect ==
  /\ collecting = "yes" /\ collected < Len(schedule) /\ CollectError # "none"
  /\ collecting' = CollectError
  /\ UNCHANGED <<collected, vec_values, groups, backendVars>>

CollectOnFp32 ==
  /\ Ready /\ ~should_accelerate_matmul(Current) /\ ~should_schedule_attention(Current)
  /\ Keep(Current)
  /\ UNCHANGED <<collecting, groups, backendVars>>

CollectMatmul ==
  /\ Ready /\ should_accelerate_matmul(Current)
  /\ MultiplyOp(Current) /\ collecting' = "matmul"
  /\ UNCHANGED <<collected, vec_values, groups, attentionVars>>

ScheduleVectorGroup(op) ==
  [op_name |-> op.name, vector_count |-> Cardinality(Vectors), k_tile_count |-> k_tile_count,
   schedule_event_count |-> Len(tile_events), schedule_cycles |-> tile_cycle]

EndCollectMatmul ==
  /\ collecting = "matmul" /\ ReturnMatmul /\ collecting' = "yes"
  /\ groups' = Append(groups, ScheduleVectorGroup(Current))
  /\ Keep(Current) /\ UNCHANGED attentionVars

CollectAttention ==
  /\ Ready /\ should_schedule_attention(Current)
  /\ DecodeOp(Current) /\ collecting' = "attention"
  /\ UNCHANGED <<collected, vec_values, groups, matmulVars>>

EndCollectAttention ==
  /\ collecting = "attention" /\ ReturnAttention /\ collecting' = "yes"
  /\ Keep(Current) /\ UNCHANGED <<groups, matmulVars>>

EndCollecting ==
  /\ collecting = "yes" /\ collected = Len(schedule) /\ collecting' = "ran"
  /\ UNCHANGED <<collected, vec_values, groups, backendVars>>

CollectorSteps ==
  \/ StartCollecting \/ FailCollect \/ CollectOnFp32 \/ EndCollecting
  \/ CollectMatmul \/ EndCollectMatmul \/ CollectAttention \/ EndCollectAttention

-----------------------------------------------------------------------------
\* "This mirrors the INT8 runtime": the second interpreter ends as the first
\* one did, with the same exception or the same values, and has a group for
\* each matmul the runtime accelerated, of the same events and cycles, whose
\* vectors feed the RTL tile an inner pair for every two inner indices of every
\* scheduled mac_tile.
CollectorMirrorsRuntime ==
  collecting \in {"ran"} \cup Errors =>
    /\ collecting = running /\ vec_values = values
    /\ Len(groups) = Len(matmul_stats)
    /\ \A i \in DOMAIN groups :
         LET stat == matmul_stats[i] IN
         /\ groups[i].op_name = stat.op_name
         /\ groups[i].schedule_event_count = Len(stat.events)
         /\ groups[i].schedule_cycles = stat.cycles
         /\ groups[i].k_tile_count = InnerPairs(stat.events)
=============================================================================
