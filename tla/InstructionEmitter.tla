--------------------------- MODULE InstructionEmitter ---------------------------
(***************************************************************************)
(* emit_instructions_from_timeline of opentsp/instruction_emitter.py.  The *)
(* tile ranges, which travel through the detail string, are left out.      *)
(***************************************************************************)
EXTENDS Timeline

CONSTANT Layouts(_)   \* bound: the InstructionMemoryLayout values for a graph
ASSUME LayoutAssumption ==
  \A c \in Compilations : Layouts(c.graph) \subseteq [a : Nat, b : Nat, c : Nat, kv : Nat, temp : Nat]

VARIABLES
  layout,         \* the argument, as <<layout>> once there is one
  emitted,        \* events converted
  bank_fill,      \* bank_offsets of the emitter
  instructions

emitterVars == <<layout, emitted, bank_fill, instructions>>

LayoutBanks(l) == {l.a, l.b, l.c, l.kv, l.temp}

EmitterInit == layout = <<>> /\ emitted = 0 /\ bank_fill = <<>> /\ instructions = <<>>

StartEmitting ==
  /\ timeline = "built" /\ layout = <<>>
  /\ \E l \in Layouts(graph) :
       layout' = <<l>> /\ bank_fill' = [b \in LayoutBanks(l) |-> 0]
  /\ UNCHANGED <<emitted, instructions>>

Opcode(event) ==
  CASE event.source = "kv_attention" -> "ATTENTION"
    [] event.source = "tiled_matmul" /\ event.micro_op = "load_a_tile"  -> "LOAD_A"
    [] event.source = "tiled_matmul" /\ event.micro_op = "load_b_tile"  -> "LOAD_B"
    [] event.source = "tiled_matmul" /\ event.micro_op = "mac_tile"     -> "MAC_TILE"
    [] event.source = "tiled_matmul" /\ event.micro_op = "store_c_tile" -> "STORE_C"
    [] OTHER -> "BASELINE"

\* The bank of an opcode; MAC_TILE has none.
BankOf(opcode) ==
  CASE opcode = "LOAD_A" -> {layout[1].a}    [] opcode = "LOAD_B" -> {layout[1].b}
    [] opcode = "STORE_C" -> {layout[1].c}   [] opcode = "ATTENTION" -> {layout[1].kv}
    [] opcode = "BASELINE" -> {layout[1].temp} [] OTHER -> {}

\* Compute-only instructions reserve a slot, too.
MutantReserved(event) == event.bytes
Reserved(event) == IF event.bytes > 1 THEN event.bytes ELSE 1

EmitInstruction ==
  /\ layout # <<>> /\ emitted < Len(events)
  /\ LET event  == events[emitted + 1]
         opcode == Opcode(event)
         bank   == BankOf(opcode)
     IN /\ instructions' = Append(instructions,
             [opcode |-> opcode, start |-> event.start, end |-> event.end, cycles |-> event.cycles,
              bank |-> bank, offset |-> {bank_fill[b] : b \in bank},
              bytes_moved |-> event.bytes, macs |-> event.macs])
        /\ bank_fill' = [b \in DOMAIN bank_fill |->
             IF b \in bank THEN bank_fill[b] + Reserved(event) ELSE bank_fill[b]]
  /\ emitted' = emitted + 1
  /\ UNCHANGED layout

EmitterSteps == StartEmitting \/ EmitInstruction

-----------------------------------------------------------------------------
\* Two instructions of a bank have regions of their own, in the order of the
\* stream, also when the layout puts several purposes into one bank.
RegionsGrow ==
  \A j \in DOMAIN instructions : \A i \in 1 .. j - 1 :
    \A b \in instructions[i].bank \cap instructions[j].bank :
      \A o \in instructions[i].offset, p \in instructions[j].offset :
        o + instructions[i].bytes_moved <= p /\ o < p
=============================================================================
