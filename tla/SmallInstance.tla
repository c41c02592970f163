----------------------------- MODULE SmallInstance -----------------------------
(***************************************************************************)
(* A small engine for TLC.  It starts with one of a few programs loaded, a *)
(* state the host's own writes reach, so that a run with a result in it is *)
(* a few steps away.                                                       *)
(***************************************************************************)
EXTENDS TileEngineMem

TileOf(w, x, y, z) ==
  [ij \in Cell |-> CASE ij = <<0, 0>> -> w [] ij = <<0, 1>> -> x
                     [] ij = <<1, 0>> -> y [] ij = <<1, 1>> -> z]
P == TileOf(1, -1, 0, 1)
Q == TileOf(1, 0, 1, 1)
MCTiles == {Q}

CONSTANT Programs   \* the programs that may be loaded

\* Load both operands, accumulate twice, store; or store what is there first.
LoadMacStore == <<"LOAD_A", "LOAD_B", "MAC_TILE", "STORE_C">>
MacStoreLoad == <<"MAC_TILE", "STORE_C", "LOAD_A", "NOP">>
OneProgram   == {LoadMacStore}
TwoPrograms  == {LoadMacStore, MacStoreLoad}

PreloadedEngine ==
  /\ SequencerInit /\ DatapathInit
  /\ \E p \in Programs : opcode_mem = [s \in Slot |-> p[s + 1]]
  /\ cycles_mem = [s \in Slot |-> IF opcode_mem[s] = "MAC_TILE" THEN 2 ELSE 1]
  /\ a_mem = [s \in Slot |-> P] /\ b_mem = [s \in Slot |-> Q]
=============================================================================
