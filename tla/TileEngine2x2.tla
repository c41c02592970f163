---------------------------- MODULE TileEngine2x2 ----------------------------
(***************************************************************************)
(* rtl/tile_engine_2x2.sv: the controller and the systolic tile without a  *)
(* memory of operands.  MAC_TILE strobes are the tile's valid_i, and START *)
(* wipes the accumulator like clear_tile_i does.                           *)
(***************************************************************************)
EXTENDS InstructionController, TileMath

CONSTANT HostOperands   \* bound: pairs of tiles on the operand ports

ASSUME OperandAssumption == HostOperands \subseteq Tile \X Tile

VARIABLES
  operands,      \* a00_i .. b11_i, inputs read at every edge
  c, tile_valid  \* systolic tile: accumulator and valid_o

tileVars == <<operands, c, tile_valid>>

TileInit == operands \in HostOperands /\ c = Zero /\ tile_valid = FALSE

\* Wipe is clear_tile_i || start_i, whether the controller heeds START or not.
MutantTileClock(start, clear) ==
  /\ tile_valid' = Strobe("MAC_TILE")
  /\ c' = IF clear \/ (start /\ busy) THEN Zero
          ELSE IF Strobe("MAC_TILE") THEN Accumulate(c, operands[1], operands[2], 1)
          ELSE c
TileClock(start, clear) ==
  /\ tile_valid' = Strobe("MAC_TILE")
  /\ c' = IF clear \/ start THEN Zero
          ELSE IF Strobe("MAC_TILE") THEN Accumulate(c, operands[1], operands[2], 1)
          ELSE c

TileEdge(w, start, clear) ==
  ProgramWrite(w) /\ SequencerEdge(start) /\ TileClock(start, clear)

TileReset ==
  /\ ControllerReset
  /\ c' = Zero /\ tile_valid' = FALSE
=============================================================================
