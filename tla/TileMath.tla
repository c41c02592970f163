------------------------------- MODULE TileMath -------------------------------
(***************************************************************************)
(* The arithmetic of rtl/systolic_tile_2x2.sv and the meaning of a tile    *)
(* program: what LOAD_A, LOAD_B, MAC_TILE and STORE_C do to the datapath   *)
(* of rtl/tile_engine_mem_2x2.sv when they are held for n cycles.          *)
(***************************************************************************)
EXTENDS Integers, Sequences

CONSTANT AccSpan   \* 2^ACC_WIDTH: an accumulator is its bit pattern

ASSUME AccAssumption == AccSpan \in Nat \ {0}

Cell == (0 .. 1) \X (0 .. 1)
Int8 == -128 .. 127            \* IN_WIDTH = 8, signed
Tile == [Cell -> Int8]
Acc  == [Cell -> 0 .. AccSpan - 1]

Zero == [ij \in Cell |-> 0]

\* An int8 product always fits the 2*IN_WIDTH bits mul_ext extends from.
MutantProduct(a, b) ==
  [ij \in Cell |-> a[<<ij[1], 0>>] * b[<<ij[2], 0>>] + a[<<ij[1], 1>>] * b[<<ij[2], 1>>]]
Product(a, b) ==
  [ij \in Cell |-> a[<<ij[1], 0>>] * b[<<0, ij[2]>>] + a[<<ij[1], 1>>] * b[<<1, ij[2]>>]]

\* n valid clocks of the tile.
Accumulate(acc, a, b, n) ==
  LET p == Product(a, b)
  IN  [ij \in Cell |-> (acc[ij] + n * p[ij]) % AccSpan]

-----------------------------------------------------------------------------
(* The datapath as a host sees it once a run is over: operand registers,   *)
(* accumulator, stored result and its valid bit.                           *)

Cleared(dp) == [dp EXCEPT !.c = Zero, !.stored = Zero, !.valid = FALSE]

\* One instruction, carrying the A and B tiles its slot addresses.
Exec(dp, instr) ==
  CASE instr.op = "LOAD_A"   -> [dp EXCEPT !.a = instr.a]
    [] instr.op = "LOAD_B"   -> [dp EXCEPT !.b = instr.b]
    [] instr.op = "MAC_TILE" -> [dp EXCEPT !.c = Accumulate(@, dp.a, dp.b, instr.cycles)]
    [] instr.op = "STORE_C"  -> [dp EXCEPT !.stored = dp.c, !.valid = TRUE]
    [] OTHER                 -> dp

\* A program, instruction by instruction.
Interpret(dp, program) ==
  LET after[n \in 0 .. Len(program)] ==
        IF n = 0 THEN dp ELSE Exec(after[n - 1], program[n])
  IN  after[Len(program)]
=============================================================================
