-------------------------------- MODULE Score --------------------------------
(* The strobes an instruction list plays, one per clock.                   *)
EXTENDS Integers, Sequences

Times(op, n) == [i \in 1 .. n |-> op]

ScoreOf(prog) ==
  LET upto[n \in 0 .. Len(prog)] ==
        IF n = 0 THEN <<>> ELSE upto[n - 1] \o Times(prog[n].op, prog[n].cycles)
  IN  upto[Len(prog)]
=============================================================================
