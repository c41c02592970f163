--------------------------- MODULE ProgramSequencer ---------------------------
(***************************************************************************)
(* What rtl/instruction_controller.sv promises a host that leaves the      *)
(* program alone during a run: START plays the program as it stands, one   *)
(* instruction strobe per clock, each held for its own number of cycles    *)
(* and in order; done is pulsed on the clock after the last strobe, and    *)
(* global_cycle counts the strobes played.  There is no pc, no memory and  *)
(* no cycle counter here, only the strobes still to be played.             *)
(***************************************************************************)
EXTENDS Integers, Sequences, Score

CONSTANT GlobalSpan

VARIABLES
  program,    \* the instructions START would play: <<[op, cycles], ...>>
  strobes,    \* the opcodes still to be played; the head is the one now decoded
  played,     \* strobes played by this run so far
  finished    \* the one-clock done pulse

vars == <<program, strobes, played, finished>>

running == strobes # <<>>

Init == ~running /\ played = 0 /\ ~finished

\* The host may change the program at any clock that does not end in a run.
Steady == strobes' # <<>> => program' = program

Start ==
  /\ ~running
  /\ strobes' = ScoreOf(program)
  /\ played' = 0
  /\ finished' = (program = <<>>)

Play ==
  /\ running
  /\ strobes' = Tail(strobes)
  /\ played' = (played + 1) % GlobalSpan
  /\ finished' = (Len(strobes) = 1)

Rest == ~running /\ finished' = FALSE /\ UNCHANGED <<strobes, played>>

Reset == strobes' = <<>> /\ played' = 0 /\ finished' = FALSE

Next == Steady /\ (Start \/ Play \/ Rest \/ Reset)

Spec == Init /\ [][Next]_vars
=============================================================================
