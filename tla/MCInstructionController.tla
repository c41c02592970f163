----------------------- MODULE MCInstructionController -----------------------
(***************************************************************************)
(* The controller and its tile under two manners of host: a free one, and  *)
(* a steady one, which changes no input of a run while it goes on: no      *)
(* write at the START edge (neither wrapper can produce one, they decode   *)
(* one register write per clock), program_len and operands held to the     *)
(* end. Both may START at any edge. Nothing is promised of the tile to a   *)
(* free host, which leaves its ports alone. A steady host sets the         *)
(* operands as it starts a run, and clears the tile whenever it likes;     *)
(* under it the controller implements ProgramSequencer.                    *)
(***************************************************************************)
EXTENDS TileEngine2x2, Sequences, FiniteSets, Score

CONSTANT Unpromised   \* no accumulator is due: no run, or one that was wiped

VARIABLES
  steady,   \* the manner of the host
  due       \* history: the accumulator a run of a steady host must end with

\* The instruction the sequencer finds at address a of the program.
InstrAt(a) == [op |-> opcode_mem[Idx(a)], cycles |-> cycles_mem[Idx(a)]]
Loaded     == [i \in 1 .. program_len |-> InstrAt(i - 1)]

\* One product of the operands for each strobe of a MAC_TILE.
MacsIn(strobes) == Cardinality({i \in DOMAIN strobes : strobes[i] = "MAC_TILE"})

Promise(start, clear) ==
  due' = IF ~busy /\ start THEN Accumulate(Zero, operands'[1], operands'[2], MacsIn(ScoreOf(Loaded)))
         ELSE IF busy /\ ~start /\ ~clear THEN due
         ELSE Unpromised

FreeClock ==
  \E w \in ProgramPort, start \in BOOLEAN :
    /\ TileEdge(w, start, FALSE)
    /\ program_len' \in HostLengths
    /\ UNCHANGED <<operands, due>>

SteadyClock ==
  \E w \in ProgramPort, start, clear \in BOOLEAN :
    /\ ~(w.we /\ start)
    /\ TileEdge(w, start, clear)
    /\ program_len' \in (IF busy' THEN {program_len} ELSE HostLengths)
    /\ operands' \in (IF start /\ ~busy THEN HostOperands ELSE {operands})
    /\ Promise(start, clear)

Clock ==
  /\ \/ steady /\ SteadyClock
     \/ ~steady /\ FreeClock
  /\ UNCHANGED steady

Reset ==
  /\ TileReset
  /\ program_len' \in HostLengths /\ due' = Unpromised
  /\ UNCHANGED <<operands, steady>>

MCInit == CtrlInit /\ TileInit /\ steady \in BOOLEAN /\ due = Unpromised

mcVars == <<ctrlVars, tileVars, steady, due>>

MCSpec == MCInit /\ [][Clock \/ Reset]_mcVars /\ WF_mcVars(Clock)

\* At done the accumulator of the tile holds one product for every cycle of every
\* MAC_TILE of the program and nothing else: valid_i is a strobe that the
\* controller decodes from registers, so one that came a clock late, outlived the
\* run or followed a wipe by START would show as a product too few or too many.
DoneMeansEveryMac == done /\ due # Unpromised => c = due

\* What is left of a run: the instruction in progress, then those behind it.
Ahead ==
  <<[op |-> opcode, cycles |-> cycles_left]>>
    \o SubSeq(Loaded, pc + 2, program_len)

\* A host that is not steady is promised nothing: there is nothing to see then.
Sequencer == INSTANCE ProgramSequencer WITH
  program  <- Loaded,
  strobes  <- IF steady /\ busy THEN ScoreOf(Ahead) ELSE <<>>,
  played   <- IF steady THEN global_cycle ELSE 0,
  finished <- steady /\ done
\* Every step of the controller is a step of the sequencer or a stutter: each
\* instruction shows its strobe for exactly its programmed cycles, in order, and
\* done and global_cycle agree with the number of strobes shown.
PlaysTheProgram == Sequencer!Spec

\* One cell holds a product, and the operands have two values, 1 and -1 of it.
OneCell(v)  == [ij \in Cell |-> IF ij = <<0, 0>> THEN v ELSE 0]
MCOperands  == {<<OneCell(1), OneCell(v)>> : v \in {1, -1}}
=============================================================================
