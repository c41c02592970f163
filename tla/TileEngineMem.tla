----------------------------- MODULE TileEngineMem -----------------------------
(***************************************************************************)
(* rtl/tile_engine_mem_2x2.sv: the controller, the A and B tile memories,  *)
(* the operand registers, the systolic tile and the stored C tile.  The    *)
(* engine has no clock of its own: EngineEdge is what one rising edge does *)
(* for given inputs, and the two register wrappers conjoin it with theirs. *)
(***************************************************************************)
EXTENDS InstructionController, Sequences, TileMath

CONSTANT HostTiles   \* bound: tiles the host writes in this instance

ASSUME EngineAssumption == HostTiles \subseteq Tile

VARIABLES
  a_mem, b_mem,            \* the data memories, one tile per address
  a_q, b_q,                \* operand registers
  c, tile_valid,           \* systolic tile: accumulator and valid_o
  stored_valid, stored_c   \* the result the host reads

memVars    == <<a_mem, b_mem>>
dataVars   == <<memVars, a_q, b_q, c, tile_valid, stored_valid, stored_c>>
engineVars == <<ctrlVars, dataVars>>

\* The data write port: bank 0 is the A memory, bank 1 the B memory.
NoDataWrite == [we |-> FALSE, bank |-> 0, addr |-> 0, tile |-> Zero]
DataPort ==
  {NoDataWrite} \cup
  [we : {TRUE}, bank : 0 .. 1, addr : PcValue, tile : HostTiles]

MemInit == a_mem = [s \in Slot |-> Zero] /\ b_mem = [s \in Slot |-> Zero]

DatapathInit ==
  /\ a_q = Zero /\ b_q = Zero /\ c = Zero /\ tile_valid = FALSE
  /\ stored_valid = FALSE /\ stored_c = Zero

EngineInit == ControllerInit /\ MemInit /\ DatapathInit

EngineReset ==
  /\ ControllerReset
  /\ a_mem' = [s \in Slot |-> Zero] /\ b_mem' = [s \in Slot |-> Zero]
  /\ a_q' = Zero /\ b_q' = Zero /\ c' = Zero /\ tile_valid' = FALSE
  /\ stored_valid' = FALSE /\ stored_c' = Zero

-----------------------------------------------------------------------------
MutantDataAnyTime(d) == d.we /\ d.addr < PROGRAM_LEN % PcSpan
DataAccepted(d) == d.we /\ ~busy /\ d.addr < PROGRAM_LEN % PcSpan

DataWrite(d) ==
  \/ /\ DataAccepted(d) /\ d.bank = 0
     /\ a_mem' = [a_mem EXCEPT ![Idx(d.addr)] = d.tile]
     /\ UNCHANGED b_mem
  \/ /\ DataAccepted(d) /\ d.bank = 1
     /\ b_mem' = [b_mem EXCEPT ![Idx(d.addr)] = d.tile]
     /\ UNCHANGED a_mem
  \/ /\ ~DataAccepted(d)
     /\ UNCHANGED memVars

\* LOAD_A and LOAD_B read the slot of the program counter, at every cycle held.
LoadOperands ==
  /\ a_q' = IF Strobe("LOAD_A") THEN a_mem[Idx(pc)] ELSE a_q
  /\ b_q' = IF Strobe("LOAD_B") THEN b_mem[Idx(pc)] ELSE b_q

\* The systolic tile: wipe is clear_tile_i || start_i, and it beats a valid clock.
TileClock(wipe) ==
  /\ tile_valid' = Strobe("MAC_TILE")
  /\ c' = IF wipe THEN Zero
          ELSE IF Strobe("MAC_TILE") THEN Accumulate(c, a_q, b_q, 1)
          ELSE c

\* STORE_C is assigned after the wipe and beats it.
MutantKeepsResult(wipe) ==
  /\ stored_valid' = (Strobe("STORE_C") \/ stored_valid)
  /\ stored_c' = IF Strobe("STORE_C") THEN c ELSE stored_c
\* The two assignments in the other order.
MutantWipeWins(wipe) ==
  /\ stored_valid' = (~wipe /\ (Strobe("STORE_C") \/ stored_valid))
  /\ stored_c' = IF wipe THEN Zero ELSE IF Strobe("STORE_C") THEN c ELSE stored_c
StoreResult(wipe) ==
  /\ stored_valid' = (Strobe("STORE_C") \/ (stored_valid /\ ~wipe))
  /\ stored_c' = IF Strobe("STORE_C") THEN c ELSE IF wipe THEN Zero ELSE stored_c

EngineEdge(w, d, start, clear) ==
  /\ ProgramWrite(w) /\ SequencerEdge(start)
  /\ DataWrite(d) /\ LoadOperands
  /\ TileClock(clear \/ start) /\ StoreResult(clear \/ start)

-----------------------------------------------------------------------------
\* Every register and memory of the engine stays within its width.
EngineTypeOK ==
  /\ ControllerTypeOK
  /\ a_mem \in [Slot -> Tile] /\ b_mem \in [Slot -> Tile]
  /\ a_q \in Tile /\ b_q \in Tile
  /\ c \in Acc /\ stored_c \in Acc
  /\ tile_valid \in BOOLEAN /\ stored_valid \in BOOLEAN

\* What the host can see or reuse of the datapath.
Datapath == [a |-> a_q, b |-> b_q, c |-> c, stored |-> stored_c, valid |-> stored_valid]

\* Addresses lo .. hi-1 of a program run over given memories.
Listing(op, cyc, amem, bmem, lo, hi) ==
  [i \in 1 .. hi - lo |->
     [op |-> op[Idx(lo + i - 1)], cycles |-> cyc[Idx(lo + i - 1)],
      a |-> amem[Idx(lo + i - 1)], b |-> bmem[Idx(lo + i - 1)]]]

\* What is left of a run: the instruction in progress for the cycles it has
\* left, then the slots behind it up to program_len.
Ahead ==
  <<[op |-> opcode, cycles |-> cycles_left, a |-> a_mem[Idx(pc)], b |-> b_mem[Idx(pc)]]>>
    \o Listing(opcode_mem, cycles_mem, a_mem, b_mem, pc + 1, program_len)

\* The program and tiles a START would run once the writes w and d, which are on
\* their way into the memories, have landed.
ProgramAfter(w, d) ==
  Listing(IF WriteAccepted(w) THEN [opcode_mem EXCEPT ![Idx(w.addr)] = w.op] ELSE opcode_mem,
          IF WriteAccepted(w) THEN [cycles_mem EXCEPT ![Idx(w.addr)] = NormalizeCycles(w.cycles)]
                              ELSE cycles_mem,
          IF DataAccepted(d) /\ d.bank = 0 THEN [a_mem EXCEPT ![Idx(d.addr)] = d.tile] ELSE a_mem,
          IF DataAccepted(d) /\ d.bank = 1 THEN [b_mem EXCEPT ![Idx(d.addr)] = d.tile] ELSE b_mem,
          0, program_len)

\* What the datapath will be when all that is under way has happened: the run
\* that the start pulse begins, what is left of the run in progress, or the
\* clear pulse.
Committed(w, d, start, clear) ==
  CASE busy                       -> Interpret(Datapath, Ahead)
    [] ~busy /\ start             -> Interpret(Cleared(Datapath), ProgramAfter(w, d))
    [] ~busy /\ ~start /\ clear   -> Cleared(Datapath)
    [] ~busy /\ ~start /\ ~clear  -> Datapath

\* A run executes what the memory holds, slot 0 included, whatever the host
\* writes and when: the register file can never write a slot at a START edge,
\* nor the engine accept one while it runs.
RunsLoadedProgram ==
  busy => /\ opcode = opcode_mem[Idx(pc)]
          /\ cycles_left <= cycles_mem[Idx(pc)]

\* Until a run has reached its own STORE_C no result is valid, and until it has
\* reached its own MAC_TILE the accumulator is zero.
Reached(op) == \E s \in 0 .. pc : opcode_mem[Idx(s)] = op
NothingCarriesOver ==
  busy => /\ Reached("STORE_C") \/ (~stored_valid /\ stored_c = Zero)
          /\ Reached("MAC_TILE") \/ c = Zero

\* A run that ends in STORE_C is done with a valid result.
StoreSurvives == done /\ opcode = "STORE_C" => stored_valid

\* The result is of the run that shows it, also when START or CLEAR is written in
\* mid run: nothing of an earlier run shows in a new one, and a CLEAR or a START
\* on the edge of the last STORE_C does not take away what it stores.
ResultIsOfThisRun == NothingCarriesOver /\ StoreSurvives
=============================================================================
