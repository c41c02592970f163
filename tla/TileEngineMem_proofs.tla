------------------------ MODULE TileEngineMem_proofs -------------------------
(***************************************************************************)
(* What one clock edge of tile_engine_mem_2x2 preserves, for any inputs a  *)
(* register file can give it (EngineStep), and what a run of it computes   *)
(* (RunClock): the theorems about the two register files rest on both.     *)
(***************************************************************************)
EXTENDS TileEngineMem, InstructionController_proofs

EngineInv ==
  /\ EngineTypeOK /\ ControllerInv /\ CyclesPositive
  /\ RunsLoadedProgram /\ NothingCarriesOver /\ StoreSurvives

DataOK(d) == d.we => d.bank \in 0 .. 1 /\ d.addr \in PcValue /\ d.tile \in Tile

LEMMA DataPortOK ==
  ASSUME NEW d \in DataPort
  PROVE  DataOK(d)
<1>1. SUFFICES ASSUME d.we PROVE d.bank \in 0 .. 1 /\ d.addr \in PcValue /\ d.tile \in Tile
  BY DEF DataOK
<1>2. ~NoDataWrite.we
  BY DEF NoDataWrite
<1>3. d \in [we : {TRUE}, bank : 0 .. 1, addr : PcValue, tile : HostTiles]
  BY <1>1, <1>2 DEF DataPort
<1>4. d.bank \in 0 .. 1 /\ d.addr \in PcValue /\ d.tile \in HostTiles
  BY <1>3
<1>5. QED
  BY <1>4, EngineAssumption

-----------------------------------------------------------------------------
\* The datapath and the data memories keep their types at any edge.
LEMMA DataTypes ==
  ASSUME EngineTypeOK, NEW d, DataOK(d), DataWrite(d), LoadOperands,
         NEW wipe \in BOOLEAN, TileClock(wipe), StoreResult(wipe)
  PROVE  /\ a_mem' \in [Slot -> Tile] /\ b_mem' \in [Slot -> Tile]
         /\ a_q' \in Tile /\ b_q' \in Tile
         /\ c' \in Acc /\ stored_c' \in Acc
         /\ tile_valid' \in BOOLEAN /\ stored_valid' \in BOOLEAN
<1>1. a_mem' \in [Slot -> Tile] /\ b_mem' \in [Slot -> Tile]
  BY DEF EngineTypeOK, DataWrite, DataAccepted, DataOK, memVars
<1>2. a_mem[Idx(pc)] \in Tile /\ b_mem[Idx(pc)] \in Tile
  <2>1. pc \in Nat
    BY DEF EngineTypeOK, ControllerTypeOK, PcValue
  <2>2. QED
    BY <2>1, IdxInSlot DEF EngineTypeOK
<1>3. a_q' \in Tile /\ b_q' \in Tile
  BY <1>2 DEF EngineTypeOK, LoadOperands
<1>4. c' \in Acc
  BY AccumulateType, ZeroTile DEF EngineTypeOK, TileClock
<1>5. stored_c' \in Acc
  BY ZeroTile DEF EngineTypeOK, StoreResult
<1>6. tile_valid' \in BOOLEAN /\ stored_valid' \in BOOLEAN
  BY DEF TileClock, StoreResult, Strobe
<1>7. QED
  BY <1>1, <1>3, <1>4, <1>5, <1>6

\* While the engine is busy the slots reached stay reached.
LEMMA ReachedGrows ==
  ASSUME EngineTypeOK, NEW op, Reached(op), opcode_mem' = opcode_mem,
         pc' \in Nat, pc <= pc'
  PROVE  Reached(op)'
<1>1. PICK s \in 0 .. pc : opcode_mem[Idx(s)] = op
  BY DEF Reached
<1>2. s \in 0 .. pc'
  BY <1>1 DEF EngineTypeOK, ControllerTypeOK, PcValue
<1>3. QED
  BY <1>1, <1>2 DEF Reached, Idx

-----------------------------------------------------------------------------
\* The instruction in progress stays the one the memory holds: START sees slot 0
\* as no write at the same edge can change it.
LEMMA LoadedStep ==
  ASSUME EngineInv, NEW w, PortOK(w), ProgramWrite(w),
         NEW start \in BOOLEAN, ~(start /\ w.we), SequencerEdge(start)
  PROVE  RunsLoadedProgram'
<1>1. SUFFICES ASSUME busy'
               PROVE  opcode' = opcode_mem'[Idx(pc')] /\ cycles_left' <= cycles_mem'[Idx(pc')]
  BY DEF RunsLoadedProgram, Idx
<1>2. \A a \in Nat : cycles_mem[Idx(a)] \in Nat /\ cycles_mem[Idx(a)] > 0
  BY IdxInSlot, ControllerAssumption DEF EngineInv, EngineTypeOK, ControllerTypeOK, CyclesPositive, CycleCount
<1>3. \A a \in Nat : NormalizeCycles(cycles_mem[Idx(a)]) = cycles_mem[Idx(a)]
  BY <1>2 DEF NormalizeCycles
<1>4. pc \in Nat /\ cycles_left \in Nat /\ NextPc \in Nat
  BY ControllerAssumption DEF EngineInv, EngineTypeOK, ControllerTypeOK, PcValue, CycleCount, NextPc
<1>5. CASE StartProgram(start)
  <2>1. opcode_mem' = opcode_mem /\ cycles_mem' = cycles_mem
    BY <1>5 DEF StartProgram, ProgramWrite, WriteAccepted, programVars
  <2>2. opcode' = opcode_mem[0] /\ cycles_left' = cycles_mem[0] /\ pc' = 0 /\ Idx(0) = 0
    BY <1>3, <1>5, SlotZero DEF StartProgram
  <2>3. cycles_mem[0] \in Nat
    BY <1>2, <2>2
  <2>4. QED
    BY <2>1, <2>2, <2>3
<1>6. CASE Hold
  <2>1. opcode_mem' = opcode_mem /\ cycles_mem' = cycles_mem
    BY <1>6 DEF Hold, ProgramWrite, WriteAccepted, programVars
  <2>2. opcode' = opcode_mem[Idx(pc)] /\ cycles_left <= cycles_mem[Idx(pc)] /\ pc' = pc
    BY <1>6 DEF Hold, EngineInv, RunsLoadedProgram
  <2>3. cycles_left' = cycles_left - 1
    BY <1>6 DEF Hold
  <2>4. QED
    BY <1>2, <1>4, <2>1, <2>2, <2>3
<1>7. CASE Advance
  <2>1. opcode_mem' = opcode_mem /\ cycles_mem' = cycles_mem
    BY <1>7 DEF Advance, ProgramWrite, WriteAccepted, programVars
  <2>2. pc' = NextPc /\ opcode' = opcode_mem[Idx(NextPc)] /\ cycles_left' = cycles_mem[Idx(NextPc)]
    BY <1>3, <1>4, <1>7 DEF Advance
  <2>3. QED
    BY <1>2, <1>4, <2>1, <2>2
<1>8. ~StartEmpty(start) /\ ~Finish /\ ~Rest(start)
  BY <1>1 DEF StartEmpty, Finish, Rest
<1>9. QED
  BY <1>5, <1>6, <1>7, <1>8 DEF SequencerEdge

\* A run begins with the result and the accumulator wiped, and shows a result
\* only after its own STORE_C, a sum only after its own MAC_TILE.
LEMMA CarryStep ==
  ASSUME EngineInv, NEW w, PortOK(w), ProgramWrite(w),
         NEW start \in BOOLEAN, NEW clear \in BOOLEAN, SequencerEdge(start),
         TileClock(clear \/ start), StoreResult(clear \/ start)
  PROVE  NothingCarriesOver'
<1>1. SUFFICES ASSUME busy'
               PROVE  /\ Reached("STORE_C")' \/ (~stored_valid' /\ stored_c' = Zero)
                      /\ Reached("MAC_TILE")' \/ c' = Zero
  BY DEF NothingCarriesOver, Zero
<1>2. CASE StartProgram(start)
  <2>1. ~valid
    BY <1>2 DEF StartProgram, EngineInv, ControllerInv, StrobesOnlyInRun
  <2>2. start
    BY <1>2 DEF StartProgram
  <2>3. QED
    BY <2>1, <2>2 DEF TileClock, StoreResult, Strobe
<1>3. CASE Hold \/ Advance
  <2>1. busy /\ opcode_mem' = opcode_mem
    BY <1>3 DEF Hold, Advance, ProgramWrite, WriteAccepted, programVars
  <2>2. pc \in Nat /\ pc' \in Nat /\ pc <= pc'
    BY <1>3, ControllerAssumption DEF Hold, Advance, NextPc, EngineInv, EngineTypeOK, ControllerInv,
       ControllerTypeOK, PcNeverWraps, PcValue
  <2>3. \A op : Reached(op) => Reached(op)'
    BY <2>1, <2>2, ReachedGrows DEF EngineInv
  <2>4. \A op : Strobe(op) => Reached(op)
    BY <2>1, <2>2 DEF Strobe, Reached, EngineInv, RunsLoadedProgram
  <2>5. Reached("STORE_C") \/ (~stored_valid /\ stored_c = Zero)
    BY <2>1 DEF EngineInv, NothingCarriesOver
  <2>6. Reached("MAC_TILE") \/ c = Zero
    BY <2>1 DEF EngineInv, NothingCarriesOver
  <2>7. Reached("STORE_C")' \/ (~stored_valid' /\ stored_c' = Zero)
    BY <2>3, <2>4, <2>5 DEF StoreResult
  <2>8. Reached("MAC_TILE")' \/ c' = Zero
    BY <2>3, <2>4, <2>6 DEF TileClock
  <2>9. QED
    BY <2>7, <2>8
<1>4. ~StartEmpty(start) /\ ~Finish /\ ~Rest(start)
  BY <1>1 DEF StartEmpty, Finish, Rest
<1>5. QED
  BY <1>2, <1>3, <1>4 DEF SequencerEdge

\* A run ends on the last edge of its last instruction, and STORE_C beats a wipe.
LEMMA SurviveStep ==
  ASSUME EngineInv, NEW start \in BOOLEAN, NEW wipe \in BOOLEAN, SequencerEdge(start), StoreResult(wipe)
  PROVE  StoreSurvives'
<1>1. SUFFICES ASSUME done', opcode' = "STORE_C"
               PROVE  stored_valid'
  BY DEF StoreSurvives
<1>2. ~StartEmpty(start) /\ ~StartProgram(start) /\ ~Hold /\ ~Advance /\ ~Rest(start)
  BY <1>1 DEF StartEmpty, StartProgram, Hold, Advance, Rest
<1>3. busy /\ opcode = "STORE_C"
  BY <1>1, <1>2 DEF SequencerEdge, Finish
<1>4. Strobe("STORE_C")
  BY <1>3 DEF Strobe, EngineInv, ControllerInv, StrobesOnlyInRun
<1>5. QED
  BY <1>4 DEF StoreResult

\* One edge of the engine keeps its invariant, for inputs that never write the
\* program at a START edge.
LEMMA EngineStep ==
  ASSUME EngineInv, NEW w, PortOK(w), NEW d, DataOK(d),
         NEW start \in BOOLEAN, NEW clear \in BOOLEAN, ~(start /\ w.we),
         EngineEdge(w, d, start, clear), program_len' \in PcValue
  PROVE  EngineInv'
<1>1. ProgramWrite(w) /\ SequencerEdge(start) /\ DataWrite(d) /\ LoadOperands
  BY DEF EngineEdge
<1>2. TileClock(clear \/ start) /\ StoreResult(clear \/ start) /\ (clear \/ start) \in BOOLEAN
  BY DEF EngineEdge
<1>3. ControllerInv'
  BY <1>1, ClockInv DEF EngineInv
<1>4. EngineTypeOK'
  BY <1>1, <1>2, <1>3, DataTypes DEF EngineInv, EngineTypeOK, ControllerInv
<1>5. CyclesPositive'
  BY <1>1, WriteKeepsPositive DEF EngineInv, ControllerInv
<1>6. RunsLoadedProgram'
  BY <1>1, LoadedStep
<1>7. NothingCarriesOver'
  BY <1>1, <1>2, CarryStep
<1>8. StoreSurvives'
  BY <1>1, <1>2, SurviveStep
<1>9. QED
  BY <1>3, <1>4, <1>5, <1>6, <1>7, <1>8 DEF EngineInv

LEMMA EngineResetInv ==
  ASSUME EngineReset, program_len' \in PcValue
  PROVE  EngineInv'
<1>1. ControllerInv'
  BY ResetInv DEF EngineReset
<1>2. EngineTypeOK'
  BY <1>1, ZeroTile DEF EngineReset, EngineTypeOK, ControllerInv
<1>3. CyclesPositive' /\ RunsLoadedProgram' /\ NothingCarriesOver' /\ StoreSurvives'
  BY DEF EngineReset, ControllerReset, CyclesPositive, RunsLoadedProgram, NothingCarriesOver, StoreSurvives
<1>4. QED
  BY <1>1, <1>2, <1>3 DEF EngineInv

LEMMA EngineInitInv ==
  ASSUME EngineInit, program_len \in PcValue
  PROVE  EngineInv
<1>1. ControllerInv
  BY InitInv DEF EngineInit
<1>2. EngineTypeOK
  BY <1>1, ZeroTile DEF EngineInit, MemInit, DatapathInit, EngineTypeOK, ControllerInv
<1>3. CyclesPositive /\ RunsLoadedProgram /\ NothingCarriesOver /\ StoreSurvives
  BY DEF EngineInit, ControllerInit, ProgramInit, SequencerInit, CyclesPositive,
     RunsLoadedProgram, NothingCarriesOver, StoreSurvives
<1>4. QED
  BY <1>1, <1>2, <1>3 DEF EngineInv

LEMMA EngineStutter ==
  ASSUME EngineInv, UNCHANGED engineVars
  PROVE  EngineInv'
<1>1. ControllerInv'
  BY StutterInv DEF EngineInv, engineVars
<1>2. EngineTypeOK'
  BY <1>1 DEF EngineInv, EngineTypeOK, ControllerInv, engineVars, dataVars, memVars
<1>3. CyclesPositive' /\ RunsLoadedProgram'
  BY DEF EngineInv, CyclesPositive, RunsLoadedProgram, Idx, engineVars, ctrlVars,
     programVars, sequencerVars
<1>4. NothingCarriesOver'
  BY DEF EngineInv, NothingCarriesOver, Reached, Idx, engineVars, ctrlVars,
     programVars, sequencerVars, dataVars
<1>5. StoreSurvives'
  BY DEF EngineInv, StoreSurvives, engineVars, ctrlVars, sequencerVars, dataVars
<1>6. QED
  BY <1>1, <1>2, <1>3, <1>4, <1>5 DEF EngineInv

-----------------------------------------------------------------------------
DP == [a : Tile, b : Tile, c : Acc, stored : Acc, valid : BOOLEAN]
Instruction == [op : Opcode, cycles : Nat, a : Tile, b : Tile]

LEMMA ExecType ==
  ASSUME NEW dp \in DP, NEW instr \in Instruction
  PROVE  Exec(dp, instr) \in DP
<1>1. Accumulate(dp.c, dp.a, dp.b, instr.cycles) \in Acc
  BY AccumulateType DEF DP, Instruction
<1>2. QED
  BY <1>1 DEF Exec, DP, Instruction

\* The datapaths a program goes through.
LEMMA InterpretRun ==
  ASSUME NEW dp \in DP, NEW p \in Seq(Instruction)
  PROVE  \E after \in [0 .. Len(p) -> DP] :
           /\ after[0] = dp /\ Interpret(dp, p) = after[Len(p)]
           /\ \A i \in 1 .. Len(p) : after[i] = Exec(after[i - 1], p[i])
<1>. DEFINE n == Len(p)
            step == [i \in 1 .. n |-> [x \in DP |-> Exec(x, p[i])]]
            Eq(f) == f = [i \in 0 .. n |-> IF i = 0 THEN dp ELSE Exec(f[i - 1], p[i])]
            after == CHOOSE f : Eq(f)
<1>1. n \in Nat /\ \A i \in 1 .. n : p[i] \in Instruction
  OBVIOUS
<1>2. step \in [1 .. n -> [DP -> DP]]
  BY <1>1, ExecType
<1>3. PICK f \in [0 .. n -> DP] : f[0] = dp /\ \A i \in 1 .. n : f[i] = step[i][f[i - 1]]
  <2>. HIDE DEF step, n
  <2>1. \E f \in [0 .. n -> DP] : Iterates(f, n, dp, step)
    BY <1>1, <1>2, Iterated
  <2>2. QED
    BY <2>1 DEF Iterates
<1>4. \A i \in 1 .. n : f[i] = Exec(f[i - 1], p[i])
  BY <1>1, <1>3
<1>5. Eq(f)
  BY <1>1, <1>3, <1>4
<1>6. Eq(after)
  BY <1>5
<1>7. Interpret(dp, p) = after[n]
  BY DEF Interpret
<1>. HIDE DEF after, n
<1>8. after[0] = dp /\ \A i \in 1 .. n : after[i] = Exec(after[i - 1], p[i])
  BY <1>1, <1>6
<1>9. \A i \in 0 .. n : after[i] \in DP
  <2>. DEFINE S == {i \in 0 .. n : after[i] \in DP}
  <2>1. 0 \in S
    BY <1>1, <1>8
  <2>2. ASSUME NEW i \in 0 .. n - 1, i \in S PROVE i + 1 \in S
    <3>1. i + 1 \in 1 .. n /\ (i + 1) - 1 = i /\ after[i] \in DP
      BY <1>1, <2>2
    <3>2. after[i + 1] = Exec(after[i], p[i + 1])
      BY <1>8, <3>1
    <3>3. after[i + 1] \in DP
      BY <1>1, <3>1, <3>2, ExecType
    <3>4. QED
      BY <3>3, <1>1
  <2>. HIDE DEF S
  <2>3. \A i \in 0 .. n : i \in S
    BY <1>1, <2>1, <2>2, UpTo
  <2>4. QED
    BY <2>3 DEF S
<1>10. after = [i \in 0 .. n |-> after[i]]
  BY <1>6
<1>11. after \in [0 .. n -> DP]
  BY <1>9, <1>10
<1>12. QED
  BY <1>7, <1>8, <1>11 DEF n

LEMMA InterpretNone ==
  ASSUME NEW dp \in DP, NEW p \in Seq(Instruction), Len(p) = 0
  PROVE  Interpret(dp, p) = dp
<1>1. PICK f \in [0 .. Len(p) -> DP] : f[0] = dp /\ Interpret(dp, p) = f[Len(p)]
  BY InterpretRun
<1>2. QED
  BY <1>1

\* q is one element and then p.
Follows(p, q) == Len(q) = Len(p) + 1 /\ \A i \in 1 .. Len(p) : q[i + 1] = p[i]

\* A program is its first instruction and then the rest.
LEMMA InterpretFirst ==
  ASSUME NEW dp \in DP, NEW p \in Seq(Instruction), NEW q \in Seq(Instruction), Follows(p, q)
  PROVE  Interpret(dp, q) = Interpret(Exec(dp, q[1]), p)
<1>. DEFINE n == Len(p)
<1>1. n \in Nat /\ Len(q) = n + 1 /\ q[1] \in Instruction
  BY DEF Follows
<1>2. Exec(dp, q[1]) \in DP
  BY <1>1, ExecType
<1>3. PICK f \in [0 .. Len(q) -> DP] :
           /\ f[0] = dp /\ Interpret(dp, q) = f[Len(q)]
           /\ \A i \in 1 .. Len(q) : f[i] = Exec(f[i - 1], q[i])
  BY InterpretRun
<1>4. PICK g \in [0 .. Len(p) -> DP] :
           /\ g[0] = Exec(dp, q[1]) /\ Interpret(Exec(dp, q[1]), p) = g[Len(p)]
           /\ \A i \in 1 .. Len(p) : g[i] = Exec(g[i - 1], p[i])
  BY <1>2, InterpretRun
<1>. DEFINE S == {i \in 0 .. n : f[i + 1] = g[i]}
<1>5. 0 \in S
  <2>1. f[1] = Exec(f[1 - 1], q[1])
    BY <1>1, <1>3
  <2>2. 1 - 1 = 0 /\ 0 + 1 = 1 /\ 0 \in 0 .. n
    BY <1>1
  <2>3. QED
    BY <1>3, <1>4, <2>1, <2>2
<1>6. ASSUME NEW i \in 0 .. n - 1, i \in S PROVE i + 1 \in S
  <2>1. /\ i + 1 \in 1 .. n /\ i + 2 \in 1 .. n + 1 /\ (i + 2) - 1 = i + 1 /\ (i + 1) - 1 = i
        /\ (i + 1) + 1 = i + 2 /\ i + 1 \in 0 .. n
    BY <1>1
  <2>2. f[i + 2] = Exec(f[i + 1], q[i + 2])
    BY <1>1, <1>3, <2>1
  <2>3. g[i + 1] = Exec(g[i], p[i + 1])
    BY <1>4, <2>1
  <2>4. f[i + 1] = g[i] /\ q[i + 2] = p[i + 1]
    BY <1>6, <2>1 DEF Follows
  <2>5. QED
    BY <2>1, <2>2, <2>3, <2>4
<1>7. n \in S
  <2>. HIDE DEF S, n
  <2>1. \A i \in 0 .. n : i \in S
    BY <1>1, <1>5, <1>6, UpTo
  <2>2. QED
    BY <1>1, <2>1
<1>8. QED
  BY <1>1, <1>3, <1>4, <1>7
Instr(op, cycles, a, b) == [op |-> op, cycles |-> cycles, a |-> a, b |-> b]

\* An instruction held for n + 1 cycles is one cycle of it and then n.
LEMMA ExecHeld ==
  ASSUME NEW dp \in DP, NEW op \in Opcode, NEW n \in Nat, NEW a \in Tile, NEW b \in Tile
  PROVE  Exec(dp, Instr(op, n + 1, a, b)) = Exec(Exec(dp, Instr(op, 1, a, b)), Instr(op, n, a, b))
<1>. DEFINE one == Instr(op, 1, a, b)
           rest == Instr(op, n, a, b)
           all == Instr(op, n + 1, a, b)
<1>1. CASE op = "LOAD_A"
  BY <1>1 DEF Exec, Instr, DP
<1>2. CASE op = "LOAD_B"
  BY <1>2 DEF Exec, Instr, DP
<1>3. CASE op = "STORE_C"
  BY <1>3 DEF Exec, Instr, DP
<1>4. CASE op = "MAC_TILE"
  <2>1. dp.c \in Acc /\ dp.a \in Tile /\ dp.b \in Tile
    BY DEF DP
  <2>2. Accumulate(dp.c, dp.a, dp.b, n + 1) = Accumulate(Accumulate(dp.c, dp.a, dp.b, 1), dp.a, dp.b, n)
    BY <2>1, AccumulateOnce
  <2>3. QED
    BY <1>4, <2>2 DEF Exec, Instr, DP
<1>5. CASE op \notin {"LOAD_A", "LOAD_B", "STORE_C", "MAC_TILE"}
  BY <1>5 DEF Exec, Instr
<1>6. QED
  BY <1>1, <1>2, <1>3, <1>4, <1>5

LEMMA InterpretCons ==
  ASSUME NEW dp \in DP, NEW x \in Instruction, NEW p \in Seq(Instruction)
  PROVE  Interpret(dp, <<x>> \o p) = Interpret(Exec(dp, x), p)
<1>. DEFINE q == <<x>> \o p
<1>1. q \in Seq(Instruction) /\ Len(q) = Len(p) + 1 /\ q[1] = x
  OBVIOUS
<1>2. \A i \in 1 .. Len(p) : q[i + 1] = p[i]
  OBVIOUS
<1>. HIDE DEF q
<1>3. Follows(p, q)
  BY <1>1, <1>2 DEF Follows
<1>4. Interpret(dp, q) = Interpret(Exec(dp, q[1]), p)
  BY <1>1, <1>3, InterpretFirst
<1>5. QED
  BY <1>1, <1>4 DEF q

-----------------------------------------------------------------------------
LEMMA InstrType ==
  ASSUME NEW op \in Opcode, NEW n \in Nat, NEW a \in Tile, NEW b \in Tile
  PROVE  Instr(op, n, a, b) \in Instruction
BY DEF Instr, Instruction

MemoriesOK(op, cyc, amem, bmem) ==
  /\ op \in [Slot -> Opcode] /\ cyc \in [Slot -> CycleCount]
  /\ amem \in [Slot -> Tile] /\ bmem \in [Slot -> Tile]

Lists(s, n) == s \in Seq(Instruction) /\ Len(s) = n

LEMMA ListingSlot ==
  ASSUME NEW op, NEW cyc, NEW amem, NEW bmem, MemoriesOK(op, cyc, amem, bmem), NEW addr \in Nat
  PROVE  Instr(op[Idx(addr)], cyc[Idx(addr)], amem[Idx(addr)], bmem[Idx(addr)]) \in Instruction
<1>1. Idx(addr) \in Slot
  BY IdxInSlot
<1>2. cyc[Idx(addr)] \in Nat
  BY <1>1, ControllerAssumption DEF CycleCount, MemoriesOK
<1>3. QED
  BY <1>1, <1>2, InstrType DEF MemoriesOK

LEMMA ListingType ==
  ASSUME NEW op, NEW cyc, NEW amem, NEW bmem, MemoriesOK(op, cyc, amem, bmem),
         NEW lo \in Nat, NEW hi \in Nat, NEW n \in Nat, n = hi - lo \/ (hi <= lo /\ n = 0)
  PROVE  Lists(Listing(op, cyc, amem, bmem, lo, hi), n)
<1>. DEFINE s == Listing(op, cyc, amem, bmem, lo, hi)
<1>1. 1 .. hi - lo = 1 .. n
  OBVIOUS
<1>2. s = [i \in 1 .. n |-> Instr(op[Idx(lo + i - 1)], cyc[Idx(lo + i - 1)],
                                 amem[Idx(lo + i - 1)], bmem[Idx(lo + i - 1)])]
  BY <1>1 DEF Listing, Instr
<1>3. ASSUME NEW i \in 1 .. n PROVE s[i] \in Instruction
  <2>1. lo + i - 1 \in Nat
    OBVIOUS
  <2>2. Instr(op[Idx(lo + i - 1)], cyc[Idx(lo + i - 1)],
              amem[Idx(lo + i - 1)], bmem[Idx(lo + i - 1)]) \in Instruction
    BY <2>1, ListingSlot
  <2>3. QED
    BY <1>2, <2>2
<1>4. s = [i \in 1 .. n |-> s[i]]
  BY <1>2
<1>. HIDE DEF s
<1>5. s \in Seq(Instruction) /\ Len(s) = n
  BY <1>3, <1>4
<1>6. QED
  BY <1>5 DEF Lists, s

\* A listing is its first slot and then the rest.
LEMMA ListingCons ==
  ASSUME NEW op, NEW cyc, NEW amem, NEW bmem, MemoriesOK(op, cyc, amem, bmem),
         NEW lo \in Nat, NEW hi \in Nat, lo < hi
  PROVE  Listing(op, cyc, amem, bmem, lo, hi) =
           <<Instr(op[Idx(lo)], cyc[Idx(lo)], amem[Idx(lo)], bmem[Idx(lo)])>>
             \o Listing(op, cyc, amem, bmem, lo + 1, hi)
<1>. DEFINE all == Listing(op, cyc, amem, bmem, lo, hi)
           rest == Listing(op, cyc, amem, bmem, lo + 1, hi)
           one == Instr(op[Idx(lo)], cyc[Idx(lo)], amem[Idx(lo)], bmem[Idx(lo)])
           n == hi - lo
<1>1. n \in Nat /\ n - 1 \in Nat /\ lo + 1 \in Nat /\ n - 1 = hi - (lo + 1)
  OBVIOUS
<1>2. Lists(all, n)
  BY <1>1, ListingType
<1>3. Lists(rest, n - 1)
  BY <1>1, ListingType
<1>4. all[1] = one
  <2>1. 1 \in 1 .. hi - lo /\ lo + 1 - 1 = lo
    OBVIOUS
  <2>2. QED
    BY <2>1 DEF Listing, Instr
<1>5. ASSUME NEW i \in 1 .. n - 1 PROVE all[i + 1] = rest[i]
  <2>1. i + 1 \in 1 .. hi - lo /\ lo + (i + 1) - 1 = (lo + 1) + i - 1 /\ i \in 1 .. hi - (lo + 1)
    OBVIOUS
  <2>2. QED
    BY <2>1 DEF Listing
<1>6. one \in Instruction
  BY ListingSlot
<1>. HIDE DEF all, rest, one, n
<1>7. all = <<one>> \o rest
  <2>1. /\ all \in Seq(Instruction) /\ Len(all) = n
        /\ rest \in Seq(Instruction) /\ Len(rest) = n - 1
    BY <1>2, <1>3 DEF Lists
  <2>2. ASSUME NEW i \in 1 .. n PROVE all[i] = (<<one>> \o rest)[i]
    <3>1. CASE i = 1
      BY <1>4, <1>6, <2>1, <3>1
    <3>2. CASE i # 1
      <4>1. i - 1 \in 1 .. n - 1 /\ (i - 1) + 1 = i
        BY <1>1, <3>2
      <4>2. (<<one>> \o rest)[i] = rest[i - 1]
        BY <1>1, <1>6, <2>1, <4>1
      <4>3. QED
        BY <1>5, <4>1, <4>2
    <3>3. QED
      BY <3>1, <3>2
  <2>3. <<one>> \o rest \in Seq(Instruction) /\ Len(<<one>> \o rest) = n
    BY <1>1, <1>6, <2>1
  <2>4. QED
    BY <2>1, <2>2, <2>3
<1>8. QED
  BY <1>7 DEF all, rest, one

-----------------------------------------------------------------------------
\* What is left of a run is its current instruction and then the slots behind it.
LEMMA LeftOfRun ==
  ASSUME NEW dp \in DP, NEW instr \in Instruction,
         NEW op, NEW cyc, NEW amem, NEW bmem, MemoriesOK(op, cyc, amem, bmem),
         NEW lo \in Nat, NEW hi \in Nat
  PROVE  Interpret(dp, <<instr>> \o Listing(op, cyc, amem, bmem, lo, hi)) =
           Interpret(Exec(dp, instr), Listing(op, cyc, amem, bmem, lo, hi))
<1>1. PICK n \in Nat : n = hi - lo \/ (hi <= lo /\ n = 0)
  <2>1. hi - lo \in Nat \/ hi <= lo
    OBVIOUS
  <2>2. QED
    BY <2>1
<1>2. Listing(op, cyc, amem, bmem, lo, hi) \in Seq(Instruction)
  BY <1>1, ListingType DEF Lists
<1>3. QED
  BY <1>2, InterpretCons

Behind == Listing(opcode_mem, cycles_mem, a_mem, b_mem, pc + 1, program_len)
Current(n) == Instr(opcode, n, a_mem[Idx(pc)], b_mem[Idx(pc)])

LEMMA EngineTypes ==
  ASSUME EngineTypeOK
  PROVE  /\ Datapath \in DP /\ MemoriesOK(opcode_mem, cycles_mem, a_mem, b_mem)
         /\ pc \in Nat /\ program_len \in Nat /\ cycles_left \in Nat
         /\ \A n \in Nat : Current(n) \in Instruction
<1>1. pc \in Nat /\ program_len \in Nat /\ cycles_left \in Nat /\ opcode \in Opcode
  BY ControllerAssumption DEF EngineTypeOK, ControllerTypeOK, PcValue, CycleCount
<1>2. a_mem[Idx(pc)] \in Tile /\ b_mem[Idx(pc)] \in Tile
  BY <1>1, IdxInSlot DEF EngineTypeOK
<1>3. \A n \in Nat : Current(n) \in Instruction
  BY <1>1, <1>2, InstrType DEF Current
<1>4. Datapath \in DP
  BY DEF EngineTypeOK, Datapath, DP
<1>5. MemoriesOK(opcode_mem, cycles_mem, a_mem, b_mem)
  BY DEF EngineTypeOK, ControllerTypeOK, MemoriesOK
<1>6. QED
  BY <1>1, <1>3, <1>4, <1>5

LEMMA EngineTypesNext ==
  ASSUME EngineTypeOK'
  PROVE  /\ Datapath' \in DP /\ MemoriesOK(opcode_mem', cycles_mem', a_mem', b_mem')
         /\ pc' \in Nat /\ program_len' \in Nat /\ cycles_left' \in Nat
         /\ \A n \in Nat : Current(n)' \in Instruction
<1>1. pc' \in Nat /\ program_len' \in Nat /\ cycles_left' \in Nat /\ opcode' \in Opcode
  BY ControllerAssumption DEF EngineTypeOK, ControllerTypeOK, PcValue, CycleCount
<1>2. a_mem'[Idx(pc')] \in Tile /\ b_mem'[Idx(pc')] \in Tile
  BY <1>1, IdxInSlot DEF EngineTypeOK
<1>3. \A n \in Nat : Current(n)' \in Instruction
  BY <1>1, <1>2, InstrType DEF Current, Idx
<1>4. Datapath' \in DP
  BY DEF EngineTypeOK, Datapath, DP
<1>5. MemoriesOK(opcode_mem', cycles_mem', a_mem', b_mem')
  BY DEF EngineTypeOK, ControllerTypeOK, MemoriesOK
<1>6. QED
  BY <1>1, <1>3, <1>4, <1>5

LEMMA AheadIs == Ahead = <<Current(cycles_left)>> \o Behind
BY DEF Ahead, Current, Behind, Instr

LEMMA ResultAhead ==
  ASSUME EngineTypeOK
  PROVE  Interpret(Datapath, Ahead) = Interpret(Exec(Datapath, Current(cycles_left)), Behind)
BY EngineTypes, AheadIs, LeftOfRun DEF Behind

LEMMA ResultAheadNext ==
  ASSUME EngineTypeOK'
  PROVE  Interpret(Datapath, Ahead)' = Interpret(Exec(Datapath', Current(cycles_left)'), Behind')
<1>1. Ahead' = <<Current(cycles_left)'>> \o Behind'
  BY DEF Ahead, Current, Behind, Instr
<1>2. Interpret(Datapath, Ahead)' = Interpret(Datapath', Ahead')
  BY DEF Interpret, Exec
<1>3. QED
  BY <1>1, <1>2, EngineTypesNext, LeftOfRun DEF Behind

\* What an instruction does to a datapath, without the CASE.
ExecutesAs(dp, instr) ==
  /\ instr.op = "LOAD_A" => Exec(dp, instr) = [dp EXCEPT !.a = instr.a]
  /\ instr.op = "LOAD_B" => Exec(dp, instr) = [dp EXCEPT !.b = instr.b]
  /\ instr.op = "MAC_TILE" =>
       Exec(dp, instr) = [dp EXCEPT !.c = Accumulate(dp.c, dp.a, dp.b, instr.cycles)]
  /\ instr.op = "STORE_C" => Exec(dp, instr) = [dp EXCEPT !.stored = dp.c, !.valid = TRUE]
  /\ instr.op \notin {"LOAD_A", "LOAD_B", "MAC_TILE", "STORE_C"} => Exec(dp, instr) = dp

LEMMA ExecCases ==
  ASSUME NEW dp \in DP, NEW instr \in Instruction
  PROVE  ExecutesAs(dp, instr)
BY DEF Exec, DP, ExecutesAs

\* One clock of a run is one cycle of the current instruction.
LEMMA ClockIsExec ==
  ASSUME EngineInv, busy, LoadOperands, TileClock(FALSE), StoreResult(FALSE)
  PROVE  Datapath' = Exec(Datapath, Current(1))
<1>1. valid
  BY DEF EngineInv, ControllerInv, StrobesOnlyInRun
<1>2. /\ a_q' = IF opcode = "LOAD_A" THEN a_mem[Idx(pc)] ELSE a_q
      /\ b_q' = IF opcode = "LOAD_B" THEN b_mem[Idx(pc)] ELSE b_q
      /\ c' = IF opcode = "MAC_TILE" THEN Accumulate(c, a_q, b_q, 1) ELSE c
      /\ stored_c' = IF opcode = "STORE_C" THEN c ELSE stored_c
  BY <1>1 DEF LoadOperands, TileClock, StoreResult, Strobe
<1>3. stored_valid' = IF opcode = "STORE_C" THEN TRUE ELSE stored_valid
  BY <1>1 DEF StoreResult, Strobe, EngineInv, EngineTypeOK
<1>4. ExecutesAs(Datapath, Current(1))
  BY EngineTypes, ExecCases DEF EngineInv
<1>5. /\ Current(1).op = opcode /\ Current(1).cycles = 1
      /\ Current(1).a = a_mem[Idx(pc)] /\ Current(1).b = b_mem[Idx(pc)]
  BY DEF Current, Instr
<1>6. /\ Datapath.a = a_q /\ Datapath.b = b_q /\ Datapath.c = c
      /\ Datapath.stored = stored_c /\ Datapath.valid = stored_valid
  BY DEF Datapath
<1>7. Datapath' = [a |-> a_q', b |-> b_q', c |-> c', stored |-> stored_c', valid |-> stored_valid']
  BY DEF Datapath
<1>8. CASE opcode = "LOAD_A"
  <2>1. Exec(Datapath, Current(1)) = [Datapath EXCEPT !.a = a_mem[Idx(pc)]]
    BY <1>4, <1>5, <1>8 DEF ExecutesAs
  <2>2. QED
    BY <1>2, <1>3, <1>7, <1>8, <2>1 DEF Datapath
<1>9. CASE opcode = "LOAD_B"
  <2>1. Exec(Datapath, Current(1)) = [Datapath EXCEPT !.b = b_mem[Idx(pc)]]
    BY <1>4, <1>5, <1>9 DEF ExecutesAs
  <2>2. QED
    BY <1>2, <1>3, <1>7, <1>9, <2>1 DEF Datapath
<1>10. CASE opcode = "MAC_TILE"
  <2>1. Exec(Datapath, Current(1)) = [Datapath EXCEPT !.c = Accumulate(c, a_q, b_q, 1)]
    BY <1>4, <1>5, <1>6, <1>10 DEF ExecutesAs
  <2>2. QED
    BY <1>2, <1>3, <1>7, <1>10, <2>1 DEF Datapath
<1>11. CASE opcode = "STORE_C"
  <2>1. Exec(Datapath, Current(1)) = [Datapath EXCEPT !.stored = c, !.valid = TRUE]
    BY <1>4, <1>5, <1>6, <1>11 DEF ExecutesAs
  <2>2. QED
    BY <1>2, <1>3, <1>7, <1>11, <2>1 DEF Datapath
<1>12. CASE opcode \notin {"LOAD_A", "LOAD_B", "MAC_TILE", "STORE_C"}
  <2>1. Exec(Datapath, Current(1)) = Datapath
    BY <1>4, <1>5, <1>12 DEF ExecutesAs
  <2>2. QED
    BY <1>2, <1>3, <1>7, <1>12, <2>1 DEF Datapath
<1>13. QED
  BY <1>8, <1>9, <1>10, <1>11, <1>12

\* A clock in which the run goes on does not move its result, and the clock
\* in which it ends leaves the datapath with it.
LEMMA RunClock ==
  ASSUME EngineInv, EngineTypeOK', busy, NEW w, NEW d, EngineEdge(w, d, FALSE, FALSE),
         program_len' = program_len
  PROVE  /\ busy' => Interpret(Datapath, Ahead)' = Interpret(Datapath, Ahead)
         /\ ~busy' => Datapath' = Interpret(Datapath, Ahead)
<1>. DEFINE x == Exec(Datapath, Current(1))
<1>1. /\ opcode_mem' = opcode_mem /\ cycles_mem' = cycles_mem
      /\ a_mem' = a_mem /\ b_mem' = b_mem
  BY DEF EngineEdge, ProgramWrite, WriteAccepted, DataWrite, DataAccepted, programVars, memVars
<1>2. /\ Datapath \in DP /\ MemoriesOK(opcode_mem, cycles_mem, a_mem, b_mem)
      /\ pc \in Nat /\ program_len \in Nat /\ cycles_left \in Nat
  BY EngineTypes DEF EngineInv
<1>3. Datapath' = x
  BY ClockIsExec DEF EngineEdge
<1>4. Interpret(Datapath, Ahead) = Interpret(Exec(Datapath, Current(cycles_left)), Behind)
  BY ResultAhead DEF EngineInv
<1>5. Interpret(Datapath, Ahead)' = Interpret(Exec(Datapath', Current(cycles_left)'), Behind')
  BY ResultAheadNext
<1>6. cycles_left > 0
  BY DEF EngineInv, ControllerInv, StrobesOnlyInRun
<1>7. NextPc = pc + 1
  BY <1>2, ControllerAssumption DEF NextPc, EngineInv, ControllerInv, PcNeverWraps
<1>8. CASE Hold
  <2>1. /\ pc' = pc /\ opcode' = opcode /\ busy'
        /\ cycles_left' = cycles_left - 1 /\ cycles_left > 1
    BY <1>8 DEF Hold
  <2>2. Behind' = Behind
    BY <1>1, <2>1 DEF Behind, Listing, Idx
  <2>3. Current(cycles_left)' = Current(cycles_left - 1)
    BY <1>1, <2>1 DEF Current, Instr, Idx
  <2>4. Exec(Datapath, Current(cycles_left)) = Exec(x, Current(cycles_left - 1))
    <3>1. cycles_left - 1 \in Nat /\ (cycles_left - 1) + 1 = cycles_left
      BY <1>2, <2>1
    <3>2. opcode \in Opcode /\ a_mem[Idx(pc)] \in Tile /\ b_mem[Idx(pc)] \in Tile
      BY <1>2, IdxInSlot DEF EngineInv, EngineTypeOK, ControllerTypeOK
    <3>3. Exec(Datapath, Current((cycles_left - 1) + 1)) = Exec(x, Current(cycles_left - 1))
      BY <1>2, <3>1, <3>2, ExecHeld DEF Current
    <3>4. QED
      BY <3>1, <3>3
  <2>5. QED
    BY <1>3, <1>4, <1>5, <2>1, <2>2, <2>3, <2>4
<1>9. CASE Advance
  <2>1. /\ pc' = pc + 1 /\ opcode' = opcode_mem[Idx(pc + 1)] /\ busy'
        /\ cycles_left' = NormalizeCycles(cycles_mem[Idx(pc + 1)])
        /\ cycles_left <= 1 /\ pc + 1 < program_len
    BY <1>7, <1>9 DEF Advance, MoreToRun
  <2>2. cycles_left = 1 /\ pc + 1 \in Nat
    BY <1>2, <1>6, <2>1
  <2>3. NormalizeCycles(cycles_mem[Idx(pc + 1)]) = cycles_mem[Idx(pc + 1)]
    BY <2>2, IdxInSlot DEF NormalizeCycles, EngineInv, CyclesPositive
  <2>4. Current(cycles_left)' = Instr(opcode_mem[Idx(pc + 1)], cycles_mem[Idx(pc + 1)],
                                      a_mem[Idx(pc + 1)], b_mem[Idx(pc + 1)])
    BY <1>1, <2>1, <2>3 DEF Current, Instr, Idx
  <2>5. Behind' = Listing(opcode_mem, cycles_mem, a_mem, b_mem, (pc + 1) + 1, program_len)
    BY <1>1, <2>1 DEF Behind, Listing, Idx
  <2>6. Behind = <<Current(cycles_left)'>> \o Behind'
    BY <1>2, <2>1, <2>2, <2>4, <2>5, ListingCons DEF Behind
  <2>7. Interpret(Datapath, Ahead)' = Interpret(Datapath', <<Current(cycles_left)'>> \o Behind')
    <3>1. Ahead' = <<Current(cycles_left)'>> \o Behind'
      BY DEF Ahead, Current, Behind, Instr
    <3>2. QED
      BY <3>1 DEF Interpret, Exec
  <2>8. QED
    BY <1>3, <1>4, <2>1, <2>2, <2>6, <2>7
<1>10. CASE Finish
  <2>1. ~busy' /\ cycles_left <= 1 /\ ~(pc + 1 < program_len)
    BY <1>7, <1>10 DEF Finish, MoreToRun
  <2>2. cycles_left = 1 /\ pc + 1 \in Nat /\ program_len <= pc + 1 /\ 0 \in Nat
    BY <1>2, <1>6, <2>1
  <2>3. Lists(Behind, 0)
    BY <1>2, <2>2, ListingType DEF Behind
  <2>4. x \in DP
    BY <1>3, EngineTypesNext
  <2>5. Interpret(x, Behind) = x
    BY <2>3, <2>4, InterpretNone DEF Lists
  <2>6. QED
    BY <1>3, <1>4, <2>1, <2>2, <2>5
<1>11. ~StartEmpty(FALSE) /\ ~StartProgram(FALSE) /\ ~Rest(FALSE)
  BY DEF StartEmpty, StartProgram, Rest
<1>12. QED
  BY <1>8, <1>9, <1>10, <1>11 DEF EngineEdge, SequencerEdge

\* The program a START would run if nothing were on its way into the memories.
Program == Listing(opcode_mem, cycles_mem, a_mem, b_mem, 0, program_len)

LEMMA NothingOnItsWay ==
  ASSUME NEW w, NEW d, ~WriteAccepted(w), ~DataAccepted(d)
  PROVE  ProgramAfter(w, d) = Program
BY DEF ProgramAfter, Program

\* What is on its way lands.
LEMMA WritesLand ==
  ASSUME NEW w, NEW d, ProgramWrite(w), DataWrite(d), program_len' = program_len
  PROVE  Program' = ProgramAfter(w, d)
<1>1. opcode_mem' = IF WriteAccepted(w) THEN [opcode_mem EXCEPT ![Idx(w.addr)] = w.op] ELSE opcode_mem
  BY DEF ProgramWrite, programVars
<1>2. cycles_mem' = IF WriteAccepted(w) THEN [cycles_mem EXCEPT ![Idx(w.addr)] = NormalizeCycles(w.cycles)]
                                        ELSE cycles_mem
  BY DEF ProgramWrite, programVars
<1>3. a_mem' = IF DataAccepted(d) /\ d.bank = 0 THEN [a_mem EXCEPT ![Idx(d.addr)] = d.tile] ELSE a_mem
  BY DEF DataWrite, memVars
<1>4. b_mem' = IF DataAccepted(d) /\ d.bank = 1 THEN [b_mem EXCEPT ![Idx(d.addr)] = d.tile] ELSE b_mem
  BY DEF DataWrite, memVars
<1>5. Program' = Listing(opcode_mem', cycles_mem', a_mem', b_mem', 0, program_len)
  BY DEF Program, Listing, Idx
<1>6. QED
  BY <1>1, <1>2, <1>3, <1>4, <1>5 DEF ProgramAfter

Wiped(wipe) == IF wipe THEN Cleared(Datapath) ELSE Datapath

\* A clock without a run wipes the datapath or leaves it.
LEMMA IdleDatapath ==
  ASSUME EngineInv, ~busy, NEW wipe \in BOOLEAN, LoadOperands, TileClock(wipe), StoreResult(wipe)
  PROVE  Datapath' = Wiped(wipe)
<1>1. ~valid
  BY DEF EngineInv, ControllerInv, StrobesOnlyInRun
<1>2. \A op : ~Strobe(op)
  BY <1>1 DEF Strobe
<1>3. a_q' = a_q /\ b_q' = b_q
  BY <1>2 DEF LoadOperands
<1>4. c' = IF wipe THEN Zero ELSE c
  BY <1>2 DEF TileClock
<1>5. stored_c' = IF wipe THEN Zero ELSE stored_c
  BY <1>2 DEF StoreResult
<1>6. stored_valid' = IF wipe THEN FALSE ELSE stored_valid
  BY <1>2 DEF StoreResult, EngineInv, EngineTypeOK
<1>7. QED
  BY <1>3, <1>4, <1>5, <1>6 DEF Datapath, Wiped, Cleared

\* The clock of a START begins the run that was committed to.
LEMMA StartClock ==
  ASSUME EngineInv, EngineTypeOK', ~busy, NEW w, NEW d, ~w.we, ~d.we, NEW clear \in BOOLEAN,
         EngineEdge(w, d, TRUE, clear), program_len' = program_len
  PROVE  /\ busy' => Interpret(Datapath, Ahead)' = Interpret(Cleared(Datapath), Program)
         /\ ~busy' => Datapath' = Interpret(Cleared(Datapath), Program) /\ done'
         /\ Program' = Program
<1>1. /\ opcode_mem' = opcode_mem /\ cycles_mem' = cycles_mem
      /\ a_mem' = a_mem /\ b_mem' = b_mem
  BY DEF EngineEdge, ProgramWrite, WriteAccepted, DataWrite, DataAccepted, programVars, memVars
<1>2. /\ Datapath' \in DP /\ MemoriesOK(opcode_mem, cycles_mem, a_mem, b_mem)
      /\ program_len \in Nat
  BY EngineTypes, EngineTypesNext DEF EngineInv
<1>3. Datapath' = Cleared(Datapath)
  BY IdleDatapath DEF EngineEdge, Wiped
<1>4. Program' = Program
  BY <1>1 DEF Program, Listing, Idx
<1>5. CASE StartProgram(TRUE)
  <2>1. /\ pc' = 0 /\ opcode' = opcode_mem[0] /\ busy' /\ program_len # 0
        /\ cycles_left' = NormalizeCycles(cycles_mem[0])
    BY <1>5 DEF StartProgram
  <2>2. NormalizeCycles(cycles_mem[0]) = cycles_mem[0]
    BY SlotZero DEF NormalizeCycles, EngineInv, CyclesPositive
  <2>3. Current(cycles_left)' = Instr(opcode_mem[Idx(0)], cycles_mem[Idx(0)], a_mem[Idx(0)], b_mem[Idx(0)])
    BY <1>1, <2>1, <2>2, SlotZero DEF Current, Instr, Idx
  <2>4. Behind' = Listing(opcode_mem, cycles_mem, a_mem, b_mem, 0 + 1, program_len)
    BY <1>1, <2>1 DEF Behind, Listing, Idx
  <2>5. 0 < program_len /\ 0 \in Nat
    BY <1>2, <2>1
  <2>6. Program = <<Current(cycles_left)'>> \o Behind'
    <3>1. Program = <<Instr(opcode_mem[Idx(0)], cycles_mem[Idx(0)], a_mem[Idx(0)], b_mem[Idx(0)])>>
                      \o Listing(opcode_mem, cycles_mem, a_mem, b_mem, 0 + 1, program_len)
      BY <1>2, <2>5, ListingCons DEF Program
    <3>2. QED
      BY <2>3, <2>4, <3>1
  <2>7. Interpret(Datapath, Ahead)' = Interpret(Datapath', <<Current(cycles_left)'>> \o Behind')
    <3>1. Ahead' = <<Current(cycles_left)'>> \o Behind'
      BY DEF Ahead, Current, Behind, Instr
    <3>2. QED
      BY <3>1 DEF Interpret, Exec
  <2>8. QED
    BY <1>3, <1>4, <2>1, <2>6, <2>7
<1>6. CASE StartEmpty(TRUE)
  <2>1. ~busy' /\ done' /\ program_len <= 0 /\ 0 \in Nat
    BY <1>6 DEF StartEmpty
  <2>2. Lists(Program, 0)
    BY <1>2, <2>1, ListingType DEF Program
  <2>3. Interpret(Datapath', Program) = Datapath'
    BY <1>2, <2>2, InterpretNone DEF Lists
  <2>4. QED
    BY <1>3, <1>4, <2>1, <2>3
<1>7. ~Hold /\ ~Advance /\ ~Finish /\ ~Rest(TRUE)
  BY DEF Hold, Advance, Finish, Rest
<1>8. QED
  BY <1>5, <1>6, <1>7 DEF EngineEdge, SequencerEdge

\* A clock without a run lets the writes land.
LEMMA IdleClock ==
  ASSUME EngineInv, ~busy, NEW w, NEW d, NEW clear \in BOOLEAN, EngineEdge(w, d, FALSE, clear)
  PROVE  /\ ~busy' /\ ~done' /\ Datapath' = Wiped(clear)
         /\ program_len' = program_len => Program' = ProgramAfter(w, d)
<1>1. Datapath' = Wiped(clear)
  BY IdleDatapath DEF EngineEdge
<1>2. ~busy' /\ ~done'
  BY DEF EngineEdge, SequencerEdge, StartEmpty, StartProgram, Hold, Advance, Finish, Rest
<1>3. program_len' = program_len => Program' = ProgramAfter(w, d)
  BY WritesLand DEF EngineEdge
<1>4. QED
  BY <1>1, <1>2, <1>3
=============================================================================
