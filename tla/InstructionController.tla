------------------------ MODULE InstructionController ------------------------
(***************************************************************************)
(* The program memory and sequencer of rtl/instruction_controller.sv.      *)
(*                                                                         *)
(* The module is synchronous, so one step is one rising clock edge: an     *)
(* action reads the registers as they were before the edge and the inputs  *)
(* sampled at it, and its primed variables are the registers after it.     *)
(* The always_ff block has two independent halves, the host write port     *)
(* (ProgramWrite) and the sequencer (one action per branch).  A wrapper    *)
(* conjoins both with its own registers to make its clock edge.            *)
(***************************************************************************)
EXTENDS Integers

CONSTANTS
  PROGRAM_LEN,   \* slots of the program memory
  PcSpan,        \* 2^PC_WIDTH: addresses, lengths and pc are 0 .. PcSpan-1
  CyclesSpan,    \* 2^CYCLES_WIDTH
  GlobalSpan,    \* 2^32, the width of global_cycle_o
  HostOpcodes,   \* bound: opcodes the host writes in this instance
  HostCycles,    \* bound: cycle counts the host writes in this instance
  HostLengths    \* bound: values of program_len_i in this instance

\* The 4-bit opcodes.  "UNUSED" stands for 7..15, which raise no strobe.
Opcode == {"NOP", "LOAD_A", "LOAD_B", "MAC_TILE", "STORE_C",
           "ATTENTION", "BASELINE", "UNUSED"}

Slot       == 0 .. PROGRAM_LEN - 1
PcValue    == 0 .. PcSpan - 1
CycleCount == 0 .. CyclesSpan - 1

ASSUME ControllerAssumption ==
  /\ PROGRAM_LEN \in Nat \ {0} /\ PcSpan \in Nat /\ PROGRAM_LEN <= PcSpan
  /\ CyclesSpan \in Nat /\ CyclesSpan > 1
  /\ GlobalSpan \in Nat \ {0}
  /\ HostOpcodes \subseteq Opcode
  /\ HostCycles \subseteq CycleCount
  /\ HostLengths \subseteq PcValue

\* An address keeps its low $clog2(PROGRAM_LEN) bits when it indexes a memory;
\* that is % PROGRAM_LEN because every instantiation uses a power of two.
ASSUME PowerOfTwo == \E k \in 0 .. PROGRAM_LEN : PROGRAM_LEN = 2^k

VARIABLES
  opcode_mem, cycles_mem,   \* the program memory
  program_len,              \* program_len_i, an input read at every edge
  busy, done, valid,        \* busy_o, done_o, valid_o
  pc, opcode, cycles_left,  \* pc_o, opcode_o, cycles_left_o
  global_cycle              \* global_cycle_o

programVars   == <<opcode_mem, cycles_mem>>
sequencerVars == <<busy, done, valid, pc, opcode, cycles_left, global_cycle>>
ctrlVars      == <<programVars, program_len, sequencerVars>>

\* The host write port: host_we_i with its address, opcode and cycle count.
NoProgramWrite == [we |-> FALSE, addr |-> 0, op |-> "NOP", cycles |-> 0]
ProgramPort ==
  {NoProgramWrite} \cup
  [we : {TRUE}, addr : PcValue, op : HostOpcodes, cycles : HostCycles]

Idx(addr) == addr % PROGRAM_LEN
NextPc    == (pc + 1) % PcSpan

MutantRawCycles(raw) == raw
NormalizeCycles(raw) == IF raw = 0 THEN 1 ELSE raw

-----------------------------------------------------------------------------
(* Reset: every register and every slot of the memories.                   *)

ProgramInit ==
  /\ opcode_mem = [s \in Slot |-> "NOP"]
  /\ cycles_mem = [s \in Slot |-> 1]

SequencerInit ==
  /\ busy = FALSE /\ done = FALSE /\ valid = FALSE
  /\ pc = 0 /\ opcode = "NOP" /\ cycles_left = 0 /\ global_cycle = 0

ControllerInit == ProgramInit /\ SequencerInit

ControllerReset ==
  /\ opcode_mem' = [s \in Slot |-> "NOP"]
  /\ cycles_mem' = [s \in Slot |-> 1]
  /\ busy' = FALSE /\ done' = FALSE /\ valid' = FALSE
  /\ pc' = 0 /\ opcode' = "NOP" /\ cycles_left' = 0 /\ global_cycle' = 0

-----------------------------------------------------------------------------
(* The host write port.  The bound on the address is PROGRAM_LEN cut to    *)
(* PC_WIDTH bits: a full-size memory (PROGRAM_LEN = 2^PC_WIDTH) accepts    *)
(* no write at all.                                                        *)

MutantWriteAnyTime(w) == w.we /\ w.addr < PROGRAM_LEN % PcSpan
WriteAccepted(w) == w.we /\ ~busy /\ w.addr < PROGRAM_LEN % PcSpan

ProgramWrite(w) ==
  \/ /\ WriteAccepted(w)
     /\ opcode_mem' = [opcode_mem EXCEPT ![Idx(w.addr)] = w.op]
     /\ cycles_mem' = [cycles_mem EXCEPT ![Idx(w.addr)] = NormalizeCycles(w.cycles)]
  \/ /\ ~WriteAccepted(w)
     /\ UNCHANGED programVars

-----------------------------------------------------------------------------
(* The sequencer: one action per branch of the start / busy conditional.   *)

\* START with an empty program only pulses done.
StartEmpty(start) ==
  /\ start /\ ~busy /\ program_len = 0
  /\ busy' = FALSE /\ valid' = FALSE /\ done' = TRUE
  /\ pc' = 0 /\ opcode' = "NOP" /\ cycles_left' = 0 /\ global_cycle' = 0

\* START fetches slot 0 as it was before a write at the same edge.
StartProgram(start) ==
  /\ start /\ ~busy /\ program_len # 0
  /\ busy' = TRUE /\ valid' = TRUE /\ done' = FALSE
  /\ pc' = 0 /\ opcode' = opcode_mem[0]
  /\ cycles_left' = NormalizeCycles(cycles_mem[0])
  /\ global_cycle' = 0

MutantCount == global_cycle' = global_cycle + 1
Count == global_cycle' = (global_cycle + 1) % GlobalSpan

\* The current instruction has more than one cycle to go.
Hold ==
  /\ busy /\ cycles_left > 1
  /\ cycles_left' = cycles_left - 1 /\ done' = FALSE
  /\ Count
  /\ UNCHANGED <<busy, valid, pc, opcode>>

MutantMoreToRun == NextPc <= program_len
MoreToRun == NextPc < program_len

Advance ==
  /\ busy /\ cycles_left <= 1 /\ MoreToRun
  /\ pc' = NextPc /\ opcode' = opcode_mem[Idx(NextPc)]
  /\ cycles_left' = NormalizeCycles(cycles_mem[Idx(NextPc)])
  /\ valid' = TRUE /\ done' = FALSE
  /\ Count
  /\ UNCHANGED busy

MutantFinishKeepsValid ==
  /\ busy /\ cycles_left <= 1 /\ ~MoreToRun
  /\ busy' = FALSE /\ cycles_left' = 0 /\ done' = TRUE
  /\ Count
  /\ UNCHANGED <<valid, pc, opcode>>
Finish ==
  /\ busy /\ cycles_left <= 1 /\ ~MoreToRun
  /\ busy' = FALSE /\ valid' = FALSE /\ cycles_left' = 0 /\ done' = TRUE
  /\ Count
  /\ UNCHANGED <<pc, opcode>>

Rest(start) ==
  /\ ~start /\ ~busy
  /\ done' = FALSE
  /\ UNCHANGED <<busy, valid, pc, opcode, cycles_left, global_cycle>>

SequencerEdge(start) ==
  StartEmpty(start) \/ StartProgram(start) \/ Hold \/ Advance \/ Finish \/ Rest(start)

\* The decoded one-hot outputs.
Strobe(op) == valid /\ opcode = op

-----------------------------------------------------------------------------
(* The controller with a host that drives every input freely.              *)

CtrlInit == ControllerInit /\ program_len \in HostLengths

CtrlClock ==
  \E w \in ProgramPort, start \in BOOLEAN :
    /\ ProgramWrite(w)
    /\ SequencerEdge(start)
    /\ program_len' \in HostLengths

CtrlReset == ControllerReset /\ program_len' \in HostLengths

CtrlNext == CtrlClock \/ CtrlReset

CtrlSpec     == CtrlInit /\ [][CtrlNext]_ctrlVars
\* The clock keeps ticking; nothing is assumed of the host.
CtrlFairSpec == CtrlSpec /\ WF_ctrlVars(CtrlClock)

-----------------------------------------------------------------------------
\* Every register stays within its width.
ControllerTypeOK ==
  /\ opcode_mem \in [Slot -> Opcode] /\ cycles_mem \in [Slot -> CycleCount]
  /\ program_len \in PcValue
  /\ busy \in BOOLEAN /\ done \in BOOLEAN /\ valid \in BOOLEAN
  /\ pc \in PcValue /\ opcode \in Opcode /\ cycles_left \in CycleCount
  /\ global_cycle \in 0 .. GlobalSpan - 1

\* Strobes are raised exactly during a run: no instruction is decoded before
\* START or after the edge that reports done, however done_o, busy_o, valid_o
\* and cycles_left_o were driven by the six branches.
StrobesOnlyInRun ==
  /\ busy <=> valid
  /\ busy <=> cycles_left > 0
  /\ done => ~busy

\* The PC_WIDTH-bit increment and compare (pc + 1 < program_len_i) never wrap,
\* although program_len_i is not latched and may change at any edge of a run.
PcNeverWraps == busy => pc + 1 < PcSpan

\* A run executes what the program memory holds: the slot it is in cannot have
\* been rewritten since it was fetched.  Slot 0 is excepted because a write at
\* the START edge itself lands after the fetch.
RunsProgramMemory ==
  busy /\ pc > 0 =>
    /\ opcode = opcode_mem[Idx(pc)]
    /\ cycles_left <= NormalizeCycles(cycles_mem[Idx(pc)])

\* Every run ends, whatever the host writes and however program_len_i moves.
RunsEnd == busy ~> ~busy
=============================================================================
