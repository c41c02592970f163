------------------------------- MODULE HostRunner -------------------------------
(***************************************************************************)
(* The C host runner on the native register file.  An access takes one     *)
(* clock edge, a read is combinational, and any number of edges may pass   *)
(* between two accesses.                                                   *)
(***************************************************************************)
EXTENDS HostTileEngine, CRunner

\* A tile program fits the memories, and their writes are accepted: at
\* PROGRAM_LEN = 2^PC_WIDTH none would be.
ASSUME MemoryAssumption == PROGRAM_LEN >= Len(Opcodes) /\ PROGRAM_LEN < PcSpan

allVars == <<vars, runnerVars>>

\* The register map of this wrapper.
Register ==
  [CONTROL |-> 0, PROGRAM_LEN |-> 8, INSTR_ADDR |-> 16, INSTR_WORD |-> 20,
   DATA_ADDR |-> 24, DATA_BANK |-> 28, DATA_WORD |-> 32]

\* write_reg(addr, value): which register, and the bits of the value it takes.
WriteReg(addr, value) ==
  \/ addr = Register.CONTROL /\ WriteControl(value % 2 = 1, (value \div 2) % 2 = 1)
  \/ addr = Register.PROGRAM_LEN /\ WriteProgramLen(value % PcSpan)
  \/ addr = Register.INSTR_ADDR /\ WriteInstrAddr(value % PcSpan)
  \/ /\ addr = Register.INSTR_WORD
     /\ WriteInstrWord(OpName(value[1] % 16), (value[2] + 256 * value[3]) % CyclesSpan)
  \/ addr = Register.DATA_ADDR /\ WriteDataAddr(value % PcSpan)
  \/ addr = Register.DATA_BANK /\ WriteDataBank(value % 2)
  \/ addr = Register.DATA_WORD /\ WriteDataWord(unpack_i8x4(value))

Status == [busy |-> busy, done |-> done_sticky_q, stored_valid |-> stored_valid]

Access ==
  \/ phase = "write" /\ WriteReg(writes[i].addr, writes[i].value) /\ WroteReg
  \/ NoWrite /\ (PollAgain(Status) \/ PollDone(Status) \/ ReadC(stored_c[NextCell]))

Idle == NoWrite /\ UNCHANGED runnerVars

\* The host program keeps going; each of its accesses is a clock edge.
SystemInit == HostInit /\ RunnerInit

RunnerSpec ==
  /\ SystemInit
  /\ [][Access \/ Idle]_allVars
  /\ WF_allVars(Access)
=============================================================================
