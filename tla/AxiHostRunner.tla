----------------------------- MODULE AxiHostRunner -----------------------------
(***************************************************************************)
(* The C host runner on the AXI register file, with write_reg and read_reg *)
(* as memory-mapped accesses that return when their response was taken     *)
(* (fpga/aws_f2/host_runner_notes.md; write_reg, read_reg and wait_done of *)
(* tests_rtl/test_axi_lite_tile_engine.py).                                *)
(***************************************************************************)
EXTENDS AxiLiteTileEngine, CRunner

\* TRUE: the C runner, which looks at STATUS bit 2 before it reads C.
\* FALSE: the cocotb host of this wrapper, which only waits for done.
CONSTANT ChecksStoredValid
ASSUME ChecksAssumption == ChecksStoredValid \in BOOLEAN

allVars == <<vars, runnerVars>>

\* The register map of axi_lite_host_regs.
Register ==
  [CONTROL |-> 0, PROGRAM_LEN |-> 8, INSTR_ADDR |-> 16, INSTR_WORD |-> 20,
   DATA_ADDR |-> 24, DATA_BANK |-> 28, DATA_WORD |-> 32]

\* wdata_i as the register takes it; the wrapper decodes the two words.
WriteReg(addr, value) ==
  \/ addr = Register.CONTROL /\ WriteControl(value % 2 = 1, (value \div 2) % 2 = 1)
  \/ addr = Register.PROGRAM_LEN /\ WriteProgramLen(value % PcSpan)
  \/ addr = Register.INSTR_ADDR /\ WriteInstrAddr(value % PcSpan)
  \/ /\ addr = Register.INSTR_WORD
     /\ WriteInstrWord(OpName(value[1] % 16), (value[2] + 256 * value[3]) % CyclesSpan)
  \/ addr = Register.DATA_ADDR /\ WriteDataAddr(value % PcSpan)
  \/ addr = Register.DATA_BANK /\ WriteDataBank(value % 4)
  \/ addr = Register.DATA_WORD /\ WriteDataWord(unpack_i8x4(value))

InFlight == bvalid \/ rvalid

IssueWrite ==
  /\ ~InFlight /\ phase = "write"
  /\ WriteReg(writes[i].addr, writes[i].value) /\ NoRead(FALSE)
  /\ UNCHANGED runnerVars

EndWrite == bvalid /\ NoWrite(TRUE) /\ NoRead(FALSE) /\ WroteReg

IssueRead ==
  /\ ~InFlight /\ NoWrite(FALSE)
  /\ \/ phase = "poll" /\ Read("STATUS")
     \/ phase = "read" /\ Read("C") /\ rdata'[2][1] = NextCell
  /\ UNCHANGED runnerVars

StatusWord ==
  [rdata[2] EXCEPT !.stored_valid = @ \/ ~ChecksStoredValid]

EndRead ==
  /\ rvalid /\ NoWrite(FALSE) /\ NoRead(TRUE)
  /\ \/ rdata[1] = "STATUS" /\ (PollAgain(StatusWord) \/ PollDone(StatusWord))
     \/ rdata[1] = "C" /\ ReadC(rdata[2][2])

Access == Engine /\ (IssueWrite \/ EndWrite \/ IssueRead \/ EndRead)

Idle == Engine /\ NoWrite(FALSE) /\ NoRead(FALSE) /\ UNCHANGED runnerVars

SystemInit == AxiInit /\ RunnerInit

RunnerSpec ==
  /\ SystemInit
  /\ [][Access \/ Idle]_allVars
  /\ WF_allVars(Access)
=============================================================================
