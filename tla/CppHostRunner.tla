----------------------------- MODULE CppHostRunner -----------------------------
(***************************************************************************)
(* The generated C++ host executable of opentsp/cpp_host_runner.py: a      *)
(* register model without a clock behind write_reg and read_reg, and the C *)
(* runner on top of it.  A run happens inside the write that starts it.    *)
(***************************************************************************)
EXTENDS CRunner

Depth == 64   \* the words of each memory

VARIABLES
  g_instr_mem, g_a_mem, g_b_mem,
  g_instr_addr, g_data_addr, g_data_bank, g_program_len,
  g_status, g_c

modelVars == <<g_instr_mem, g_a_mem, g_b_mem, g_instr_addr, g_data_addr,
               g_data_bank, g_program_len, g_status, g_c>>
allVars   == <<modelVars, runnerVars>>

Address   == 0 .. Depth - 1
ZeroWord  == <<0, 0, 0, 0>>
IdleWord  == [busy |-> FALSE, done |-> FALSE, stored_valid |-> FALSE]

ModelInit ==
  /\ g_instr_mem = [n \in Address |-> ZeroWord]
  /\ g_a_mem = [n \in Address |-> ZeroWord] /\ g_b_mem = [n \in Address |-> ZeroWord]
  /\ g_instr_addr = 0 /\ g_data_addr = 0 /\ g_data_bank = 0 /\ g_program_len = 0
  /\ g_status = IdleWord /\ g_c = Zero

\* clear_model wipes the memories too, which CLEAR of the RTL keeps.
ClearModel ==
  /\ g_instr_mem' = [n \in Address |-> ZeroWord]
  /\ g_a_mem' = [n \in Address |-> ZeroWord] /\ g_b_mem' = [n \in Address |-> ZeroWord]
  /\ g_instr_addr' = 0 /\ g_data_addr' = 0 /\ g_data_bank' = 0 /\ g_program_len' = 0
  /\ g_status' = IdleWord /\ g_c' = Zero

\* The slots execute_model visits.  Whatever its cycle count says, an
\* instruction is executed once.
Loaded ==
  [n \in 1 .. (IF g_program_len < Depth THEN g_program_len ELSE Depth) |->
     [op |-> OpName(g_instr_mem[n - 1][1]), cycles |-> 1,
      a |-> unpack_i8x4(g_a_mem[n - 1]), b |-> unpack_i8x4(g_b_mem[n - 1])]]

\* Operands and accumulators are locals, zero at every run; g_c is only
\* assigned by STORE_C.
MutantRunResult ==
  Interpret([a |-> Zero, b |-> Zero, c |-> Zero, stored |-> g_c, valid |-> FALSE],
            SubSeq(Loaded, 1, Len(Loaded) - 1))
RunResult == Interpret([a |-> Zero, b |-> Zero, c |-> Zero, stored |-> g_c, valid |-> FALSE], Loaded)

\* execute_model returns with the two bits up, whether or not anything was stored.
MutantDoneWord == [busy |-> TRUE, done |-> FALSE, stored_valid |-> FALSE]
DoneWord == [busy |-> FALSE, done |-> TRUE, stored_valid |-> TRUE]

ExecuteModel ==
  /\ g_c' = RunResult.stored /\ g_status' = DoneWord
  /\ UNCHANGED <<g_instr_mem, g_a_mem, g_b_mem, g_instr_addr, g_data_addr, g_data_bank, g_program_len>>

-----------------------------------------------------------------------------
(* host_write_reg.  Addresses are masked to the depth, the bank to one bit. *)

\* A write table sets one of the two bits.
WriteControl(value) ==
  \/ value = CONTROL_CLEAR /\ ClearModel
  \/ value = CONTROL_START /\ ExecuteModel

WriteProgramLen(n) ==
  /\ g_program_len' = n
  /\ UNCHANGED <<g_instr_mem, g_a_mem, g_b_mem, g_instr_addr, g_data_addr, g_data_bank, g_status, g_c>>

WriteInstrAddr(n) ==
  /\ g_instr_addr' = n % Depth
  /\ UNCHANGED <<g_instr_mem, g_a_mem, g_b_mem, g_data_addr, g_data_bank, g_program_len, g_status, g_c>>

WriteInstrWord(word) ==
  /\ g_instr_mem' = [g_instr_mem EXCEPT ![g_instr_addr] = word]
  /\ UNCHANGED <<g_a_mem, g_b_mem, g_instr_addr, g_data_addr, g_data_bank, g_program_len, g_status, g_c>>

WriteDataAddr(n) ==
  /\ g_data_addr' = n % Depth
  /\ UNCHANGED <<g_instr_mem, g_a_mem, g_b_mem, g_instr_addr, g_data_bank, g_program_len, g_status, g_c>>

WriteDataBank(b) ==
  /\ g_data_bank' = b % 2
  /\ UNCHANGED <<g_instr_mem, g_a_mem, g_b_mem, g_instr_addr, g_data_addr, g_program_len, g_status, g_c>>

WriteDataWord(word) ==
  /\ IF g_data_bank = 0
     THEN g_a_mem' = [g_a_mem EXCEPT ![g_data_addr] = word] /\ UNCHANGED g_b_mem
     ELSE g_b_mem' = [g_b_mem EXCEPT ![g_data_addr] = word] /\ UNCHANGED g_a_mem
  /\ UNCHANGED <<g_instr_mem, g_instr_addr, g_data_addr, g_data_bank, g_program_len, g_status, g_c>>

host_write_reg(addr, value) ==
  \/ addr = REGISTER_DEFINES.CONTROL /\ WriteControl(value)
  \/ addr = REGISTER_DEFINES.PROGRAM_LEN /\ WriteProgramLen(value)
  \/ addr = REGISTER_DEFINES.INSTR_ADDR /\ WriteInstrAddr(value)
  \/ addr = REGISTER_DEFINES.INSTR_WORD /\ WriteInstrWord(value)
  \/ addr = REGISTER_DEFINES.DATA_ADDR /\ WriteDataAddr(value)
  \/ addr = REGISTER_DEFINES.DATA_BANK /\ WriteDataBank(value)
  \/ addr = REGISTER_DEFINES.DATA_WORD /\ WriteDataWord(value)

-----------------------------------------------------------------------------
(* main: clear the model, run the matmul.  Each step is a callback of the  *)
(* runner, and they follow each other without a clock between.             *)

CppInit == ModelInit /\ RunnerInit

Callback ==
  \/ phase = "write" /\ host_write_reg(writes[i].addr, writes[i].value) /\ WroteReg
  \/ UNCHANGED modelVars /\ (PollAgain(g_status) \/ PollDone(g_status) \/ ReadC(g_c[NextCell]))

CppSpec == CppInit /\ [][Callback]_allVars /\ WF_allVars(Callback)
=============================================================================
