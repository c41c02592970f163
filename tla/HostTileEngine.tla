----------------------------- MODULE HostTileEngine -----------------------------
(***************************************************************************)
(* rtl/host_tile_engine_2x2.sv: the register file a host programs, in      *)
(* front of tile_engine_mem_2x2.  One step is one clock edge, with at most *)
(* one register write sampled at it.  A write takes effect on the engine   *)
(* one edge later, through the start / clear / write-enable pulses; the    *)
(* read port is combinational and has no state.                            *)
(***************************************************************************)
EXTENDS TileEngineMem

CONSTANT HostAddresses   \* bound: addresses the host selects in this instance
ASSUME HostAssumption == HostAddresses \subseteq PcValue

VARIABLES
  instr_addr_q, data_addr_q, data_bank_q,  \* selected by the host
  start_q, clear_tile_q,                   \* one-clock pulses to the engine
  instr_write, data_write,                 \* instr_we_q, data_we_q and what they carry
  done_sticky_q                            \* STATUS bit 1

selectVars == <<instr_addr_q, data_addr_q, data_bank_q>>
hostVars   == <<selectVars, start_q, clear_tile_q, instr_write, data_write, done_sticky_q>>
vars       == <<engineVars, hostVars>>

RegistersInit ==
  /\ program_len = 0
  /\ instr_addr_q = 0 /\ data_addr_q = 0 /\ data_bank_q = 0
  /\ start_q = FALSE /\ clear_tile_q = FALSE /\ done_sticky_q = FALSE
  /\ instr_write = NoProgramWrite /\ data_write = NoDataWrite

HostInit == EngineInit /\ RegistersInit

Reset ==
  /\ EngineReset /\ program_len' = 0
  /\ instr_addr_q' = 0 /\ data_addr_q' = 0 /\ data_bank_q' = 0
  /\ start_q' = FALSE /\ clear_tile_q' = FALSE /\ done_sticky_q' = FALSE
  /\ instr_write' = NoProgramWrite /\ data_write' = NoDataWrite

-----------------------------------------------------------------------------
(* One clock edge, by the register written at it.                          *)

\* The engine samples the pulses set by the previous edge.
Engine == EngineEdge(instr_write, data_write, start_q, clear_tile_q)

\* A pulse lasts one clock; what a write port carries matters only with its
\* enable, so the port goes back to "no write".
NoPulse == start_q' = FALSE /\ clear_tile_q' = FALSE
NoPort  == instr_write' = NoProgramWrite /\ data_write' = NoDataWrite
\* The engine's done pulse is latched.
MutantPulseOnly == done_sticky_q' = done
LatchDone == done_sticky_q' = (done_sticky_q \/ done)

NoWrite ==
  /\ Engine /\ NoPulse /\ NoPort /\ LatchDone
  /\ UNCHANGED <<program_len, selectVars>>

\* A CONTROL write with either bit clears done, also against a done pulse.
MutantControlKeepsDone(start, clear) ==
  /\ Engine /\ NoPort
  /\ start_q' = start /\ clear_tile_q' = clear
  /\ done_sticky_q' = (done_sticky_q \/ done)
  /\ UNCHANGED <<program_len, selectVars>>
WriteControl(start, clear) ==
  /\ Engine /\ NoPort
  /\ start_q' = start /\ clear_tile_q' = clear
  /\ done_sticky_q' = ((done_sticky_q \/ done) /\ ~(start \/ clear))
  /\ UNCHANGED <<program_len, selectVars>>

WriteProgramLen(n) ==
  /\ Engine /\ NoPulse /\ NoPort /\ LatchDone
  /\ program_len' = n
  /\ UNCHANGED selectVars

WriteInstrAddr(n) ==
  /\ Engine /\ NoPulse /\ NoPort /\ LatchDone
  /\ instr_addr_q' = n
  /\ UNCHANGED <<program_len, data_addr_q, data_bank_q>>

WriteInstrWord(op, cycles) ==
  /\ Engine /\ NoPulse /\ LatchDone
  /\ instr_write' = [we |-> TRUE, addr |-> instr_addr_q, op |-> op, cycles |-> cycles]
  /\ data_write' = NoDataWrite
  /\ UNCHANGED <<program_len, selectVars>>

WriteDataAddr(n) ==
  /\ Engine /\ NoPulse /\ NoPort /\ LatchDone
  /\ data_addr_q' = n
  /\ UNCHANGED <<program_len, instr_addr_q, data_bank_q>>

WriteDataBank(b) ==
  /\ Engine /\ NoPulse /\ NoPort /\ LatchDone
  /\ data_bank_q' = b
  /\ UNCHANGED <<program_len, instr_addr_q, data_addr_q>>

WriteDataWord(tile) ==
  /\ Engine /\ NoPulse /\ LatchDone
  /\ data_write' = [we |-> TRUE, bank |-> data_bank_q, addr |-> data_addr_q, tile |-> tile]
  /\ instr_write' = NoProgramWrite
  /\ UNCHANGED <<program_len, selectVars>>

\* Writes a host may do at any time: the engine drops them while it is busy.
LoadWrite ==
  \/ \E n \in HostAddresses : WriteInstrAddr(n) \/ WriteDataAddr(n)
  \/ \E op \in HostOpcodes, cycles \in HostCycles : WriteInstrWord(op, cycles)
  \/ \E b \in 0 .. 1 : WriteDataBank(b)
  \/ \E tile \in HostTiles : WriteDataWord(tile)

\* Writes that reach a run in progress.
ControlWrite ==
  \/ \E start, clear \in BOOLEAN : WriteControl(start, clear)
  \/ \E n \in HostLengths : WriteProgramLen(n)

Tick == NoWrite \/ LoadWrite \/ ControlWrite

Next == Tick \/ Reset

Spec == HostInit /\ [][Next]_vars

-----------------------------------------------------------------------------
(* A host that writes neither CONTROL nor PROGRAM_LEN from its START until *)
(* the engine is idle again, as the host drivers do by polling STATUS.     *)

Running == start_q \/ busy

PatientClock == NoWrite \/ LoadWrite \/ (~Running /\ ControlWrite)

PatientNext == PatientClock \/ Reset

\* The clock keeps ticking; the host need not do anything.
PatientSpec == HostInit /\ [][PatientNext]_vars /\ WF_vars(PatientClock)

Service == INSTANCE TileService WITH
  program  <- ProgramAfter(instr_write, data_write),
  datapath <- Committed(instr_write, data_write, start_q, clear_tile_q),
  running  <- Running,
  finished <- done_sticky_q \/ done

\* For a patient host the register file is a TileService: the result of a run
\* is fixed when START is written, from what is loaded at that moment, and the
\* run that delivers it ends.
IsTileService == Service!LiveSpec

\* STATUS never reports done while the run it belongs to, or the next one, is
\* still going (patient host).
DoneMeansOver == done_sticky_q => ~Running

-----------------------------------------------------------------------------
\* Every register stays within its width.
HostTypeOK ==
  /\ EngineTypeOK
  /\ instr_addr_q \in PcValue /\ data_addr_q \in PcValue /\ data_bank_q \in 0 .. 1
  /\ start_q \in BOOLEAN /\ clear_tile_q \in BOOLEAN /\ done_sticky_q \in BOOLEAN
  /\ instr_write \in ProgramPort /\ data_write \in DataPort
=============================================================================
