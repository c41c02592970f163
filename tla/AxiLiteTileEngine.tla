--------------------------- MODULE AxiLiteTileEngine ---------------------------
(***************************************************************************)
(* rtl/axi_lite_host_regs.sv and rtl/axi_lite_tile_engine_2x2.sv: an AXI-  *)
(* lite style register file in front of tile_engine_mem_2x2.  One step is  *)
(* one clock edge; the write channel, the read channel, the engine and the *)
(* sticky done flag all move at it.  The ready outputs are constant 1, so  *)
(* a channel fires whenever its valid is high: AW and W together for a     *)
(* write, AR alone for a read.  Responses are registered, and a read       *)
(* returns the registers as they were at the edge it fired.                *)
(***************************************************************************)
EXTENDS TileEngineMem

CONSTANTS HostAddresses,  \* bound: addresses the host selects in this instance
          HostBanks,      \* bound: bank numbers the host selects in this instance
          HostReads       \* bound: registers the host reads in this instance
ASSUME AxiAssumption ==
  /\ HostAddresses \subseteq PcValue
  /\ HostBanks \subseteq 0 .. 3
  /\ HostReads \subseteq {"STATUS", "PROGRAM_LEN", "INSTR_ADDR", "DATA_ADDR",
                          "DATA_BANK", "C", "UNKNOWN"}

VARIABLES
  bvalid, rvalid, rdata,                   \* the two response channels
  start, clear, instr_word, data_word,     \* one-clock sideband pulses
  instr_addr_q, data_addr_q, data_bank_q,  \* selected by the host, read live
  done_sticky_q                            \* STATUS bit 1

selectVars  == <<instr_addr_q, data_addr_q, data_bank_q>>
channelVars == <<bvalid, rvalid, rdata>>
axiVars     == <<channelVars, start, clear, instr_word, data_word, selectVars, done_sticky_q>>
vars        == <<engineVars, axiVars>>

\* instr_word_o with instr_write_o, data_word_o with data_write_o; what a word
\* carries matters only during its pulse.
NoInstr == [we |-> FALSE, op |-> "NOP", cycles |-> 0]
NoData  == [we |-> FALSE, tile |-> Zero]

RegistersInit ==
  /\ bvalid = FALSE /\ rvalid = FALSE /\ rdata = <<"UNKNOWN", 0>>
  /\ start = FALSE /\ clear = FALSE /\ instr_word = NoInstr /\ data_word = NoData
  /\ instr_addr_q = 0 /\ data_addr_q = 0 /\ data_bank_q = 0
  /\ program_len = 0 /\ done_sticky_q = FALSE

AxiInit == EngineInit /\ RegistersInit

Reset ==
  /\ EngineReset
  /\ bvalid' = FALSE /\ rvalid' = FALSE /\ rdata' = <<"UNKNOWN", 0>>
  /\ start' = FALSE /\ clear' = FALSE /\ instr_word' = NoInstr /\ data_word' = NoData
  /\ instr_addr_q' = 0 /\ data_addr_q' = 0 /\ data_bank_q' = 0
  /\ program_len' = 0 /\ done_sticky_q' = FALSE

-----------------------------------------------------------------------------
(* The engine side.  The write ports take their address and bank from the  *)
(* select registers at the edge of the pulse; data_bank is 2 bits wide and *)
(* only bit 0 is connected.                                                *)

ProgramIn == [we |-> instr_word.we, addr |-> instr_addr_q,
              op |-> instr_word.op, cycles |-> instr_word.cycles]
DataIn    == [we |-> data_word.we, bank |-> data_bank_q % 2,
              addr |-> data_addr_q, tile |-> data_word.tile]

MutantPulseOnly == done_sticky_q' = (~(clear \/ start) /\ done)
MutantStickyIgnoresStart ==
  done_sticky_q' = (~clear /\ (done_sticky_q \/ done))
Sticky == done_sticky_q' = (~(clear \/ start) /\ (done_sticky_q \/ done))

Engine == EngineEdge(ProgramIn, DataIn, start, clear) /\ Sticky

-----------------------------------------------------------------------------
(* The write channel, one action per decoded register.                     *)

NoPulse == start' = FALSE /\ clear' = FALSE
NoWord  == instr_word' = NoInstr /\ data_word' = NoData

\* No write fires; a pending response goes when the master is ready for it.
MutantDropsResponse(bready) ==
  /\ bvalid' = FALSE
  /\ NoPulse /\ NoWord /\ UNCHANGED <<program_len, selectVars>>
NoWrite(bready) ==
  /\ bvalid' = (bvalid /\ ~bready)
  /\ NoPulse /\ NoWord /\ UNCHANGED <<program_len, selectVars>>

\* A write raises bvalid, whether or not an earlier response is still pending.
Respond == bvalid' = TRUE

WriteControl(s, k) ==
  /\ Respond /\ start' = s /\ clear' = k
  /\ NoWord /\ UNCHANGED <<program_len, selectVars>>

WriteProgramLen(n) ==
  /\ Respond /\ program_len' = n
  /\ NoPulse /\ NoWord /\ UNCHANGED selectVars

WriteInstrAddr(n) ==
  /\ Respond /\ instr_addr_q' = n
  /\ NoPulse /\ NoWord /\ UNCHANGED <<program_len, data_addr_q, data_bank_q>>

WriteInstrWord(op, cycles) ==
  /\ Respond /\ instr_word' = [we |-> TRUE, op |-> op, cycles |-> cycles]
  /\ data_word' = NoData /\ NoPulse /\ UNCHANGED <<program_len, selectVars>>

WriteDataAddr(n) ==
  /\ Respond /\ data_addr_q' = n
  /\ NoPulse /\ NoWord /\ UNCHANGED <<program_len, instr_addr_q, data_bank_q>>

WriteDataBank(b) ==
  /\ Respond /\ data_bank_q' = b
  /\ NoPulse /\ NoWord /\ UNCHANGED <<program_len, instr_addr_q, data_addr_q>>

WriteDataWord(tile) ==
  /\ Respond /\ data_word' = [we |-> TRUE, tile |-> tile]
  /\ instr_word' = NoInstr /\ NoPulse /\ UNCHANGED <<program_len, selectVars>>

WriteUnknown ==
  /\ Respond /\ NoPulse /\ NoWord /\ UNCHANGED <<program_len, selectVars>>

\* Writes a master may do at any time: the engine drops them while it is busy.
LoadWrite ==
  \/ \E n \in HostAddresses : WriteInstrAddr(n) \/ WriteDataAddr(n)
  \/ \E op \in HostOpcodes, cycles \in HostCycles : WriteInstrWord(op, cycles)
  \/ \E b \in HostBanks : WriteDataBank(b)
  \/ \E tile \in HostTiles : WriteDataWord(tile)
  \/ WriteUnknown

\* Writes that reach a run in progress.
ControlWrite ==
  \/ \E s, k \in BOOLEAN : WriteControl(s, k)
  \/ \E n \in HostLengths : WriteProgramLen(n)

-----------------------------------------------------------------------------
(* The read channel.                                                       *)

\* STATUS is {done, busy}: unlike host_tile_engine_2x2 it has no stored-valid bit.
Status == <<"STATUS", [done |-> done_sticky_q, busy |-> busy, stored_valid |-> FALSE]>>

\* The words a register can read as: one, except for the four cells of C.
Readback(reg) ==
  CASE reg = "STATUS"      -> {Status}
    [] reg = "PROGRAM_LEN" -> {<<reg, program_len>>}
    [] reg = "INSTR_ADDR"  -> {<<reg, instr_addr_q>>}
    [] reg = "DATA_ADDR"   -> {<<reg, data_addr_q>>}
    [] reg = "DATA_BANK"   -> {<<reg, data_bank_q>>}
    [] reg = "C"           -> {<<reg, <<ij, stored_c[ij]>> >> : ij \in Cell}
    [] OTHER               -> {<<reg, 0>>}

NoRead(rready) == rvalid' = (rvalid /\ ~rready) /\ UNCHANGED rdata

Read(reg) == rvalid' = TRUE /\ rdata' \in Readback(reg)

-----------------------------------------------------------------------------
(* One clock edge under a master that drives both channels freely.         *)

WriteChannel == LoadWrite \/ ControlWrite \/ \E bready \in BOOLEAN : NoWrite(bready)
ReadChannel  == (\E reg \in HostReads : Read(reg)) \/ \E rready \in BOOLEAN : NoRead(rready)

Next == (Engine /\ WriteChannel /\ ReadChannel) \/ Reset

Spec == AxiInit /\ [][Next]_vars

-----------------------------------------------------------------------------
(* A master that leaves CONTROL and PROGRAM_LEN alone while a run goes on. *)

Running == start \/ busy

PatientWrite == LoadWrite \/ (~Running /\ ControlWrite)

PatientClock ==
  Engine /\ ReadChannel /\ (PatientWrite \/ \E bready \in BOOLEAN : NoWrite(bready))

PatientNext == PatientClock \/ Reset

\* The clock keeps ticking; the master need not do anything.
PatientSpec == AxiInit /\ [][PatientNext]_vars /\ WF_vars(PatientClock)

Service == INSTANCE TileService WITH
  program  <- ProgramAfter(ProgramIn, DataIn),
  datapath <- Committed(ProgramIn, DataIn, start, clear),
  running  <- Running,
  finished <- (done_sticky_q \/ done) /\ ~start /\ ~clear

\* For a patient master the AXI register file is the same TileService as the
\* native one, although the address of a memory write is taken one clock after
\* the word, and done is cleared one clock after the CONTROL write.
IsTileService == Service!LiveSpec

\* Every register stays within its width.
AxiTypeOK ==
  /\ EngineTypeOK
  /\ bvalid \in BOOLEAN /\ rvalid \in BOOLEAN
  /\ start \in BOOLEAN /\ clear \in BOOLEAN
  /\ instr_word \in [we : BOOLEAN, op : Opcode, cycles : CycleCount]
  /\ data_word \in [we : BOOLEAN, tile : Tile]
  /\ instr_addr_q \in PcValue /\ data_addr_q \in PcValue /\ data_bank_q \in 0 .. 3
  /\ done_sticky_q \in BOOLEAN
=============================================================================
