-------------------------- MODULE AxiMaster_proofs ---------------------------
(***************************************************************************)
(* The AXI register file, for every size and width, first under a master   *)
(* that drives both channels freely.  Unlike the native one it hands the   *)
(* engine its live select registers, so its ports are typed by ProgramIn   *)
(* and DataIn.  Then what its response channels promise to a master: one   *)
(* response an access, and a STATUS word that is still true when it is     *)
(* taken.                                                                  *)
(***************************************************************************)
EXTENDS AxiMaster, TileEngineMem_proofs

\* One register write per clock: START and a program write never meet.
OnePulse == ~(start /\ instr_word.we)

AxiInv == AxiTypeOK /\ EngineInv /\ OnePulse

\* The half of AxiTypeOK that the write channel and the read channel assign.
ChannelTypes ==
  /\ bvalid \in BOOLEAN /\ rvalid \in BOOLEAN
  /\ start \in BOOLEAN /\ clear \in BOOLEAN
  /\ instr_word \in [we : BOOLEAN, op : Opcode, cycles : CycleCount]
  /\ data_word \in [we : BOOLEAN, tile : Tile]
  /\ instr_addr_q \in PcValue /\ data_addr_q \in PcValue /\ data_bank_q \in 0 .. 3

LEMMA AxiTypeSplit == AxiTypeOK <=> EngineTypeOK /\ ChannelTypes /\ done_sticky_q \in BOOLEAN
BY DEF AxiTypeOK, ChannelTypes

\* What the wrapper hands the engine fits its ports.
LEMMA AxiPorts ==
  ASSUME ChannelTypes
  PROVE  PortOK(ProgramIn) /\ DataOK(DataIn) /\ (ProgramIn.we <=> instr_word.we)
<1>1. PortOK(ProgramIn)
  BY DEF ChannelTypes, ProgramIn, PortOK
<1>2. DataIn.bank \in 0 .. 1 /\ DataIn.addr \in PcValue /\ DataIn.tile \in Tile
  BY DEF DataIn, ChannelTypes
<1>3. QED
  BY <1>1, <1>2 DEF DataOK, ProgramIn

LEMMA AxiEngineStep ==
  ASSUME AxiInv, Engine, program_len' \in PcValue
  PROVE  EngineInv' /\ done_sticky_q' \in BOOLEAN
<1>1. ChannelTypes /\ start \in BOOLEAN /\ clear \in BOOLEAN
  BY AxiTypeSplit DEF AxiInv, ChannelTypes
<1>2. PortOK(ProgramIn) /\ DataOK(DataIn) /\ ~(start /\ ProgramIn.we)
  BY <1>1, AxiPorts DEF AxiInv, OnePulse
<1>3. QED
  BY <1>1, <1>2, EngineStep DEF AxiInv, Engine, Sticky

\* The idle words fit their registers.
LEMMA NoWordTypes ==
  /\ 0 \in 0 .. 3
  /\ NoInstr \in [we : BOOLEAN, op : Opcode, cycles : CycleCount]
  /\ NoData \in [we : BOOLEAN, tile : Tile]
BY Zeros, ZeroTile DEF NoInstr, NoData

-----------------------------------------------------------------------------
\* The write channel keeps its types, register by register, and raises one pulse.
WriteTypes ==
  /\ bvalid \in BOOLEAN /\ start \in BOOLEAN /\ clear \in BOOLEAN
  /\ instr_word \in [we : BOOLEAN, op : Opcode, cycles : CycleCount]
  /\ data_word \in [we : BOOLEAN, tile : Tile]
  /\ instr_addr_q \in PcValue /\ data_addr_q \in PcValue /\ data_bank_q \in 0 .. 3
  /\ program_len \in PcValue
  /\ OnePulse

LEMMA WriteChannelTypes ==
  ASSUME AxiInv, WriteChannel
  PROVE  WriteTypes'
<1>1. ChannelTypes /\ program_len \in PcValue
  BY AxiTypeSplit DEF AxiInv, EngineTypeOK, ControllerTypeOK
<1>2. NoPulse => start' \in BOOLEAN /\ clear' \in BOOLEAN /\ OnePulse'
  BY DEF NoPulse, OnePulse
<1>3. instr_word' = NoInstr => OnePulse'
  BY DEF NoInstr, OnePulse
<1>4. Respond => bvalid' \in BOOLEAN
  BY DEF Respond
<1>5. ASSUME NEW bready \in BOOLEAN, NoWrite(bready) PROVE WriteTypes'
  BY <1>1, <1>2, <1>5, NoWordTypes DEF NoWrite, NoWord, selectVars, WriteTypes, ChannelTypes
<1>6. ASSUME NEW s \in BOOLEAN, NEW k \in BOOLEAN, WriteControl(s, k) PROVE WriteTypes'
  BY <1>1, <1>3, <1>4, <1>6, NoWordTypes DEF WriteControl, NoWord, selectVars, WriteTypes, ChannelTypes
<1>7. ASSUME NEW n \in HostLengths, WriteProgramLen(n) PROVE WriteTypes'
  BY <1>1, <1>2, <1>4, <1>7, NoWordTypes, ControllerAssumption
     DEF WriteProgramLen, NoWord, selectVars, WriteTypes, ChannelTypes
<1>8. ASSUME NEW n \in HostAddresses, WriteInstrAddr(n) \/ WriteDataAddr(n) PROVE WriteTypes'
  <2>1. n \in PcValue
    BY AxiAssumption
  <2>2. QED
    BY <1>1, <1>2, <1>4, <1>8, <2>1, NoWordTypes
       DEF WriteInstrAddr, WriteDataAddr, NoWord, WriteTypes, ChannelTypes
<1>9. ASSUME NEW b \in HostBanks, WriteDataBank(b) PROVE WriteTypes'
  BY <1>1, <1>2, <1>4, <1>9, NoWordTypes, AxiAssumption
     DEF WriteDataBank, NoWord, WriteTypes, ChannelTypes
<1>10. ASSUME NEW tile \in HostTiles, WriteDataWord(tile) PROVE WriteTypes'
  <2>1. tile \in Tile
    BY EngineAssumption
  <2>2. QED
    BY <1>1, <1>2, <1>4, <1>10, <2>1, NoWordTypes
       DEF WriteDataWord, selectVars, WriteTypes, ChannelTypes
<1>11. ASSUME NEW op \in HostOpcodes, NEW cycles \in HostCycles, WriteInstrWord(op, cycles)
       PROVE  WriteTypes'
  <2>1. op \in Opcode /\ cycles \in CycleCount
    BY ControllerAssumption
  <2>2. QED
    BY <1>1, <1>2, <1>4, <1>11, <2>1, NoWordTypes
       DEF WriteInstrWord, selectVars, WriteTypes, ChannelTypes
<1>12. CASE WriteUnknown
  BY <1>1, <1>2, <1>4, <1>12, NoWordTypes DEF WriteUnknown, NoWord, selectVars, WriteTypes, ChannelTypes
<1>13. QED
  BY <1>5, <1>6, <1>7, <1>8, <1>9, <1>10, <1>11, <1>12 DEF WriteChannel, LoadWrite, ControlWrite

\* A clock edge of engine, write channel and read channel together.
LEMMA AxiClockInv ==
  ASSUME AxiInv, Engine, WriteChannel, ReadChannel
  PROVE  AxiInv'
<1>1. WriteTypes'
  BY WriteChannelTypes
<1>2. rvalid' \in BOOLEAN
  BY DEF ReadChannel, Read, NoRead
<1>3. EngineInv' /\ done_sticky_q' \in BOOLEAN
  BY <1>1, AxiEngineStep DEF WriteTypes
<1>4. QED
  BY <1>1, <1>2, <1>3 DEF WriteTypes, AxiInv, AxiTypeOK, EngineInv

LEMMA AxiResetInv ==
  ASSUME Reset
  PROVE  AxiInv'
<1>1. program_len' \in PcValue
  BY Zeros DEF Reset
<1>2. EngineInv'
  BY <1>1, EngineResetInv DEF Reset
<1>3. OnePulse'
  BY DEF Reset, OnePulse
<1>4. ChannelTypes' /\ done_sticky_q' \in BOOLEAN
  BY Zeros, NoWordTypes DEF Reset, ChannelTypes
<1>5. AxiTypeOK'
  BY <1>2, <1>4 DEF AxiTypeOK, ChannelTypes, EngineInv
<1>6. QED
  BY <1>2, <1>3, <1>5 DEF AxiInv

LEMMA AxiInitInv ==
  ASSUME AxiInit
  PROVE  AxiInv
<1>1. program_len \in PcValue
  BY Zeros DEF AxiInit, RegistersInit
<1>2. EngineInv
  BY <1>1, EngineInitInv DEF AxiInit
<1>3. OnePulse
  BY DEF AxiInit, RegistersInit, OnePulse
<1>4. ChannelTypes /\ done_sticky_q \in BOOLEAN
  BY Zeros, NoWordTypes DEF AxiInit, RegistersInit, ChannelTypes
<1>5. AxiTypeOK
  BY <1>2, <1>4 DEF AxiTypeOK, ChannelTypes, EngineInv
<1>6. QED
  BY <1>2, <1>3, <1>5 DEF AxiInv

LEMMA AxiStutter ==
  ASSUME AxiInv, UNCHANGED vars
  PROVE  AxiInv'
<1>1. EngineInv'
  BY EngineStutter DEF AxiInv, vars
<1>2. QED
  BY <1>1 DEF AxiInv, AxiTypeOK, EngineInv, OnePulse, vars, axiVars, channelVars, selectVars

-----------------------------------------------------------------------------
\* The AXI register file keeps its inductive invariant whatever the master does.
THEOREM AxiInvariance == Spec => []AxiInv
<1>1. AxiInit => AxiInv
  BY AxiInitInv
<1>2. AxiInv /\ [Next]_vars => AxiInv'
  BY AxiClockInv, AxiResetInv, AxiStutter DEF Next
<1>3. QED
  BY <1>1, <1>2, PTL DEF Spec

\* Every register of the wrapper and the engine keeps its width.
THEOREM AxiTypeCorrect == Spec => []AxiTypeOK
BY AxiInvariance, PTL DEF AxiInv

\* A run executes what the memory holds, slot 0 included.
THEOREM AxiRunsLoadedProgram == Spec => []RunsLoadedProgram
BY AxiInvariance, PTL DEF AxiInv, EngineInv

\* A result is of the run that shows it, START and CLEAR in mid run included.
THEOREM AxiResultIsOfThisRun == Spec => []ResultIsOfThisRun
BY AxiInvariance, PTL DEF AxiInv, EngineInv, ResultIsOfThisRun

-----------------------------------------------------------------------------
(* The response channels.                                                  *)

LEMMA OneValues == One(TRUE) = 1 /\ One(FALSE) = 0
BY DEF One

\* A response that is taken is no longer owed.
LEMMA TakenResponse ==
  ASSUME NEW pending \in BOOLEAN, NEW ready \in BOOLEAN
  PROVE  One(pending /\ ~ready) = One(pending) - One(pending /\ ready)
<1>1. CASE pending /\ ready
  BY <1>1 DEF One
<1>2. CASE pending /\ ~ready
  BY <1>2 DEF One
<1>3. CASE ~pending
  BY <1>3 DEF One
<1>4. QED
  BY <1>1, <1>2, <1>3

\* A channel whose accesses are all answered stays so when it waits, and when
\* it issues over the response it takes.
LEMMA AnsweredWrite ==
  ASSUME bvalid \in BOOLEAN, owed_b = One(bvalid), NEW bready \in BOOLEAN,
         WriteWaits(bready) \/ ((bvalid => bready) /\ WriteFires(bready))
  PROVE  owed_b' = One(bvalid')
<1>1. CASE WriteWaits(bready)
  BY <1>1, TakenResponse DEF WriteWaits, NoWrite
<1>2. CASE (bvalid => bready) /\ WriteFires(bready)
  <2>1. bvalid' = TRUE
    BY <1>2 DEF WriteFires, PatientWrite, LoadWrite, ControlWrite, WriteControl, WriteProgramLen,
       WriteInstrAddr, WriteInstrWord, WriteDataAddr, WriteDataBank, WriteDataWord, WriteUnknown, Respond
  <2>2. QED
    BY <1>2, <2>1 DEF WriteFires, One
<1>3. QED
  BY <1>1, <1>2

LEMMA AnsweredRead ==
  ASSUME rvalid \in BOOLEAN, owed_r = One(rvalid), NEW rready \in BOOLEAN,
         ReadWaits(rready) \/ ((rvalid => rready) /\ ReadFires(rready))
  PROVE  owed_r' = One(rvalid')
<1>1. CASE ReadWaits(rready)
  BY <1>1, TakenResponse DEF ReadWaits, NoRead
<1>2. CASE (rvalid => rready) /\ ReadFires(rready)
  BY <1>2 DEF ReadFires, Read, One
<1>3. QED
  BY <1>1, <1>2

AnsweredInv == bvalid \in BOOLEAN /\ rvalid \in BOOLEAN /\ EveryAccessAnswered

LEMMA AnsweredInit == MasterInit => AnsweredInv
BY OneValues DEF MasterInit, AxiInit, RegistersInit, AnsweredInv, EveryAccessAnswered

LEMMA AnsweredReset == MasterReset => AnsweredInv'
BY OneValues DEF MasterReset, Reset, AnsweredInv, EveryAccessAnswered

LEMMA AnsweredStutter == AnsweredInv /\ UNCHANGED masterVars => AnsweredInv'
BY DEF masterVars, vars, axiVars, channelVars, AnsweredInv, EveryAccessAnswered, One

LEMMA ChannelBooleans ==
  ASSUME bvalid \in BOOLEAN, rvalid \in BOOLEAN, WriteChannel, ReadChannel
  PROVE  bvalid' \in BOOLEAN /\ rvalid' \in BOOLEAN
<1>1. bvalid' \in BOOLEAN
  BY DEF WriteChannel, LoadWrite, ControlWrite, NoWrite, WriteControl, WriteProgramLen,
     WriteInstrAddr, WriteInstrWord, WriteDataAddr, WriteDataBank, WriteDataWord, WriteUnknown, Respond
<1>2. rvalid' \in BOOLEAN
  BY DEF ReadChannel, Read, NoRead
<1>3. QED
  BY <1>1, <1>2

LEMMA FiresAreWrites ==
  ASSUME NEW bready \in BOOLEAN, WriteFires(bready) \/ WriteWaits(bready)
  PROVE  WriteChannel
BY DEF WriteFires, WriteWaits, PatientWrite, WriteChannel

LEMMA FiresAreReads ==
  ASSUME NEW rready \in BOOLEAN, ReadFires(rready) \/ ReadWaits(rready)
  PROVE  ReadChannel
BY DEF ReadFires, ReadWaits, ReadChannel

LEMMA AnsweredStep ==
  ASSUME AnsweredInv, NEW bready \in BOOLEAN, NEW rready \in BOOLEAN,
         WriteWaits(bready) \/ ((bvalid => bready) /\ WriteFires(bready)),
         ReadWaits(rready) \/ ((rvalid => rready) /\ ReadFires(rready))
  PROVE  AnsweredInv'
<1>1. WriteChannel /\ ReadChannel
  BY FiresAreWrites, FiresAreReads
<1>2. bvalid' \in BOOLEAN /\ rvalid' \in BOOLEAN
  BY <1>1, ChannelBooleans DEF AnsweredInv
<1>3. EveryAccessAnswered'
  BY AnsweredWrite, AnsweredRead DEF AnsweredInv, EveryAccessAnswered
<1>4. QED
  BY <1>2, <1>3 DEF AnsweredInv

\* A master that takes a response at the latest when it issues over it gets
\* exactly one for each access, on both channels, back to back.
THEOREM AxiEveryAccessAnswered == StreamingSpec => []EveryAccessAnswered
<1>1. AnsweredInv /\ [StreamingClock \/ MasterReset]_masterVars => AnsweredInv'
  BY AnsweredStep, AnsweredReset, AnsweredStutter DEF StreamingClock
<1>2. AnsweredInv => EveryAccessAnswered
  BY DEF AnsweredInv
<1>3. QED
  BY <1>1, <1>2, AnsweredInit, PTL DEF StreamingSpec

-----------------------------------------------------------------------------
(* A blocking master.  Between its START and the next access lies at least *)
(* the response of the START, and that is the clock in which the flag of   *)
(* the earlier run is dropped.                                             *)

BlockingInv ==
  /\ AxiInv /\ AnsweredInv
  /\ start => bvalid
  /\ done_sticky_q => ~busy
  /\ DoneReadMeansOver

\* A blocking master's edge: a wait on both channels, or one access.
BlockingEdge(bready, rready) ==
  \/ WriteWaits(bready) /\ ReadWaits(rready)
  \/ owed_b + owed_r = 0 /\ WriteFires(bready) /\ ReadWaits(rready)
  \/ owed_b + owed_r = 0 /\ WriteWaits(bready) /\ ReadFires(rready)

\* It issues only when no response is pending.
LEMMA BlockingIsQuiet ==
  ASSUME AnsweredInv, owed_b + owed_r = 0
  PROVE  ~bvalid /\ ~rvalid
BY DEF AnsweredInv, EveryAccessAnswered, One

LEMMA BlockingBase ==
  ASSUME BlockingInv, Engine, NEW bready \in BOOLEAN, NEW rready \in BOOLEAN,
         BlockingEdge(bready, rready)
  PROVE  AxiInv' /\ AnsweredInv'
<1>1. WriteChannel /\ ReadChannel
  BY FiresAreWrites, FiresAreReads DEF BlockingEdge
<1>2. AxiInv'
  BY <1>1, AxiClockInv DEF BlockingInv
<1>3. AnsweredInv'
  BY BlockingIsQuiet, AnsweredStep DEF BlockingInv, BlockingEdge
<1>4. QED
  BY <1>2, <1>3

\* Only a START makes the sequencer busy, and done comes as busy goes.
LEMMA BusyComesFromStart ==
  ASSUME AxiInv, Engine
  PROVE  (busy' => busy \/ start) /\ (done => ~busy)
<1>1. SequencerEdge(start)
  BY DEF Engine, EngineEdge
<1>2. busy' => busy \/ start
  BY <1>1 DEF SequencerEdge, StartEmpty, StartProgram, Hold, Advance, Finish, Rest
<1>3. done => ~busy
  BY DEF AxiInv, EngineInv, ControllerInv, StrobesOnlyInRun
<1>4. QED
  BY <1>2, <1>3

LEMMA BlockingStep ==
  ASSUME BlockingInv, Engine, NEW bready \in BOOLEAN, NEW rready \in BOOLEAN,
         BlockingEdge(bready, rready)
  PROVE  BlockingInv'
<1>1. AxiInv' /\ AnsweredInv'
  BY BlockingBase
<1>2. (busy' => busy \/ start) /\ (done => ~busy)
  BY BusyComesFromStart DEF BlockingInv
<1>3. Sticky
  BY DEF Engine
<1>4. start' => bvalid'
  BY DEF BlockingEdge, WriteWaits, WriteFires, PatientWrite, LoadWrite, ControlWrite, NoWrite,
     WriteControl, WriteProgramLen, WriteInstrAddr, WriteInstrWord, WriteDataAddr,
     WriteDataBank, WriteDataWord, WriteUnknown, Respond, NoPulse
<1>5. done_sticky_q' => ~busy'
  BY <1>2, <1>3 DEF Sticky, BlockingInv
<1>6. DoneReadMeansOver'
  <2>1. CASE owed_b + owed_r = 0 /\ WriteFires(bready) /\ ReadWaits(rready)
    <3>1. ~rvalid'
      BY <2>1, BlockingIsQuiet DEF BlockingInv, ReadWaits, NoRead
    <3>2. QED
      BY <3>1 DEF DoneReadMeansOver
  <2>2. CASE owed_b + owed_r = 0 /\ WriteWaits(bready) /\ ReadFires(rready)
    <3>1. ~start /\ ~start'
      BY <2>2, BlockingIsQuiet DEF BlockingInv, WriteWaits, NoWrite, NoPulse
    <3>2. PICK reg \in HostReads : rdata' \in Readback(reg)
      BY <2>2 DEF ReadFires, Read
    <3>3. CASE reg = "STATUS"
      <4>1. rdata' = Status
        BY <3>2, <3>3 DEF Readback
      <4>2. rdata'[2].done = done_sticky_q /\ rdata'[2].busy = busy
        BY <4>1 DEF Status
      <4>3. QED
        BY <1>2, <3>1, <4>2 DEF DoneReadMeansOver, Running, BlockingInv
    <3>4. CASE reg # "STATUS"
      <4>1. rdata'[1] # "STATUS"
        BY <3>2, <3>4, AxiAssumption DEF Readback
      <4>2. QED
        BY <4>1 DEF DoneReadMeansOver
    <3>5. QED
      BY <3>3, <3>4
  <2>3. CASE WriteWaits(bready) /\ ReadWaits(rready)
    <3>1. ~start' /\ (rvalid' => rvalid) /\ rdata' = rdata
      BY <2>3 DEF WriteWaits, NoWrite, NoPulse, ReadWaits, NoRead
    <3>2. QED
      BY <1>2, <3>1 DEF DoneReadMeansOver, Running, BlockingInv
  <2>4. QED
    BY <2>1, <2>2, <2>3 DEF BlockingEdge
<1>7. QED
  BY <1>1, <1>4, <1>5, <1>6 DEF BlockingInv

LEMMA BlockingInit == MasterInit => BlockingInv
<1>1. SUFFICES ASSUME MasterInit PROVE BlockingInv
  OBVIOUS
<1>2. AxiInv /\ AnsweredInv
  BY <1>1, AxiInitInv, AnsweredInit DEF MasterInit
<1>3. ~start /\ ~rvalid /\ ~done_sticky_q
  BY <1>1 DEF MasterInit, AxiInit, RegistersInit
<1>4. QED
  BY <1>2, <1>3 DEF BlockingInv, DoneReadMeansOver

LEMMA BlockingReset == MasterReset => BlockingInv'
<1>1. SUFFICES ASSUME MasterReset PROVE BlockingInv'
  OBVIOUS
<1>2. AxiInv' /\ AnsweredInv'
  BY <1>1, AxiResetInv, AnsweredReset DEF MasterReset
<1>3. ~start' /\ ~rvalid' /\ ~done_sticky_q'
  BY <1>1 DEF MasterReset, Reset
<1>4. QED
  BY <1>2, <1>3 DEF BlockingInv, DoneReadMeansOver

LEMMA BlockingStutter == BlockingInv /\ UNCHANGED masterVars => BlockingInv'
<1>1. SUFFICES ASSUME BlockingInv, UNCHANGED masterVars PROVE BlockingInv'
  OBVIOUS
<1>2. AxiInv' /\ AnsweredInv'
  BY <1>1, AxiStutter, AnsweredStutter DEF BlockingInv, masterVars
<1>3. UNCHANGED <<start, bvalid, rvalid, rdata, done_sticky_q, busy>>
  BY <1>1 DEF masterVars, vars, axiVars, channelVars, engineVars, ctrlVars, sequencerVars
<1>4. QED
  BY <1>1, <1>2, <1>3 DEF BlockingInv, DoneReadMeansOver, Running

\* A blocking master that reads done in STATUS reads it of a run that is over.
THEOREM AxiDoneReadMeansOver == BlockingSpec => []DoneReadMeansOver
<1>1. BlockingInv /\ [BlockingClock \/ MasterReset]_masterVars => BlockingInv'
  BY BlockingStep, BlockingReset, BlockingStutter DEF BlockingClock, BlockingEdge
<1>2. BlockingInv => DoneReadMeansOver
  BY DEF BlockingInv
<1>3. QED
  BY <1>1, <1>2, BlockingInit, PTL DEF BlockingSpec

-----------------------------------------------------------------------------
(* The refinement of TileService, the same one, by a register file whose   *)
(* pulses come a clock later: a flag is reported once no pulse is pending. *)

\* What the service is mapped to.
Offered == ProgramAfter(ProgramIn, DataIn)
Promised == Committed(ProgramIn, DataIn, start, clear)
Reported == (done_sticky_q \/ done) /\ ~start /\ ~clear

\* The service computes as the engine does.
LEMMA ServiceComputes ==
  /\ \A dp, p : Service!Interpret(dp, p) = Interpret(dp, p)
  /\ \A dp : Service!Cleared(dp) = Cleared(dp)
  /\ Service!ResetDatapath = [a |-> Zero, b |-> Zero, c |-> Zero, stored |-> Zero, valid |-> FALSE]
<1>1. Service!Zero = Zero
  BY DEF Service!Zero, Zero, Service!Cell, Cell
<1>2. ASSUME NEW dp, NEW p PROVE Service!Interpret(dp, p) = Interpret(dp, p)
  BY DEF Service!Interpret, Interpret, Service!Exec, Exec, Service!Accumulate, Accumulate,
     Service!Product, Product, Service!Cell, Cell
<1>3. \A dp : Service!Cleared(dp) = Cleared(dp)
  BY <1>1 DEF Service!Cleared, Cleared
<1>4. Service!ResetDatapath = [a |-> Zero, b |-> Zero, c |-> Zero, stored |-> Zero, valid |-> FALSE]
  BY <1>1 DEF Service!ResetDatapath
<1>5. QED
  BY <1>2, <1>3, <1>4

LEMMA PromisedIs ==
  ASSUME busy \in BOOLEAN, start \in BOOLEAN, clear \in BOOLEAN
  PROVE  /\ busy => Promised = Interpret(Datapath, Ahead)
         /\ ~busy /\ start => Promised = Interpret(Cleared(Datapath), Offered)
         /\ ~busy /\ ~start => Promised = IF clear THEN Cleared(Datapath) ELSE Datapath
BY DEF Promised, Committed, Offered

LEMMA PromisedIsNext ==
  ASSUME busy' \in BOOLEAN, start' \in BOOLEAN, clear' \in BOOLEAN
  PROVE  /\ busy' => Promised' = Interpret(Datapath, Ahead)'
         /\ ~busy' /\ start' => Promised' = Interpret(Cleared(Datapath'), Offered')
         /\ ~busy' /\ ~start' => Promised' = IF clear' THEN Cleared(Datapath') ELSE Datapath'
BY DEF Promised, Committed, Offered

\* START and CLEAR never reach a run, nor START a write, and no flag of an
\* earlier run is left in one.
ServiceInv ==
  /\ AxiInv
  /\ busy => ~start /\ ~clear /\ ~done_sticky_q
  /\ start => ~instr_word.we /\ ~data_word.we

LEMMA AxiBooleans ==
  ASSUME AxiInv
  PROVE  busy \in BOOLEAN /\ start \in BOOLEAN /\ clear \in BOOLEAN /\ EngineInv /\ EngineTypeOK
BY DEF AxiInv, AxiTypeOK, EngineInv, EngineTypeOK, ControllerTypeOK

LEMMA AxiBooleansNext ==
  ASSUME AxiInv'
  PROVE  busy' \in BOOLEAN /\ start' \in BOOLEAN /\ clear' \in BOOLEAN /\ EngineTypeOK'
BY DEF AxiInv, AxiTypeOK, EngineInv, EngineTypeOK, ControllerTypeOK

\* No write is on its way where no port is enabled, or into a busy engine.
LEMMA NothingOffered ==
  ASSUME busy \/ (~instr_word.we /\ ~data_word.we)
  PROVE  Offered = Program
<1>1. ~WriteAccepted(ProgramIn) /\ ~DataAccepted(DataIn)
  BY DEF ProgramIn, DataIn, WriteAccepted, DataAccepted
<1>2. QED
  BY <1>1, NothingOnItsWay DEF Offered

LEMMA NothingOfferedNext ==
  ASSUME busy' \/ (~instr_word'.we /\ ~data_word'.we)
  PROVE  Offered' = Program'
<1>1. ~WriteAccepted(ProgramIn)' /\ ~DataAccepted(DataIn)'
  BY DEF ProgramIn, DataIn, WriteAccepted, DataAccepted
<1>2. QED
  BY <1>1 DEF Offered, ProgramAfter, Program

\* What the write channel does at a clock.
Quiet == ~start' /\ ~clear'
Control(s, k) == NoWord /\ program_len' = program_len /\ start' = s /\ clear' = k

LEMMA PatientWrites ==
  ASSUME PatientClock
  PROVE  /\ Engine /\ WriteChannel /\ ReadChannel
         /\ Quiet \/ (~Running /\ \E s, k \in BOOLEAN : Control(s, k))
         /\ Running => program_len' = program_len
<1>1. PatientWrite \/ \E bready \in BOOLEAN : NoWrite(bready)
  BY DEF PatientClock
<1>2. NoPulse => Quiet
  BY DEF NoPulse, Quiet
<1>3. LoadWrite \/ (\E bready \in BOOLEAN : NoWrite(bready)) => NoPulse /\ program_len' = program_len
  BY DEF LoadWrite, NoWrite, WriteInstrAddr, WriteInstrWord, WriteDataAddr, WriteDataBank,
     WriteDataWord, WriteUnknown
<1>4. ControlWrite => NoPulse \/ \E s, k \in BOOLEAN : Control(s, k)
  BY DEF ControlWrite, WriteControl, WriteProgramLen, Control
<1>5. Engine /\ WriteChannel /\ ReadChannel
  BY <1>1 DEF PatientClock, PatientWrite, WriteChannel
<1>6. QED
  BY <1>1, <1>2, <1>3, <1>4, <1>5 DEF PatientWrite

LEMMA ServiceInvStep ==
  ASSUME ServiceInv, PatientClock
  PROVE  ServiceInv'
<1>1. AxiInv'
  BY PatientWrites, AxiClockInv DEF ServiceInv
<1>2. start' => ~instr_word'.we /\ ~data_word'.we
  <2>1. NoWord => ~instr_word'.we /\ ~data_word'.we
    BY DEF NoWord, NoInstr, NoData
  <2>2. QED
    BY <2>1, PatientWrites DEF Quiet, Control
<1>3. busy' => Running
  <2>1. SequencerEdge(start)
    BY PatientWrites DEF Engine, EngineEdge
  <2>2. QED
    BY <2>1 DEF SequencerEdge, StartEmpty, StartProgram, Hold, Advance, Finish, Rest, Running
<1>4. busy' => ~start' /\ ~clear'
  BY <1>3, PatientWrites DEF Quiet
<1>5. busy' => ~done_sticky_q'
  <2>1. Sticky
    BY PatientWrites DEF Engine
  <2>2. done => ~busy
    BY DEF ServiceInv, AxiInv, EngineInv, ControllerInv, StrobesOnlyInRun
  <2>3. QED
    BY <1>3, <2>1, <2>2 DEF Sticky, ServiceInv, Running
<1>6. QED
  BY <1>1, <1>2, <1>4, <1>5 DEF ServiceInv

-----------------------------------------------------------------------------
\* A clock of a run: the service stutters, or the run is over.
LEMMA RunServed ==
  ASSUME ServiceInv, PatientClock, Running
  PROVE  \/ UNCHANGED <<Offered, Promised, Running, Reported>>
         \/ ~Running' /\ Reported' /\ Promised' = Promised
<1>1. Engine /\ ~start' /\ ~clear' /\ program_len' = program_len
  BY PatientWrites DEF Quiet
<1>2. AxiInv /\ ServiceInv' /\ AxiInv'
  BY ServiceInvStep DEF ServiceInv
<1>3. ~Reported
  BY <1>2 DEF ServiceInv, Reported, Running, AxiInv, EngineInv, ControllerInv, StrobesOnlyInRun
<1>4. busy' => ~Reported'
  BY <1>2 DEF ServiceInv, Reported, AxiInv, EngineInv, ControllerInv, StrobesOnlyInRun
<1>5. busy' => Offered' = Program' /\ Promised' = Interpret(Datapath, Ahead)'
  BY <1>1, <1>2, AxiBooleansNext, NothingOfferedNext, PromisedIsNext
<1>6. ~busy' => Promised' = Datapath'
  BY <1>1, <1>2, AxiBooleansNext, PromisedIsNext
<1>7. CASE busy
  <2>1. ~start /\ ~clear /\ start = FALSE /\ clear = FALSE
    BY <1>2, <1>7, AxiBooleans DEF ServiceInv
  <2>2. EngineEdge(ProgramIn, DataIn, FALSE, FALSE)
    BY <1>1, <2>1 DEF Engine
  <2>3. /\ busy' => Interpret(Datapath, Ahead)' = Interpret(Datapath, Ahead)
        /\ ~busy' => Datapath' = Interpret(Datapath, Ahead)
    BY <1>1, <1>2, <1>7, <2>2, AxiBooleans, AxiBooleansNext, RunClock
  <2>4. Promised = Interpret(Datapath, Ahead) /\ Offered = Program
    BY <1>2, <1>7, AxiBooleans, PromisedIs, NothingOffered
  <2>5. Program' = Program
    BY <1>1, <1>7, <2>2 DEF Program, Listing, Idx, EngineEdge, ProgramWrite, WriteAccepted,
       DataWrite, DataAccepted, programVars, memVars
  <2>6. ~busy' => done'
    BY <1>7, <2>2 DEF EngineEdge, SequencerEdge, StartEmpty, StartProgram, Hold, Advance, Finish, Rest
  <2>7. CASE busy'
    BY <1>1, <1>3, <1>4, <1>5, <1>7, <2>3, <2>4, <2>5, <2>7 DEF Running, Reported
  <2>8. CASE ~busy'
    BY <1>1, <1>6, <2>3, <2>4, <2>6, <2>8 DEF Running, Reported
  <2>9. QED
    BY <2>7, <2>8
<1>8. CASE ~busy
  <2>1. start /\ start = TRUE /\ ~ProgramIn.we /\ ~DataIn.we /\ clear \in BOOLEAN
    BY <1>2, <1>8, AxiBooleans DEF ServiceInv, Running, ProgramIn, DataIn
  <2>2. EngineEdge(ProgramIn, DataIn, TRUE, clear)
    BY <1>1, <2>1 DEF Engine
  <2>3. /\ busy' => Interpret(Datapath, Ahead)' = Interpret(Cleared(Datapath), Program)
        /\ ~busy' => Datapath' = Interpret(Cleared(Datapath), Program) /\ done'
        /\ Program' = Program
    BY <1>1, <1>2, <1>8, <2>1, <2>2, AxiBooleans, AxiBooleansNext, StartClock
  <2>4. Offered = Program /\ Promised = Interpret(Cleared(Datapath), Offered)
    BY <1>2, <1>8, <2>1, AxiBooleans, PromisedIs, NothingOffered DEF ProgramIn, DataIn
  <2>5. CASE busy'
    BY <1>1, <1>3, <1>4, <1>5, <2>1, <2>3, <2>4, <2>5 DEF Running, Reported
  <2>6. CASE ~busy'
    BY <1>1, <1>6, <2>3, <2>4, <2>6 DEF Running, Reported
  <2>7. QED
    BY <2>5, <2>6
<1>9. QED
  BY <1>7, <1>8

\* A clock between runs: the master loads, starts or clears.
LEMMA IdleServed ==
  ASSUME ServiceInv, PatientClock, ~Running
  PROVE  \/ ~Running' /\ Promised' = Promised /\ Reported' = Reported
         \/ /\ Running' /\ ~Reported' /\ Offered' = Offered
            /\ Promised' = Interpret(Cleared(Promised), Offered)
         \/ ~Running' /\ ~Reported' /\ Promised' = Cleared(Promised)
<1>1. ~busy /\ ~start /\ start = FALSE
  <2>1. ~busy /\ ~start
    BY DEF Running
  <2>2. start \in BOOLEAN
    BY AxiBooleans DEF ServiceInv
  <2>3. QED
    BY <2>1, <2>2
<1>2. AxiInv /\ AxiInv'
  BY ServiceInvStep DEF ServiceInv
<1>3. EngineEdge(ProgramIn, DataIn, FALSE, clear) /\ Sticky
  BY <1>1, PatientWrites DEF Engine
<1>4. /\ ~busy' /\ ~done' /\ Datapath' = Wiped(clear)
      /\ program_len' = program_len => Program' = Offered
  BY <1>1, <1>2, <1>3, AxiBooleans, IdleClock DEF Offered
<1>5. Promised = Datapath'
  BY <1>1, <1>2, <1>4, AxiBooleans, PromisedIs DEF Wiped
<1>6. /\ start' => Promised' = Interpret(Cleared(Datapath'), Offered')
      /\ ~start' => Promised' = IF clear' THEN Cleared(Datapath') ELSE Datapath'
  BY <1>2, <1>4, AxiBooleansNext, PromisedIsNext
<1>7. ~start' /\ ~clear' => Reported' = Reported
  BY <1>1, <1>3, <1>4 DEF Reported, Sticky
<1>8. CASE Quiet
  BY <1>4, <1>5, <1>6, <1>7, <1>8 DEF Running, Quiet
<1>9. ASSUME NEW s \in BOOLEAN, NEW k \in BOOLEAN, Control(s, k)
      PROVE  \/ ~Running' /\ Promised' = Promised /\ Reported' = Reported
             \/ /\ Running' /\ ~Reported' /\ Offered' = Offered
                /\ Promised' = Interpret(Cleared(Promised), Offered)
             \/ ~Running' /\ ~Reported' /\ Promised' = Cleared(Promised)
  <2>1. start' = s /\ clear' = k /\ program_len' = program_len
    BY <1>9 DEF Control
  <2>2. ~instr_word'.we /\ ~data_word'.we
    BY <1>9 DEF Control, NoWord, NoInstr, NoData
  <2>3. Offered' = Offered
    BY <1>4, <2>1, <2>2, NothingOfferedNext
  <2>4. CASE s
    BY <1>4, <1>5, <1>6, <2>1, <2>3, <2>4 DEF Running, Reported
  <2>5. CASE ~s /\ k
    BY <1>4, <1>5, <1>6, <2>1, <2>5 DEF Running, Reported
  <2>6. CASE ~s /\ ~k
    BY <1>4, <1>5, <1>6, <1>7, <2>1, <2>6 DEF Running
  <2>7. QED
    BY <2>4, <2>5, <2>6
<1>10. QED
  BY <1>8, <1>9, PatientWrites

-----------------------------------------------------------------------------
LEMMA ResetServed ==
  ASSUME Reset
  PROVE  /\ ServiceInv' /\ ~Running' /\ ~Reported'
         /\ Promised' = [a |-> Zero, b |-> Zero, c |-> Zero, stored |-> Zero, valid |-> FALSE]
<1>1. AxiInv'
  BY AxiResetInv
<1>2. /\ busy' = FALSE /\ done' = FALSE /\ start' = FALSE /\ clear' = FALSE
      /\ done_sticky_q' = FALSE
  BY DEF Reset, EngineReset, ControllerReset
<1>3. Promised' = Datapath'
  BY <1>1, <1>2, AxiBooleansNext, PromisedIsNext
<1>4. Datapath' = [a |-> Zero, b |-> Zero, c |-> Zero, stored |-> Zero, valid |-> FALSE]
  BY DEF Reset, EngineReset, Datapath
<1>5. QED
  BY <1>1, <1>2, <1>3, <1>4 DEF ServiceInv, Running, Reported

LEMMA InitServed ==
  ASSUME AxiInit
  PROVE  /\ ServiceInv /\ ~Running /\ ~Reported
         /\ Promised = [a |-> Zero, b |-> Zero, c |-> Zero, stored |-> Zero, valid |-> FALSE]
<1>1. AxiInv
  BY AxiInitInv
<1>2. /\ busy = FALSE /\ done = FALSE /\ start = FALSE /\ clear = FALSE
      /\ done_sticky_q = FALSE
  BY DEF AxiInit, EngineInit, ControllerInit, SequencerInit, RegistersInit
<1>3. Promised = Datapath
  BY <1>1, <1>2, AxiBooleans, PromisedIs
<1>4. Datapath = [a |-> Zero, b |-> Zero, c |-> Zero, stored |-> Zero, valid |-> FALSE]
  BY DEF AxiInit, EngineInit, DatapathInit, Datapath
<1>5. QED
  BY <1>1, <1>2, <1>3, <1>4 DEF ServiceInv, Running, Reported

LEMMA StutterServed ==
  ASSUME ServiceInv, UNCHANGED vars
  PROVE  ServiceInv' /\ UNCHANGED <<Offered, Promised, Running, Reported>>
<1>1. AxiInv'
  BY AxiStutter DEF ServiceInv
<1>2. UNCHANGED <<busy, done, start, clear, done_sticky_q, instr_word, data_word>>
  BY DEF vars, axiVars, engineVars, ctrlVars, sequencerVars
<1>3. ServiceInv'
  BY <1>1, <1>2 DEF ServiceInv
<1>4. UNCHANGED <<Offered, Promised, Running, Reported>>
  BY DEF vars, axiVars, engineVars, ctrlVars, sequencerVars, programVars, dataVars, memVars, selectVars,
     Offered, Promised, Running, Reported, ProgramAfter, Committed, Listing, Idx, WriteAccepted,
     DataAccepted, Datapath, Ahead, Cleared, ProgramIn, DataIn
<1>5. QED
  BY <1>3, <1>4

\* For a patient master the AXI register file is the same TileService.
THEOREM AxiIsService == PatientSpec => Service!Spec
<1>1. AxiInit => ServiceInv /\ Service!Init
  BY InitServed, ServiceComputes DEF Service!Init, Promised, Reported
<1>2. ServiceInv /\ [PatientNext]_vars => ServiceInv' /\ [Service!Next]_Service!vars
  <2>1. ASSUME ServiceInv, UNCHANGED vars PROVE ServiceInv' /\ UNCHANGED Service!vars
    BY <2>1, StutterServed DEF Service!vars, Offered, Promised, Reported
  <2>2. ASSUME Reset PROVE ServiceInv' /\ Service!Next
    BY <2>2, ResetServed, ServiceComputes DEF Service!Next, Service!Reset, Promised, Reported
  <2>3. ASSUME ServiceInv, PatientClock, Running
        PROVE  ServiceInv' /\ [Service!Next]_Service!vars
    <3>1. CASE UNCHANGED <<Offered, Promised, Running, Reported>>
      BY <2>3, <3>1, ServiceInvStep DEF Service!vars, Offered, Promised, Reported
    <3>2. CASE ~Running' /\ Reported' /\ Promised' = Promised
      BY <2>3, <3>2, ServiceInvStep DEF Service!Next, Service!Finish, Promised, Reported
    <3>3. QED
      BY <2>3, <3>1, <3>2, RunServed
  <2>4. ASSUME ServiceInv, PatientClock, ~Running
        PROVE  ServiceInv' /\ Service!Next
    <3>1. CASE ~Running' /\ Promised' = Promised /\ Reported' = Reported
      BY <2>4, <3>1, ServiceInvStep DEF Service!Next, Service!Load, Promised, Reported, Running
    <3>2. CASE /\ Running' /\ ~Reported' /\ Offered' = Offered
               /\ Promised' = Interpret(Cleared(Promised), Offered)
      <4>1. Promised' = Service!Interpret(Service!Cleared(Promised), Offered)
        BY <3>2, ServiceComputes
      <4>2. QED
        BY <2>4, <3>2, <4>1, ServiceInvStep DEF Service!Next, Service!Start, Offered, Promised, Reported
    <3>3. CASE ~Running' /\ ~Reported' /\ Promised' = Cleared(Promised)
      <4>1. Promised' = Service!Cleared(Promised)
        BY <3>3, ServiceComputes
      <4>2. QED
        BY <2>4, <3>3, <4>1, ServiceInvStep DEF Service!Next, Service!Clear, Promised, Reported
    <3>4. QED
      BY <2>4, <3>1, <3>2, <3>3, IdleServed
  <2>5. QED
    BY <2>1, <2>2, <2>3, <2>4 DEF PatientNext
<1>3. QED
  BY <1>1, <1>2, PTL DEF PatientSpec, Service!Spec
=============================================================================
