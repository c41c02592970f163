------------------------- MODULE HostTileEngine_proofs -------------------------
(***************************************************************************)
(* The native register file, for every size and width: its safety          *)
(* invariants under a host that writes any register at any clock, and the  *)
(* truth of the sticky done flag under a host that waits for its runs.     *)
(***************************************************************************)
EXTENDS HostTileEngine, TileEngineMem_proofs

\* One register write per clock: START and a program write never meet.
OnePulse == ~(start_q /\ instr_write.we)

\* Every register within its width, a port with whatever its enable lets through.
WiredTypeOK ==
  /\ EngineTypeOK
  /\ instr_addr_q \in PcValue /\ data_addr_q \in PcValue /\ data_bank_q \in 0 .. 1
  /\ start_q \in BOOLEAN /\ clear_tile_q \in BOOLEAN /\ done_sticky_q \in BOOLEAN
  /\ PortOK(instr_write) /\ DataOK(data_write)

WiredInv == WiredTypeOK /\ EngineInv /\ OnePulse

\* Any host: it writes any value a register holds, not only those of an instance.
AnyLoadWrite ==
  \/ \E n \in PcValue : WriteInstrAddr(n) \/ WriteDataAddr(n)
  \/ \E op \in Opcode, cycles \in CycleCount : WriteInstrWord(op, cycles)
  \/ \E b \in 0 .. 1 : WriteDataBank(b)
  \/ \E tile \in Tile : WriteDataWord(tile)
AnyControlWrite ==
  \/ \E start, clear \in BOOLEAN : WriteControl(start, clear)
  \/ \E n \in PcValue : WriteProgramLen(n)
AnyTick         == NoWrite \/ AnyLoadWrite \/ AnyControlWrite
AnyPatientClock == NoWrite \/ AnyLoadWrite \/ (~Running /\ AnyControlWrite)

LEMMA OneOfAnyHost == (Tick => AnyTick) /\ (PatientClock => AnyPatientClock)
<1>1. LoadWrite => AnyLoadWrite
  BY ControllerAssumption, EngineAssumption, HostAssumption DEF LoadWrite, AnyLoadWrite
<1>2. ControlWrite => AnyControlWrite
  BY ControllerAssumption DEF ControlWrite, AnyControlWrite
<1>3. QED
  BY <1>1, <1>2 DEF Tick, PatientClock, AnyTick, AnyPatientClock

LEMMA HostZeros ==
  /\ 0 \in PcValue /\ 0 \in 0 .. 1 /\ NoProgramWrite \in ProgramPort /\ NoDataWrite \in DataPort
  /\ ~NoProgramWrite.we /\ PortOK(NoProgramWrite) /\ DataOK(NoDataWrite)
BY Zeros DEF ProgramPort, DataPort, NoProgramWrite, NoDataWrite, PortOK, DataOK

\* Every clock edge drives the engine with inputs its lemma covers.
LEMMA HostEngineStep ==
  ASSUME WiredInv, Engine, program_len' \in PcValue
  PROVE  EngineInv'
<1>1. PortOK(instr_write) /\ DataOK(data_write)
  BY DEF WiredInv, WiredTypeOK
<1>2. start_q \in BOOLEAN /\ clear_tile_q \in BOOLEAN /\ ~(start_q /\ instr_write.we)
  BY DEF WiredInv, WiredTypeOK, OnePulse
<1>3. QED
  BY <1>1, <1>2, EngineStep DEF WiredInv, Engine

\* The register file's own registers at one edge, register write by register write.
LEMMA TickInv ==
  ASSUME WiredInv, AnyTick
  PROVE  WiredInv'
<1>1. program_len \in PcValue
  BY DEF WiredInv, WiredTypeOK, EngineTypeOK, ControllerTypeOK
<1>2. LatchDone => done_sticky_q' \in BOOLEAN
  BY DEF LatchDone
<1>3. NoPulse => start_q' \in BOOLEAN /\ clear_tile_q' \in BOOLEAN /\ OnePulse'
  BY DEF NoPulse, OnePulse
<1>4. NoPort => PortOK(instr_write') /\ DataOK(data_write') /\ OnePulse'
  BY HostZeros DEF NoPort, OnePulse
<1>5. CASE NoWrite
  <2>1. EngineInv'
    BY <1>1, <1>5, HostEngineStep DEF NoWrite
  <2>2. QED
    BY <1>2, <1>3, <1>4, <1>5, <2>1 DEF NoWrite, WiredInv, WiredTypeOK, EngineInv, selectVars
<1>6. ASSUME NEW start \in BOOLEAN, NEW clear \in BOOLEAN, WriteControl(start, clear)
      PROVE  WiredInv'
  <2>1. EngineInv'
    BY <1>1, <1>6, HostEngineStep DEF WriteControl
  <2>2. done_sticky_q' \in BOOLEAN
    BY <1>6 DEF WriteControl
  <2>3. QED
    BY <1>4, <1>6, <2>1, <2>2 DEF WriteControl, WiredInv, WiredTypeOK, EngineInv, selectVars
<1>7. ASSUME NEW n \in PcValue, WriteProgramLen(n)
      PROVE  WiredInv'
  <2>1. EngineInv'
    BY <1>7, HostEngineStep DEF WriteProgramLen
  <2>2. QED
    BY <1>2, <1>3, <1>4, <1>7, <2>1 DEF WriteProgramLen, WiredInv, WiredTypeOK, EngineInv, selectVars
<1>8. ASSUME NEW n \in PcValue, WriteInstrAddr(n) \/ WriteDataAddr(n)
      PROVE  WiredInv'
  <2>1. EngineInv'
    BY <1>1, <1>8, HostEngineStep DEF WriteInstrAddr, WriteDataAddr
  <2>2. QED
    BY <1>2, <1>3, <1>4, <1>8, <2>1 DEF WriteInstrAddr, WriteDataAddr, WiredInv, WiredTypeOK, EngineInv
<1>9. ASSUME NEW b \in 0 .. 1, WriteDataBank(b)
      PROVE  WiredInv'
  <2>1. EngineInv'
    BY <1>1, <1>9, HostEngineStep DEF WriteDataBank
  <2>2. QED
    BY <1>2, <1>3, <1>4, <1>9, <2>1 DEF WriteDataBank, WiredInv, WiredTypeOK, EngineInv
<1>10. ASSUME NEW op \in Opcode, NEW cycles \in CycleCount, WriteInstrWord(op, cycles)
       PROVE  WiredInv'
  <2>1. EngineInv'
    BY <1>1, <1>10, HostEngineStep DEF WriteInstrWord
  <2>2. PortOK(instr_write') /\ DataOK(data_write')
    BY <1>10, HostZeros DEF WriteInstrWord, PortOK, WiredInv, WiredTypeOK
  <2>3. QED
    BY <1>2, <1>3, <1>10, <2>1, <2>2 DEF WriteInstrWord, WiredInv, WiredTypeOK, EngineInv, selectVars
<1>11. ASSUME NEW tile \in Tile, WriteDataWord(tile)
       PROVE  WiredInv'
  <2>1. EngineInv'
    BY <1>1, <1>11, HostEngineStep DEF WriteDataWord
  <2>2. PortOK(instr_write') /\ DataOK(data_write')
    BY <1>11, HostZeros DEF WriteDataWord, DataOK, WiredInv, WiredTypeOK
  <2>3. QED
    BY <1>2, <1>3, <1>11, <2>1, <2>2 DEF WriteDataWord, WiredInv, WiredTypeOK, EngineInv, selectVars
<1>12. QED
  BY <1>5, <1>6, <1>7, <1>8, <1>9, <1>10, <1>11 DEF AnyTick, AnyLoadWrite, AnyControlWrite

LEMMA HostResetInv ==
  ASSUME Reset
  PROVE  WiredInv'
<1>1. EngineInv'
  BY HostZeros, EngineResetInv DEF Reset
<1>2. QED
  BY <1>1, HostZeros DEF Reset, WiredInv, WiredTypeOK, OnePulse, EngineInv

LEMMA HostInitInv ==
  ASSUME HostInit
  PROVE  WiredInv
<1>1. EngineInv
  BY HostZeros, EngineInitInv DEF HostInit, RegistersInit
<1>2. QED
  BY <1>1, HostZeros DEF HostInit, RegistersInit, WiredInv, WiredTypeOK, OnePulse, EngineInv

LEMMA HostStutter ==
  ASSUME WiredInv, UNCHANGED vars
  PROVE  WiredInv'
<1>1. EngineInv'
  BY EngineStutter DEF WiredInv, vars
<1>2. QED
  BY <1>1 DEF WiredInv, WiredTypeOK, EngineInv, OnePulse, vars, hostVars, selectVars

-----------------------------------------------------------------------------
\* In an instance, a port carries what its host writes.
PortsOK == instr_write \in ProgramPort /\ data_write \in DataPort
HostInv == WiredInv /\ PortsOK

LEMMA PortsStep ==
  ASSUME HostInv, Tick
  PROVE  PortsOK'
<1>1. NoPort => PortsOK'
  BY HostZeros DEF NoPort, PortsOK
<1>2. ASSUME NEW op \in HostOpcodes, NEW cycles \in HostCycles, WriteInstrWord(op, cycles)
      PROVE  PortsOK'
  BY <1>2, HostZeros DEF WriteInstrWord, PortsOK, ProgramPort, HostInv, WiredInv, WiredTypeOK
<1>3. ASSUME NEW tile \in HostTiles, WriteDataWord(tile)
      PROVE  PortsOK'
  BY <1>3, HostZeros DEF WriteDataWord, PortsOK, DataPort, HostInv, WiredInv, WiredTypeOK
<1>4. QED
  BY <1>1, <1>2, <1>3 DEF Tick, NoWrite, LoadWrite, ControlWrite, WriteControl, WriteProgramLen,
     WriteInstrAddr, WriteDataAddr, WriteDataBank

\* The register file keeps its inductive invariant whatever the host writes.
THEOREM HostInvariance == Spec => []HostInv
<1>1. HostInit => HostInv
  BY HostInitInv, HostZeros DEF HostInit, RegistersInit, HostInv, PortsOK
<1>2. HostInv /\ [Next]_vars => HostInv'
  <2>1. ASSUME HostInv, Tick PROVE HostInv'
    BY <2>1, OneOfAnyHost, TickInv, PortsStep DEF HostInv
  <2>2. ASSUME Reset PROVE HostInv'
    BY <2>2, HostResetInv, HostZeros DEF Reset, HostInv, PortsOK
  <2>3. ASSUME HostInv, UNCHANGED vars PROVE HostInv'
    BY <2>3, HostStutter DEF HostInv, PortsOK, vars, hostVars
  <2>4. QED
    BY <2>1, <2>2, <2>3 DEF Next
<1>3. QED
  BY <1>1, <1>2, PTL DEF Spec

\* Every register of the register file and the engine keeps its width.
THEOREM HostTypeCorrect == Spec => []HostTypeOK
<1>1. HostInv => HostTypeOK
  BY DEF HostInv, WiredInv, WiredTypeOK, PortsOK, HostTypeOK
<1>2. QED
  BY <1>1, HostInvariance, PTL

\* A run executes what the memory holds, slot 0 included.
THEOREM HostRunsLoadedProgram == Spec => []RunsLoadedProgram
BY HostInvariance, PTL DEF HostInv, WiredInv, EngineInv

\* A result is of the run that shows it, START and CLEAR in mid run included.
THEOREM HostResultIsOfThisRun == Spec => []ResultIsOfThisRun
BY HostInvariance, PTL DEF HostInv, WiredInv, EngineInv, ResultIsOfThisRun

-----------------------------------------------------------------------------
(* The sticky done flag under a patient host.  The pulse must not be up    *)
(* together with a START pulse: both are latched at the next edge.         *)

PatientInv == WiredInv /\ DoneMeansOver /\ (done => ~start_q)

LEMMA PatientStep ==
  ASSUME PatientInv, AnyPatientClock
  PROVE  PatientInv'
<1>1. WiredInv'
  BY TickInv DEF PatientInv, AnyPatientClock, AnyTick
<1>2. Engine /\ SequencerEdge(start_q)
  BY DEF AnyPatientClock, NoWrite, AnyLoadWrite, AnyControlWrite, WriteControl, WriteProgramLen,
     WriteInstrAddr, WriteInstrWord, WriteDataAddr, WriteDataBank, WriteDataWord, Engine, EngineEdge
<1>3. /\ busy' => busy \/ start_q
      /\ done' => busy \/ start_q
      /\ done' => ~busy'
  BY <1>1, <1>2 DEF SequencerEdge, StartEmpty, StartProgram, Hold, Advance, Finish, Rest,
     WiredInv, EngineInv, ControllerInv, StrobesOnlyInRun
<1>4. done => ~busy /\ ~start_q
  BY DEF PatientInv, WiredInv, EngineInv, ControllerInv, StrobesOnlyInRun
<1>5. CASE Running
  <2>1. LatchDone /\ NoPulse
    BY <1>5 DEF AnyPatientClock, NoWrite, AnyLoadWrite, WriteInstrAddr, WriteInstrWord,
       WriteDataAddr, WriteDataBank, WriteDataWord
  <2>2. ~done_sticky_q'
    BY <1>4, <1>5, <2>1 DEF LatchDone, Running, PatientInv, DoneMeansOver
  <2>3. QED
    BY <1>1, <2>1, <2>2 DEF PatientInv, DoneMeansOver, NoPulse
<1>6. CASE ~Running
  <2>1. ~busy' /\ ~done'
    BY <1>3, <1>6 DEF Running
  <2>2. start_q' => ~done_sticky_q'
    BY DEF AnyPatientClock, NoWrite, AnyLoadWrite, AnyControlWrite, WriteControl, WriteProgramLen,
       WriteInstrAddr, WriteInstrWord, WriteDataAddr, WriteDataBank, WriteDataWord, NoPulse
  <2>3. QED
    BY <1>1, <2>1, <2>2 DEF PatientInv, DoneMeansOver, Running
<1>7. QED
  BY <1>5, <1>6

\* STATUS never reports done while a run of a patient host is still going.
THEOREM HostDoneMeansOver == PatientSpec => []DoneMeansOver
<1>1. HostInit => PatientInv
  BY HostInitInv DEF HostInit, EngineInit, ControllerInit, SequencerInit, RegistersInit,
     PatientInv, DoneMeansOver
<1>2. PatientInv /\ [PatientNext]_vars => PatientInv'
  <2>1. ASSUME PatientInv, Reset PROVE PatientInv'
    BY <2>1, HostResetInv DEF Reset, EngineReset, ControllerReset, PatientInv, DoneMeansOver
  <2>2. ASSUME PatientInv, UNCHANGED vars PROVE PatientInv'
    BY <2>2, HostStutter DEF PatientInv, DoneMeansOver, Running, vars, hostVars, engineVars,
       ctrlVars, sequencerVars
  <2>3. QED
    BY <2>1, <2>2, PatientStep, OneOfAnyHost DEF PatientNext
<1>3. PatientInv => DoneMeansOver
  BY DEF PatientInv
<1>4. QED
  BY <1>1, <1>2, <1>3, PTL DEF PatientSpec

-----------------------------------------------------------------------------
(* The refinement of TileService.  A START is only made when no run goes   *)
(* on, so the wipe of its edge is the one the service's Start has, and the *)
(* committed result is moved by no clock until the run is over.            *)

\* What the service is mapped to.
Offered == ProgramAfter(instr_write, data_write)
Promised == Committed(instr_write, data_write, start_q, clear_tile_q)
Reported == done_sticky_q \/ done

\* The service computes as the engine does.
LEMMA ServiceComputes ==
  /\ \A dp, p : Service!Interpret(dp, p) = Interpret(dp, p)
  /\ \A dp : Service!Cleared(dp) = Cleared(dp)
  /\ Service!ResetDatapath = [a |-> Zero, b |-> Zero, c |-> Zero, stored |-> Zero, valid |-> FALSE]
<1>1. Service!Zero = Zero
  BY DEF Service!Zero, Zero, Service!Cell, Cell
<1>2. ASSUME NEW dp, NEW p PROVE Service!Interpret(dp, p) = Interpret(dp, p)
  BY DEF Service!Interpret, Interpret, Service!Exec, Exec, Service!Accumulate, Accumulate,
     Service!Product, Product, Service!Cell, Cell
<1>3. \A dp : Service!Cleared(dp) = Cleared(dp)
  BY <1>1 DEF Service!Cleared, Cleared
<1>4. Service!ResetDatapath = [a |-> Zero, b |-> Zero, c |-> Zero, stored |-> Zero, valid |-> FALSE]
  BY <1>1 DEF Service!ResetDatapath
<1>5. QED
  BY <1>2, <1>3, <1>4

LEMMA PromisedIs ==
  ASSUME busy \in BOOLEAN, start_q \in BOOLEAN, clear_tile_q \in BOOLEAN
  PROVE  /\ busy => Promised = Interpret(Datapath, Ahead)
         /\ ~busy /\ start_q => Promised = Interpret(Cleared(Datapath), Offered)
         /\ ~busy /\ ~start_q => Promised = IF clear_tile_q THEN Cleared(Datapath) ELSE Datapath
BY DEF Promised, Committed, Offered

LEMMA PromisedIsNext ==
  ASSUME busy' \in BOOLEAN, start_q' \in BOOLEAN, clear_tile_q' \in BOOLEAN
  PROVE  /\ busy' => Promised' = Interpret(Datapath, Ahead)'
         /\ ~busy' /\ start_q' => Promised' = Interpret(Cleared(Datapath'), Offered')
         /\ ~busy' /\ ~start_q' => Promised' = IF clear_tile_q' THEN Cleared(Datapath') ELSE Datapath'
BY DEF Promised, Committed, Offered

ServiceInv ==
  /\ PatientInv
  /\ busy => ~start_q /\ ~clear_tile_q
  /\ start_q => ~instr_write.we /\ ~data_write.we

LEMMA HostBooleans ==
  ASSUME WiredInv
  PROVE  busy \in BOOLEAN /\ start_q \in BOOLEAN /\ clear_tile_q \in BOOLEAN /\ EngineInv /\ EngineTypeOK
BY DEF WiredInv, WiredTypeOK, EngineInv, EngineTypeOK, ControllerTypeOK

LEMMA HostBooleansNext ==
  ASSUME WiredInv'
  PROVE  busy' \in BOOLEAN /\ start_q' \in BOOLEAN /\ clear_tile_q' \in BOOLEAN /\ EngineTypeOK'
BY DEF WiredInv, WiredTypeOK, EngineInv, EngineTypeOK, ControllerTypeOK

\* No write is on its way where no port is enabled, or into a busy engine.
LEMMA NothingOffered ==
  ASSUME busy \/ (~instr_write.we /\ ~data_write.we)
  PROVE  Offered = Program
BY NothingOnItsWay DEF Offered, WriteAccepted, DataAccepted

LEMMA NothingOfferedNext ==
  ASSUME busy' \/ (~instr_write'.we /\ ~data_write'.we)
  PROVE  Offered' = Program'
BY DEF Offered, WriteAccepted, DataAccepted, ProgramAfter, Program

\* What a clock leaves of the host's registers while a run goes on.
LEMMA PatientQuiet ==
  ASSUME AnyPatientClock, Running
  PROVE  /\ Engine /\ ~start_q' /\ ~clear_tile_q' /\ program_len' = program_len
         /\ done_sticky_q' = (done_sticky_q \/ done)
BY DEF AnyPatientClock, NoWrite, AnyLoadWrite, WriteInstrAddr, WriteInstrWord, WriteDataAddr, WriteDataBank,
   WriteDataWord, NoPulse, LatchDone, selectVars

LEMMA ServiceInvStep ==
  ASSUME ServiceInv, AnyPatientClock
  PROVE  ServiceInv'
<1>1. PatientInv'
  BY PatientStep DEF ServiceInv
<1>2. start_q' => ~instr_write'.we /\ ~data_write'.we
  <2>1. NoPort => ~instr_write'.we /\ ~data_write'.we
    BY DEF NoPort, NoProgramWrite, NoDataWrite
  <2>2. NoPulse => ~start_q'
    BY DEF NoPulse
  <2>3. NoPort \/ NoPulse
    BY DEF AnyPatientClock, NoWrite, AnyLoadWrite, AnyControlWrite, WriteControl, WriteProgramLen,
       WriteInstrAddr, WriteInstrWord, WriteDataAddr, WriteDataBank, WriteDataWord
  <2>4. QED
    BY <2>1, <2>2, <2>3
<1>3. busy' => Running
  <2>1. SequencerEdge(start_q)
    BY DEF AnyPatientClock, NoWrite, AnyLoadWrite, AnyControlWrite, WriteControl, WriteProgramLen,
       WriteInstrAddr, WriteInstrWord, WriteDataAddr, WriteDataBank, WriteDataWord, Engine, EngineEdge
  <2>2. QED
    BY <2>1 DEF SequencerEdge, StartEmpty, StartProgram, Hold, Advance, Finish, Rest, Running
<1>4. busy' => ~start_q' /\ ~clear_tile_q'
  BY <1>3, PatientQuiet
<1>5. QED
  BY <1>1, <1>2, <1>4 DEF ServiceInv

-----------------------------------------------------------------------------
\* A clock of a run: the service stutters, or the run is over.
LEMMA RunServed ==
  ASSUME ServiceInv, AnyPatientClock, Running
  PROVE  \/ UNCHANGED <<Offered, Promised, Running, Reported>>
         \/ ~Running' /\ Reported' /\ Promised' = Promised
<1>1. /\ Engine /\ ~start_q' /\ ~clear_tile_q' /\ program_len' = program_len
      /\ done_sticky_q' = (done_sticky_q \/ done)
  BY PatientQuiet
<1>2. WiredInv /\ WiredInv'
  BY ServiceInvStep DEF ServiceInv, PatientInv
<1>3. ~done_sticky_q /\ ~done
  BY <1>2 DEF ServiceInv, PatientInv, DoneMeansOver, Running, WiredInv, EngineInv, ControllerInv, StrobesOnlyInRun
<1>4. busy' => ~done'
  BY <1>2 DEF WiredInv, EngineInv, ControllerInv, StrobesOnlyInRun
<1>5. busy' => Offered' = Program' /\ Promised' = Interpret(Datapath, Ahead)'
  BY <1>1, <1>2, HostBooleansNext, NothingOfferedNext, PromisedIsNext
<1>6. ~busy' => Promised' = Datapath'
  BY <1>1, <1>2, HostBooleansNext, PromisedIsNext
<1>7. CASE busy
  <2>1. ~start_q /\ ~clear_tile_q /\ start_q = FALSE /\ clear_tile_q = FALSE
    BY <1>2, <1>7, HostBooleans DEF ServiceInv
  <2>2. EngineEdge(instr_write, data_write, FALSE, FALSE)
    BY <1>1, <2>1 DEF Engine
  <2>3. /\ busy' => Interpret(Datapath, Ahead)' = Interpret(Datapath, Ahead)
        /\ ~busy' => Datapath' = Interpret(Datapath, Ahead)
    BY <1>1, <1>2, <1>7, <2>2, HostBooleans, HostBooleansNext, RunClock
  <2>4. Promised = Interpret(Datapath, Ahead) /\ Offered = Program
    BY <1>2, <1>7, HostBooleans, PromisedIs, NothingOffered
  <2>5. Program' = Program
    BY <1>1, <1>7, <2>2 DEF Program, Listing, Idx, EngineEdge, ProgramWrite, WriteAccepted,
       DataWrite, DataAccepted, programVars, memVars
  <2>6. ~busy' => done'
    BY <1>7, <2>2 DEF EngineEdge, SequencerEdge, StartEmpty, StartProgram, Hold, Advance, Finish, Rest
  <2>7. CASE busy'
    BY <1>1, <1>3, <1>4, <1>5, <1>7, <2>3, <2>4, <2>5, <2>7 DEF Running, Reported
  <2>8. CASE ~busy'
    BY <1>1, <1>6, <2>3, <2>4, <2>6, <2>8 DEF Running, Reported
  <2>9. QED
    BY <2>7, <2>8
<1>8. CASE ~busy
  <2>1. start_q /\ start_q = TRUE /\ ~instr_write.we /\ ~data_write.we /\ clear_tile_q \in BOOLEAN
    BY <1>2, <1>8, HostBooleans DEF ServiceInv, Running
  <2>2. EngineEdge(instr_write, data_write, TRUE, clear_tile_q)
    BY <1>1, <2>1 DEF Engine
  <2>3. /\ busy' => Interpret(Datapath, Ahead)' = Interpret(Cleared(Datapath), Program)
        /\ ~busy' => Datapath' = Interpret(Cleared(Datapath), Program) /\ done'
        /\ Program' = Program
    BY <1>1, <1>2, <1>8, <2>1, <2>2, HostBooleans, HostBooleansNext, StartClock
  <2>4. Offered = Program /\ Promised = Interpret(Cleared(Datapath), Offered)
    BY <1>2, <1>8, <2>1, HostBooleans, PromisedIs, NothingOffered
  <2>5. CASE busy'
    BY <1>1, <1>3, <1>4, <1>5, <2>1, <2>3, <2>4, <2>5 DEF Running, Reported
  <2>6. CASE ~busy'
    BY <1>1, <1>6, <2>3, <2>4, <2>6 DEF Running, Reported
  <2>7. QED
    BY <2>5, <2>6
<1>9. QED
  BY <1>7, <1>8

\* What the host writes between runs.
Quiet == NoPulse /\ LatchDone
Control(start, clear) ==
  /\ NoPort /\ program_len' = program_len
  /\ start_q' = start /\ clear_tile_q' = clear
  /\ done_sticky_q' = ((done_sticky_q \/ done) /\ ~(start \/ clear))

LEMMA PatientWrites ==
  ASSUME AnyPatientClock
  PROVE  Engine /\ (Quiet \/ \E start, clear \in BOOLEAN : Control(start, clear))
BY DEF AnyPatientClock, NoWrite, AnyLoadWrite, AnyControlWrite, WriteControl, WriteProgramLen, WriteInstrAddr,
   WriteInstrWord, WriteDataAddr, WriteDataBank, WriteDataWord, Quiet, Control, selectVars

\* A clock between runs, up to what the host writes at it.
LEMMA IdleEdge ==
  ASSUME ServiceInv, AnyPatientClock, ~Running
  PROVE  /\ ~busy' /\ ~done' /\ Promised = Datapath'
         /\ start_q' => Promised' = Interpret(Cleared(Promised), Offered')
         /\ ~start_q' => Promised' = IF clear_tile_q' THEN Cleared(Promised) ELSE Promised
         /\ program_len' = program_len => Program' = Offered
<1>1. ~busy /\ ~start_q /\ start_q = FALSE
  <2>1. ~busy /\ ~start_q
    BY DEF Running
  <2>2. start_q \in BOOLEAN
    BY HostBooleans DEF ServiceInv, PatientInv
  <2>3. QED
    BY <2>1, <2>2
<1>2. WiredInv /\ WiredInv'
  BY ServiceInvStep DEF ServiceInv, PatientInv
<1>3. EngineEdge(instr_write, data_write, FALSE, clear_tile_q)
  BY <1>1, PatientWrites DEF Engine
<1>4. /\ ~busy' /\ ~done' /\ Datapath' = Wiped(clear_tile_q)
      /\ program_len' = program_len => Program' = Offered
  BY <1>1, <1>2, <1>3, HostBooleans, IdleClock DEF Offered
<1>5. Promised = Datapath'
  BY <1>1, <1>2, <1>4, HostBooleans, PromisedIs DEF Wiped
<1>6. /\ start_q' => Promised' = Interpret(Cleared(Datapath'), Offered')
      /\ ~start_q' => Promised' = IF clear_tile_q' THEN Cleared(Datapath') ELSE Datapath'
  BY <1>2, <1>4, HostBooleansNext, PromisedIsNext
<1>7. QED
  BY <1>4, <1>5, <1>6

\* The host loads, or writes nothing.
LEMMA IdleLoads ==
  ASSUME ServiceInv, AnyPatientClock, ~Running, Quiet
  PROVE  ~Running' /\ Promised' = Promised /\ Reported' = Reported
<1>1. ~start_q' /\ ~clear_tile_q' /\ done_sticky_q' = (done_sticky_q \/ done)
  BY DEF Quiet, NoPulse, LatchDone
<1>2. QED
  BY <1>1, IdleEdge DEF Running, Reported

\* The host starts, clears, or writes a zero to CONTROL.
LEMMA IdleControls ==
  ASSUME ServiceInv, AnyPatientClock, ~Running,
         NEW start \in BOOLEAN, NEW clear \in BOOLEAN, Control(start, clear)
  PROVE  /\ start => /\ Running' /\ ~Reported' /\ Offered' = Offered
                     /\ Promised' = Interpret(Cleared(Promised), Offered)
         /\ ~start /\ clear => ~Running' /\ ~Reported' /\ Promised' = Cleared(Promised)
         /\ ~start /\ ~clear => ~Running' /\ Promised' = Promised /\ Reported' = Reported
<1>1. /\ start_q' = start /\ clear_tile_q' = clear
      /\ done_sticky_q' = ((done_sticky_q \/ done) /\ ~(start \/ clear))
      /\ program_len' = program_len
  BY DEF Control
<1>2. ~instr_write'.we /\ ~data_write'.we
  BY DEF Control, NoPort, NoProgramWrite, NoDataWrite
<1>3. Offered' = Offered
  BY <1>1, <1>2, IdleEdge, NothingOfferedNext
<1>4. CASE start
  BY <1>1, <1>3, <1>4, IdleEdge DEF Running, Reported
<1>5. CASE ~start /\ clear
  BY <1>1, <1>5, IdleEdge DEF Running, Reported
<1>6. CASE ~start /\ ~clear
  BY <1>1, <1>6, IdleEdge DEF Running, Reported
<1>7. QED
  BY <1>4, <1>5, <1>6

\* A clock between runs: the host loads, starts or clears.
LEMMA IdleServed ==
  ASSUME ServiceInv, AnyPatientClock, ~Running
  PROVE  \/ ~Running' /\ Promised' = Promised /\ Reported' = Reported
         \/ /\ Running' /\ ~Reported' /\ Offered' = Offered
            /\ Promised' = Interpret(Cleared(Promised), Offered)
         \/ ~Running' /\ ~Reported' /\ Promised' = Cleared(Promised)
<1>1. CASE Quiet
  BY <1>1, IdleLoads
<1>2. ASSUME NEW start \in BOOLEAN, NEW clear \in BOOLEAN, Control(start, clear)
      PROVE  \/ ~Running' /\ Promised' = Promised /\ Reported' = Reported
             \/ /\ Running' /\ ~Reported' /\ Offered' = Offered
                /\ Promised' = Interpret(Cleared(Promised), Offered)
             \/ ~Running' /\ ~Reported' /\ Promised' = Cleared(Promised)
  BY <1>2, IdleControls
<1>3. QED
  BY <1>1, <1>2, PatientWrites

-----------------------------------------------------------------------------
LEMMA ResetServed ==
  ASSUME Reset
  PROVE  /\ ServiceInv' /\ ~Running' /\ ~Reported'
         /\ Promised' = [a |-> Zero, b |-> Zero, c |-> Zero, stored |-> Zero, valid |-> FALSE]
<1>1. WiredInv'
  BY HostResetInv
<1>2. /\ busy' = FALSE /\ done' = FALSE /\ start_q' = FALSE /\ clear_tile_q' = FALSE
      /\ done_sticky_q' = FALSE
  BY DEF Reset, EngineReset, ControllerReset
<1>3. Promised' = Datapath'
  BY <1>1, <1>2, HostBooleansNext, PromisedIsNext
<1>4. Datapath' = [a |-> Zero, b |-> Zero, c |-> Zero, stored |-> Zero, valid |-> FALSE]
  BY DEF Reset, EngineReset, Datapath
<1>5. QED
  BY <1>1, <1>2, <1>3, <1>4 DEF ServiceInv, PatientInv, DoneMeansOver, Running, Reported

LEMMA InitServed ==
  ASSUME HostInit
  PROVE  /\ ServiceInv /\ ~Running /\ ~Reported
         /\ Promised = [a |-> Zero, b |-> Zero, c |-> Zero, stored |-> Zero, valid |-> FALSE]
<1>1. WiredInv
  BY HostInitInv
<1>2. /\ busy = FALSE /\ done = FALSE /\ start_q = FALSE /\ clear_tile_q = FALSE
      /\ done_sticky_q = FALSE
  BY DEF HostInit, EngineInit, ControllerInit, SequencerInit, RegistersInit
<1>3. Promised = Datapath
  BY <1>1, <1>2, HostBooleans, PromisedIs
<1>4. Datapath = [a |-> Zero, b |-> Zero, c |-> Zero, stored |-> Zero, valid |-> FALSE]
  BY DEF HostInit, EngineInit, DatapathInit, Datapath
<1>5. QED
  BY <1>1, <1>2, <1>3, <1>4 DEF ServiceInv, PatientInv, DoneMeansOver, Running, Reported

LEMMA StutterServed ==
  ASSUME ServiceInv, UNCHANGED vars
  PROVE  ServiceInv' /\ UNCHANGED <<Offered, Promised, Running, Reported>>
<1>1. WiredInv'
  BY HostStutter DEF ServiceInv, PatientInv
<1>2. UNCHANGED <<busy, done, start_q, clear_tile_q, done_sticky_q, instr_write, data_write>>
  BY DEF vars, hostVars, engineVars, ctrlVars, sequencerVars
<1>3. ServiceInv'
  BY <1>1, <1>2 DEF ServiceInv, PatientInv, DoneMeansOver, Running
<1>4. UNCHANGED <<Offered, Promised, Running, Reported>>
  BY DEF vars, hostVars, engineVars, ctrlVars, sequencerVars, programVars, dataVars, memVars, Offered,
     Promised, Running, Reported, ProgramAfter, Committed, Listing, Idx, WriteAccepted, DataAccepted,
     Datapath, Ahead, Cleared
<1>5. QED
  BY <1>3, <1>4

\* For a patient host the register file is a TileService.
THEOREM HostIsService == PatientSpec => Service!Spec
<1>1. HostInit => ServiceInv /\ Service!Init
  BY InitServed, ServiceComputes DEF Service!Init, Promised, Reported
<1>2. ServiceInv /\ [PatientNext]_vars => ServiceInv' /\ [Service!Next]_Service!vars
  <2>1. ASSUME ServiceInv, UNCHANGED vars PROVE ServiceInv' /\ UNCHANGED Service!vars
    BY <2>1, StutterServed DEF Service!vars, Offered, Promised, Reported
  <2>2. ASSUME Reset PROVE ServiceInv' /\ Service!Next
    BY <2>2, ResetServed, ServiceComputes DEF Service!Next, Service!Reset, Promised, Reported
  <2>3. ASSUME ServiceInv, AnyPatientClock, Running
        PROVE  ServiceInv' /\ [Service!Next]_Service!vars
    <3>1. CASE UNCHANGED <<Offered, Promised, Running, Reported>>
      BY <2>3, <3>1, ServiceInvStep DEF Service!vars, Offered, Promised, Reported
    <3>2. CASE ~Running' /\ Reported' /\ Promised' = Promised
      BY <2>3, <3>2, ServiceInvStep DEF Service!Next, Service!Finish, Promised, Reported
    <3>3. QED
      BY <2>3, <3>1, <3>2, RunServed
  <2>4. ASSUME ServiceInv, AnyPatientClock, ~Running
        PROVE  ServiceInv' /\ Service!Next
    <3>1. CASE ~Running' /\ Promised' = Promised /\ Reported' = Reported
      BY <2>4, <3>1, ServiceInvStep DEF Service!Next, Service!Load, Promised, Reported, Running
    <3>2. CASE /\ Running' /\ ~Reported' /\ Offered' = Offered
               /\ Promised' = Interpret(Cleared(Promised), Offered)
      <4>1. Promised' = Service!Interpret(Service!Cleared(Promised), Offered)
        BY <3>2, ServiceComputes
      <4>2. QED
        BY <2>4, <3>2, <4>1, ServiceInvStep DEF Service!Next, Service!Start, Offered, Promised, Reported
    <3>3. CASE ~Running' /\ ~Reported' /\ Promised' = Cleared(Promised)
      <4>1. Promised' = Service!Cleared(Promised)
        BY <3>3, ServiceComputes
      <4>2. QED
        BY <2>4, <3>3, <4>1, ServiceInvStep DEF Service!Next, Service!Clear, Promised, Reported
    <3>4. QED
      BY <2>4, <3>1, <3>2, <3>3, IdleServed
  <2>5. QED
    BY <2>1, <2>2, <2>3, <2>4, OneOfAnyHost DEF PatientNext
<1>3. QED
  BY <1>1, <1>2, PTL DEF PatientSpec, Service!Spec
=============================================================================
