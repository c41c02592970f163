------------------------------- MODULE AxiMaster -------------------------------
(***************************************************************************)
(* AXI masters in front of AxiLiteTileEngine, with the responses they are  *)
(* owed.  tests_rtl/test_axi_lite_tile_engine.py is the blocking one: its  *)
(* write_reg and read_reg finish one access before they begin the next.    *)
(***************************************************************************)
EXTENDS AxiLiteTileEngine

CONSTANT MaxOwed   \* bound: accesses a master leaves unanswered on a channel

VARIABLES owed_b, owed_r   \* accesses accepted and not yet answered

masterVars == <<vars, owed_b, owed_r>>

MasterInit == AxiInit /\ owed_b = 0 /\ owed_r = 0

One(b) == IF b THEN 1 ELSE 0

\* A write or a read fires, or not; the master may take a response at that edge.
WriteFires(bready) ==
  PatientWrite /\ owed_b < MaxOwed /\ owed_b' = owed_b + 1 - One(bvalid /\ bready)
WriteWaits(bready) ==
  NoWrite(bready) /\ owed_b' = owed_b - One(bvalid /\ bready)
ReadFires(rready) ==
  /\ \E reg \in HostReads : Read(reg)
  /\ owed_r < MaxOwed /\ owed_r' = owed_r + 1 - One(rvalid /\ rready)
ReadWaits(rready) ==
  NoRead(rready) /\ owed_r' = owed_r - One(rvalid /\ rready)

MasterReset == Reset /\ owed_b' = 0 /\ owed_r' = 0

-----------------------------------------------------------------------------
\* One access at a time: nothing is issued until the last one was answered.
BlockingClock ==
  /\ Engine
  /\ \E bready, rready \in BOOLEAN :
       \/ WriteWaits(bready) /\ ReadWaits(rready)
       \/ owed_b + owed_r = 0 /\ WriteFires(bready) /\ ReadWaits(rready)
       \/ owed_b + owed_r = 0 /\ WriteWaits(bready) /\ ReadFires(rready)

BlockingSpec == MasterInit /\ [][BlockingClock \/ MasterReset]_masterVars

\* Both channels at once, back to back, but a channel issues an access over a
\* pending response only at the edge it takes that response.
StreamingClock ==
  /\ Engine
  /\ \E bready, rready \in BOOLEAN :
       /\ WriteWaits(bready) \/ ((bvalid => bready) /\ WriteFires(bready))
       /\ ReadWaits(rready) \/ ((rvalid => rready) /\ ReadFires(rready))

StreamingSpec == MasterInit /\ [][StreamingClock \/ MasterReset]_masterVars

\* A master that issues whenever the ready outputs allow it: always.
EagerClock ==
  /\ Engine
  /\ \E bready, rready \in BOOLEAN :
       /\ WriteWaits(bready) \/ WriteFires(bready)
       /\ ReadWaits(rready) \/ ReadFires(rready)

EagerSpec == MasterInit /\ [][EagerClock \/ MasterReset]_masterVars

-----------------------------------------------------------------------------
\* Each accepted access, unknown registers included, gets one response, and no
\* response comes without an access.
EveryAccessAnswered == owed_b = One(bvalid) /\ owed_r = One(rvalid)

\* A STATUS word that says done is about a run that is over: a blocking master
\* that polls after the response to its START never takes the flag of an
\* earlier run for the new one, although START clears it only a clock after
\* the write, and no CLEAR was written.
DoneReadMeansOver ==
  rvalid /\ rdata[1] = "STATUS" /\ rdata[2].done => ~Running /\ ~rdata[2].busy
=============================================================================
