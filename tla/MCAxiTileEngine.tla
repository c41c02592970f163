---------------------------- MODULE MCAxiTileEngine ----------------------------
(* Small instances of AxiLiteTileEngine and its masters.                   *)
EXTENDS AxiMaster, SmallInstance

Preloaded == PreloadedEngine /\ RegistersInit /\ owed_b = 0 /\ owed_r = 0

\* The wrapper under every master; what the master is owed plays no part.
Unmetered == UNCHANGED <<owed_b, owed_r>>

FreeSpec == Preloaded /\ [][Next /\ Unmetered]_masterVars
Patient ==
  /\ Preloaded
  /\ [][PatientNext /\ Unmetered]_masterVars
  /\ WF_masterVars(PatientClock /\ Unmetered)

Blocking  == Preloaded /\ [][BlockingClock \/ MasterReset]_masterVars
Streaming == Preloaded /\ [][StreamingClock \/ MasterReset]_masterVars
Eager     == Preloaded /\ [][EagerClock \/ MasterReset]_masterVars
=============================================================================
