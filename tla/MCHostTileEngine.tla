---------------------------- MODULE MCHostTileEngine ----------------------------
(* Small instances of HostTileEngine.                                      *)
EXTENDS HostTileEngine, SmallInstance

Preloaded == PreloadedEngine /\ RegistersInit

FreeSpec == Preloaded /\ [][Next]_vars
PatientLoadedSpec == Preloaded /\ [][PatientNext]_vars /\ WF_vars(PatientClock)
=============================================================================
