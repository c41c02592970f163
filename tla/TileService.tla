------------------------------ MODULE TileService ------------------------------
(***************************************************************************)
(* What a register wrapper of the tile engine promises a host that leaves  *)
(* CONTROL and PROGRAM_LEN alone between START and the end of the run:     *)
(* START commits the engine to the result of the program and tiles loaded  *)
(* at that moment, and when the run is reported over that result, neither  *)
(* stale nor partial nor disturbed by later writes, is what can be read.   *)
(* The datapath here holds the committed result from START on.             *)
(***************************************************************************)
EXTENDS TileMath

VARIABLES
  program,    \* the instructions START would run, with the tiles they address
  datapath,   \* [a, b, c, stored, valid]
  running,    \* between START and the end of the run
  finished    \* the run is over and has not been cleared

vars == <<program, datapath, running, finished>>

ResetDatapath == [a |-> Zero, b |-> Zero, c |-> Zero, stored |-> Zero, valid |-> FALSE]

Init == datapath = ResetDatapath /\ ~running /\ ~finished

Load == ~running /\ ~running' /\ UNCHANGED <<datapath, running, finished>>

Start ==
  /\ ~running /\ running' /\ ~finished'
  /\ datapath' = Interpret(Cleared(datapath), program)
  /\ UNCHANGED program

\* Writes that arrive during the run are dropped.
Finish == running /\ ~running' /\ finished' /\ UNCHANGED datapath

Clear == ~running /\ ~running' /\ ~finished' /\ datapath' = Cleared(datapath)

Reset == ~running' /\ ~finished' /\ datapath' = ResetDatapath

Next == Load \/ Start \/ Finish \/ Clear \/ Reset

Spec == Init /\ [][Next]_vars
\* A run that was started ends.
RunsFinish == running ~> ~running
LiveSpec   == Spec /\ RunsFinish
=============================================================================
