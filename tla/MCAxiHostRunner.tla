------------------------------ MODULE MCAxiHostRunner ------------------------------
(* AxiHostRunner on the matmuls of SmallMatmuls; the runner's own table is its only host. *)
EXTENDS AxiHostRunner, SmallMatmuls

NoTiles == {}
=============================================================================
