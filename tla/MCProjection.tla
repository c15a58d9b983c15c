---------------------------- MODULE MCProjection ----------------------------
(* Every legal log of a few events of one stream.                          *)
EXTENDS Projection, TLC
=============================================================================
