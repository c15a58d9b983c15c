------------------------------ MODULE MCPaging ------------------------------
(* Every listing over three rows with two keys, so that keys tie.           *)
EXTENDS Paging, TLC

MCRows == 1 .. 3
=============================================================================
