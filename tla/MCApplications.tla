--------------------------- MODULE MCApplications ---------------------------
(* Two requests at a time, for one address.                                *)
EXTENDS Applications, TLC
=============================================================================
