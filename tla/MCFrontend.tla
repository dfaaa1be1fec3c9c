----------------------------- MODULE MCFrontend -----------------------------
(* Instances of Frontend for TLC.                                          *)
EXTENDS Frontend

CONSTANTS c1, c2, i1, i2
=============================================================================
