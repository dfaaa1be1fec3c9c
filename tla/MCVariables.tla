---------------------------- MODULE MCVariables ----------------------------
(* Instances of Variables for TLC.                                         *)
EXTENDS Variables
=============================================================================
