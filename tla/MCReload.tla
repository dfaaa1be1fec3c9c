------------------------------ MODULE MCReload ------------------------------
(* Instances of Reload for TLC.                                            *)
EXTENDS Reload
=============================================================================
