----------------------------- MODULE MCElection -----------------------------
(* Instances of Election for TLC.                                          *)
EXTENDS Election

CONSTANTS n1, n2, n3, n4

\* The peer list h, with every host of it responsive.
Listed(h) == [hosts |-> h, direct |-> h]

\* Every node always sees the whole cluster.
FullInfos == [n \in Node |-> {Listed(Node \ {n})}]
=============================================================================
