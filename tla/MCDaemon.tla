------------------------------ MODULE MCDaemon ------------------------------
(* Instances of Daemon for TLC.                                            *)
EXTENDS Daemon

CONSTANTS self, p1, h1, h2, r1, r2

Leads(e)   == [is_leader |-> TRUE, leader |-> NoNode, epoch |-> e]
Follows(e) == [is_leader |-> FALSE, leader |-> p1, epoch |-> e]

\* The epochs 1 and 2 are led, with a peer in between; a reset in the middle
\* of it makes the node lead epoch 1 again.
TurnViews == {blank, Leads(1), Follows(2), Leads(2)}

\* A leadership that is lost.
LeadViews == {blank, Leads(1)}

PeerReported == {[hash |-> h1, origin |-> p1]}
NoReported   == {}

\* The daemon starts on a node that has never had a schedule.
FreshInit == DaemonInit /\ last_known = {}
FreshSpec == FreshInit /\ [][DaemonNext]_daemonVars /\ DaemonFairness
=============================================================================
