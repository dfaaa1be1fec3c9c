----------------------------- MODULE MCFetcher -----------------------------
(* Instances of Fetcher for TLC.                                           *)
EXTENDS Fetcher

CONSTANTS self, p1, h1, h2

Sched(hash, origin) == [hash |-> hash, origin |-> origin]
Leads(e)   == [is_leader |-> TRUE, leader |-> NoNode, epoch |-> e]
Follows(e) == [is_leader |-> FALSE, leader |-> p1, epoch |-> e]

\* The node and its peer lead in turn.  The peer has schedules that it has made
\* and one, with the same hash, that the node has made in an earlier life.
TurnViews    == {blank, Follows(1), Leads(2), Follows(2)}
TurnReported == {Sched(h1, p1), Sched(h1, self), Sched(h2, p1)}
=============================================================================
