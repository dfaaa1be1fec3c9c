--------------------------- MODULE ElectionState ---------------------------
(***************************************************************************)
(* What a node tells the rest of its daemon of the election: the           *)
(* ElectionState that is made from the state machine after every poll and  *)
(* kept in SharedState.  Election is shown to produce such states, one     *)
(* after the other as Succeeds has them; SharedState and the modules built *)
(* on it assume no more of the election.                                   *)
(***************************************************************************)
EXTENDS Integers

CONSTANTS
  Node,      \* machine ids
  NoNode,    \* Option::None of a machine id
  MaxEpoch   \* bound: the last epoch there is

\* A node that is in an election has no leader; real epochs start from 1.
ElectionStates ==
  [is_leader : {FALSE}, leader : {NoNode}, epoch : 0 .. MaxEpoch]
    \cup [is_leader : {TRUE}, leader : {NoNode}, epoch : 1 .. MaxEpoch]
    \cup [is_leader : {FALSE}, leader : Node, epoch : 1 .. MaxEpoch]

blank == [is_leader |-> FALSE, leader |-> NoNode, epoch |-> 0]

\* After v, a node is in w: it has lost its memory, it has gone on to another
\* epoch, or it has got a leader, itself or another, for the epoch it is in.
\* A leader does not stay in its epoch as anything else.
Succeeds(v, w) ==
  \/ w = blank
  \/ w.epoch > v.epoch
  \/ /\ w.epoch = v.epoch
     /\ v.is_leader => w = v
     /\ v.leader # NoNode => w.leader # NoNode
=============================================================================
