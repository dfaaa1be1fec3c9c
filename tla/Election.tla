------------------------------ MODULE Election ------------------------------
(***************************************************************************)
(* The leader election of verwalter: the state machine of machine.rs run   *)
(* by every node, and the UDP packets network.rs sends for it.             *)
(*                                                                         *)
(* A timeout may fire in any state: the deadlines (random, 0.5 s to 9 s)   *)
(* are abstracted to "some time has passed".  UDP loses, duplicates and    *)
(* reorders: `msgs' only grows, a packet may be received at any time after *)
(* it was sent, any number of times, or never.                             *)
(*                                                                         *)
(* What a node knows of the cluster is the list of peers its local cantal  *)
(* agent reports; it is an input of every step, drawn from Infos[n].       *)
(***************************************************************************)
EXTENDS ElectionState, FiniteSets

CONSTANTS
  Infos,          \* Infos[n]: the peer lists that cantal may report to n
  AllowMinority,  \* the --allow-minority-cluster option
  ForceLeader,    \* the --debug-force-leader option
  MaxForgotten    \* bound: a node is not reset in a later epoch than this one

\* hosts is the peer list without n itself; direct are the hosts that have
\* reported to cantal directly within UNRESPONSIBLE_PEER_TIMEO.
Info == [hosts : SUBSET Node, direct : SUBSET Node]

ASSUME NodeAssumption == IsFiniteSet(Node) /\ NoNode \notin Node

ASSUME InfosAssumption ==
  /\ Infos \in [Node -> SUBSET Info]
  /\ \A n \in Node : \A i \in Infos[n] : n \notin i.hosts /\ i.direct \subseteq i.hosts

ASSUME OptionsAssumption ==
  /\ AllowMinority \in BOOLEAN /\ ForceLeader \in BOOLEAN
  /\ MaxEpoch \in Nat \ {0} /\ MaxForgotten \in Nat

VARIABLES
  state,        \* the variant of Machine each node is in
  epoch,        \* its epoch; 0 in Starting, real epochs start from 1
  votesForMe,   \* Electing.votes_for_me, {} in the other variants
  neededVotes,  \* Electing.needed_votes, 0 in the other variants
  peer,         \* Voted.peer or Follower.leader
  msgs,         \* every packet ever sent
  amnesia       \* history: the highest epoch some node has forgotten

machineVars == <<state, epoch, votesForMe, neededVotes, peer>>
vars == <<machineVars, msgs, amnesia>>

States == {"Starting", "Electing", "Voted", "Leader", "Follower"}
Epoch  == 0 .. MaxEpoch

\* A packet. `to' are the nodes it is addressed to, `vote' the candidate.
Message ==
  [type : {"Ping", "Pong"}, src : Node, to : SUBSET Node, epoch : 1 .. MaxEpoch, vote : {NoNode}]
    \cup
  [type : {"Vote"}, src : Node, to : SUBSET Node, epoch : 1 .. MaxEpoch, vote : Node]

Init ==
  /\ state       = [n \in Node |-> "Starting"]
  /\ epoch       = [n \in Node |-> 0]
  /\ votesForMe  = [n \in Node |-> {}]
  /\ neededVotes = [n \in Node |-> 0]
  /\ peer        = [n \in Node |-> NoNode]
  /\ msgs = {}
  /\ amnesia = 0

-----------------------------------------------------------------------------
(* Sending.                                                                *)

Send(type, n, to, e, v) ==
  msgs' = msgs \cup {[type |-> type, src |-> n, to |-> to, epoch |-> e, vote |-> v]}

\* Action::PingAll and Action::Vote go to every host of the list.
SendAll(type, n, i, e, v) == Send(type, n, i.hosts, e, v)

\* Action::Pong and Action::ConfirmVote go to one node, when it is listed.
SendTo(type, n, i, dest, e, v) == Send(type, n, {dest} \cap i.hosts, e, v)

-----------------------------------------------------------------------------
(* The constructors of the machine's variants.                             *)

Become(n, st, e, votes, needed, p) ==
  /\ state'       = [state EXCEPT ![n] = st]
  /\ epoch'       = [epoch EXCEPT ![n] = e]
  /\ votesForMe'  = [votesForMe EXCEPT ![n] = votes]
  /\ neededVotes' = [neededVotes EXCEPT ![n] = needed]
  /\ peer'        = [peer EXCEPT ![n] = p]

\* The peers counted are those of the list, or the responsive ones only.
CountedPeers(i) == IF AllowMinority THEN i.direct ELSE i.hosts

MinimumVotes(i) ==
  LET n == Cardinality(CountedPeers(i)) + 1
  IN  IF n <= 2 THEN n ELSE n \div 2 + 1

Follow(n, i, leader, e) ==
  /\ Become(n, "Follower", e, {}, 0, leader)
  /\ SendTo("Pong", n, i, leader, e, NoNode)
  /\ UNCHANGED amnesia

BecomeLeader(n, i, e) ==
  /\ Become(n, "Leader", e, {}, 0, NoNode)
  /\ SendAll("Ping", n, i, e, NoNode)
  /\ UNCHANGED amnesia

\* The node votes for itself and asks every host for its vote.
StartElection(n, i, e) ==
  /\ e <= MaxEpoch
  /\ Become(n, "Electing", e, {n}, MinimumVotes(i), NoNode)
  /\ SendAll("Vote", n, i, e, n)
  /\ UNCHANGED amnesia

ConfirmVote(n, i, id, e) ==
  /\ Become(n, "Voted", e, {}, 0, id)
  /\ SendTo("Vote", n, i, id, e, id)
  /\ UNCHANGED amnesia

\* The machine goes back to Starting: its epoch and its vote are forgotten.
Forget(n) ==
  /\ epoch[n] <= MaxForgotten
  /\ Become(n, "Starting", 0, {}, 0, NoNode)
  /\ amnesia' = IF epoch[n] > amnesia THEN epoch[n] ELSE amnesia
  /\ UNCHANGED msgs

-----------------------------------------------------------------------------
(* Machine::time_passed, with the deadline in the past.                    *)

\* The peer list is outdated (cantal has not answered for 1.5 s).
WaitingHosts(n) == Forget(n)

\* Mutant: a starting node does not look whether it is alone.
ElectSelfAnyway(n, i) == state[n] = "Starting" /\ BecomeLeader(n, i, 1)

\* A node that has no peers at all leads alone.
ElectSelf(n, i) ==
  /\ state[n] = "Starting"
  /\ i.hosts = {} \/ ForceLeader
  /\ BecomeLeader(n, i, 1)

\* Mutant: the first election is held in the epoch of the Starting state.
ElectStartAtZero(n, i) ==
  state[n] = "Starting" /\ i.hosts # {} /\ StartElection(n, i, 0)

ElectStart(n, i) ==
  /\ state[n] = "Starting"
  /\ i.hosts # {} /\ ~ForceLeader
  /\ StartElection(n, i, 1)

\* No result, no ping from the candidate, or no ping from the leader.
ElectAgain(n, i) ==
  /\ state[n] \in {"Electing", "Voted", "Follower"}
  /\ StartElection(n, i, epoch[n] + 1)

PingAll(n, i) ==
  /\ state[n] = "Leader"
  /\ SendAll("Ping", n, i, epoch[n], NoNode)
  /\ UNCHANGED <<machineVars, amnesia>>

TimePassed(n) ==
  \/ WaitingHosts(n)
  \/ \E i \in Infos[n] :
       ElectSelf(n, i) \/ ElectStart(n, i) \/ ElectAgain(n, i) \/ PingAll(n, i)

-----------------------------------------------------------------------------
(* Machine::message.  A node ignores the packets it has sent itself.       *)

Receives(n, m) == n \in m.to /\ m.src # n
Older(n, m)    == m.epoch < epoch[n]
Current(n, m)  == m.epoch = epoch[n]
Newer(n, m)    == m.epoch > epoch[n]

\* Packets of older epochs are discarded; a leader ignores the pongs of its
\* epoch, and a vote is late for a node that is no longer in an election.
Pass(n, m) ==
  /\ \/ Older(n, m)
     \/ Current(n, m) /\ m.type = "Pong" /\ state[n] = "Leader"
     \/ Current(n, m) /\ m.type = "Vote" /\ state[n] \in {"Voted", "Leader", "Follower"}
  /\ UNCHANGED vars

\* Mutant: a leader takes the ping of another leader for an echo.
PingConflictIgnored(n, m, i) ==
  /\ m.type = "Ping"
  /\ Current(n, m) /\ state[n] = "Leader"
  /\ UNCHANGED vars

\* Mutant: the new election is held in the same epoch.
PingConflictSameEpoch(n, m, i) ==
  /\ m.type = "Ping"
  /\ Current(n, m) /\ state[n] = "Leader"
  /\ StartElection(n, i, m.epoch)

\* Two leaders of one epoch have met: a new election.
PingConflict(n, m, i) ==
  /\ m.type = "Ping"
  /\ Current(n, m) /\ state[n] = "Leader"
  /\ StartElection(n, i, m.epoch + 1)

PingFollow(n, m, i) ==
  /\ m.type = "Ping"
  /\ Newer(n, m) \/ (Current(n, m) /\ state[n] # "Leader")
  /\ Follow(n, i, m.src, m.epoch)

\* A pong in any other state: the peers are wrong on who leads.
PongUnsolicited(n, m, i) ==
  /\ m.type = "Pong"
  /\ Newer(n, m) \/ (Current(n, m) /\ state[n] # "Leader")
  /\ StartElection(n, i, m.epoch + 1)

\* Mutant: also a late vote of the current epoch is confirmed.
VoteConfirmLate(n, m, i) ==
  /\ m.type = "Vote"
  /\ ~Older(n, m)
  /\ ConfirmVote(n, i, m.vote, m.epoch)

\* The first vote seen in an epoch is followed, whoever sent it.
VoteConfirm(n, m, i) ==
  /\ m.type = "Vote"
  /\ Newer(n, m) \/ (Current(n, m) /\ state[n] = "Starting")
  /\ ConfirmVote(n, i, m.vote, m.epoch)

\* The bigger of the votes needed at the start of the epoch and now.
Need(n, i) ==
  IF MinimumVotes(i) > neededVotes[n] THEN MinimumVotes(i) ELSE neededVotes[n]

\* Mutant: the candidate of the vote is not looked at.
VoteForAnybody(n, m, i) ==
  /\ m.type = "Vote"
  /\ Current(n, m) /\ state[n] = "Electing"
  /\ LET votes == votesForMe[n] \cup {m.src} IN
       \/ /\ Cardinality(votes) >= Need(n, i)
          /\ BecomeLeader(n, i, epoch[n])
       \/ /\ Cardinality(votes) < Need(n, i)
          /\ votesForMe' = [votesForMe EXCEPT ![n] = votes]
          /\ UNCHANGED <<state, epoch, neededVotes, peer, msgs, amnesia>>

VoteForMe(n, m, i) ==
  /\ m.type = "Vote"
  /\ Current(n, m) /\ state[n] = "Electing"
  /\ m.vote = n
  /\ LET votes == votesForMe[n] \cup {m.src} IN
       \/ /\ Cardinality(votes) >= Need(n, i)
          /\ BecomeLeader(n, i, epoch[n])
       \/ /\ Cardinality(votes) < Need(n, i)
          /\ votesForMe' = [votesForMe EXCEPT ![n] = votes]
          /\ UNCHANGED <<state, epoch, neededVotes, peer, msgs, amnesia>>

\* A peer has voted for somebody else.
VoteOther(n, m) ==
  /\ m.type = "Vote"
  /\ Current(n, m) /\ state[n] = "Electing"
  /\ m.vote # n
  /\ UNCHANGED vars

Receive(n, m) ==
  /\ Receives(n, m)
  /\ \E i \in Infos[n] :
       \/ Pass(n, m)
       \/ VoteOther(n, m)
       \/ PingConflict(n, m, i)
       \/ PingFollow(n, m, i)
       \/ PongUnsolicited(n, m, i)
       \/ VoteConfirm(n, m, i)
       \/ VoteForMe(n, m, i)

\* The daemon is restarted: nothing of the election is kept on disk.
Restart(n) == Forget(n)

Next == \E n \in Node : TimePassed(n) \/ Restart(n) \/ \E m \in msgs : Receive(n, m)

Spec == Init /\ [][Next]_vars

\* A ping of a leader gets through in the end: the leader repeats it every
\* HEARTBEAT_INTERVAL.  Nothing is assumed of the timeouts, nor of the packets
\* that are sent once.
HearPing(n, l, e) ==
  \E m \in msgs : m.type = "Ping" /\ m.src = l /\ m.epoch = e /\ Receive(n, m)

FairSpec ==
  Spec /\ \A n, l \in Node : \A e \in 1 .. MaxEpoch : WF_vars(HearPing(n, l, e))

-----------------------------------------------------------------------------
(* Properties.  The epochs up to `amnesia' are those in which some node     *)
(* may have voted, been reset, and voted again; the code makes no promise   *)
(* about them.                                                             *)

\* The types, and the fields that each variant of Machine has.
TypeOK ==
  /\ state \in [Node -> States]
  /\ epoch \in [Node -> Epoch]
  /\ votesForMe \in [Node -> SUBSET Node]
  /\ neededVotes \in [Node -> Nat]
  /\ peer \in [Node -> Node \cup {NoNode}]
  /\ msgs \subseteq Message
  /\ amnesia \in Epoch
  /\ \A n \in Node :
       /\ state[n] = "Starting" <=> epoch[n] = 0
       /\ state[n] # "Electing" => votesForMe[n] = {} /\ neededVotes[n] = 0
       /\ state[n] \notin {"Voted", "Follower"} <=> peer[n] = NoNode

Packets(type) == {m \in msgs : m.type = type}

\* Who has voted for n in epoch e, whether or not n has heard of it.
Voters(n, e) == {v \in Node : \E m \in Packets("Vote") : m.src = v /\ m.epoch = e /\ m.vote = n}

\* Every list of peers requires the votes of a majority of the real cluster.
MajorityInfos ==
  /\ ~ForceLeader
  /\ \A n \in Node : \A i \in Infos[n] : 2 * MinimumVotes(i) > Cardinality(Node)

\* A node votes for one candidate in an epoch: its own candidacy and the
\* votes it confirms for others never compete, in whatever order the packets
\* arrive and the timeouts fire.
VoteOncePerEpoch ==
  \A m1, m2 \in Packets("Vote") :
    m1.src = m2.src /\ m1.epoch = m2.epoch /\ m1.epoch > amnesia => m1.vote = m2.vote

\* At most one node ever leads an epoch (not only: at a time), when every
\* node knows enough of the cluster to require a majority.
OneLeaderPerEpoch ==
  \A m1, m2 \in Packets("Ping") :
    m1.epoch = m2.epoch /\ m1.epoch > amnesia => m1.src = m2.src

\* The followers and the leader of an epoch agree on who leads it.
AllegianceAgrees ==
  \A n1, n2 \in Node :
    /\ epoch[n1] = epoch[n2] /\ epoch[n1] > amnesia
    /\ state[n1] = "Follower"
    => /\ state[n2] = "Follower" => peer[n1] = peer[n2]
       /\ state[n2] = "Leader" => peer[n1] = n2

\* A pong reaches a node that leads its epoch or has gone to a later one:
\* the "something wrong with other peers" arms of Machine::message only run
\* in epochs that a node has forgotten.
PongsReachTheirLeader ==
  \A m \in Packets("Pong") : \A n \in m.to :
    m.epoch > amnesia =>
      epoch[n] > m.epoch \/ (epoch[n] = m.epoch /\ state[n] = "Leader")

CountedVotesAreCast ==
  \A n \in Node : state[n] = "Electing" => votesForMe[n] \subseteq Voters(n, epoch[n])

\* The winner of the election of an epoch: most nodes have voted for it.
Elected(n, e) == Node = {n} \/ 2 * Cardinality(Voters(n, e)) > Cardinality(Node)

PingsElected == \A m \in Packets("Ping") : Elected(m.src, m.epoch)

\* The votes a candidate counts have been cast for it in its epoch, and who
\* pings as a leader has been elected by most of the cluster in that very
\* epoch: also when it or its voters have been reset in between and packets
\* of its earlier candidacies still arrive.
LeadersAreElected == CountedVotesAreCast /\ PingsElected

\* ElectionState::from
From(n) ==
  [is_leader |-> state[n] = "Leader",
   leader    |-> IF state[n] = "Follower" THEN peer[n] ELSE NoNode,
   epoch     |-> epoch[n]]

\* What the rest of the daemon relies on: a leader that is not the leader any
\* more is in another epoch (refresh_cookie and set_schedule_by_leader tell
\* one leadership from another by its epoch), and an epoch is only left for a
\* later one or for oblivion.
ViewsSucceed ==
  [][\A n \in Node : From(n)' # From(n) => Succeeds(From(n), From(n)')]_vars

\* A leader that stays is heard by every node: the node follows, or it has
\* gone on to a later epoch.  In particular two leaders of one epoch, as
\* joined partitions have them, do not both stay.
LeaderIsHeard ==
  \A l, n \in Node : \A e \in 1 .. MaxEpoch :
    state[l] = "Leader" /\ epoch[l] = e /\ l # n
      ~> \/ ~(state[l] = "Leader" /\ epoch[l] = e)
         \/ epoch[n] > e
         \/ epoch[n] = e /\ state[n] = "Follower"

(***************************************************************************)
(* The specification that promises one leader for an epoch, implemented by *)
(* the nodes that have announced themselves with a ping.                   *)
(***************************************************************************)
Led == {<<m.src, m.epoch>> : m \in Packets("Ping")}

Leadership == INSTANCE LeaderPerEpoch WITH led <- Led, forgotten <- amnesia

ImplementsLeadership == Leadership!Spec
=============================================================================
