--------------------------- MODULE ElectionProofs ---------------------------
(***************************************************************************)
(* The election never gives an epoch two leaders, for any number of nodes, *)
(* any peer lists that require a majority, and any bound on the epochs.    *)
(***************************************************************************)
EXTENDS Election, FiniteSetTheorems, TLAPS

-----------------------------------------------------------------------------
(* Type correctness.                                                       *)

LEMMA MinimumVotesType ==
  ASSUME NEW n \in Node, NEW i \in Infos[n]
  PROVE  MinimumVotes(i) \in Nat \ {0}
<1>1. i \in Info
  BY InfosAssumption
<1>2. CountedPeers(i) \subseteq Node
  BY <1>1 DEF CountedPeers, Info
<1>3. Cardinality(CountedPeers(i)) \in Nat
  BY <1>2, NodeAssumption, FS_Subset, FS_CardinalityType
<1>. QED
  BY <1>3 DEF MinimumVotes

LEMMA BecomeType ==
  ASSUME TypeOK, NEW n \in Node, NEW st \in States, NEW e \in Epoch,
         NEW votes \in SUBSET Node, NEW needed \in Nat, NEW p \in Node \cup {NoNode},
         st = "Starting" <=> e = 0,
         st # "Electing" => votes = {} /\ needed = 0,
         st \notin {"Voted", "Follower"} <=> p = NoNode,
         Become(n, st, e, votes, needed, p),
         msgs' \subseteq Message, amnesia' \in Epoch
  PROVE  TypeOK'
<1>1. /\ state' \in [Node -> States] /\ epoch' \in [Node -> Epoch]
      /\ votesForMe' \in [Node -> SUBSET Node]
      /\ neededVotes' \in [Node -> Nat] /\ peer' \in [Node -> Node \cup {NoNode}]
  BY DEF Become, TypeOK
<1>2. ASSUME NEW q \in Node
      PROVE  /\ state'[q] = "Starting" <=> epoch'[q] = 0
             /\ state'[q] # "Electing" => votesForMe'[q] = {} /\ neededVotes'[q] = 0
             /\ state'[q] \notin {"Voted", "Follower"} <=> peer'[q] = NoNode
  <2>1. CASE q = n
    BY <2>1 DEF Become, TypeOK
  <2>2. CASE q # n
    BY <2>2 DEF Become, TypeOK
  <2>. QED BY <2>1, <2>2
<1>. QED BY <1>1, <1>2 DEF TypeOK

LEMMA StartElectionType ==
  ASSUME TypeOK, NEW n \in Node, NEW i \in Infos[n], NEW e \in Nat, e > 0,
         StartElection(n, i, e)
  PROVE  TypeOK'
<1>1. e \in 1 .. MaxEpoch /\ e \in Epoch /\ e # 0
  BY OptionsAssumption DEF StartElection, Epoch
<1>2. MinimumVotes(i) \in Nat
  BY MinimumVotesType
<1>3. i.hosts \in SUBSET Node
  BY InfosAssumption DEF Info
<1>4. msgs' \subseteq Message
  BY <1>1, <1>3 DEF StartElection, SendAll, Send, Message, TypeOK
<1>5. amnesia' \in Epoch
  BY DEF StartElection, TypeOK
<1>6. n # NoNode
  BY NodeAssumption
<1>7. Become(n, "Electing", e, {n}, MinimumVotes(i), NoNode)
  BY DEF StartElection
<1>. QED
  BY <1>1, <1>2, <1>4, <1>5, <1>7, BecomeType DEF States

LEMMA BecomeLeaderType ==
  ASSUME TypeOK, NEW n \in Node, NEW i \in Infos[n], NEW e \in 1 .. MaxEpoch,
         BecomeLeader(n, i, e)
  PROVE  TypeOK'
<1>1. e \in Epoch /\ e # 0
  BY OptionsAssumption DEF Epoch
<1>2. i.hosts \in SUBSET Node
  BY InfosAssumption DEF Info
<1>3. msgs' \subseteq Message
  BY <1>2 DEF BecomeLeader, SendAll, Send, Message, TypeOK
<1>4. amnesia' \in Epoch
  BY DEF BecomeLeader, TypeOK
<1>5. Become(n, "Leader", e, {}, 0, NoNode)
  BY DEF BecomeLeader
<1>. QED
  BY <1>1, <1>3, <1>4, <1>5, BecomeType DEF States

LEMMA FollowType ==
  ASSUME TypeOK, NEW n \in Node, NEW i \in Infos[n], NEW leader \in Node,
         NEW e \in 1 .. MaxEpoch, Follow(n, i, leader, e)
  PROVE  TypeOK'
<1>1. e \in Epoch /\ e # 0
  BY OptionsAssumption DEF Epoch
<1>2. {leader} \cap i.hosts \in SUBSET Node
  OBVIOUS
<1>3. msgs' \subseteq Message
  BY <1>2 DEF Follow, SendTo, Send, Message, TypeOK
<1>4. amnesia' \in Epoch
  BY DEF Follow, TypeOK
<1>5. Become(n, "Follower", e, {}, 0, leader)
  BY DEF Follow
<1>6. leader # NoNode
  BY NodeAssumption
<1>. QED
  BY <1>1, <1>3, <1>4, <1>5, <1>6, BecomeType DEF States

LEMMA ConfirmVoteType ==
  ASSUME TypeOK, NEW n \in Node, NEW i \in Infos[n], NEW id \in Node,
         NEW e \in 1 .. MaxEpoch, ConfirmVote(n, i, id, e)
  PROVE  TypeOK'
<1>1. e \in Epoch /\ e # 0
  BY OptionsAssumption DEF Epoch
<1>2. {id} \cap i.hosts \in SUBSET Node
  OBVIOUS
<1>3. msgs' \subseteq Message
  BY <1>2 DEF ConfirmVote, SendTo, Send, Message, TypeOK
<1>4. amnesia' \in Epoch
  BY DEF ConfirmVote, TypeOK
<1>5. Become(n, "Voted", e, {}, 0, id)
  BY DEF ConfirmVote
<1>6. id # NoNode
  BY NodeAssumption
<1>. QED
  BY <1>1, <1>3, <1>4, <1>5, <1>6, BecomeType DEF States

LEMMA ForgetType ==
  ASSUME TypeOK, NEW n \in Node, Forget(n)
  PROVE  TypeOK'
<1>1. msgs' \subseteq Message /\ amnesia' \in Epoch /\ 0 \in Epoch
  BY OptionsAssumption DEF Forget, TypeOK, Epoch
<1>2. Become(n, "Starting", 0, {}, 0, NoNode)
  BY DEF Forget
<1>. QED
  BY <1>1, <1>2, BecomeType DEF States

LEMMA VoteForMeType ==
  ASSUME TypeOK, NEW n \in Node, NEW m \in msgs, NEW i \in Infos[n], VoteForMe(n, m, i)
  PROVE  TypeOK'
<1>1. m \in Message /\ m.src \in Node
  BY DEF TypeOK, Message
<1>2. CASE BecomeLeader(n, i, epoch[n])
  <2>1. epoch[n] \in 1 .. MaxEpoch
    BY DEF VoteForMe, TypeOK, Epoch
  <2>. QED BY <2>1, <1>2, BecomeLeaderType
<1>3. CASE /\ votesForMe' = [votesForMe EXCEPT ![n] = votesForMe[n] \cup {m.src}]
           /\ UNCHANGED <<state, epoch, neededVotes, peer, msgs, amnesia>>
  <2>1. votesForMe[n] \cup {m.src} \in SUBSET Node
    BY <1>1 DEF TypeOK
  <2>2. votesForMe' \in [Node -> SUBSET Node]
    BY <2>1, <1>3 DEF TypeOK
  <2>3. \A q \in Node : q # n => votesForMe'[q] = votesForMe[q]
    BY <1>3 DEF TypeOK
  <2>4. state[n] = "Electing"
    BY DEF VoteForMe
  <2>. QED
    BY <2>2, <2>3, <2>4, <1>3 DEF TypeOK
<1>. QED
  BY <1>2, <1>3 DEF VoteForMe

LEMMA ReceiveType ==
  ASSUME TypeOK, NEW n \in Node, NEW m \in msgs, Receive(n, m)
  PROVE  TypeOK'
<1>1. m \in Message /\ m.epoch \in 1 .. MaxEpoch /\ m.src \in Node
  BY DEF TypeOK, Message
<1>2. PICK i \in Infos[n] :
        \/ Pass(n, m) \/ VoteOther(n, m) \/ PingConflict(n, m, i) \/ PingFollow(n, m, i)
        \/ PongUnsolicited(n, m, i) \/ VoteConfirm(n, m, i) \/ VoteForMe(n, m, i)
  BY DEF Receive
<1>3. CASE Pass(n, m) \/ VoteOther(n, m)
  BY <1>3 DEF Pass, VoteOther, vars, machineVars, TypeOK
<1>4. CASE PingConflict(n, m, i) \/ PongUnsolicited(n, m, i)
  <2>1. StartElection(n, i, m.epoch + 1) /\ m.epoch + 1 \in Nat /\ m.epoch + 1 > 0
    BY <1>1, <1>4, OptionsAssumption DEF PingConflict, PongUnsolicited
  <2>. QED BY <2>1, StartElectionType
<1>5. CASE PingFollow(n, m, i)
  BY <1>1, <1>5, FollowType DEF PingFollow
<1>6. CASE VoteConfirm(n, m, i)
  <2>1. m.vote \in Node
    BY <1>1, <1>6 DEF VoteConfirm, Message
  <2>. QED BY <2>1, <1>1, <1>6, ConfirmVoteType DEF VoteConfirm
<1>7. CASE VoteForMe(n, m, i)
  BY <1>7, VoteForMeType
<1>. QED
  BY <1>2, <1>3, <1>4, <1>5, <1>6, <1>7

LEMMA TimePassedType ==
  ASSUME TypeOK, NEW n \in Node, TimePassed(n)
  PROVE  TypeOK'
<1>1. CASE WaitingHosts(n)
  BY <1>1, ForgetType DEF WaitingHosts
<1>2. ASSUME NEW i \in Infos[n], ElectSelf(n, i)
      PROVE  TypeOK'
  <2>1. 1 \in 1 .. MaxEpoch
    BY OptionsAssumption
  <2>. QED BY <2>1, <1>2, BecomeLeaderType DEF ElectSelf
<1>3. ASSUME NEW i \in Infos[n], ElectStart(n, i)
      PROVE  TypeOK'
  BY <1>3, StartElectionType DEF ElectStart
<1>4. ASSUME NEW i \in Infos[n], ElectAgain(n, i)
      PROVE  TypeOK'
  <2>1. epoch[n] + 1 \in Nat /\ epoch[n] + 1 > 0
    BY OptionsAssumption DEF TypeOK, Epoch
  <2>. QED BY <2>1, <1>4, StartElectionType DEF ElectAgain
<1>5. ASSUME NEW i \in Infos[n], PingAll(n, i)
      PROVE  TypeOK'
  <2>1. epoch[n] \in 1 .. MaxEpoch
    BY <1>5, OptionsAssumption DEF PingAll, TypeOK, Epoch
  <2>2. i.hosts \in SUBSET Node
    BY InfosAssumption DEF Info
  <2>3. msgs' \subseteq Message
    BY <1>5, <2>1, <2>2 DEF PingAll, SendAll, Send, Message, TypeOK
  <2>. QED BY <1>5, <2>3 DEF PingAll, machineVars, TypeOK
<1>. QED
  BY <1>1, <1>2, <1>3, <1>4, <1>5 DEF TimePassed

\* The machines, the packets and the history have their types, and a variant
\* of Machine has no other fields than its own.
THEOREM TypeCorrect == Spec => []TypeOK
<1>1. Init => TypeOK
  BY OptionsAssumption, NodeAssumption DEF Init, TypeOK, States, Epoch
<1>2. TypeOK /\ [Next]_vars => TypeOK'
  <2>1. SUFFICES ASSUME TypeOK, [Next]_vars
                 PROVE  TypeOK'
    OBVIOUS
  <2>2. CASE UNCHANGED vars
    BY <2>1, <2>2 DEF vars, machineVars, TypeOK
  <2>3. ASSUME NEW n \in Node, TimePassed(n)
        PROVE  TypeOK'
    BY <2>1, <2>3, TimePassedType
  <2>4. ASSUME NEW n \in Node, Restart(n)
        PROVE  TypeOK'
    BY <2>1, <2>4, ForgetType DEF Restart
  <2>5. ASSUME NEW n \in Node, NEW m \in msgs, Receive(n, m)
        PROVE  TypeOK'
    BY <2>1, <2>5, ReceiveType
  <2>. QED
    BY <2>1, <2>2, <2>3, <2>4, <2>5 DEF Next
<1>. QED
  BY <1>1, <1>2, PTL DEF Spec

-----------------------------------------------------------------------------
(* The inductive invariant behind the safety properties.                   *)

\* A node has cast no vote in an epoch that it has not reached, unless it
\* has been there and forgotten it: its next vote will be for a new epoch.
VotesInThePast ==
  \A m \in Packets("Vote") : m.epoch > amnesia => m.epoch <= epoch[m.src]

HasPinged(n, e) == \E m \in Packets("Ping") : m.src = n /\ m.epoch = e

LeadersPing == \A n \in Node : state[n] = "Leader" => HasPinged(n, epoch[n])

FollowersHeard == \A n \in Node : state[n] = "Follower" => HasPinged(peer[n], epoch[n])

PongsAnswerPings == \A m \in Packets("Pong") : \A n \in m.to : HasPinged(n, m.epoch)

\* A leader gives its epoch up only for a later one.
LeadersStay ==
  \A m \in Packets("Ping") : m.epoch > amnesia =>
    \/ epoch[m.src] > m.epoch
    \/ epoch[m.src] = m.epoch /\ state[m.src] = "Leader"

IInv ==
  /\ TypeOK
  /\ VotesInThePast
  /\ VoteOncePerEpoch
  /\ CountedVotesAreCast
  /\ PingsElected
  /\ LeadersPing
  /\ FollowersHeard
  /\ PongsAnswerPings
  /\ LeadersStay

\* Packets are never unsent: the votes of a candidate and the pings of a leader
\* only grow in number.
LEMMA PacketsGrow ==
  ASSUME msgs \subseteq msgs', NEW n \in Node, NEW e \in Nat
  PROVE  /\ Voters(n, e) \subseteq Voters(n, e)'
         /\ HasPinged(n, e) => HasPinged(n, e)'
         /\ Elected(n, e) => Elected(n, e)'
<1>1. Voters(n, e) \subseteq Voters(n, e)'
  BY DEF Voters, Packets
<1>2. HasPinged(n, e) => HasPinged(n, e)'
  BY DEF HasPinged, Packets
<1>3. Voters(n, e)' \subseteq Node
  BY DEF Voters
<1>4. /\ IsFiniteSet(Voters(n, e)')
      /\ Cardinality(Voters(n, e)) <= Cardinality(Voters(n, e)')
      /\ Cardinality(Voters(n, e)) \in Nat /\ Cardinality(Voters(n, e)') \in Nat
      /\ Cardinality(Node) \in Nat
  BY <1>1, <1>3, NodeAssumption, FS_Subset, FS_CardinalityType
<1>5. Elected(n, e) => Elected(n, e)'
  BY <1>4 DEF Elected
<1>. QED BY <1>1, <1>2, <1>5

\* A vote for a new epoch, one's own (Electing) or a confirmed one (Voted).
LEMMA CastVoteInv ==
  ASSUME IInv, TypeOK', NEW n \in Node, NEW e \in 1 .. MaxEpoch, e > epoch[n],
         NEW to, NEW id, NEW st \in {"Electing", "Voted"}, NEW votes, NEW needed, NEW q0,
         st = "Electing" => votes = {n} /\ id = n,
         Become(n, st, e, votes, needed, q0), Send("Vote", n, to, e, id),
         amnesia' = amnesia
  PROVE  IInv'
<1> DEFINE p == [type |-> "Vote", src |-> n, to |-> to, epoch |-> e, vote |-> id]
<1> USE DEF IInv
<1>1. msgs' = msgs \cup {p} /\ amnesia' = amnesia
  BY DEF Send
<1>2. /\ state' = [state EXCEPT ![n] = st] /\ epoch' = [epoch EXCEPT ![n] = e]
      /\ votesForMe' = [votesForMe EXCEPT ![n] = votes] /\ peer' = [peer EXCEPT ![n] = q0]
  BY DEF Become
<1>3. \A q \in Node : epoch[q] \in Nat /\ epoch'[q] \in Nat /\ epoch'[q] >= epoch[q]
  BY <1>2 DEF TypeOK, Epoch
<1>4. \A m \in msgs : m.src \in Node /\ m.epoch \in Nat /\ m.to \subseteq Node
  BY OptionsAssumption DEF TypeOK, Message
<1>5. amnesia \in Nat
  BY DEF TypeOK, Epoch
<1>6. /\ Packets("Vote")' = Packets("Vote") \cup {p}
      /\ Packets("Ping")' = Packets("Ping")
      /\ Packets("Pong")' = Packets("Pong")
  BY <1>1 DEF Packets
<1>7. /\ \A q \in Node, f \in Nat : HasPinged(q, f)' <=> HasPinged(q, f)
      /\ \A q \in Node, f \in Nat : Elected(q, f) => Elected(q, f)'
  BY <1>1, <1>6, PacketsGrow DEF HasPinged
<1>8. Packets("Vote") \subseteq msgs /\ Packets("Ping") \subseteq msgs /\ Packets("Pong") \subseteq msgs
  BY DEF Packets
<1>9. VotesInThePast'
  BY <1>1, <1>2, <1>3, <1>4, <1>5, <1>6, <1>8 DEF VotesInThePast, TypeOK
<1>10. VoteOncePerEpoch'
  BY <1>1, <1>3, <1>4, <1>5, <1>6, <1>8 DEF VotesInThePast, VoteOncePerEpoch
<1>11. CountedVotesAreCast'
  <2>1. \A q \in Node : q # n => state'[q] = state[q] /\ epoch'[q] = epoch[q] /\ votesForMe'[q] = votesForMe[q]
    BY <1>2 DEF TypeOK
  <2>2. epoch'[n] = e /\ votesForMe'[n] = votes /\ state'[n] = st
    BY <1>2 DEF TypeOK
  <2>3. ASSUME NEW q \in Node, state'[q] = "Electing", NEW v \in votesForMe'[q]
        PROVE  v \in Node /\ \E m \in msgs' :
                 m.type = "Vote" /\ m.src = v /\ m.epoch = epoch'[q] /\ m.vote = q
    <3>1. CASE q = n
      <4>1. p \in msgs' /\ p.type = "Vote" /\ p.src = n /\ p.epoch = e /\ p.vote = id
        BY <1>1
      <4>2. v = n /\ id = n
        BY <2>2, <2>3, <3>1
      <4>. QED BY <4>1, <4>2, <2>2, <3>1
    <3>2. CASE q # n
      BY <3>2, <2>1, <2>3, <1>1 DEF CountedVotesAreCast, Voters, Packets
    <3>. QED BY <3>1, <3>2
  <2>. QED BY <2>3 DEF CountedVotesAreCast, Voters, Packets
<1>12. PingsElected'
  BY <1>4, <1>6, <1>7, <1>8 DEF PingsElected
<1>13. LeadersPing' /\ FollowersHeard'
  <2>1. ASSUME NEW q \in Node, state'[q] \in {"Leader", "Follower"}
        PROVE  q # n /\ state'[q] = state[q] /\ epoch'[q] = epoch[q] /\ peer'[q] = peer[q]
    BY <1>2, <2>1 DEF TypeOK
  <2>2. \A q \in Node : state[q] = "Follower" => peer[q] \in Node
    BY DEF TypeOK
  <2>. QED BY <1>3, <1>7, <2>1, <2>2 DEF LeadersPing, FollowersHeard
<1>14. PongsAnswerPings'
  BY <1>4, <1>6, <1>7, <1>8 DEF PongsAnswerPings
<1>15. LeadersStay'
  <2>1. \A q \in Node : epoch'[q] > epoch[q] \/ (epoch'[q] = epoch[q] /\ state'[q] = state[q])
    BY <1>2 DEF TypeOK
  <2>. QED BY <2>1, <1>1, <1>3, <1>4, <1>6, <1>8 DEF LeadersStay
<1>. QED
  BY <1>9, <1>10, <1>11, <1>12, <1>13, <1>14, <1>15

LEMMA StartElectionInv ==
  ASSUME IInv, TypeOK', NEW n \in Node, NEW i \in Infos[n], NEW e \in Nat,
         e > epoch[n], StartElection(n, i, e)
  PROVE  IInv'
<1>1. e \in 1 .. MaxEpoch
  BY OptionsAssumption DEF StartElection, IInv, TypeOK, Epoch
<1>. QED
  BY <1>1, CastVoteInv DEF StartElection, SendAll

LEMMA ConfirmVoteInv ==
  ASSUME IInv, TypeOK', NEW n \in Node, NEW i \in Infos[n], NEW e \in 1 .. MaxEpoch,
         NEW id \in Node, e > epoch[n], ConfirmVote(n, i, id, e)
  PROVE  IInv'
BY CastVoteInv DEF ConfirmVote, SendTo

\* A node announces itself as the leader of the epoch whose election it has won.
LEMMA BecomeLeaderInv ==
  ASSUME IInv, TypeOK', NEW n \in Node, NEW i \in Infos[n], NEW e \in 1 .. MaxEpoch,
         e >= epoch[n], Elected(n, e), BecomeLeader(n, i, e)
  PROVE  IInv'
<1> DEFINE p == [type |-> "Ping", src |-> n, to |-> i.hosts, epoch |-> e, vote |-> NoNode]
<1> USE DEF IInv
<1>1. msgs' = msgs \cup {p} /\ amnesia' = amnesia
  BY DEF BecomeLeader, SendAll, Send
<1>2. /\ state' = [state EXCEPT ![n] = "Leader"] /\ epoch' = [epoch EXCEPT ![n] = e]
      /\ votesForMe' = [votesForMe EXCEPT ![n] = {}] /\ peer' = [peer EXCEPT ![n] = NoNode]
  BY DEF BecomeLeader, Become
<1>3. \A q \in Node : epoch[q] \in Nat /\ epoch'[q] \in Nat /\ epoch'[q] >= epoch[q]
  BY <1>2 DEF TypeOK, Epoch
<1>4. \A m \in msgs : m.src \in Node /\ m.epoch \in Nat /\ m.to \subseteq Node
  BY OptionsAssumption DEF TypeOK, Message
<1>5. amnesia \in Nat /\ e \in Nat
  BY OptionsAssumption DEF TypeOK, Epoch
<1>6. /\ Packets("Vote")' = Packets("Vote")
      /\ Packets("Ping")' = Packets("Ping") \cup {p}
      /\ Packets("Pong")' = Packets("Pong")
  BY <1>1 DEF Packets
<1>7. /\ \A q \in Node, f \in Nat : HasPinged(q, f) => HasPinged(q, f)'
      /\ \A q \in Node, f \in Nat : Elected(q, f) => Elected(q, f)'
  BY <1>1, PacketsGrow
<1>8. Packets("Vote") \subseteq msgs /\ Packets("Ping") \subseteq msgs /\ Packets("Pong") \subseteq msgs
  BY DEF Packets
<1>9. VotesInThePast' /\ VoteOncePerEpoch'
  BY <1>1, <1>3, <1>4, <1>5, <1>6, <1>8 DEF VotesInThePast, VoteOncePerEpoch
<1>10. \A q \in Node : q # n => /\ state'[q] = state[q] /\ epoch'[q] = epoch[q]
                               /\ votesForMe'[q] = votesForMe[q] /\ peer'[q] = peer[q]
  BY <1>2 DEF TypeOK
<1>11. state'[n] = "Leader" /\ epoch'[n] = e
  BY <1>2 DEF TypeOK
<1>12. CountedVotesAreCast'
  BY <1>1, <1>10, <1>11 DEF CountedVotesAreCast, Voters, Packets
<1>13. PingsElected'
  BY <1>4, <1>5, <1>6, <1>7, <1>8 DEF PingsElected
<1>14. LeadersPing' /\ FollowersHeard'
  <2>1. p \in msgs' /\ p.type = "Ping" /\ p.src = n /\ p.epoch = e
    BY <1>1
  <2>2. ASSUME NEW q \in Node, state'[q] = "Leader"
        PROVE  \E m \in msgs' : m.type = "Ping" /\ m.src = q /\ m.epoch = epoch'[q]
    <3>1. CASE q = n
      BY <3>1, <2>1, <1>11
    <3>2. CASE q # n
      BY <3>2, <2>2, <1>1, <1>10 DEF LeadersPing, HasPinged, Packets
    <3>. QED BY <3>1, <3>2
  <2>3. FollowersHeard'
    BY <1>1, <1>10, <1>11 DEF FollowersHeard, HasPinged, Packets
  <2>. QED BY <2>2, <2>3 DEF LeadersPing, HasPinged, Packets
<1>15. PongsAnswerPings'
  BY <1>4, <1>6, <1>7, <1>8 DEF PongsAnswerPings
<1>16. LeadersStay'
  <2>1. ASSUME NEW m \in Packets("Ping"), m.epoch > amnesia
        PROVE  epoch'[m.src] > m.epoch \/ (epoch'[m.src] = m.epoch /\ state'[m.src] = "Leader")
    BY <2>1, <1>3, <1>4, <1>8, <1>10, <1>11 DEF LeadersStay
  <2>2. p.src = n /\ p.epoch = e
    OBVIOUS
  <2>. QED BY <2>1, <2>2, <1>1, <1>6, <1>11 DEF LeadersStay
<1>. QED
  BY <1>9, <1>12, <1>13, <1>14, <1>15, <1>16

\* A node follows the sender of a ping, unless it leads that epoch itself.
LEMMA FollowInv ==
  ASSUME IInv, TypeOK', NEW n \in Node, NEW i \in Infos[n], NEW leader \in Node,
         NEW e \in 1 .. MaxEpoch, HasPinged(leader, e),
         e > epoch[n] \/ (e = epoch[n] /\ state[n] # "Leader"),
         Follow(n, i, leader, e)
  PROVE  IInv'
<1> DEFINE p == [type |-> "Pong", src |-> n, to |-> {leader} \cap i.hosts,
                 epoch |-> e, vote |-> NoNode]
<1> USE DEF IInv
<1>1. msgs' = msgs \cup {p} /\ amnesia' = amnesia
  BY DEF Follow, SendTo, Send
<1>2. /\ state' = [state EXCEPT ![n] = "Follower"] /\ epoch' = [epoch EXCEPT ![n] = e]
      /\ votesForMe' = [votesForMe EXCEPT ![n] = {}] /\ peer' = [peer EXCEPT ![n] = leader]
  BY DEF Follow, Become
<1>3. \A q \in Node : epoch[q] \in Nat /\ epoch'[q] \in Nat /\ epoch'[q] >= epoch[q]
  BY <1>2 DEF TypeOK, Epoch
<1>4. \A m \in msgs : m.src \in Node /\ m.epoch \in Nat /\ m.to \subseteq Node
  BY OptionsAssumption DEF TypeOK, Message
<1>5. amnesia \in Nat /\ e \in Nat
  BY OptionsAssumption DEF TypeOK, Epoch
<1>6. /\ Packets("Vote")' = Packets("Vote")
      /\ Packets("Ping")' = Packets("Ping")
      /\ Packets("Pong")' = Packets("Pong") \cup {p}
  BY <1>1 DEF Packets
<1>7. /\ \A q \in Node, f \in Nat : HasPinged(q, f) => HasPinged(q, f)'
      /\ \A q \in Node, f \in Nat : Elected(q, f) => Elected(q, f)'
  BY <1>1, PacketsGrow
<1>8. Packets("Vote") \subseteq msgs /\ Packets("Ping") \subseteq msgs /\ Packets("Pong") \subseteq msgs
  BY DEF Packets
<1>9. VotesInThePast' /\ VoteOncePerEpoch'
  BY <1>1, <1>3, <1>4, <1>5, <1>6, <1>8 DEF VotesInThePast, VoteOncePerEpoch
<1>10. \A q \in Node : q # n => /\ state'[q] = state[q] /\ epoch'[q] = epoch[q]
                               /\ votesForMe'[q] = votesForMe[q] /\ peer'[q] = peer[q]
  BY <1>2 DEF TypeOK
<1>11. state'[n] = "Follower" /\ epoch'[n] = e /\ peer'[n] = leader
  BY <1>2 DEF TypeOK
<1>12. CountedVotesAreCast'
  BY <1>1, <1>10, <1>11 DEF CountedVotesAreCast, Voters, Packets
<1>13. PingsElected'
  BY <1>4, <1>5, <1>6, <1>7, <1>8 DEF PingsElected
<1>14. LeadersPing' /\ FollowersHeard'
  BY <1>1, <1>10, <1>11 DEF LeadersPing, FollowersHeard, HasPinged, Packets
<1>15. PongsAnswerPings'
  BY <1>4, <1>5, <1>6, <1>7, <1>8 DEF PongsAnswerPings
<1>16. LeadersStay'
  BY <1>1, <1>3, <1>4, <1>5, <1>6, <1>8, <1>10, <1>11 DEF LeadersStay
<1>. QED
  BY <1>9, <1>12, <1>13, <1>14, <1>15, <1>16

\* A reset voids the invariant's claims for the epochs up to the forgotten one.
LEMMA ForgetInv ==
  ASSUME IInv, TypeOK', NEW n \in Node, Forget(n)
  PROVE  IInv'
<1> USE DEF IInv
<1>1. msgs' = msgs /\ amnesia' >= amnesia /\ amnesia' >= epoch[n]
  BY DEF Forget, TypeOK, Epoch
<1>2. /\ state' = [state EXCEPT ![n] = "Starting"] /\ epoch' = [epoch EXCEPT ![n] = 0]
      /\ votesForMe' = [votesForMe EXCEPT ![n] = {}] /\ peer' = [peer EXCEPT ![n] = NoNode]
  BY DEF Forget, Become
<1>3. \A q \in Node : q # n => /\ state'[q] = state[q] /\ epoch'[q] = epoch[q]
                              /\ votesForMe'[q] = votesForMe[q] /\ peer'[q] = peer[q]
  BY <1>2 DEF TypeOK
<1>4. state'[n] = "Starting" /\ epoch'[n] = 0
  BY <1>2 DEF TypeOK
<1>5. \A m \in msgs : m.src \in Node /\ m.epoch \in Nat
  BY OptionsAssumption DEF TypeOK, Message
<1>6. amnesia \in Nat /\ amnesia' \in Nat /\ \A q \in Node : epoch[q] \in Nat
  BY OptionsAssumption DEF TypeOK, Epoch
<1>7. VotesInThePast' /\ VoteOncePerEpoch' /\ LeadersStay'
  BY <1>1, <1>3, <1>4, <1>5, <1>6
     DEF VotesInThePast, VoteOncePerEpoch, LeadersStay, Packets
<1>8. CountedVotesAreCast' /\ PingsElected' /\ LeadersPing' /\ FollowersHeard' /\ PongsAnswerPings'
  BY <1>1, <1>3, <1>4
     DEF CountedVotesAreCast, PingsElected, LeadersPing, FollowersHeard, PongsAnswerPings,
         Elected, HasPinged, Voters, Packets
<1>. QED BY <1>7, <1>8

\* A leader repeats its ping.
LEMMA PingAllInv ==
  ASSUME IInv, TypeOK', NEW n \in Node, NEW i \in Infos[n], PingAll(n, i)
  PROVE  IInv'
<1> DEFINE p == [type |-> "Ping", src |-> n, to |-> i.hosts, epoch |-> epoch[n], vote |-> NoNode]
<1> USE DEF IInv
<1>1. /\ msgs' = msgs \cup {p} /\ state[n] = "Leader"
      /\ UNCHANGED <<state, epoch, votesForMe, peer, amnesia>>
  BY DEF PingAll, SendAll, Send, machineVars
<1>2. /\ Packets("Vote")' = Packets("Vote")
      /\ Packets("Ping")' = Packets("Ping") \cup {p}
      /\ Packets("Pong")' = Packets("Pong")
  BY <1>1 DEF Packets
<1>3. p.src = n /\ p.epoch = epoch[n]
  OBVIOUS
<1>4. \A m \in msgs : m.src \in Node /\ m.epoch \in Nat /\ m.to \subseteq Node
  BY OptionsAssumption DEF TypeOK, Message
<1>5. \A q \in Node : epoch[q] \in Nat /\ (state[q] = "Follower" => peer[q] \in Node)
  BY DEF TypeOK, Epoch
<1>6. /\ \A q \in Node, f \in Nat : HasPinged(q, f) => HasPinged(q, f)'
      /\ \A q \in Node, f \in Nat : Elected(q, f) => Elected(q, f)'
  BY <1>1, PacketsGrow
<1>7. Packets("Ping") \subseteq msgs /\ Packets("Pong") \subseteq msgs
  BY DEF Packets
<1>8. PICK m \in Packets("Ping") : m.src = n /\ m.epoch = epoch[n]
  BY <1>1 DEF LeadersPing, HasPinged
<1>9. PingsElected'
  BY <1>2, <1>3, <1>4, <1>5, <1>6, <1>7, <1>8 DEF PingsElected
<1>10. LeadersStay'
  BY <1>1, <1>2, <1>3 DEF LeadersStay
<1>11. VotesInThePast' /\ VoteOncePerEpoch'
  BY <1>1, <1>2 DEF VotesInThePast, VoteOncePerEpoch
<1>12. CountedVotesAreCast'
  BY <1>1 DEF CountedVotesAreCast, Voters, Packets
<1>13. LeadersPing' /\ FollowersHeard' /\ PongsAnswerPings'
  BY <1>1 DEF LeadersPing, FollowersHeard, PongsAnswerPings, HasPinged, Packets
<1>. QED BY <1>9, <1>10, <1>11, <1>12, <1>13

\* The candidate counts one more vote, which may be the last it needs.
LEMMA VoteForMeInv ==
  ASSUME IInv, TypeOK', MajorityInfos, NEW n \in Node, NEW m \in msgs, NEW i \in Infos[n],
         VoteForMe(n, m, i)
  PROVE  IInv'
<1> DEFINE votes == votesForMe[n] \cup {m.src}
<1> USE DEF IInv
<1>1. /\ m \in Message /\ m.type = "Vote" /\ m.src \in Node /\ m.vote = n
      /\ m.epoch = epoch[n] /\ state[n] = "Electing"
  BY DEF TypeOK, Message, VoteForMe, Current
<1>2. votes \subseteq Voters(n, epoch[n])
  BY <1>1 DEF CountedVotesAreCast, Voters, Packets
<1>3. CASE Cardinality(votes) >= Need(n, i) /\ BecomeLeader(n, i, epoch[n])
  <2>1. epoch[n] \in 1 .. MaxEpoch
    BY <1>1 DEF Message
  <2>2. MinimumVotes(i) \in Nat /\ neededVotes[n] \in Nat
    BY MinimumVotesType DEF TypeOK
  <2>3. Need(n, i) \in Nat /\ Need(n, i) >= MinimumVotes(i)
    BY <2>2 DEF Need
  <2>4. Voters(n, epoch[n]) \subseteq Node
    BY DEF Voters
  <2>5. /\ Cardinality(Voters(n, epoch[n])) \in Nat /\ Cardinality(votes) \in Nat
        /\ Cardinality(votes) <= Cardinality(Voters(n, epoch[n]))
        /\ Cardinality(Node) \in Nat
    BY <1>2, <2>4, NodeAssumption, FS_Subset, FS_CardinalityType
  <2>6. 2 * MinimumVotes(i) > Cardinality(Node)
    BY DEF MajorityInfos
  <2>7. Elected(n, epoch[n])
    BY <1>3, <2>2, <2>3, <2>5, <2>6 DEF Elected
  <2>. QED
    BY <2>1, <2>7, <1>3, BecomeLeaderInv DEF TypeOK, Epoch
<1>4. CASE /\ votesForMe' = [votesForMe EXCEPT ![n] = votes]
           /\ UNCHANGED <<state, epoch, neededVotes, peer, msgs, amnesia>>
  <2>1. \A q \in Node : votesForMe'[q] = IF q = n THEN votes ELSE votesForMe[q]
    BY <1>4 DEF TypeOK
  <2>2. CountedVotesAreCast'
    BY <2>1, <1>2, <1>4 DEF CountedVotesAreCast, Voters, Packets
  <2>3. VotesInThePast' /\ VoteOncePerEpoch' /\ LeadersStay'
    BY <1>4 DEF VotesInThePast, VoteOncePerEpoch, LeadersStay, Packets
  <2>4. PingsElected' /\ LeadersPing' /\ FollowersHeard' /\ PongsAnswerPings'
    BY <1>4 DEF PingsElected, LeadersPing, FollowersHeard, PongsAnswerPings, Elected,
                HasPinged, Voters, Packets
  <2>. QED BY <2>2, <2>3, <2>4
<1>. QED
  BY <1>3, <1>4 DEF VoteForMe

LEMMA ReceiveInv ==
  ASSUME IInv, TypeOK', MajorityInfos, NEW n \in Node, NEW m \in msgs, Receive(n, m)
  PROVE  IInv'
<1>1. /\ m \in Message /\ m.epoch \in 1 .. MaxEpoch /\ m.epoch \in Nat /\ m.src \in Node
      /\ epoch[n] \in Nat /\ (state[n] = "Starting" <=> epoch[n] = 0)
  BY OptionsAssumption DEF IInv, TypeOK, Message, Epoch
<1>2. PICK i \in Infos[n] :
        \/ Pass(n, m) \/ VoteOther(n, m) \/ PingConflict(n, m, i) \/ PingFollow(n, m, i)
        \/ PongUnsolicited(n, m, i) \/ VoteConfirm(n, m, i) \/ VoteForMe(n, m, i)
  BY DEF Receive
<1>3. CASE Pass(n, m) \/ VoteOther(n, m)
  <2>1. UNCHANGED <<state, epoch, votesForMe, peer, msgs, amnesia>>
    BY <1>3 DEF Pass, VoteOther, vars, machineVars
  <2>. QED
    BY <2>1 DEF IInv, VotesInThePast, VoteOncePerEpoch, CountedVotesAreCast, PingsElected,
                LeadersPing, FollowersHeard, PongsAnswerPings, LeadersStay, Elected,
                HasPinged, Voters, Packets
<1>4. CASE PingConflict(n, m, i) \/ PongUnsolicited(n, m, i)
  <2>1. StartElection(n, i, m.epoch + 1) /\ m.epoch + 1 > epoch[n] /\ m.epoch + 1 \in Nat
    BY <1>1, <1>4 DEF PingConflict, PongUnsolicited, Newer, Current
  <2>. QED BY <2>1, StartElectionInv
<1>5. CASE PingFollow(n, m, i)
  <2>1. HasPinged(m.src, m.epoch)
    BY <1>5 DEF PingFollow, HasPinged, Packets
  <2>2. m.epoch > epoch[n] \/ (m.epoch = epoch[n] /\ state[n] # "Leader")
    BY <1>5 DEF PingFollow, Newer, Current
  <2>3. Follow(n, i, m.src, m.epoch)
    BY <1>5 DEF PingFollow
  <2>. QED BY <2>1, <2>2, <2>3, <1>1, FollowInv
<1>6. CASE VoteConfirm(n, m, i)
  <2>1. m.vote \in Node /\ m.epoch > epoch[n] /\ ConfirmVote(n, i, m.vote, m.epoch)
    BY <1>1, <1>6 DEF VoteConfirm, Message, Newer, Current
  <2>. QED BY <2>1, <1>1, ConfirmVoteInv
<1>7. CASE VoteForMe(n, m, i)
  BY <1>7, VoteForMeInv
<1>. QED
  BY <1>2, <1>3, <1>4, <1>5, <1>6, <1>7

LEMMA TimePassedInv ==
  ASSUME IInv, TypeOK', MajorityInfos, NEW n \in Node, TimePassed(n)
  PROVE  IInv'
<1>1. epoch[n] \in Nat /\ (state[n] = "Starting" => epoch[n] = 0)
  BY DEF IInv, TypeOK, Epoch
<1>2. CASE WaitingHosts(n)
  BY <1>2, ForgetInv DEF WaitingHosts
<1>3. ASSUME NEW i \in Infos[n], ElectSelf(n, i)
      PROVE  IInv'
  <2>1. i.hosts = {} /\ BecomeLeader(n, i, 1) /\ state[n] = "Starting"
    BY <1>3 DEF ElectSelf, MajorityInfos
  <2>2. CountedPeers(i) = {}
    BY <2>1, InfosAssumption DEF CountedPeers
  <2>3. MinimumVotes(i) = 1
    BY <2>2, FS_EmptySet DEF MinimumVotes
  <2>4. Cardinality(Node) < 2 /\ Cardinality(Node) \in Nat
    BY <2>3, NodeAssumption, FS_CardinalityType DEF MajorityInfos
  <2>5. Node = {n}
    <3>1. Cardinality({n}) = 1 /\ {n} \subseteq Node
      BY FS_Singleton
    <3>. QED BY <3>1, <2>4, NodeAssumption, FS_Subset
  <2>6. 1 \in 1 .. MaxEpoch /\ 1 >= epoch[n]
    BY <1>1, <2>1, OptionsAssumption
  <2>. QED BY <2>1, <2>5, <2>6, BecomeLeaderInv DEF Elected
<1>4. ASSUME NEW i \in Infos[n], ElectStart(n, i)
      PROVE  IInv'
  BY <1>1, <1>4, StartElectionInv DEF ElectStart
<1>5. ASSUME NEW i \in Infos[n], ElectAgain(n, i)
      PROVE  IInv'
  BY <1>1, <1>5, StartElectionInv DEF ElectAgain
<1>6. ASSUME NEW i \in Infos[n], PingAll(n, i)
      PROVE  IInv'
  BY <1>6, PingAllInv
<1>. QED
  BY <1>2, <1>3, <1>4, <1>5, <1>6 DEF TimePassed

LEMMA InductiveInvariant == MajorityInfos /\ Spec => []IInv
<1>0. SUFFICES ASSUME MajorityInfos
               PROVE  Spec => []IInv
  OBVIOUS
<1>1. Init => IInv
  <2>1. Init => TypeOK
    BY OptionsAssumption, NodeAssumption DEF Init, TypeOK, States, Epoch
  <2>. QED
    BY <2>1 DEF Init, IInv, VotesInThePast, VoteOncePerEpoch, CountedVotesAreCast, PingsElected,
                LeadersPing, FollowersHeard, PongsAnswerPings, LeadersStay, Packets
<1>2. TypeOK' /\ IInv /\ [Next]_vars => IInv'
  <2>1. SUFFICES ASSUME TypeOK', IInv, [Next]_vars
                 PROVE  IInv'
    OBVIOUS
  <2>2. CASE UNCHANGED vars
    BY <2>1, <2>2
       DEF vars, machineVars, IInv, VotesInThePast, VoteOncePerEpoch, CountedVotesAreCast,
           PingsElected, LeadersPing, FollowersHeard, PongsAnswerPings, LeadersStay, Elected,
           HasPinged, Voters, Packets
  <2>3. ASSUME NEW n \in Node, TimePassed(n)
        PROVE  IInv'
    BY <1>0, <2>1, <2>3, TimePassedInv
  <2>4. ASSUME NEW n \in Node, Restart(n)
        PROVE  IInv'
    BY <2>1, <2>4, ForgetInv DEF Restart
  <2>5. ASSUME NEW n \in Node, NEW m \in msgs, Receive(n, m)
        PROVE  IInv'
    BY <1>0, <2>1, <2>5, ReceiveInv
  <2>. QED
    BY <2>1, <2>2, <2>3, <2>4, <2>5 DEF Next
<1>. QED
  BY <1>1, <1>2, TypeCorrect, PTL DEF Spec

-----------------------------------------------------------------------------
(* What follows from it.                                                   *)

LEMMA InvImpliesOneLeader == IInv => OneLeaderPerEpoch
<1>1. SUFFICES ASSUME IInv, NEW m1 \in Packets("Ping"), NEW m2 \in Packets("Ping"),
                      m1.epoch = m2.epoch, m1.epoch > amnesia, m1.src # m2.src
               PROVE  FALSE
  BY DEF OneLeaderPerEpoch
<1>2. m1.src \in Node /\ m2.src \in Node
  BY <1>1 DEF IInv, TypeOK, Packets, Message
<1> DEFINE V1 == Voters(m1.src, m1.epoch)
           V2 == Voters(m2.src, m2.epoch)
<1>3. V1 \subseteq Node /\ V2 \subseteq Node
  BY DEF Voters
<1>4. 2 * Cardinality(V1) > Cardinality(Node) /\ 2 * Cardinality(V2) > Cardinality(Node)
  BY <1>1, <1>2 DEF IInv, PingsElected, Elected
<1>5. Cardinality(V1) \in Nat /\ Cardinality(V2) \in Nat /\ Cardinality(Node) \in Nat
  BY <1>3, NodeAssumption, FS_Subset, FS_CardinalityType
<1>6. Cardinality(V1) + Cardinality(V2) > Cardinality(Node)
  BY <1>4, <1>5
<1>7. PICK v \in Node : v \in V1 /\ v \in V2
  <2> HIDE DEF V1, V2
  <2>1. IsFiniteSet(Node)
    BY NodeAssumption
  <2>2. V1 \cap V2 # {}
    BY <1>3, <1>6, <2>1, FS_MajoritiesIntersect
  <2>. QED BY <1>3, <2>2
<1>8. PICK p1 \in Packets("Vote") : p1.src = v /\ p1.epoch = m1.epoch /\ p1.vote = m1.src
  BY <1>7 DEF Voters
<1>9. PICK p2 \in Packets("Vote") : p2.src = v /\ p2.epoch = m2.epoch /\ p2.vote = m2.src
  BY <1>7 DEF Voters
<1>10. p1.vote = p2.vote
  BY <1>1, <1>8, <1>9 DEF IInv, VoteOncePerEpoch
<1>. QED BY <1>1, <1>8, <1>9, <1>10

\* A node votes for one candidate in an epoch.
THEOREM VotesAreFaithful == MajorityInfos /\ Spec => []VoteOncePerEpoch
<1>1. IInv => VoteOncePerEpoch
  BY DEF IInv
<1>. QED BY <1>1, InductiveInvariant, PTL

\* A candidate only counts votes that its voters have cast for it, and most of
\* the cluster has voted for who leads, whoever is reset when.
THEOREM CountsAreHonest == MajorityInfos /\ Spec => []LeadersAreElected
<1>1. IInv => LeadersAreElected
  BY DEF IInv, LeadersAreElected
<1>. QED BY <1>1, InductiveInvariant, PTL

\* An epoch has one leader: two candidates would share a voter.
THEOREM LeaderIsUnique == MajorityInfos /\ Spec => []OneLeaderPerEpoch
BY InvImpliesOneLeader, InductiveInvariant, PTL

\* The leader and the followers of an epoch agree on who leads it.
THEOREM FollowersAgree == MajorityInfos /\ Spec => []AllegianceAgrees
<1>1. IInv => AllegianceAgrees
  <2>1. SUFFICES ASSUME IInv, OneLeaderPerEpoch, NEW n1 \in Node, NEW n2 \in Node,
                        epoch[n1] = epoch[n2], epoch[n1] > amnesia, state[n1] = "Follower"
                 PROVE  /\ state[n2] = "Follower" => peer[n1] = peer[n2]
                        /\ state[n2] = "Leader" => peer[n1] = n2
    BY InvImpliesOneLeader DEF AllegianceAgrees
  <2>. QED
    BY <2>1 DEF IInv, FollowersHeard, LeadersPing, HasPinged, OneLeaderPerEpoch
<1>. QED BY <1>1, InductiveInvariant, PTL

\* Only in a forgotten epoch can a pong reach a node that does not lead it.
THEOREM PongsAreSolicited == MajorityInfos /\ Spec => []PongsReachTheirLeader
<1>1. IInv => PongsReachTheirLeader
  BY DEF IInv, PongsAnswerPings, LeadersStay, HasPinged, PongsReachTheirLeader
<1>. QED BY <1>1, InductiveInvariant, PTL
-----------------------------------------------------------------------------
(* The refinement: a ping of a new leader is a Lead step, a loss of memory  *)
(* is a Forget step, and everything else stutters.                          *)

LEMMA SendRefines ==
  ASSUME IInv, IInv', NEW type, NEW n, NEW to, NEW e, NEW v,
         Send(type, n, to, e, v), UNCHANGED amnesia
  PROVE  [Leadership!Next]_<<Led, amnesia>>
<1> DEFINE p == [type |-> type, src |-> n, to |-> to, epoch |-> e, vote |-> v]
<1>1. msgs' = msgs \cup {p}
  BY DEF Send
<1>2. p.type = type /\ p.src = n /\ p.epoch = e
  OBVIOUS
<1>3. CASE type # "Ping"
  <2>1. Led' = Led
    BY <1>1, <1>2, <1>3 DEF Led, Packets
  <2>. QED BY <2>1
<1>4. CASE type = "Ping"
  <2>1. p \in Message
    BY <1>1 DEF IInv, TypeOK
  <2>2. n \in Node /\ e \in 1 .. MaxEpoch
    BY <1>2, <2>1 DEF Message
  <2>3. Led' = Led \cup {<<n, e>>}
    BY <1>1, <1>2, <1>4 DEF Led, Packets
  <2>4. ASSUME NEW q \in Node, <<q, e>> \in Led, e > amnesia
        PROVE  q = n
    <3>1. PICK m \in msgs : m.type = "Ping" /\ m.src = q /\ m.epoch = e
      BY <2>4 DEF Led, Packets
    <3>2. OneLeaderPerEpoch'
      BY InvImpliesOneLeader, PTL
    <3>3. m \in Packets("Ping")' /\ p \in Packets("Ping")'
      BY <1>1, <1>2, <1>4, <3>1 DEF Packets
    <3>. QED BY <1>2, <2>4, <3>1, <3>2, <3>3 DEF OneLeaderPerEpoch
  <2>5. Leadership!Lead(n, e)
    BY <2>3, <2>4 DEF Leadership!Lead
  <2>. QED BY <2>2, <2>5 DEF Leadership!Next
<1>. QED BY <1>3, <1>4

LEMMA ForgetRefines ==
  ASSUME IInv, NEW n \in Node, Forget(n)
  PROVE  [Leadership!Next]_<<Led, amnesia>>
<1>1. Led' = Led
  BY DEF Forget, Led, Packets
<1>2. CASE epoch[n] > amnesia
  <2>1. epoch[n] \in 1 .. MaxEpoch
    BY <1>2, OptionsAssumption DEF IInv, TypeOK, Epoch
  <2>2. Leadership!Forget(epoch[n])
    BY <1>1, <1>2 DEF Forget, Leadership!Forget
  <2>. QED BY <2>1, <2>2 DEF Leadership!Next
<1>3. CASE ~(epoch[n] > amnesia)
  BY <1>1, <1>3 DEF Forget
<1>. QED BY <1>2, <1>3

LEMMA TimePassedRefines ==
  ASSUME IInv, IInv', NEW n \in Node, TimePassed(n)
  PROVE  [Leadership!Next]_<<Led, amnesia>>
<1>1. CASE WaitingHosts(n)
  BY <1>1, ForgetRefines DEF WaitingHosts
<1>2. ASSUME NEW i \in Infos[n], ElectSelf(n, i)
      PROVE  [Leadership!Next]_<<Led, amnesia>>
  BY <1>2, SendRefines DEF ElectSelf, BecomeLeader, SendAll
<1>3. ASSUME NEW i \in Infos[n], ElectStart(n, i)
      PROVE  [Leadership!Next]_<<Led, amnesia>>
  BY <1>3, SendRefines DEF ElectStart, StartElection, SendAll
<1>4. ASSUME NEW i \in Infos[n], ElectAgain(n, i)
      PROVE  [Leadership!Next]_<<Led, amnesia>>
  BY <1>4, SendRefines DEF ElectAgain, StartElection, SendAll
<1>5. ASSUME NEW i \in Infos[n], PingAll(n, i)
      PROVE  [Leadership!Next]_<<Led, amnesia>>
  BY <1>5, SendRefines DEF PingAll, SendAll
<1>. QED BY <1>1, <1>2, <1>3, <1>4, <1>5 DEF TimePassed

LEMMA ReceiveRefines ==
  ASSUME IInv, IInv', NEW n \in Node, NEW m \in msgs, Receive(n, m)
  PROVE  [Leadership!Next]_<<Led, amnesia>>
<1>1. PICK i \in Infos[n] :
        \/ Pass(n, m)
        \/ VoteOther(n, m)
        \/ PingConflict(n, m, i)
        \/ PingFollow(n, m, i)
        \/ PongUnsolicited(n, m, i)
        \/ VoteConfirm(n, m, i)
        \/ VoteForMe(n, m, i)
  BY DEF Receive
<1>2. CASE Pass(n, m) \/ VoteOther(n, m)
  BY <1>2 DEF Pass, VoteOther, vars, Led, Packets
<1>3. CASE PingConflict(n, m, i)
  BY <1>3, SendRefines DEF PingConflict, StartElection, SendAll
<1>4. CASE PingFollow(n, m, i)
  BY <1>4, SendRefines DEF PingFollow, Follow, SendTo
<1>5. CASE PongUnsolicited(n, m, i)
  BY <1>5, SendRefines DEF PongUnsolicited, StartElection, SendAll
<1>6. CASE VoteConfirm(n, m, i)
  BY <1>6, SendRefines DEF VoteConfirm, ConfirmVote, SendTo
<1>7. CASE VoteForMe(n, m, i)
  <2>1. CASE BecomeLeader(n, i, epoch[n])
    BY <2>1, SendRefines DEF BecomeLeader, SendAll
  <2>2. CASE UNCHANGED <<msgs, amnesia>>
    BY <2>2 DEF Led, Packets
  <2>. QED BY <1>7, <2>1, <2>2 DEF VoteForMe
<1>. QED BY <1>1, <1>2, <1>3, <1>4, <1>5, <1>6, <1>7

\* The election implements what LeaderPerEpoch promises of it.
THEOREM ElectionImplementsLeadership == MajorityInfos /\ Spec => ImplementsLeadership
<1>0. SUFFICES ASSUME MajorityInfos
               PROVE  Spec => Leadership!Spec
  BY DEF ImplementsLeadership
<1>1. Init => Leadership!Init
  BY DEF Init, Leadership!Init, Led, Packets
<1>2. IInv /\ IInv' /\ [Next]_vars => [Leadership!Next]_<<Led, amnesia>>
  <2>1. SUFFICES ASSUME IInv, IInv', [Next]_vars
                 PROVE  [Leadership!Next]_<<Led, amnesia>>
    OBVIOUS
  <2>2. CASE UNCHANGED vars
    BY <2>2 DEF vars, Led, Packets
  <2>3. ASSUME NEW n \in Node, TimePassed(n)
        PROVE  [Leadership!Next]_<<Led, amnesia>>
    BY <2>1, <2>3, TimePassedRefines
  <2>4. ASSUME NEW n \in Node, Restart(n)
        PROVE  [Leadership!Next]_<<Led, amnesia>>
    BY <2>1, <2>4, ForgetRefines DEF Restart
  <2>5. ASSUME NEW n \in Node, NEW m \in msgs, Receive(n, m)
        PROVE  [Leadership!Next]_<<Led, amnesia>>
    BY <2>1, <2>5, ReceiveRefines
  <2>. QED BY <2>1, <2>2, <2>3, <2>4, <2>5 DEF Next
<1>3. MajorityInfos /\ Spec => []IInv
  BY InductiveInvariant
<1>. QED BY <1>0, <1>1, <1>2, <1>3, PTL DEF Spec, Leadership!Spec

-----------------------------------------------------------------------------
(* What the daemon sees of the election.                                   *)

LEMMA BecomeSucceeds ==
  ASSUME TypeOK, NEW n \in Node, NEW st, NEW e \in Nat, NEW votes, NEW needed, NEW p,
         Become(n, st, e, votes, needed, p),
         \/ e > epoch[n]
         \/ e = epoch[n] /\ state[n] # "Leader" /\ st = "Leader" /\ state[n] # "Follower"
         \/ e = epoch[n] /\ state[n] # "Leader" /\ st \in {"Follower"} /\ p # NoNode
         \/ e = 0 /\ st = "Starting"
  PROVE  \A q \in Node : From(q)' # From(q) => Succeeds(From(q), From(q)')
<1> SUFFICES ASSUME NEW q \in Node, From(q)' # From(q)
             PROVE  Succeeds(From(q), From(q)')
  OBVIOUS
<1>1. CASE q # n
  BY <1>1 DEF Become, From, TypeOK
<1>2. CASE q = n
  <2>1. /\ state'[n] = st /\ epoch'[n] = e /\ peer'[n] = p
        /\ epoch[n] \in Nat
    BY DEF Become, TypeOK, Epoch
  <2>. QED
    BY <1>2, <2>1 DEF From, Succeeds, blank
<1>. QED BY <1>1, <1>2

LEMMA ReceiveSucceeds ==
  ASSUME TypeOK, NEW n \in Node, NEW m \in msgs, Receive(n, m)
  PROVE  \A q \in Node : From(q)' # From(q) => Succeeds(From(q), From(q)')
<1>1. PICK i \in Infos[n] :
        \/ Pass(n, m)
        \/ VoteOther(n, m)
        \/ PingConflict(n, m, i)
        \/ PingFollow(n, m, i)
        \/ PongUnsolicited(n, m, i)
        \/ VoteConfirm(n, m, i)
        \/ VoteForMe(n, m, i)
  BY DEF Receive
<1>2. /\ epoch[n] \in Nat /\ m.epoch \in Nat /\ m.epoch > 0 /\ m.src # NoNode
      /\ state[n] = "Starting" <=> epoch[n] = 0
  BY NodeAssumption DEF TypeOK, Epoch, Message
<1>3. CASE Pass(n, m) \/ VoteOther(n, m)
  BY <1>3 DEF Pass, VoteOther, vars, machineVars, From
<1>4. CASE PingConflict(n, m, i)
  BY <1>2, <1>4, BecomeSucceeds DEF PingConflict, StartElection, Current
<1>5. CASE PingFollow(n, m, i)
  BY <1>2, <1>5, BecomeSucceeds DEF PingFollow, Follow, Current, Newer
<1>6. CASE PongUnsolicited(n, m, i)
  <2>1. m.epoch + 1 \in Nat /\ m.epoch + 1 > epoch[n]
    BY <1>2, <1>6 DEF PongUnsolicited, Current, Newer
  <2>. QED BY <1>6, <2>1, BecomeSucceeds DEF PongUnsolicited, StartElection
<1>7. CASE VoteConfirm(n, m, i)
  <2>1. m.epoch > epoch[n]
    BY <1>2, <1>7 DEF VoteConfirm, Current, Newer
  <2>. QED BY <1>2, <1>7, <2>1, BecomeSucceeds DEF VoteConfirm, ConfirmVote
<1>8. CASE VoteForMe(n, m, i)
  <2>1. CASE BecomeLeader(n, i, epoch[n])
    BY <1>2, <1>8, <2>1, BecomeSucceeds DEF VoteForMe, BecomeLeader
  <2>2. CASE UNCHANGED <<state, epoch, peer>>
    BY <2>2 DEF From
  <2>. QED BY <1>8, <2>1, <2>2 DEF VoteForMe
<1>. QED BY <1>1, <1>3, <1>4, <1>5, <1>6, <1>7, <1>8

LEMMA TimePassedSucceeds ==
  ASSUME TypeOK, NEW n \in Node, TimePassed(n)
  PROVE  \A q \in Node : From(q)' # From(q) => Succeeds(From(q), From(q)')
<1>1. epoch[n] \in Nat /\ (state[n] = "Starting" => epoch[n] = 0)
  BY DEF TypeOK, Epoch
<1>2. CASE WaitingHosts(n)
  BY <1>2, BecomeSucceeds DEF WaitingHosts, Forget
<1>3. ASSUME NEW i \in Infos[n], ElectSelf(n, i)
      PROVE  \A q \in Node : From(q)' # From(q) => Succeeds(From(q), From(q)')
  BY <1>1, <1>3, BecomeSucceeds DEF ElectSelf, BecomeLeader
<1>4. ASSUME NEW i \in Infos[n], ElectStart(n, i)
      PROVE  \A q \in Node : From(q)' # From(q) => Succeeds(From(q), From(q)')
  BY <1>1, <1>4, BecomeSucceeds DEF ElectStart, StartElection
<1>5. ASSUME NEW i \in Infos[n], ElectAgain(n, i)
      PROVE  \A q \in Node : From(q)' # From(q) => Succeeds(From(q), From(q)')
  BY <1>1, <1>5, BecomeSucceeds DEF ElectAgain, StartElection
<1>6. ASSUME NEW i \in Infos[n], PingAll(n, i)
      PROVE  \A q \in Node : From(q)' # From(q) => Succeeds(From(q), From(q)')
  BY <1>6 DEF PingAll, machineVars, From
<1>. QED BY <1>2, <1>3, <1>4, <1>5, <1>6 DEF TimePassed

\* An epoch tells a leadership: the states that a node hands to its daemon
\* follow each other as ElectionState has them.
THEOREM ElectionViews == Spec => ViewsSucceed
<1>1. TypeOK /\ [Next]_vars
        => [\A n \in Node : From(n)' # From(n) => Succeeds(From(n), From(n)')]_vars
  <2> SUFFICES ASSUME TypeOK, Next
               PROVE  \A n \in Node : From(n)' # From(n) => Succeeds(From(n), From(n)')
    OBVIOUS
  <2>1. ASSUME NEW n \in Node, TimePassed(n)
        PROVE  \A q \in Node : From(q)' # From(q) => Succeeds(From(q), From(q)')
    BY <2>1, TimePassedSucceeds
  <2>2. ASSUME NEW n \in Node, Restart(n)
        PROVE  \A q \in Node : From(q)' # From(q) => Succeeds(From(q), From(q)')
    BY <2>2, BecomeSucceeds DEF Restart, Forget
  <2>3. ASSUME NEW n \in Node, NEW m \in msgs, Receive(n, m)
        PROVE  \A q \in Node : From(q)' # From(q) => Succeeds(From(q), From(q)')
    BY <2>3, ReceiveSucceeds
  <2>. QED BY <2>1, <2>2, <2>3 DEF Next
<1>. QED BY <1>1, TypeCorrect, PTL DEF Spec, ViewsSucceed
=============================================================================
