--------------------------- MODULE FetcherProofs ---------------------------
(***************************************************************************)
(* Proofs about Fetcher, for any nodes, schedules, turns of the election   *)
(* and length of the queue: its types, that the schedule it calls stable   *)
(* is the one of the leader, and what the state machine Fetch relies on.   *)
(* The lemmas are about single steps: Daemon has the same ones.            *)
(***************************************************************************)
EXTENDS Fetcher, TLAPS

-----------------------------------------------------------------------------
(* Types of the shared state.                                              *)

Replies == {"none", "pending", "refused", "dropped", "no response", "value"}

PeerTypes ==
  /\ election \in ElectionStates
  /\ fetch_state \in FetchStates
  /\ DOMAIN peers \subseteq Peer
  /\ \A p \in DOMAIN peers : peers[p] \in Option(Schedules)

ScheduleTypes ==
  /\ last_known \in Option(Schedules) /\ stable \in Option(Schedules)
  /\ owned \in Option(Schedules)
  /\ parents \in Option(SUBSET Schedules)

ActionTypes ==
  /\ DOMAIN actions \subseteq Nat
  /\ \A id \in DOMAIN actions : actions[id] \in Request
  /\ reply \in [Request -> Replies]

LEMMA SharedTypes == SharedTypeOK <=> PeerTypes /\ ScheduleTypes /\ ActionTypes
BY DEF SharedTypeOK, PeerTypes, ScheduleTypes, ActionTypes, Replies

LEMMA NewSharedTypes == SharedTypeOK' <=> (PeerTypes /\ ScheduleTypes /\ ActionTypes)'
BY DEF SharedTypeOK, PeerTypes, ScheduleTypes, ActionTypes, Replies

LEMMA OptionTypes ==
  ASSUME NEW S
  PROVE  /\ {} \in Option(S)
         /\ \A x \in S : {x} \in Option(S)
         /\ \A o \in Option(S) : \A x \in o : x \in S /\ o = {x}
BY DEF Option

LEMMA BlankTypes == blank \in ElectionStates
BY SelfAssumption DEF blank, ElectionStates

LEMMA InitSharedTypes == SharedInit => SharedTypeOK
<1> SUFFICES ASSUME SharedInit PROVE PeerTypes /\ ScheduleTypes /\ ActionTypes
  BY SharedTypes
<1>1. PeerTypes
  BY BlankTypes DEF SharedInit, PeerTypes, FetchStates
<1>2. ScheduleTypes
  BY OptionTypes DEF SharedInit, ScheduleTypes
<1>3. ActionTypes
  BY DEF SharedInit, ActionTypes, Replies
<1> QED BY <1>1, <1>2, <1>3

LEMMA UpdateElectionTypes ==
  ASSUME SharedTypeOK, NEW v \in ElectionStates, update_election(v)
  PROVE  election' \in ElectionStates /\ owned' \in Option(Schedules) /\ ActionTypes'
<1>1. CASE v.is_leader /\ UNCHANGED <<owned, actionVars>>
  BY <1>1, SharedTypes DEF update_election, actionVars, ActionTypes, ScheduleTypes
<1>2. CASE ~v.is_leader /\ owned' = {} /\ actions' = [id \in {} |-> {}]
           /\ reply' = [r \in Request |-> IF r \in Pending THEN "dropped" ELSE reply[r]]
  <2>1. reply' \in [Request -> Replies]
    BY <1>2, SharedTypes DEF ActionTypes, Replies
  <2>2. {} \in Option(Schedules)
    BY DEF Option
  <2> QED BY <1>2, <2>1, <2>2 DEF update_election, ActionTypes
<1> QED BY <1>1, <1>2 DEF update_election

LEMMA FollowTypes ==
  ASSUME ScheduleTypes, NEW s \in Schedules, set_schedule_by_follower(s), UNCHANGED parents
  PROVE  ScheduleTypes'
BY OptionTypes DEF set_schedule_by_follower, scheduleVars, ScheduleTypes

-----------------------------------------------------------------------------
(* Types of the fetcher.                                                   *)

Steps == {"idle", "poll", "schedule", "publish"}

LoopTypes ==
  /\ queue \in Seq(FetchMessage)
  /\ fetch \in Fetch
  /\ pc \in Steps
  /\ gathered \in BOOLEAN
  /\ told \subseteq Hashes \X Peer

LEMMA Types == TypeOK <=> SharedTypeOK /\ LoopTypes
BY DEF TypeOK, LoopTypes, Steps

LEMMA NewTypes == TypeOK' <=> SharedTypeOK' /\ LoopTypes'
BY DEF TypeOK, LoopTypes, Steps

PrefetchStates ==
  [state : {"Prefetching"}, phase : {"Graceful", "Fetching"},
   schedules : SUBSET Schedules, waiting : SUBSET (Hashes \X Peer),
   fetching : SUBSET (Hashes \X Peer), failing : SUBSET Peer]

ReplicaStates ==
  [state : {"Replicating"}, leader : Node, target : Option(Hashes), conn : ConnStates]

LEMMA FetchKinds ==
  /\ Unstable \in Fetch /\ StableLeader \in Fetch
  /\ PrefetchStates \subseteq Fetch /\ ReplicaStates \subseteq Fetch
  /\ \A f \in Fetch : /\ f.state = "Prefetching" => f \in PrefetchStates
                      /\ f.state = "Replicating" => f \in ReplicaStates
                      /\ f.state \in FetchStates
BY DEF Fetch, PrefetchStates, ReplicaStates, FetchStates, Unstable, StableLeader

LEMMA NewKinds ==
  /\ \A schedules \in SUBSET Schedules : NewPrefetch(schedules) \in PrefetchStates
  /\ \A leader \in Node : Replica(leader) \in ReplicaStates
BY DEF NewPrefetch, PrefetchStates, Replica, ReplicaStates, Option, ConnStates

LEMMA Messages ==
  ASSUME NEW m \in FetchMessage
  PROVE  /\ m.type \in {"Leader", "Election", "Follower", "PeerSchedule"}
         /\ m.type = "Follower" => m.leader \in Node
         /\ m.type = "PeerSchedule" => m.peer \in Peer /\ m.hash \in Hashes
BY DEF FetchMessage

LEMMA RoleMessageType ==
  ASSUME NEW v \in ElectionStates
  PROVE  RoleMessage(v) \in FetchMessage
BY DEF RoleMessage, FetchMessage, ElectionStates

\* What is new of a peer.
LEMMA NewsTypes ==
  ASSUME TypeOK, NEW p \in DOMAIN peers, NEW reported \in Option(Reported),
         NEW differs \in BOOLEAN, NEW m \in News(p, reported, differs)
  PROVE  /\ m \in FetchMessage /\ m.type = "PeerSchedule"
         /\ <<m.hash, m.peer>> \in Hashes \X Peer
         /\ News(p, reported, differs) = {m}
<1>1. PICK s \in reported : m = [type |-> "PeerSchedule", peer |-> p, hash |-> s.hash]
  BY DEF News
<1>2. s \in Schedules /\ p \in Peer /\ reported = {s}
  BY <1>1, BoundsAssumption DEF Option, TypeOK, SharedTypeOK
<1>3. News(p, reported, differs) = {m}
  BY <1>1, <1>2 DEF News
<1> QED BY <1>1, <1>2, <1>3 DEF FetchMessage, Schedules

\* What a poll of the election puts into the queue.
LEMMA PollQueue ==
  ASSUME TypeOK, ElectionPoll
  PROVE  \E v \in Views :
           /\ v \in ElectionStates /\ election' = v /\ update_election(v)
           /\ gathered' = (gathered /\ v = election)
           /\ \/ queue' = Append(queue, RoleMessage(v)) /\ Hears(v, {})
              \/ \E m \in FetchMessage :
                   /\ m.type = "PeerSchedule" /\ <<m.hash, m.peer>> \in Hashes \X Peer
                   /\ queue' = queue \o <<m, RoleMessage(v)>>
                   /\ Hears(v, {m})
<1>1. PICK v \in Views :
        /\ update_election(v)
        /\ gathered' = (gathered /\ v = election)
        /\ \/ queue' = Append(queue, RoleMessage(v)) /\ Hears(v, {})
           \/ \E p \in DOMAIN peers, reported \in Option(Reported), differs \in BOOLEAN :
                /\ Hears(v, News(p, reported, differs))
                /\ \/ /\ News(p, reported, differs) = {}
                      /\ queue' = Append(queue, RoleMessage(v))
                   \/ \E m \in News(p, reported, differs) :
                        queue' = queue \o <<m, RoleMessage(v)>>
  BY DEF ElectionPoll
<1>2. v \in ElectionStates /\ election' = v
  BY <1>1, BoundsAssumption DEF update_election
<1>3. ASSUME NEW p \in DOMAIN peers, NEW reported \in Option(Reported), NEW differs \in BOOLEAN,
             NEW m \in News(p, reported, differs), Hears(v, News(p, reported, differs))
      PROVE  /\ m \in FetchMessage /\ m.type = "PeerSchedule"
             /\ <<m.hash, m.peer>> \in Hashes \X Peer
             /\ Hears(v, {m})
  <2>1. News(p, reported, differs) = {m}
    BY <1>3, NewsTypes
  <2> QED BY <1>3, <2>1, NewsTypes
<1> QED BY <1>1, <1>2, <1>3

LEMMA PollTypes ==
  ASSUME TypeOK, ElectionPoll
  PROVE  TypeOK'
<1>1. PICK v \in Views :
        /\ v \in ElectionStates /\ update_election(v)
        /\ \/ queue' = Append(queue, RoleMessage(v)) /\ Hears(v, {})
           \/ \E m \in FetchMessage : /\ <<m.hash, m.peer>> \in Hashes \X Peer
                                      /\ queue' = queue \o <<m, RoleMessage(v)>>
                                      /\ Hears(v, {m})
  BY PollQueue
<1>2. election' \in ElectionStates /\ owned' \in Option(Schedules) /\ ActionTypes'
  BY <1>1, Types, UpdateElectionTypes
<1>3. UNCHANGED <<fetch_state, last_known, stable, parents, fetch, pc>>
  BY DEF ElectionPoll
<1>4. queue' \in Seq(FetchMessage)
  <2>1. RoleMessage(v) \in FetchMessage /\ queue \in Seq(FetchMessage)
    BY <1>1, RoleMessageType DEF TypeOK
  <2>2. CASE queue' = Append(queue, RoleMessage(v))
    BY <2>1, <2>2
  <2>3. ASSUME NEW m \in FetchMessage, queue' = queue \o <<m, RoleMessage(v)>>
        PROVE  queue' \in Seq(FetchMessage)
    <3>1. <<m, RoleMessage(v)>> \in Seq(FetchMessage)
      BY <2>1
    <3> QED BY <2>1, <2>3, <3>1
  <2> QED BY <1>1, <2>2, <2>3
<1>5. gathered' \in BOOLEAN /\ told' \subseteq Hashes \X Peer
  <2>1. gathered' \in BOOLEAN
    BY DEF ElectionPoll, TypeOK
  <2>2. ASSUME Hears(v, {})
        PROVE  told' \subseteq Hashes \X Peer
    BY <2>2 DEF Hears, TypeOK
  <2>3. ASSUME NEW m \in FetchMessage, <<m.hash, m.peer>> \in Hashes \X Peer, Hears(v, {m})
        PROVE  told' \subseteq Hashes \X Peer
    BY <2>3 DEF Hears, TypeOK
  <2> QED BY <1>1, <2>1, <2>2, <2>3
<1>6. /\ DOMAIN peers' \subseteq Peer
      /\ \A p \in DOMAIN peers' : peers'[p] \in Option(Schedules)
  <2>1. CASE UNCHANGED peers
    BY <2>1, Types, SharedTypes DEF PeerTypes
  <2>2. ASSUME NEW p \in DOMAIN peers, NEW reported \in Option(Reported),
               peers' = [peers EXCEPT ![p] = reported]
        PROVE  /\ DOMAIN peers' \subseteq Peer
               /\ \A q \in DOMAIN peers' : peers'[q] \in Option(Schedules)
    <3>1. reported \in Option(Schedules)
      BY BoundsAssumption DEF Option
    <3> QED BY <2>2, <3>1, Types, SharedTypes DEF PeerTypes
  <2> QED BY <2>1, <2>2 DEF ElectionPoll
<1>7. PeerTypes'
  BY <1>2, <1>3, <1>6, Types, SharedTypes DEF PeerTypes
<1>8. ScheduleTypes'
  BY <1>2, <1>3, Types, SharedTypes DEF ScheduleTypes
<1>9. LoopTypes'
  BY <1>3, <1>4, <1>5, Types DEF LoopTypes
<1> QED BY <1>2, <1>7, <1>8, <1>9, NewTypes, NewSharedTypes

Consumed == queue # <<>> /\ queue' = Tail(queue)

\* What the steps of poll_messages have in common.
LEMMA TakeTypes ==
  ASSUME TypeOK, MessagesNext
  PROVE  /\ OnNewLeader \/ Consumed
         /\ Head(queue) \in FetchMessage /\ queue' \in Seq(FetchMessage)
         /\ queue # <<>> /\ pc' \in Steps
         /\ UNCHANGED <<election, fetch_state, peers, last_known, owned, parents, actionVars,
                        history>>
<1>1. queue # <<>> => Head(queue) \in FetchMessage /\ Tail(queue) \in Seq(FetchMessage)
  BY DEF TypeOK
<1>6. queue \in Seq(FetchMessage) /\ (queue' = queue => queue' \in Seq(FetchMessage))
  BY DEF TypeOK
<1>2. ASSUME NEW type, Take(type)
      PROVE  /\ Consumed /\ pc' \in Steps
             /\ UNCHANGED <<election, fetch_state, peers, last_known, owned, parents, actionVars,
                            history>>
  BY <1>2 DEF Take, Received, Consumed, Steps
<1>3. CASE OnNewLeader
  BY <1>1, <1>6, <1>3 DEF OnNewLeader, Received, Reset, reset_stable_schedule, Steps
<1>4. CASE StartPrefetch
  BY <1>1, <1>4 DEF StartPrefetch, Received, Consumed, sharedVars, scheduleVars, Steps
<1>5. CASE OnLeader \/ OnFollower \/ OnElection \/ OnPeerSchedule
  BY <1>1, <1>2, <1>5 DEF OnLeader, OnFollower, OnElection, OnPeerSchedule, Consumed
<1> QED BY <1>3, <1>4, <1>5 DEF MessagesNext

LEMMA StableTypes ==
  ASSUME ScheduleTypes, UNCHANGED <<last_known, owned, parents>>, stable' \in {stable, {}}
  PROVE  ScheduleTypes'
BY OptionTypes DEF ScheduleTypes

\* What a message does to the fetcher, seen from the types.
LEMMA MessageSteps ==
  ASSUME TypeOK, MessagesNext
  PROVE  fetch' \in Fetch /\ stable' \in {stable, {}}
<1> USE Types, SharedTypes DEF LoopTypes
<1>1. CASE OnLeader \/ OnNewLeader
  BY <1>1 DEF OnLeader, OnNewLeader, Keep, Reset, reset_stable_schedule
<1>5. CASE StartPrefetch
  <2>1. last_known \in SUBSET Schedules
    BY DEF ScheduleTypes, Option
  <2> QED BY <1>5, <2>1, NewKinds, FetchKinds DEF StartPrefetch, sharedVars, scheduleVars
<1>2. CASE OnFollower
  <2>1. Head(queue).leader \in Node
    BY <1>2, TakeTypes, Messages DEF OnFollower, Take, Received, MessagesNext
  <2> QED BY <1>2, <2>1, NewKinds, FetchKinds DEF OnFollower, Keep, Reset, reset_stable_schedule
<1>3. CASE OnElection
  BY <1>3, FetchKinds DEF OnElection, Keep, Reset, reset_stable_schedule
<1>4. CASE OnPeerSchedule
  <2>1. Head(queue).peer \in Peer /\ Head(queue).hash \in Hashes
    BY <1>4, TakeTypes, Messages DEF OnPeerSchedule, Take, Received, MessagesNext
  <2>2. CASE fetch.state = "Prefetching"
    <3>1. fetch \in PrefetchStates
      BY <2>2, FetchKinds
    <3>2. Report(fetch, Head(queue).peer, Head(queue).hash) \in PrefetchStates
      BY <2>1, <3>1 DEF Report, PrefetchStates
    <3> QED BY <1>4, <2>2, <3>2, FetchKinds DEF OnPeerSchedule, Keep
  <2>3. CASE fetch.state = "Replicating" /\ Retarget(Head(queue).hash)
    <3>1. fetch \in ReplicaStates
      BY <2>3, FetchKinds
    <3>2. [fetch EXCEPT !.target = {Head(queue).hash}] \in ReplicaStates
      BY <2>1, <3>1 DEF ReplicaStates, Option
    <3> QED BY <1>4, <2>3, <3>2, FetchKinds DEF OnPeerSchedule, Retarget, Keep, Reset, reset_stable_schedule
  <2>4. CASE Keep
    BY <2>4, <1>4 DEF Keep, OnPeerSchedule
  <2> QED BY <1>4, <2>2, <2>3, <2>4 DEF OnPeerSchedule
<1> QED BY <1>1, <1>2, <1>3, <1>4, <1>5 DEF MessagesNext

LEMMA MessageTypes ==
  ASSUME TypeOK, MessagesNext
  PROVE  TypeOK'
<1>1. /\ queue' \in Seq(FetchMessage) /\ fetch' \in Fetch /\ stable' \in {stable, {}}
      /\ pc' \in Steps
      /\ UNCHANGED <<election, fetch_state, peers, last_known, owned, parents, actionVars,
                     history>>
  BY MessageSteps, TakeTypes
<1>2. LoopTypes'
  BY <1>1, Types DEF LoopTypes, history
<1>3. PeerTypes' /\ ActionTypes'
  BY <1>1, Types, SharedTypes DEF PeerTypes, ActionTypes, actionVars
<1>4. ScheduleTypes'
  BY <1>1, Types, SharedTypes, StableTypes
<1> QED BY <1>2, <1>3, <1>4, NewTypes, NewSharedTypes

\* A step of the state machine that leaves the shared state alone.
LEMMA FetchOnlyTypes ==
  ASSUME TypeOK, fetch' \in Fetch, pc' \in Steps,
         UNCHANGED <<sharedVars, queue, history>>
  PROVE  TypeOK'
<1>1. SharedTypeOK'
  BY Types DEF SharedTypeOK, sharedVars, scheduleVars, actionVars
<1> QED BY <1>1, Types, NewTypes DEF LoopTypes, history

LEMMA ReplicaTypes ==
  ASSUME TypeOK, ReplicaNext
  PROVE  TypeOK'
<1>1. ASSUME NEW from, NEW to \in ConnStates, Conn(from, to)
      PROVE  TypeOK'
  <2>1. fetch \in ReplicaStates
    BY <1>1, Types, FetchKinds DEF LoopTypes, Conn, Polling
  <2>2. [fetch EXCEPT !.conn = to] \in ReplicaStates
    BY <2>1 DEF ReplicaStates
  <2>3. fetch' \in Fetch /\ UNCHANGED <<sharedVars, queue, pc, history>>
    BY <1>1, <2>2, FetchKinds DEF Conn
  <2> QED BY <2>3, FetchOnlyTypes, Types DEF LoopTypes
<1>2. ASSUME NEW s \in Reported, ReplicaResponse(s)
      PROVE  TypeOK'
  <2>1. fetch \in ReplicaStates
    BY <1>2, Types, FetchKinds DEF LoopTypes, ReplicaResponse, HasTarget, Polling
  <2>2. ASSUME NEW conn \in {"KeepAlive", "Failed"}
        PROVE  /\ [fetch EXCEPT !.target = {}, !.conn = conn] \in ReplicaStates
               /\ [fetch EXCEPT !.conn = conn] \in ReplicaStates
    BY <2>1 DEF ReplicaStates, ConnStates, Option
  <2>3. fetch' \in Fetch
    BY <1>2, <2>2, FetchKinds DEF ReplicaResponse
  <2>4. UNCHANGED <<election, fetch_state, peers, parents, actionVars, queue, pc, history>>
    BY <1>2 DEF ReplicaResponse
  <2>5. ScheduleTypes'
    <3>1. s \in Schedules /\ ScheduleTypes
      BY BoundsAssumption, Types, SharedTypes
    <3>2. set_schedule_by_follower(s) \/ UNCHANGED scheduleVars
      BY <1>2 DEF ReplicaResponse
    <3> QED BY <2>4, <3>1, <3>2, FollowTypes DEF ScheduleTypes, scheduleVars
  <2>6. PeerTypes' /\ ActionTypes'
    BY <2>4, Types, SharedTypes DEF PeerTypes, ActionTypes, actionVars
  <2>7. LoopTypes'
    BY <2>3, <2>4, Types DEF LoopTypes, history
  <2> QED BY <2>5, <2>6, <2>7, NewTypes, NewSharedTypes
<1>3. CASE ReplicaConnect \/ ReplicaNoAddress \/ ReplicaConnected \/ ReplicaRequest
           \/ ReplicaFails \/ ReplicaRetry
  BY <1>1, <1>3 DEF ReplicaConnect, ReplicaNoAddress, ReplicaConnected, ReplicaRequest,
                    ReplicaFails, ReplicaRetry, ConnStates
<1> QED BY <1>2, <1>3 DEF ReplicaNext

LEMMA FinishTypes ==
  ASSUME TypeOK, fetch.state = "Prefetching", FinishPrefetch
  PROVE  TypeOK'
<1>1. fetch \in PrefetchStates
  BY Types, FetchKinds DEF LoopTypes
<1>2. parents' \in Option(SUBSET Schedules)
  <2>1. fetch.schedules \in SUBSET Schedules
    BY <1>1 DEF PrefetchStates
  <2> QED BY <2>1 DEF FinishPrefetch, set_parents, Option
<1>3. PeerTypes' /\ ActionTypes'
  BY Types, SharedTypes DEF FinishPrefetch, PeerTypes, ActionTypes, actionVars
<1>4. ScheduleTypes'
  BY <1>2, Types, SharedTypes DEF FinishPrefetch, ScheduleTypes, scheduleVars
<1>5. LoopTypes'
  BY Types, FetchKinds DEF FinishPrefetch, LoopTypes
<1> QED BY <1>3, <1>4, <1>5, NewTypes, NewSharedTypes

LEMMA PrefetchTypes ==
  ASSUME TypeOK, PrefetchNext
  PROVE  TypeOK'
<1>1. fetch.state = "Prefetching" /\ fetch \in PrefetchStates
  <2>1. Polling("Prefetching")
    BY DEF PrefetchNext, FetchStart, FetchFails, FetchReady, Prefetches, PrefetchDone,
           GracefulOver, PrefetchDeadline
  <2> QED BY <2>1, Types, FetchKinds DEF Polling, LoopTypes
<1>2. ASSUME NEW hash \in Hashes, NEW p \in Peer,
             FetchStart(hash, p) \/ FetchFails(hash, p)
      PROVE  TypeOK'
  <2>1. <<hash, p>> \in Hashes \X Peer
    BY <1>2
  <2>2. [fetch EXCEPT !.fetching = @ \cup {<<hash, p>>}] \in PrefetchStates
    BY <1>1, <2>1 DEF PrefetchStates
  <2>3. [fetch EXCEPT !.fetching = @ \ {<<hash, p>>}, !.failing = @ \cup {p}] \in PrefetchStates
    BY <1>1 DEF PrefetchStates
  <2> QED BY <1>2, <2>2, <2>3, FetchKinds, FetchOnlyTypes, Types
          DEF FetchStart, FetchFails, Prefetches, LoopTypes
<1>3. ASSUME NEW hash \in Hashes, NEW p \in Peer, NEW s \in Reported, FetchReady(hash, p, s)
      PROVE  TypeOK'
  <2>1. s \in Schedules
    BY BoundsAssumption
  <2>2. [fetch EXCEPT !.fetching  = @ \ {<<hash, p>>},
                      !.waiting   = {w \in @ : w[1] # s.hash},
                      !.schedules = {x \in @ : x.hash # s.hash} \cup {s}] \in PrefetchStates
    BY <1>1, <2>1 DEF PrefetchStates
  <2> QED BY <1>3, <2>2, FetchKinds, FetchOnlyTypes, Types DEF FetchReady, Prefetches, LoopTypes
<1>4. CASE PrefetchDone \/ PrefetchDeadline
  BY <1>1, <1>4, FinishTypes DEF PrefetchDone, PrefetchDeadline
<1>5. CASE GracefulOver
  <2>1. [fetch EXCEPT !.phase = "Fetching"] \in PrefetchStates
    BY <1>1 DEF PrefetchStates
  <2> QED BY <1>5, <2>1, FetchKinds, FetchOnlyTypes DEF GracefulOver, Steps
<1> QED BY <1>2, <1>3, <1>4, <1>5 DEF PrefetchNext

LEMMA OtherTypes ==
  ASSUME TypeOK, CantalReports \/ (\E p \in Peer : BlacklistExpires(p)) \/ Wake \/ Publish
  PROVE  TypeOK'
<1>1. CASE CantalReports
  <2>1. PICK listed \in SUBSET Peer : set_peers(listed)
    BY <1>1 DEF CantalReports
  <2>2. PeerTypes'
    BY <1>1, <2>1, OptionTypes, Types, SharedTypes DEF CantalReports, set_peers, PeerTypes
  <2>3. ScheduleTypes' /\ ActionTypes'
    BY <1>1, Types, SharedTypes DEF CantalReports, ScheduleTypes, ActionTypes, scheduleVars,
                                    actionVars
  <2>4. LoopTypes'
    BY <1>1, Types DEF CantalReports, LoopTypes, fetchVars, history
  <2> QED BY <2>2, <2>3, <2>4, NewTypes, NewSharedTypes
<1>2. ASSUME NEW p \in Peer, BlacklistExpires(p) PROVE TypeOK'
  <2>1. fetch \in PrefetchStates
    BY <1>2, Types, FetchKinds DEF BlacklistExpires, LoopTypes
  <2>2. [fetch EXCEPT !.failing = @ \ {p}] \in PrefetchStates
    BY <2>1 DEF PrefetchStates
  <2> QED BY <1>2, <2>2, FetchKinds, FetchOnlyTypes, Types DEF BlacklistExpires, LoopTypes
<1>3. CASE Wake
  BY <1>3, FetchOnlyTypes, Types DEF Wake, LoopTypes, Steps
<1>4. CASE Publish
  <2>1. fetch.state \in FetchStates
    BY Types, FetchKinds DEF LoopTypes
  <2>2. PeerTypes'
    BY <1>4, <2>1, Types, SharedTypes DEF Publish, PeerTypes
  <2>3. ScheduleTypes' /\ ActionTypes'
    BY <1>4, Types, SharedTypes DEF Publish, ScheduleTypes, ActionTypes, scheduleVars, actionVars
  <2>4. LoopTypes'
    BY <1>4, Types DEF Publish, LoopTypes, history, Steps
  <2> QED BY <2>2, <2>3, <2>4, NewTypes, NewSharedTypes
<1> QED BY <1>1, <1>2, <1>3, <1>4

LEMMA LoopKeepsTypes == TypeOK /\ LoopNext => TypeOK'
BY PollTypes, MessageTypes, ReplicaTypes, PrefetchTypes, OtherTypes DEF LoopNext, FetcherNext

LEMMA StutterTypes == TypeOK /\ UNCHANGED vars => TypeOK'
BY FetchOnlyTypes, Types DEF vars, fetchVars, LoopTypes

LEMMA InitTypes == FetcherInit => TypeOK
<1> SUFFICES ASSUME FetcherInit PROVE SharedTypeOK /\ LoopTypes
  BY Types
<1>1. <<>> \in Seq(FetchMessage)
  OBVIOUS
<1>2. LoopTypes
  BY <1>1, FetchKinds DEF FetcherInit, LoopTypes, Steps
<1> QED BY <1>2, InitSharedTypes DEF FetcherInit

\* The types hold, whatever the election and the peers do.
THEOREM FetcherTypes == Spec => []TypeOK
BY InitTypes, LoopKeepsTypes, StutterTypes, PTL DEF Spec

-----------------------------------------------------------------------------
(* The queue ends with the state the election is in.                       *)

\* The fetcher has been told of the election, and of nothing since.
Agrees ==
  IF election.is_leader
  THEN fetch.state \in {"StableLeader", "Prefetching"}
  ELSE IF election.leader # NoNode
       THEN fetch.state = "Replicating" /\ fetch.leader = election.leader
       ELSE fetch.state = "Unstable"

QueueInv == IF queue = <<>> THEN Agrees ELSE queue[Len(queue)] = RoleMessage(election)

\* What the fetcher is yet to be told.
ToldOf == {queue[i] : i \in 1 .. Len(queue)}

LEMMA Tails ==
  ASSUME NEW T, NEW q \in Seq(T), q # <<>>
  PROVE  /\ Len(q) \in Nat /\ Len(q) > 0 /\ Len(Tail(q)) = Len(q) - 1
         /\ Head(q) = q[1]
         /\ \A i \in 1 .. Len(Tail(q)) : Tail(q)[i] = q[i + 1]
         /\ Tail(q) = <<>> => Len(q) = 1
<1>1. Len(q) \in Nat /\ Len(q) > 0
  OBVIOUS
<1>2. Len(Tail(q)) = Len(q) - 1
  BY <1>1
<1>3. Head(q) = q[1]
  OBVIOUS
<1>4. \A i \in 1 .. Len(Tail(q)) : Tail(q)[i] = q[i + 1]
  BY <1>1, <1>2
<1>5. Tail(q) = <<>> => Len(q) = 1
  BY <1>1, <1>2
<1> QED BY <1>1, <1>2, <1>3, <1>4, <1>5

LEMMA Takes ==
  ASSUME TypeOK, Consumed
  PROVE  /\ queue' = <<>> => queue[Len(queue)] = Head(queue)
         /\ queue' # <<>> => queue'[Len(queue')] = queue[Len(queue)]
         /\ ToldOf \subseteq ToldOf' \cup {Head(queue)}
<1>1. queue # <<>> /\ queue' = Tail(queue) /\ queue \in Seq(FetchMessage)
  BY DEF Consumed, TypeOK
<1>2. /\ Len(queue) \in Nat /\ Len(queue) > 0 /\ Len(queue') = Len(queue) - 1
      /\ Head(queue) = queue[1]
      /\ \A i \in 1 .. Len(queue') : queue'[i] = queue[i + 1]
      /\ queue' = <<>> => Len(queue) = 1
  BY <1>1, Tails
<1>3. ASSUME NEW i \in 1 .. Len(queue), i # 1
      PROVE  queue[i] \in ToldOf'
  <2>1. i - 1 \in 1 .. Len(queue') /\ queue'[i - 1] = queue[i]
    BY <1>2, <1>3
  <2> QED BY <2>1 DEF ToldOf
<1>4. queue' # <<>> => queue'[Len(queue')] = queue[Len(queue)]
  <2> SUFFICES ASSUME queue' # <<>> PROVE queue'[Len(queue')] = queue[Len(queue)]
    OBVIOUS
  <2>1. queue' \in Seq(FetchMessage)
    BY <1>1
  <2>2. Len(queue') > 0
    BY <2>1
  <2> QED BY <1>2, <2>2
<1> QED BY <1>1, <1>2, <1>3, <1>4 DEF ToldOf

LEMMA Polls ==
  ASSUME TypeOK, ElectionPoll
  PROVE  /\ queue' # <<>> /\ queue'[Len(queue')] = RoleMessage(election')
         /\ ToldOf \subseteq ToldOf'
         /\ UNCHANGED <<fetch, stable>> /\ pc' = "idle"
<1>1. PICK v \in Views :
        /\ v \in ElectionStates /\ election' = v
        /\ \/ queue' = Append(queue, RoleMessage(v))
           \/ \E m \in FetchMessage : queue' = queue \o <<m, RoleMessage(v)>>
  BY PollQueue
<1>2. queue \in Seq(FetchMessage) /\ RoleMessage(v) \in FetchMessage
  BY <1>1, RoleMessageType DEF TypeOK
<1>3. CASE queue' = Append(queue, RoleMessage(v))
  <2>1. /\ Len(queue') = Len(queue) + 1 /\ queue'[Len(queue) + 1] = RoleMessage(v)
        /\ \A i \in 1 .. Len(queue) : queue'[i] = queue[i]
    BY <1>2, <1>3
  <2> QED BY <1>1, <1>2, <2>1 DEF ToldOf, ElectionPoll
<1>4. ASSUME NEW m \in FetchMessage, queue' = queue \o <<m, RoleMessage(v)>>
      PROVE  /\ queue' # <<>> /\ queue'[Len(queue')] = RoleMessage(v)
             /\ ToldOf \subseteq ToldOf'
  <2>1. <<m, RoleMessage(v)>> \in Seq(FetchMessage) /\ Len(<<m, RoleMessage(v)>>) = 2
    BY <1>2
  <2>2. /\ Len(queue') = Len(queue) + 2 /\ queue'[Len(queue) + 2] = RoleMessage(v)
        /\ \A i \in 1 .. Len(queue) : queue'[i] = queue[i]
    BY <1>2, <1>4, <2>1
  <2> QED BY <1>2, <2>2 DEF ToldOf
<1> QED BY <1>1, <1>3, <1>4 DEF ElectionPoll

LEMMA RoleMessages ==
  ASSUME NEW v \in ElectionStates
  PROVE  /\ RoleMessage(v).type \in {"Leader", "Follower", "Election"}
         /\ RoleMessage(v).type = "Leader" <=> v.is_leader
         /\ RoleMessage(v).type = "Follower" =>
              ~v.is_leader /\ v.leader # NoNode /\ RoleMessage(v).leader = v.leader
         /\ RoleMessage(v).type = "Election" => ~v.is_leader /\ v.leader = NoNode
BY DEF RoleMessage, ElectionStates

\* What a poll of the fetcher does when all messages are read.
LEMMA Quiet ==
  ASSUME TypeOK, ReplicaNext \/ PrefetchNext \/ Wake \/ Publish \/ CantalReports
                  \/ \E p \in Peer : BlacklistExpires(p)
  PROVE  /\ UNCHANGED <<queue, election>>
         /\ fetch.state \notin {"Prefetching", "Replicating"} => UNCHANGED fetch
         /\ fetch.state = "Prefetching" => fetch'.state \in {"Prefetching", "StableLeader"}
         /\ fetch.state = "Replicating" =>
              fetch'.state = "Replicating" /\ fetch'.leader = fetch.leader
<1> USE DEF Polling
<1>1. CASE Wake \/ Publish \/ CantalReports
  BY <1>1 DEF Wake, Publish, CantalReports, sharedVars, fetchVars
<1>2. ASSUME NEW from, NEW to, Conn(from, to)
      PROVE  /\ UNCHANGED <<queue, election>> /\ fetch.state = "Replicating"
             /\ fetch'.state = "Replicating" /\ fetch'.leader = fetch.leader
  <2>1. fetch.state = "Replicating" /\ fetch \in ReplicaStates
    BY <1>2, Types, FetchKinds DEF Conn, LoopTypes
  <2> QED BY <1>2, <2>1 DEF Conn, ReplicaStates, sharedVars
<1>3. CASE ReplicaConnect \/ ReplicaNoAddress \/ ReplicaConnected \/ ReplicaRequest
           \/ ReplicaFails \/ ReplicaRetry
  BY <1>2, <1>3 DEF ReplicaConnect, ReplicaNoAddress, ReplicaConnected, ReplicaRequest,
                    ReplicaFails, ReplicaRetry
<1>4. ASSUME NEW s \in Reported, ReplicaResponse(s)
      PROVE  /\ UNCHANGED <<queue, election>> /\ fetch.state = "Replicating"
             /\ fetch'.state = "Replicating" /\ fetch'.leader = fetch.leader
  <2>1. fetch.state = "Replicating" /\ fetch \in ReplicaStates
    BY <1>4, Types, FetchKinds DEF ReplicaResponse, HasTarget, LoopTypes
  <2> QED BY <1>4, <2>1 DEF ReplicaResponse, ReplicaStates
<1>5. CASE PrefetchNext
  <2>1. fetch.state = "Prefetching" /\ UNCHANGED <<queue, election>>
    BY <1>5 DEF PrefetchNext, FetchStart, FetchFails, FetchReady, Prefetches, PrefetchDone,
           GracefulOver, PrefetchDeadline, FinishPrefetch, sharedVars
  <2>2. fetch \in PrefetchStates
    BY <2>1, Types, FetchKinds DEF LoopTypes
  <2>3. fetch'.state \in {"Prefetching", "StableLeader"}
    <3>1. ASSUME NEW hash, NEW peer, FetchStart(hash, peer) \/ FetchFails(hash, peer)
          PROVE  fetch'.state = "Prefetching"
      BY <2>2, <3>1 DEF FetchStart, FetchFails, PrefetchStates
    <3>2. ASSUME NEW hash, NEW peer, NEW s, FetchReady(hash, peer, s)
          PROVE  fetch'.state = "Prefetching"
      BY <2>2, <3>2 DEF FetchReady, PrefetchStates
    <3>3. CASE GracefulOver
      BY <2>2, <3>3 DEF GracefulOver, PrefetchStates
    <3>4. CASE PrefetchDone \/ PrefetchDeadline
      BY <3>4 DEF PrefetchDone, PrefetchDeadline, FinishPrefetch, StableLeader
    <3> QED BY <1>5, <3>1, <3>2, <3>3, <3>4 DEF PrefetchNext
  <2> QED BY <2>1, <2>3
<1>6. ASSUME NEW p \in Peer, BlacklistExpires(p)
      PROVE  /\ UNCHANGED <<queue, election>> /\ fetch.state = "Prefetching"
             /\ fetch'.state = "Prefetching"
  <2>1. fetch.state = "Prefetching" /\ fetch \in PrefetchStates
    BY <1>6, Types, FetchKinds DEF BlacklistExpires, LoopTypes
  <2> QED BY <1>6, <2>1 DEF BlacklistExpires, PrefetchStates, sharedVars
<1> QED BY <1>1, <1>3, <1>4, <1>5, <1>6 DEF ReplicaNext

LEMMA LoopQueue == TypeOK /\ QueueInv /\ LoopNext => QueueInv'
<1> SUFFICES ASSUME TypeOK, QueueInv, LoopNext PROVE QueueInv'
  OBVIOUS
<1>1. CASE ElectionPoll
  BY <1>1, Polls DEF QueueInv
<1>2. CASE MessagesNext
  <2>1. election' = election /\ queue # <<>> /\ (OnNewLeader \/ Consumed)
    BY <1>2, TakeTypes
  <2>2. CASE OnNewLeader
    BY <2>1, <2>2 DEF OnNewLeader, QueueInv
  <2>3. CASE Consumed /\ queue' # <<>>
    BY <2>1, <2>3, Takes DEF QueueInv
  <2>4. CASE Consumed /\ queue' = <<>>
    <3>1. Head(queue) = RoleMessage(election) /\ election \in ElectionStates
      BY <2>1, <2>4, Takes, Types, SharedTypes DEF QueueInv, PeerTypes
    <3>2. CASE OnLeader \/ StartPrefetch
      BY <2>1, <2>4, <3>1, <3>2, RoleMessages
         DEF OnLeader, StartPrefetch, Leading, Take, Received, Keep, NewPrefetch, QueueInv, Agrees
    <3>3. CASE OnFollower
      BY <2>1, <2>4, <3>1, <3>3, RoleMessages
         DEF OnFollower, Take, Received, Keep, Replica, QueueInv, Agrees
    <3>4. CASE OnElection
      BY <2>1, <2>4, <3>1, <3>4, RoleMessages
         DEF OnElection, Take, Received, Keep, Unstable, QueueInv, Agrees
    <3>5. ~OnPeerSchedule
      BY <3>1, RoleMessages DEF OnPeerSchedule, Take, Received
    <3> QED BY <1>2, <2>2, <3>2, <3>3, <3>4, <3>5 DEF MessagesNext
  <2> QED BY <2>1, <2>2, <2>3, <2>4
<1>3. CASE ReplicaNext \/ PrefetchNext \/ Wake \/ Publish \/ CantalReports
           \/ \E p \in Peer : BlacklistExpires(p)
  <2>1. fetch.state \in FetchStates
    BY Types, FetchKinds DEF LoopTypes
  <2> QED BY <1>3, <2>1, Quiet DEF QueueInv, Agrees, FetchStates
<1> QED BY <1>1, <1>2, <1>3 DEF LoopNext, FetcherNext

-----------------------------------------------------------------------------
(* The stable schedule is the one of the leader.                           *)

\* A schedule is of the leader that the fetcher works for, or of one that it
\* will hear of: it is reset when the fetcher turns to another one.
OfFetch(s) ==
  \/ fetch.state \in {"StableLeader", "Prefetching"} /\ s.origin = Self
  \/ fetch.state = "Replicating" /\ s.origin = fetch.leader

OfMessage(s, m) ==
  \/ m.type = "Leader" /\ s.origin = Self
  \/ m.type = "Follower" /\ s.origin = m.leader

\* Between the two steps of a new leader only its own thread sets a schedule.
StableInv ==
  /\ \A s \in stable : OfFetch(s) \/ \E m \in ToldOf : OfMessage(s, m)
  /\ pc = "schedule" => \A s \in stable : s.origin = Self

LEMMA MessageStable ==
  ASSUME TypeOK, StableInv, MessagesNext
  PROVE  StableInv'
<1>1. stable' \in {stable, {}} /\ (OnNewLeader \/ Consumed)
  BY MessageSteps, TakeTypes
<1>2. ToldOf \subseteq ToldOf' \cup {Head(queue)}
  BY <1>1, Takes DEF OnNewLeader, ToldOf
<1>11. pc' = "schedule" => stable' = {}
  BY DEF MessagesNext, OnLeader, OnNewLeader, StartPrefetch, OnFollower, OnElection,
         OnPeerSchedule, Take, Reset, reset_stable_schedule
<1> SUFFICES ASSUME NEW s \in stable'
             PROVE  OfFetch(s)' \/ \E m \in ToldOf' : OfMessage(s, m)
  BY <1>11 DEF StableInv
<1>3. OfFetch(s) \/ \E m \in ToldOf : OfMessage(s, m)
  BY <1>1 DEF StableInv
<1>4. Head(queue).type = "PeerSchedule" => ~OfMessage(s, Head(queue))
  BY DEF OfMessage
<1>5. CASE OnLeader
  BY <1>2, <1>3, <1>5 DEF OnLeader, Leading, Take, Received, Keep, OfFetch, OfMessage
<1>9. CASE OnNewLeader
  BY <1>9 DEF OnNewLeader, Reset, reset_stable_schedule
<1>10. CASE StartPrefetch
  BY <1>10 DEF StartPrefetch, NewPrefetch, StableInv, OfFetch, sharedVars, scheduleVars
<1>6. CASE OnFollower
  BY <1>2, <1>3, <1>6 DEF OnFollower, Take, Received, Keep, Reset, reset_stable_schedule,
                               OfFetch, OfMessage
<1>7. CASE OnElection
  BY <1>2, <1>3, <1>7 DEF OnElection, Take, Received, Keep, Reset, reset_stable_schedule,
                               OfFetch, OfMessage
<1>8. CASE OnPeerSchedule
  <2>1. Head(queue).type = "PeerSchedule"
    BY <1>8 DEF OnPeerSchedule, Take, Received
  <2>2. CASE Keep
    BY <1>2, <1>3, <1>4, <2>1, <2>2 DEF Keep, OfFetch
  <2>3. CASE fetch.state = "Prefetching" /\ fetch' = Report(fetch, Head(queue).peer, Head(queue).hash)
    <3>1. fetch \in PrefetchStates
      BY <2>3, Types, FetchKinds DEF LoopTypes
    <3>2. fetch'.state = "Prefetching"
      BY <2>3, <3>1 DEF Report, PrefetchStates
    <3> QED BY <1>2, <1>3, <1>4, <2>1, <2>3, <3>2 DEF OfFetch
  <2>4. CASE Retarget(Head(queue).hash)
    BY <2>2, <2>4 DEF Retarget, Reset, reset_stable_schedule
  <2> QED BY <1>8, <2>2, <2>3, <2>4 DEF OnPeerSchedule
<1> QED BY <1>5, <1>6, <1>7, <1>8, <1>9, <1>10 DEF MessagesNext

\* Only the answer of the leader makes a schedule stable.
LEMMA QuietStable ==
  ASSUME ReplicaNext \/ PrefetchNext \/ Wake \/ Publish \/ CantalReports
           \/ \E p \in Peer : BlacklistExpires(p)
  PROVE  \/ UNCHANGED stable
         \/ \E s \in Reported : ReplicaResponse(s) /\ stable' = {s} /\ MayFollow(s)
<1>1. CASE Wake \/ Publish \/ CantalReports \/ \E p \in Peer : BlacklistExpires(p)
  BY <1>1 DEF Wake, Publish, CantalReports, BlacklistExpires, sharedVars, scheduleVars
<1>2. CASE PrefetchNext
  BY <1>2 DEF PrefetchNext, FetchStart, FetchFails, FetchReady, Prefetches, PrefetchDone,
         GracefulOver, PrefetchDeadline, FinishPrefetch, sharedVars, scheduleVars
<1>3. CASE ReplicaConnect \/ ReplicaNoAddress \/ ReplicaConnected \/ ReplicaRequest
           \/ ReplicaFails \/ ReplicaRetry
  BY <1>3 DEF ReplicaConnect, ReplicaNoAddress, ReplicaConnected, ReplicaRequest,
              ReplicaFails, ReplicaRetry, Conn, sharedVars, scheduleVars
<1>4. ASSUME NEW s \in Reported, ReplicaResponse(s)
      PROVE  UNCHANGED stable \/ (stable' = {s} /\ MayFollow(s))
  BY <1>4 DEF ReplicaResponse, set_schedule_by_follower, scheduleVars
<1> QED BY <1>1, <1>2, <1>3, <1>4 DEF ReplicaNext

LEMMA LoopStable == TypeOK /\ QueueInv /\ StableInv /\ LoopNext => StableInv'
<1> SUFFICES ASSUME TypeOK, QueueInv, StableInv, LoopNext PROVE StableInv'
  OBVIOUS
<1>1. CASE ElectionPoll
  BY <1>1, Polls DEF StableInv, OfFetch
<1>2. CASE MessagesNext
  BY <1>2, MessageStable
<1>3. CASE ReplicaNext \/ PrefetchNext \/ Wake \/ Publish \/ CantalReports
           \/ \E p \in Peer : BlacklistExpires(p)
  <2>1. ToldOf' = ToldOf
    BY <1>3, Quiet DEF ToldOf
  <2>2. fetch.state \in FetchStates
    BY Types, FetchKinds DEF LoopTypes
  <2>3. \A s : OfFetch(s) => OfFetch(s)'
    BY <1>3, <2>2, Quiet DEF OfFetch, FetchStates
  <2>6. pc' = "schedule" => pc = "schedule" /\ UNCHANGED stable
    BY <1>3 DEF ReplicaNext, ReplicaConnect, ReplicaNoAddress, ReplicaConnected, ReplicaRequest,
           ReplicaFails, ReplicaRetry, Conn, ReplicaResponse, HasTarget, PrefetchNext, FetchStart,
           FetchFails, FetchReady, Prefetches, PrefetchDone, GracefulOver, PrefetchDeadline,
           FinishPrefetch, Polling, Wake, Publish, CantalReports, BlacklistExpires, fetchVars,
           sharedVars, scheduleVars
  <2>4. CASE UNCHANGED stable
    BY <2>1, <2>3, <2>4, <2>6 DEF StableInv
  <2>5. ASSUME NEW s \in Reported, ReplicaResponse(s), stable' = {s}, MayFollow(s)
        PROVE  StableInv'
    <3>1. queue = <<>> /\ s \in Schedules
      BY <2>5, BoundsAssumption DEF ReplicaResponse, HasTarget, Polling
    <3>2. s.origin # NoNode /\ ~election.is_leader /\ election.leader = s.origin
      BY <2>5, <3>1, SelfAssumption DEF MayFollow, Schedules
    <3>3. OfFetch(s)
      BY <3>1, <3>2 DEF QueueInv, Agrees, OfFetch
    <3> QED BY <2>3, <2>5, <2>6, <3>3 DEF StableInv
  <2> QED BY <1>3, <2>4, <2>5, QuietStable
<1> QED BY <1>1, <1>2, <1>3 DEF LoopNext, FetcherNext

LEMMA StableSuffices == TypeOK /\ QueueInv /\ StableInv => StableIsOfLeader
<1> SUFFICES ASSUME TypeOK, QueueInv, StableInv, queue = <<>>, NEW s \in stable
             PROVE  (election.is_leader /\ s.origin = Self) \/ election.leader = s.origin
  BY DEF StableIsOfLeader
<1>1. Agrees /\ ToldOf = {}
  BY DEF QueueInv, ToldOf
<1>2. OfFetch(s)
  BY <1>1 DEF StableInv
<1> QED BY <1>1, <1>2 DEF Agrees, OfFetch

LEMMA InitStable == FetcherInit => QueueInv /\ StableInv
<1> SUFFICES ASSUME FetcherInit PROVE QueueInv /\ StableInv
  OBVIOUS
<1>1. QueueInv
  BY DEF FetcherInit, SharedInit, QueueInv, Agrees, blank, Unstable
<1>2. stable = {}
  BY DEF FetcherInit, SharedInit
<1> QED BY <1>1, <1>2 DEF StableInv

LEMMA StutterStable == QueueInv /\ StableInv /\ UNCHANGED vars => (QueueInv /\ StableInv)'
BY DEF QueueInv, Agrees, StableInv, OfFetch, ToldOf, vars, sharedVars, scheduleVars, fetchVars

\* The schedule that a node calls stable is the one of the leader that the
\* election has, once the fetcher has read its messages.
THEOREM StableIsTheLeaders == Spec => []StableIsOfLeader
<1>1. TypeOK /\ QueueInv /\ StableInv /\ [LoopNext]_vars => (QueueInv /\ StableInv)'
  BY LoopQueue, LoopStable, StutterStable
<1> QED BY <1>1, InitStable, StableSuffices, FetcherTypes, PTL DEF Spec

-----------------------------------------------------------------------------
(* A follower that waits for a newer schedule has no stable one.           *)

\* A schedule that the scheduler of this node has published while the fetcher
\* was replicating goes with the message of the leadership.
TargetInv ==
  fetch.state = "Replicating" /\ fetch.target # {} /\ stable # {}
    => \E m \in ToldOf : m.type = "Leader"

LEMMA MessageTarget ==
  ASSUME TypeOK, TargetInv, MessagesNext
  PROVE  TargetInv'
<1>1. stable' \in {stable, {}} /\ (OnNewLeader \/ Consumed)
  BY MessageSteps, TakeTypes
<1>2. ToldOf \subseteq ToldOf' \cup {Head(queue)}
  BY <1>1, Takes DEF OnNewLeader, ToldOf
<1> SUFFICES ASSUME fetch'.state = "Replicating", fetch'.target # {}, stable' # {}
             PROVE  \E m \in ToldOf' : m.type = "Leader"
  BY DEF TargetInv
<1>3. ~OnLeader /\ ~OnNewLeader /\ ~StartPrefetch
  BY DEF OnLeader, Leading, OnNewLeader, StartPrefetch, NewPrefetch, Keep, Reset,
         reset_stable_schedule
<1>4. Head(queue).type # "Leader"
  BY <1>3 DEF MessagesNext, OnFollower, OnElection, OnPeerSchedule, Take, Received
<1>5. UNCHANGED fetch
  <2>1. CASE OnFollower \/ OnElection
    BY <2>1 DEF OnFollower, OnElection, Keep, Reset, reset_stable_schedule
  <2>2. CASE OnPeerSchedule
    <3>1. CASE fetch.state = "Prefetching" /\ fetch' = Report(fetch, Head(queue).peer, Head(queue).hash)
      <4>1. fetch \in PrefetchStates
        BY <3>1, Types, FetchKinds DEF LoopTypes
      <4> QED BY <3>1, <4>1 DEF Report, PrefetchStates
    <3>2. CASE Retarget(Head(queue).hash)
      BY <3>2 DEF Retarget, Keep, Reset, reset_stable_schedule
    <3> QED BY <2>2, <3>1, <3>2 DEF OnPeerSchedule, Keep
  <2> QED BY <1>3, <2>1, <2>2 DEF MessagesNext
<1> QED BY <1>1, <1>2, <1>4, <1>5 DEF TargetInv

LEMMA LoopTarget == TypeOK /\ TargetInv /\ LoopNext => TargetInv'
<1> SUFFICES ASSUME TypeOK, TargetInv, LoopNext PROVE TargetInv'
  OBVIOUS
<1>1. CASE ElectionPoll
  BY <1>1, Polls DEF TargetInv
<1>2. CASE MessagesNext
  BY <1>2, MessageTarget
<1>3. CASE ReplicaNext \/ PrefetchNext \/ Wake \/ Publish \/ CantalReports
           \/ \E p \in Peer : BlacklistExpires(p)
  <2>1. ToldOf' = ToldOf
    BY <1>3, Quiet DEF ToldOf
  <2>2. fetch.state \in FetchStates
    BY Types, FetchKinds DEF LoopTypes
  <2>3. CASE fetch.state # "Replicating"
    BY <1>3, <2>2, <2>3, Quiet DEF TargetInv, FetchStates
  <2>4. CASE fetch.state = "Replicating" /\ fetch \in ReplicaStates
    <3>1. ASSUME NEW from, NEW to, Conn(from, to)
          PROVE  UNCHANGED stable /\ fetch'.target = fetch.target
      BY <3>1, <2>4 DEF Conn, ReplicaStates, sharedVars, scheduleVars
    <3>2. CASE ReplicaConnect \/ ReplicaNoAddress \/ ReplicaConnected \/ ReplicaRequest
               \/ ReplicaFails \/ ReplicaRetry
      BY <3>1, <3>2, <2>1, <2>4 DEF TargetInv, ReplicaConnect, ReplicaNoAddress,
           ReplicaConnected, ReplicaRequest, ReplicaFails, ReplicaRetry
    <3>3. ASSUME NEW s \in Reported, ReplicaResponse(s)
          PROVE  fetch'.target = {} \/ (fetch'.target = fetch.target /\ UNCHANGED stable)
      BY <3>3, <2>4 DEF ReplicaResponse, ReplicaStates, scheduleVars
    <3>4. CASE Wake \/ Publish \/ CantalReports
      BY <3>4, <2>1 DEF TargetInv, Wake, Publish, CantalReports, sharedVars, scheduleVars,
                        fetchVars
    <3>5. ~PrefetchNext /\ ~\E p \in Peer : BlacklistExpires(p)
      BY <2>4 DEF PrefetchNext, FetchStart, FetchFails, FetchReady, Prefetches, PrefetchDone,
             GracefulOver, PrefetchDeadline, Polling, BlacklistExpires
    <3> QED BY <1>3, <2>1, <2>4, <3>2, <3>3, <3>4, <3>5 DEF ReplicaNext, TargetInv
  <2> QED BY <2>3, <2>4, Types, FetchKinds DEF LoopTypes
<1> QED BY <1>1, <1>2, <1>3 DEF LoopNext, FetcherNext

LEMMA TargetSuffices == TargetInv => TargetMeansUnstable
BY DEF TargetInv, TargetMeansUnstable, ToldOf

\* While a follower waits for a newer schedule of its leader it does not pass
\* the old one off as stable.
THEOREM WaitingIsUnstable == Spec => []TargetMeansUnstable
<1>1. FetcherInit => TargetInv
  BY DEF FetcherInit, SharedInit, TargetInv
<1>2. TypeOK /\ TargetInv /\ [LoopNext]_vars => TargetInv'
  <2>1. TargetInv /\ UNCHANGED vars => TargetInv'
    BY DEF TargetInv, ToldOf, vars, sharedVars, scheduleVars, fetchVars
  <2> QED BY <2>1, LoopTarget
<1> QED BY <1>1, <1>2, TargetSuffices, FetcherTypes, PTL DEF Spec

-----------------------------------------------------------------------------
(* What a replica relies on.                                               *)

LEMMA MessageReplica ==
  ASSUME TypeOK, ReplicaHasTarget, MessagesNext
  PROVE  ReplicaHasTarget'
<1>1. CASE OnLeader \/ OnNewLeader \/ StartPrefetch \/ OnFollower \/ OnElection
  BY <1>1 DEF OnLeader, OnNewLeader, StartPrefetch, OnFollower, OnElection, Keep, NewPrefetch,
              Replica, Unstable, ReplicaHasTarget
<1>2. CASE OnPeerSchedule
  <2>1. CASE fetch.state = "Prefetching" /\ fetch' = Report(fetch, Head(queue).peer, Head(queue).hash)
    <3>1. fetch \in PrefetchStates
      BY <2>1, Types, FetchKinds DEF LoopTypes
    <3>2. fetch'.state = "Prefetching"
      BY <2>1, <3>1 DEF Report, PrefetchStates
    <3> QED BY <3>2 DEF ReplicaHasTarget
  <2>2. CASE Keep
    BY <2>2 DEF Keep, ReplicaHasTarget
  <2>3. CASE fetch.state = "Replicating" /\ Retarget(Head(queue).hash)
    <3>1. fetch \in ReplicaStates
      BY <2>3, Types, FetchKinds DEF LoopTypes
    <3>2. Keep \/ (fetch'.state = "Replicating" /\ fetch'.target # {})
      BY <2>3, <3>1 DEF Retarget, ReplicaStates
    <3> QED BY <2>2, <3>2 DEF ReplicaHasTarget
  <2> QED BY <1>2, <2>1, <2>2, <2>3 DEF OnPeerSchedule
<1> QED BY <1>1, <1>2 DEF MessagesNext

LEMMA StepsOfReplica ==
  ASSUME TypeOK, ReplicaHasTarget, ReplicaNext
  PROVE  ReplicaHasTarget'
<1>1. fetch \in ReplicaStates
  <2>1. Polling("Replicating")
    BY DEF ReplicaNext, ReplicaConnect, ReplicaNoAddress, ReplicaConnected, ReplicaRequest,
           ReplicaFails, ReplicaRetry, Conn, ReplicaResponse, HasTarget
  <2> QED BY <2>1, Types, FetchKinds DEF Polling, LoopTypes
<1>2. ASSUME NEW from, NEW to, Conn(from, to), to = "Waiting" => HasTarget
      PROVE  ReplicaHasTarget'
  BY <1>1, <1>2 DEF Conn, HasTarget, ReplicaStates, ReplicaHasTarget
<1>3. CASE ReplicaConnect \/ ReplicaNoAddress \/ ReplicaConnected \/ ReplicaRequest
           \/ ReplicaFails \/ ReplicaRetry
  BY <1>2, <1>3 DEF ReplicaConnect, ReplicaNoAddress, ReplicaConnected, ReplicaRequest,
                    ReplicaFails, ReplicaRetry
<1>4. ASSUME NEW s \in Reported, ReplicaResponse(s)
      PROVE  ReplicaHasTarget'
  <2>1. fetch'.state = "Replicating" /\ fetch'.conn \in {"KeepAlive", "Failed"}
    BY <1>1, <1>4 DEF ReplicaResponse, ReplicaStates
  <2> QED BY <2>1 DEF ReplicaHasTarget
<1> QED BY <1>3, <1>4 DEF ReplicaNext

LEMMA LoopReplica == TypeOK /\ ReplicaHasTarget /\ LoopNext => ReplicaHasTarget'
<1> SUFFICES ASSUME TypeOK, ReplicaHasTarget, LoopNext PROVE ReplicaHasTarget'
  OBVIOUS
<1>1. CASE ElectionPoll \/ CantalReports \/ Wake \/ Publish
  BY <1>1 DEF ElectionPoll, CantalReports, Wake, Publish, fetchVars, ReplicaHasTarget
<1>2. CASE PrefetchNext \/ \E p \in Peer : BlacklistExpires(p)
  <2>1. fetch.state = "Prefetching"
    BY <1>2 DEF PrefetchNext, FetchStart, FetchFails, FetchReady, Prefetches, PrefetchDone,
           GracefulOver, PrefetchDeadline, Polling, BlacklistExpires
  <2> QED BY <1>2, <2>1, Quiet DEF ReplicaHasTarget
<1> QED BY <1>1, <1>2, MessageReplica, StepsOfReplica DEF LoopNext, FetcherNext

\* The unreachable!() of poll_state is not reached.
THEOREM UnreachableIsNot == Spec => []ReplicaHasTarget
<1>1. FetcherInit => ReplicaHasTarget
  BY DEF FetcherInit, Unstable, ReplicaHasTarget
<1>2. ReplicaHasTarget /\ UNCHANGED vars => ReplicaHasTarget'
  BY DEF ReplicaHasTarget, vars, fetchVars
<1> QED BY <1>1, <1>2, LoopReplica, FetcherTypes, PTL DEF Spec

-----------------------------------------------------------------------------
(* The books of a prefetch.                                                *)

\* A message that ends a prefetch, and that there is one to be read.
Ends(m) == m.type \in {"Follower", "Election"}
Stale   == \E m \in ToldOf : Ends(m)

Held(hash) == \E s \in fetch.schedules : s.hash = hash

\* The prefetch knows of what w says.
Handled(w) ==
  fetch.state = "Prefetching" /\ ~Stale /\ (Held(w[1]) \/ w \in fetch.waiting)

\* The i-th message says it, and finds the prefetch that runs already (j is 0)
\* or that the j-th message starts.
Found(w, i, j) ==
  /\ queue[i].type = "PeerSchedule" /\ <<queue[i].hash, queue[i].peer>> = w
  /\ j < i
  /\ \A k \in j + 1 .. Len(queue) : ~Ends(queue[k])
  /\ \/ j = 0 /\ fetch.state = "Prefetching"
     \/ j > 0 /\ queue[j].type = "Leader"

Coming(w) == \E i \in 1 .. Len(queue), j \in 0 .. Len(queue) : Found(w, i, j)

\* A leader of one epoch becomes the leader of another: nothing is gathered.
Skips == fetch.state = "StableLeader" /\ ~Stale

BooksInv ==
  /\ pc = "schedule" => ~Leading
  /\ gathered => election.is_leader /\ Skips
  /\ fetch.state = "Prefetching" /\ ~Stale =>
       /\ fetch.waiting \subseteq told /\ fetch.fetching \subseteq told
       /\ \A w \in fetch.waiting : ~Held(w[1])
  /\ ~Skips => \A w : /\ Coming(w) => w \in told
                      /\ w \in told => Handled(w) \/ Coming(w)

LEMMA BooksSuffice == TypeOK /\ BooksInv => BooksAreExact
<1> SUFFICES ASSUME TypeOK, BooksInv, queue = <<>>, fetch.state = "Prefetching"
             PROVE  /\ fetch.waiting = {w \in told : \A s \in fetch.schedules : s.hash # w[1]}
                    /\ fetch.fetching \subseteq told
  BY DEF BooksAreExact
<1>1. ~Stale /\ \A w : ~Coming(w)
  BY DEF Stale, ToldOf, Coming
<1> QED BY <1>1 DEF BooksInv, Skips, Handled, Held

\* The end of the queue: what is not stale leads.
LEMMA NotStale ==
  ASSUME TypeOK, QueueInv, ~Stale, fetch.state \in {"Prefetching", "StableLeader"}
  PROVE  election.is_leader
<1>1. election \in ElectionStates /\ queue \in Seq(FetchMessage)
  BY Types, SharedTypes DEF PeerTypes, LoopTypes
<1>2. CASE queue = <<>>
  BY <1>2 DEF QueueInv, Agrees
<1>3. CASE queue # <<>>
  <2>1. Len(queue) \in 1 .. Len(queue)
    BY <1>1, <1>3
  <2>2. queue[Len(queue)] = RoleMessage(election) /\ ~Ends(RoleMessage(election))
    BY <1>3, <2>1 DEF QueueInv, Stale, ToldOf
  <2> QED BY <1>1, <2>2, RoleMessages DEF Ends
<1> QED BY <1>2, <1>3

\* A leader that polls finds its prefetch running or queued, or skips it.
LEMMA LeadsFrom ==
  ASSUME TypeOK, QueueInv, election.is_leader, ~Skips
  PROVE  \/ queue = <<>> /\ fetch.state = "Prefetching"
         \/ queue # <<>> /\ queue[Len(queue)].type = "Leader"
<1>1. election \in ElectionStates
  BY Types, SharedTypes DEF PeerTypes
<1>2. CASE queue = <<>>
  BY <1>2 DEF QueueInv, Agrees, Skips, Stale, ToldOf
<1>3. CASE queue # <<>>
  BY <1>1, <1>3, RoleMessages DEF QueueInv
<1> QED BY <1>2, <1>3

\* The prefetch that is found at j is one of the leadership that goes on.
LEMMA LedUntil ==
  ASSUME TypeOK, QueueInv, NEW j \in 0 .. Len(queue),
         \A k \in j + 1 .. Len(queue) : ~Ends(queue[k]),
         \/ j = 0 /\ fetch.state = "Prefetching"
         \/ j > 0 /\ queue[j].type = "Leader"
  PROVE  election.is_leader
<1>1. election \in ElectionStates /\ queue \in Seq(FetchMessage) /\ Len(queue) \in Nat
  BY Types, SharedTypes DEF PeerTypes, LoopTypes
<1>2. CASE queue = <<>>
  BY <1>1, <1>2 DEF QueueInv, Agrees
<1>3. CASE queue # <<>>
  <2>1. queue[Len(queue)] = RoleMessage(election)
    BY <1>3 DEF QueueInv
  <2>2. ~Ends(queue[Len(queue)])
    <3>1. CASE j = Len(queue)
      <4>1. Len(queue) > 0
        BY <1>1, <1>3
      <4> QED BY <3>1, <4>1 DEF Ends
    <3>2. CASE j < Len(queue)
      <4>1. Len(queue) \in j + 1 .. Len(queue)
        BY <1>1, <3>2
      <4> QED BY <4>1
    <3> QED BY <1>1, <3>1, <3>2
  <2> QED BY <1>1, <2>1, <2>2, RoleMessages DEF Ends
<1> QED BY <1>2, <1>3

LEMMA FoundLeads ==
  ASSUME TypeOK, QueueInv, NEW w, NEW i \in 1 .. Len(queue), NEW j \in 0 .. Len(queue),
         Found(w, i, j)
  PROVE  election.is_leader
BY LedUntil DEF Found

LEMMA PollBooks ==
  ASSUME TypeOK, QueueInv, BooksInv, ElectionPoll
  PROVE  BooksInv'
<1>1. PICK v \in Views :
        /\ v \in ElectionStates /\ election' = v
        /\ gathered' = (gathered /\ v = election)
        /\ \/ queue' = Append(queue, RoleMessage(v)) /\ Hears(v, {})
           \/ \E m \in FetchMessage : /\ m.type = "PeerSchedule"
                                      /\ queue' = queue \o <<m, RoleMessage(v)>>
                                      /\ Hears(v, {m})
  BY PollQueue
<1>2. queue \in Seq(FetchMessage) /\ RoleMessage(v) \in FetchMessage
  BY <1>1, RoleMessageType DEF TypeOK
<1>3. UNCHANGED <<fetch, pc>> /\ pc = "idle"
  BY DEF ElectionPoll
<1>4. v.is_leader => ~Ends(RoleMessage(v))
  BY <1>1, RoleMessages DEF Ends
<1>5. ~v.is_leader => Ends(RoleMessage(v))
  BY <1>1, RoleMessages DEF Ends
\* The queue grows at its end, by a role message and what comes before it.
<1>6. /\ Len(queue) \in Nat /\ Len(queue') \in Nat /\ Len(queue) < Len(queue')
      /\ \A i \in 1 .. Len(queue) : queue'[i] = queue[i]
      /\ queue'[Len(queue')] = RoleMessage(v)
      /\ \A i \in 1 .. Len(queue') : i > Len(queue) /\ v.is_leader => ~Ends(queue'[i])
      /\ \/ Hears(v, {})
         \/ \E m \in FetchMessage : /\ Hears(v, {m}) /\ m.type = "PeerSchedule"
                                    /\ queue'[Len(queue) + 1] = m
  <2>1. CASE queue' = Append(queue, RoleMessage(v)) /\ Hears(v, {})
    <3>1. /\ Len(queue') = Len(queue) + 1 /\ queue'[Len(queue) + 1] = RoleMessage(v)
          /\ \A i \in 1 .. Len(queue) : queue'[i] = queue[i]
      BY <1>2, <2>1
    <3>2. Len(queue) \in Nat
      BY <1>2
    <3>3. \A i \in 1 .. Len(queue') : i > Len(queue) => i = Len(queue')
      BY <3>1, <3>2
    <3> QED BY <1>4, <2>1, <3>1, <3>2, <3>3
  <2>2. ASSUME NEW m \in FetchMessage, m.type = "PeerSchedule",
               queue' = queue \o <<m, RoleMessage(v)>>, Hears(v, {m})
        PROVE  <1>6!:
    <3>1. <<m, RoleMessage(v)>> \in Seq(FetchMessage) /\ Len(<<m, RoleMessage(v)>>) = 2
      BY <1>2
    <3>2. /\ Len(queue') = Len(queue) + 2 /\ queue'[Len(queue) + 2] = RoleMessage(v)
          /\ queue'[Len(queue) + 1] = m
          /\ \A i \in 1 .. Len(queue) : queue'[i] = queue[i]
      BY <1>2, <2>2, <3>1
    <3>3. Len(queue) \in Nat
      BY <1>2
    <3>4. \A i \in 1 .. Len(queue') : i > Len(queue) => i = Len(queue) + 1 \/ i = Len(queue')
      BY <3>2, <3>3
    <3>5. \A i \in 1 .. Len(queue') : i > Len(queue) /\ v.is_leader => ~Ends(queue'[i])
      BY <1>4, <2>2, <3>2, <3>4 DEF Ends
    <3>6. Len(queue') \in Nat /\ Len(queue) < Len(queue')
      BY <3>2, <3>3
    <3> QED BY <2>2, <3>2, <3>3, <3>5, <3>6
  <2> QED BY <1>1, <2>1, <2>2
<1>12. ASSUME NEW i \in 1 .. Len(queue'), i > Len(queue), queue'[i].type = "PeerSchedule"
       PROVE  \E m \in FetchMessage : /\ Hears(v, {m}) /\ queue'[Len(queue) + 1] = m
                                      /\ i = Len(queue) + 1 /\ Len(queue') = Len(queue) + 2
  <2>1. RoleMessage(v).type # "PeerSchedule" /\ Len(queue) \in Nat
    BY <1>1, <1>2, RoleMessages
  <2>2. CASE queue' = Append(queue, RoleMessage(v))
    <3>1. Len(queue') = Len(queue) + 1 /\ queue'[Len(queue) + 1] = RoleMessage(v)
      BY <1>2, <2>2
    <3> QED BY <1>12, <2>1, <3>1
  <2>3. ASSUME NEW m \in FetchMessage, queue' = queue \o <<m, RoleMessage(v)>>, Hears(v, {m})
        PROVE  \E n \in FetchMessage : /\ Hears(v, {n}) /\ queue'[Len(queue) + 1] = n
                                      /\ i = Len(queue) + 1 /\ Len(queue') = Len(queue) + 2
    <3>1. <<m, RoleMessage(v)>> \in Seq(FetchMessage) /\ Len(<<m, RoleMessage(v)>>) = 2
      BY <1>2
    <3>2. /\ Len(queue') = Len(queue) + 2 /\ queue'[Len(queue) + 2] = RoleMessage(v)
          /\ queue'[Len(queue) + 1] = m
      BY <1>2, <2>3, <3>1
    <3>3. i = Len(queue) + 1 \/ i = Len(queue) + 2
      BY <1>12, <2>1, <3>2
    <3> QED BY <1>12, <2>1, <2>3, <3>2, <3>3
  <2> QED BY <1>1, <2>2, <2>3
<1>7. Stale' <=> Stale \/ ~v.is_leader
  <2>1. Stale => Stale'
    <3> SUFFICES ASSUME NEW i \in 1 .. Len(queue), Ends(queue[i]) PROVE Stale'
      BY DEF Stale, ToldOf
    <3>1. i \in 1 .. Len(queue') /\ queue'[i] = queue[i]
      BY <1>6
    <3> QED BY <3>1 DEF Stale, ToldOf
  <2>2. ~v.is_leader => Stale'
    <3>1. Len(queue') \in 1 .. Len(queue')
      BY <1>6
    <3> QED BY <1>5, <1>6, <3>1 DEF Stale, ToldOf
  <2>3. ASSUME Stale', v.is_leader PROVE Stale
    <3>1. PICK i \in 1 .. Len(queue') : Ends(queue'[i])
      BY <2>3 DEF Stale, ToldOf
    <3>2. i \in 1 .. Len(queue)
      BY <1>6, <2>3, <3>1
    <3> QED BY <1>6, <3>1, <3>2 DEF Stale, ToldOf
  <2> QED BY <2>1, <2>2, <2>3
<1>8. gathered' => election'.is_leader /\ Skips'
  BY <1>1, <1>3, <1>7 DEF BooksInv, Skips
\* While nothing ends the leadership, the history only grows.
<1>9. election.is_leader /\ v.is_leader /\ ~gathered => told \subseteq told'
  BY <1>6 DEF Hears
<1>10. ASSUME fetch'.state = "Prefetching", ~Stale'
       PROVE  /\ fetch'.waiting \subseteq told' /\ fetch'.fetching \subseteq told'
              /\ \A w \in fetch'.waiting : ~Held(w[1])'
  <2>1. fetch.state = "Prefetching" /\ ~Stale /\ v.is_leader
    BY <1>3, <1>7, <1>10
  <2>2. election.is_leader /\ ~gathered
    BY <2>1, NotStale DEF BooksInv, Skips
  <2> QED BY <1>3, <1>9, <2>1, <2>2 DEF BooksInv, Held
<1>11. ASSUME v.is_leader, ~Skips'
       PROVE  \A w : /\ Coming(w)' => w \in told'
                     /\ w \in told' => Handled(w)' \/ Coming(w)'
  <2>1. ~Skips /\ ~gathered /\ (Stale' <=> Stale)
    BY <1>3, <1>7, <1>11 DEF Skips, BooksInv
  <2>2. ASSUME NEW w, w \in told' PROVE Handled(w)' \/ Coming(w)'
    <3>1. election.is_leader
      BY <2>2, <1>6 DEF Hears
    <3>2. CASE w \in told /\ Handled(w)
      BY <1>3, <2>1, <3>2 DEF Handled, Held
    <3>3. CASE w \in told /\ Coming(w)
      <4>1. PICK i \in 1 .. Len(queue), j \in 0 .. Len(queue) : Found(w, i, j)
        BY <3>3 DEF Coming
      <4>2. \A k \in j + 1 .. Len(queue') : ~Ends(queue'[k])
        BY <1>6, <1>11, <4>1 DEF Found
      <4>3. i \in 1 .. Len(queue') /\ j \in 0 .. Len(queue') /\ queue'[i] = queue[i]
            /\ (j > 0 => queue'[j] = queue[j])
        BY <1>6, <4>1
      <4>4. Found(w, i, j)'
        BY <1>3, <4>1, <4>2, <4>3 DEF Found
      <4> QED BY <4>3, <4>4 DEF Coming
    <3>4. CASE w \notin told
      <4>1. PICK m \in FetchMessage : /\ m.type = "PeerSchedule" /\ w = <<m.hash, m.peer>>
                                      /\ queue'[Len(queue) + 1] = m
        BY <1>6, <1>11, <2>1, <2>2, <3>1, <3>4 DEF Hears
      <4>6. PICK i \in Nat, j \in Nat : i = Len(queue) + 1 /\ j = Len(queue)
        BY <1>6
      <4>2. i \in 1 .. Len(queue') /\ j \in 0 .. Len(queue') /\ j < i
        BY <1>6, <4>6
      <4>3. \A k \in j + 1 .. Len(queue') : ~Ends(queue'[k])
        BY <1>6, <1>11, <4>6
      <4>4. \/ j = 0 /\ fetch'.state = "Prefetching"
            \/ j > 0 /\ queue'[j].type = "Leader"
        <5>1. CASE queue = <<>> /\ fetch.state = "Prefetching"
          BY <1>3, <4>6, <5>1
        <5>2. CASE queue # <<>> /\ queue[Len(queue)].type = "Leader"
          <6>1. j > 0
            BY <1>2, <4>6, <5>2
          <6> QED BY <1>6, <4>6, <5>2, <6>1
        <5> QED BY <2>1, <3>1, <5>1, <5>2, LeadsFrom
      <4>5. Found(w, i, j)'
        BY <4>1, <4>2, <4>3, <4>4, <4>6 DEF Found
      <4> QED BY <4>2, <4>5 DEF Coming
    <3> QED BY <2>1, <3>2, <3>3, <3>4 DEF BooksInv
  <2>3. ASSUME NEW w, Coming(w)' PROVE w \in told'
    <3>1. PICK i \in 1 .. Len(queue'), j \in 0 .. Len(queue') : Found(w, i, j)'
      BY <2>3 DEF Coming
    <3>2. CASE i <= Len(queue)
      <4>1. i \in 1 .. Len(queue) /\ j \in 0 .. Len(queue) /\ queue'[i] = queue[i]
            /\ (j > 0 => queue'[j] = queue[j])
        BY <1>6, <3>1, <3>2 DEF Found
      <4>2. \A k \in j + 1 .. Len(queue) : ~Ends(queue[k])
        BY <1>6, <3>1 DEF Found
      <4>3. Found(w, i, j)
        BY <1>3, <3>1, <4>1, <4>2 DEF Found
      <4>4. w \in told
        <5>1. Coming(w)
          BY <4>1, <4>3 DEF Coming
        <5> QED BY <2>1, <5>1 DEF BooksInv
      <4>5. election.is_leader
        BY <4>1, <4>3, FoundLeads
      <4> QED BY <1>9, <1>11, <2>1, <4>4, <4>5
    <3>3. CASE i > Len(queue)
      <4>1. queue'[i].type = "PeerSchedule" /\ <<queue'[i].hash, queue'[i].peer>> = w
        BY <3>1 DEF Found
      <4>2. PICK m \in FetchMessage : /\ Hears(v, {m}) /\ queue'[Len(queue) + 1] = m
                                      /\ i = Len(queue) + 1 /\ Len(queue') = Len(queue) + 2
        BY <1>12, <3>3, <4>1
      <4>3. election.is_leader
        <5>1. j \in 0 .. Len(queue) /\ (j > 0 => queue'[j] = queue[j])
          BY <1>6, <3>1, <4>2 DEF Found
        <5>2. /\ \A k \in j + 1 .. Len(queue) : ~Ends(queue[k])
              /\ \/ j = 0 /\ fetch.state = "Prefetching"
                 \/ j > 0 /\ queue[j].type = "Leader"
          BY <1>3, <1>6, <3>1, <5>1 DEF Found
        <5> QED BY <5>1, <5>2, LedUntil
      <4> QED BY <1>11, <2>1, <4>1, <4>2, <4>3 DEF Hears
    <3> QED BY <1>6, <3>1, <3>2, <3>3
  <2> QED BY <2>2, <2>3
<1>13. ASSUME ~v.is_leader
       PROVE  \A w : /\ Coming(w)' => w \in told'
                     /\ w \in told' => Handled(w)' \/ Coming(w)'
  <2>1. told' = {}
    BY <1>6, <1>13 DEF Hears
  <2>2. ASSUME NEW w, Coming(w)' PROVE FALSE
    <3>1. PICK i \in 1 .. Len(queue'), j \in 0 .. Len(queue') : Found(w, i, j)'
      BY <2>2 DEF Coming
    <3>2. Len(queue') \in j + 1 .. Len(queue')
      BY <1>6, <3>1 DEF Found
    <3> QED BY <1>5, <1>6, <1>13, <3>1, <3>2 DEF Found
  <2> QED BY <2>1, <2>2
<1>14. ~Skips' => \A w : /\ Coming(w)' => w \in told'
                         /\ w \in told' => Handled(w)' \/ Coming(w)'
  BY <1>11, <1>13
<1> QED BY <1>3, <1>8, <1>10, <1>14 DEF BooksInv

\* The messages that are still to be read move to the front.
LEMMA Moves ==
  ASSUME TypeOK, Consumed
  PROVE  /\ Len(queue) \in Nat /\ Len(queue) > 0
         /\ Len(queue') = Len(queue) - 1 /\ Len(queue') \in Nat
         /\ Head(queue) = queue[1] /\ Head(queue) \in FetchMessage
         /\ \A i \in 1 .. Len(queue') : queue'[i] = queue[i + 1]
         /\ Stale' => Stale
         /\ ~Ends(Head(queue)) => (Stale' <=> Stale)
         /\ Ends(Head(queue)) => Stale
<1>1. queue # <<>> /\ queue' = Tail(queue) /\ queue \in Seq(FetchMessage)
  BY DEF Consumed, TypeOK
<1>2. /\ Len(queue) \in Nat /\ Len(queue) > 0 /\ Len(queue') = Len(queue) - 1
      /\ Head(queue) = queue[1]
      /\ \A i \in 1 .. Len(queue') : queue'[i] = queue[i + 1]
  BY <1>1, Tails
<1>3. Head(queue) \in ToldOf
  BY <1>2 DEF ToldOf
<1>4. Stale' => Stale
  <2> SUFFICES ASSUME NEW i \in 1 .. Len(queue'), Ends(queue'[i]) PROVE Stale
    BY DEF Stale, ToldOf
  <2>1. i + 1 \in 1 .. Len(queue) /\ queue[i + 1] = queue'[i]
    BY <1>2
  <2> QED BY <2>1 DEF Stale, ToldOf
<1>5. ~Ends(Head(queue)) /\ Stale => Stale'
  BY Takes DEF Stale
<1> QED BY <1>1, <1>2, <1>3, <1>4, <1>5 DEF Stale

\* What the message does to the state machine, for its books.
ReadOf(m) ==
  /\ Ends(m) => fetch'.state \notin {"Prefetching", "StableLeader"}
  /\ m.type = "Leader" =>
       \/ Leading /\ UNCHANGED fetch
       \/ ~Leading /\ fetch'.state = "Prefetching" /\ fetch'.waiting = {} /\ fetch'.fetching = {}
  /\ m.type = "PeerSchedule" =>
       \/ fetch.state # "Prefetching" /\ fetch'.state = fetch.state
       \/ /\ fetch.state = "Prefetching" /\ fetch'.state = "Prefetching"
          /\ fetch'.schedules = fetch.schedules /\ fetch'.fetching = fetch.fetching
          /\ \/ Held(m.hash) /\ fetch'.waiting = fetch.waiting
             \/ ~Held(m.hash) /\ fetch'.waiting = fetch.waiting \cup {<<m.hash, m.peer>>}

LEMMA Reads ==
  ASSUME TypeOK, pc = "schedule" => ~Leading,
         OnLeader \/ StartPrefetch \/ OnFollower \/ OnElection \/ OnPeerSchedule
  PROVE  ReadOf(Head(queue))
<1>1. CASE OnLeader
  BY <1>1 DEF OnLeader, Take, Received, Keep, ReadOf, Ends
<1>2. CASE StartPrefetch
  BY <1>2 DEF StartPrefetch, Received, NewPrefetch, ReadOf, Ends
<1>3. CASE OnFollower
  <2>1. Head(queue).type = "Follower" /\ fetch'.state = "Replicating"
    BY <1>3 DEF OnFollower, Take, Received, Keep, Replica
  <2> QED BY <2>1 DEF ReadOf
<1>4. CASE OnElection
  <2>1. Head(queue).type = "Election" /\ fetch'.state = "Unstable"
    BY <1>4 DEF OnElection, Take, Received, Keep, Unstable
  <2> QED BY <2>1 DEF ReadOf
<1>5. CASE OnPeerSchedule
  <2>1. Head(queue).type = "PeerSchedule"
    BY <1>5 DEF OnPeerSchedule, Take, Received
  <2>2. CASE fetch.state = "Prefetching"
    <3>1. fetch \in PrefetchStates
      BY <2>2, Types, FetchKinds DEF LoopTypes
    <3>2. fetch' = Report(fetch, Head(queue).peer, Head(queue).hash)
      BY <1>5, <2>2 DEF OnPeerSchedule
    <3> QED BY <2>1, <2>2, <3>1, <3>2 DEF Report, PrefetchStates, Held, ReadOf, Ends
  <2>3. CASE fetch.state = "Replicating"
    <3>1. fetch \in ReplicaStates
      BY <2>3, Types, FetchKinds DEF LoopTypes
    <3>2. fetch'.state = "Replicating"
      BY <1>5, <2>3, <3>1 DEF OnPeerSchedule, Retarget, Keep, ReplicaStates
    <3> QED BY <2>1, <2>3, <3>2 DEF ReadOf, Ends
  <2>4. CASE fetch.state \in {"Unstable", "StableLeader"}
    BY <1>5, <2>1, <2>4 DEF OnPeerSchedule, Keep, ReadOf, Ends
  <2>5. fetch.state \in FetchStates
    BY Types, FetchKinds DEF LoopTypes
  <2> QED BY <2>2, <2>3, <2>4, <2>5 DEF FetchStates
<1> QED BY <1>1, <1>2, <1>3, <1>4, <1>5

\* Nothing is lost on the way to the prefetch.
LEMMA ComesOn ==
  ASSUME TypeOK, Consumed, ReadOf(Head(queue)), ~Skips, NEW w, Coming(w)
  PROVE  \/ Coming(w)'
         \/ /\ Head(queue).type = "PeerSchedule" /\ <<Head(queue).hash, Head(queue).peer>> = w
            /\ fetch.state = "Prefetching" /\ ~Stale
<1>1. PICK i \in 1 .. Len(queue), j \in 0 .. Len(queue) : Found(w, i, j)
  BY DEF Coming
<1>2. /\ Len(queue) \in Nat /\ Len(queue') = Len(queue) - 1 /\ Len(queue') \in Nat
      /\ Head(queue) = queue[1] /\ Head(queue) \in FetchMessage
      /\ \A k \in 1 .. Len(queue') : queue'[k] = queue[k + 1]
  BY Moves
<1>3. ASSUME j = 0 \/ j = 1 PROVE ~Stale
  <2>1. \A k \in 1 .. Len(queue) : k >= j + 1 => ~Ends(queue[k])
    BY <1>1 DEF Found
  <2>2. \A k \in 1 .. Len(queue) : ~Ends(queue[k])
    BY <1>1, <1>3, <2>1 DEF Found, Ends
  <2> QED BY <2>2 DEF Stale, ToldOf
<1>4. j = 0 => /\ fetch.state = "Prefetching" /\ ~Stale /\ ~Ends(Head(queue))
  BY <1>1, <1>2, <1>3 DEF Found
<1>5. CASE i = 1
  <2>1. j = 0
    BY <1>1, <1>5 DEF Found
  <2> QED BY <1>1, <1>2, <1>4, <1>5, <2>1 DEF Found
<1>6. CASE i > 1
  <2>1. PICK h \in Nat : h = IF j = 0 THEN 0 ELSE j - 1
    OBVIOUS
  <2>2. i - 1 \in 1 .. Len(queue') /\ queue'[i - 1] = queue[i]
    BY <1>2, <1>6
  <2>3. h < i - 1 /\ h \in 0 .. Len(queue')
    BY <1>1, <1>2, <1>6, <2>1 DEF Found
  <2>4. \A k \in h + 1 .. Len(queue') : ~Ends(queue'[k])
    <3> SUFFICES ASSUME NEW k \in h + 1 .. Len(queue') PROVE ~Ends(queue'[k])
      OBVIOUS
    <3>1. k + 1 \in j + 1 .. Len(queue) /\ queue'[k] = queue[k + 1]
      BY <1>2, <2>1
    <3> QED BY <1>1, <3>1 DEF Found
  <2>5. \/ h = 0 /\ fetch'.state = "Prefetching"
        \/ h > 0 /\ queue'[h].type = "Leader"
    <3>1. CASE j = 0
      <4>1. Head(queue).type \in {"Leader", "PeerSchedule"}
        BY <1>2, <1>4, <3>1, Messages DEF Ends
      <4> QED BY <1>4, <2>1, <3>1, <4>1 DEF ReadOf, Leading
    <3>2. CASE j = 1
      <4>1. Head(queue).type = "Leader" /\ ~Stale
        BY <1>1, <1>2, <1>3, <3>2 DEF Found
      <4>2. fetch.state # "StableLeader"
        BY <4>1 DEF Skips
      <4> QED BY <2>1, <3>2, <4>1, <4>2 DEF ReadOf, Leading
    <3>3. CASE j > 1
      <4>1. h \in 1 .. Len(queue') /\ queue'[h] = queue[j]
        BY <1>2, <2>1, <2>3, <3>3
      <4> QED BY <1>1, <3>3, <4>1 DEF Found
    <3> QED BY <3>1, <3>2, <3>3
  <2>6. Found(w, i - 1, h)'
    BY <1>1, <2>2, <2>3, <2>4, <2>5 DEF Found
  <2> QED BY <2>2, <2>3, <2>6 DEF Coming
<1> QED BY <1>5, <1>6

\* Nothing comes that has not been there.
LEMMA CameBefore ==
  ASSUME TypeOK, Consumed, ReadOf(Head(queue)), NEW w, Coming(w)'
  PROVE  Coming(w)
<1>1. PICK i \in 1 .. Len(queue'), h \in 0 .. Len(queue') : Found(w, i, h)'
  BY DEF Coming
<1>2. /\ Len(queue) \in Nat /\ Len(queue') = Len(queue) - 1 /\ Len(queue') \in Nat
      /\ Head(queue) = queue[1] /\ Head(queue) \in FetchMessage
      /\ \A k \in 1 .. Len(queue') : queue'[k] = queue[k + 1]
  BY Moves
<1>3. PICK j \in Nat : j = IF h = 0 /\ Head(queue).type # "Leader" THEN 0 ELSE h + 1
  OBVIOUS
<1>4. i + 1 \in 1 .. Len(queue) /\ queue[i + 1] = queue'[i] /\ j < i + 1 /\ j \in 0 .. Len(queue)
  BY <1>1, <1>2, <1>3 DEF Found
<1>5. h = 0 => fetch'.state = "Prefetching" /\ ~Ends(Head(queue))
  BY <1>1 DEF Found, ReadOf
<1>6. \A k \in j + 1 .. Len(queue) : ~Ends(queue[k])
  <2> SUFFICES ASSUME NEW k \in j + 1 .. Len(queue) PROVE ~Ends(queue[k])
    OBVIOUS
  <2>1. CASE k = 1
    BY <1>2, <1>3, <1>5, <2>1
  <2>2. CASE k > 1
    <3>1. k - 1 \in h + 1 .. Len(queue') /\ queue'[k - 1] = queue[k]
      BY <1>2, <1>3, <2>2
    <3> QED BY <1>1, <3>1 DEF Found
  <2> QED BY <2>1, <2>2
<1>7. \/ j = 0 /\ fetch.state = "Prefetching"
      \/ j > 0 /\ queue[j].type = "Leader"
  <2>1. CASE h = 0 /\ Head(queue).type = "Leader"
    BY <1>2, <1>3, <2>1
  <2>2. CASE h = 0 /\ Head(queue).type # "Leader"
    <3>1. Head(queue).type = "PeerSchedule"
      BY <1>2, <1>5, <2>2, Messages DEF Ends
    <3> QED BY <1>3, <1>5, <2>2, <3>1 DEF ReadOf
  <2>3. CASE h > 0
    <3>1. h \in 1 .. Len(queue') /\ queue'[h] = queue[j]
      BY <1>2, <1>3, <2>3
    <3> QED BY <1>1, <1>3, <2>3, <3>1 DEF Found
  <2> QED BY <2>1, <2>2, <2>3
<1>8. Found(w, i + 1, j)
  BY <1>1, <1>4, <1>6, <1>7 DEF Found
<1> QED BY <1>4, <1>8 DEF Coming

LEMMA ReadBooks ==
  ASSUME TypeOK, BooksInv, Consumed, UNCHANGED <<election, history>>, pc' # "schedule",
         ReadOf(Head(queue))
  PROVE  BooksInv'
<1>1. UNCHANGED <<gathered, told, election>> /\ (Stale' => Stale)
  BY Moves DEF history
<1>2. Head(queue) \in FetchMessage
  BY Moves
<1> DEFINE m == Head(queue)
           new == <<m.hash, m.peer>>
<1>3. Ends(m) \/ m.type \in {"Leader", "PeerSchedule"}
  BY <1>2, Messages DEF Ends
<1>4. Skips => Skips'
  <2> SUFFICES ASSUME Skips PROVE Skips'
    OBVIOUS
  <2>1. ~Ends(m) /\ (Stale' <=> Stale)
    BY Moves DEF Skips
  <2> QED BY <1>3, <2>1 DEF Skips, ReadOf, Leading
<1>5. gathered' => election'.is_leader /\ Skips'
  BY <1>1, <1>4 DEF BooksInv
\* The message of a schedule that a prefetch reads is the first to come.
<1>6. m.type = "PeerSchedule" /\ fetch.state = "Prefetching" /\ ~Stale => new \in told
  <2> SUFFICES ASSUME m.type = "PeerSchedule", fetch.state = "Prefetching", ~Stale
               PROVE  new \in told
    OBVIOUS
  <2>1. Len(queue) \in Nat /\ Len(queue) > 0 /\ queue[1] = m
    BY Moves
  <2>2. \A k \in 1 .. Len(queue) : ~Ends(queue[k])
    BY DEF Stale, ToldOf
  <2>3. Found(new, 1, 0)
    BY <2>1, <2>2 DEF Found
  <2>4. Coming(new)
    BY <2>1, <2>3 DEF Coming
  <2>5. ~Skips
    BY DEF Skips
  <2> QED BY <2>4, <2>5 DEF BooksInv
<1>7. ASSUME fetch'.state = "Prefetching", ~Stale'
      PROVE  /\ fetch'.waiting \subseteq told' /\ fetch'.fetching \subseteq told'
             /\ \A w \in fetch'.waiting : ~Held(w[1])'
  <2>1. ~Ends(m) /\ ~Stale
    BY <1>7, Moves DEF ReadOf
  <2>2. CASE m.type = "Leader"
    BY <1>1, <1>7, <2>1, <2>2 DEF ReadOf, Leading, BooksInv, Held
  <2>3. CASE m.type = "PeerSchedule"
    BY <1>1, <1>6, <1>7, <2>1, <2>3 DEF ReadOf, BooksInv, Held
  <2> QED BY <1>3, <2>1, <2>2, <2>3
<1>8. ASSUME ~Skips', NEW w
      PROVE  /\ Coming(w)' => w \in told'
             /\ w \in told' => Handled(w)' \/ Coming(w)'
  <2>1. ~Skips
    BY <1>4, <1>8
  <2>2. Coming(w)' => w \in told'
    BY <1>1, <2>1, CameBefore DEF BooksInv
  <2>3. ASSUME Handled(w) PROVE Handled(w)'
    <3>1. ~Ends(m) /\ ~Stale' /\ fetch.state = "Prefetching"
      BY <2>3, Moves DEF Handled
    <3>2. CASE m.type = "Leader"
      BY <2>3, <3>1, <3>2 DEF ReadOf, Leading, Handled, Held
    <3>3. CASE m.type = "PeerSchedule"
      BY <2>3, <3>1, <3>3 DEF ReadOf, Handled, Held
    <3> QED BY <1>3, <3>1, <3>2, <3>3
  <2>4. ASSUME m.type = "PeerSchedule", new = w, fetch.state = "Prefetching", ~Stale
        PROVE  Handled(w)'
    BY <1>1, <2>4 DEF ReadOf, Handled, Held
  <2> QED BY <1>1, <2>1, <2>2, <2>3, <2>4, ComesOn DEF BooksInv
<1> QED BY <1>5, <1>7, <1>8 DEF BooksInv

LEMMA MessageBooks ==
  ASSUME TypeOK, BooksInv, MessagesNext
  PROVE  BooksInv'
<1>1. UNCHANGED <<election, history>>
  BY TakeTypes
<1>2. CASE OnNewLeader
  BY <1>1, <1>2 DEF OnNewLeader, Leading, BooksInv, Skips, Stale, ToldOf, Handled, Held, Coming,
                    Found, history
<1>3. CASE ~OnNewLeader
  <2>1. OnLeader \/ StartPrefetch \/ OnFollower \/ OnElection \/ OnPeerSchedule
    BY <1>3 DEF MessagesNext
  <2>2. pc' # "schedule"
    BY <2>1 DEF OnLeader, StartPrefetch, OnFollower, OnElection, OnPeerSchedule, Take
  <2>3. ReadOf(Head(queue)) /\ Consumed
    BY <1>3, <2>1, Reads, TakeTypes DEF BooksInv
  <2> QED BY <1>1, <2>2, <2>3, ReadBooks
<1> QED BY <1>2, <1>3

\* The other steps of a poll are made when there is no message left.
LEMMA StepBooks ==
  ASSUME TypeOK, QueueInv, BooksInv,
         ReplicaNext \/ PrefetchNext \/ Wake \/ Publish \/ CantalReports
           \/ \E p \in Peer : BlacklistExpires(p)
  PROVE  BooksInv'
<1>1. UNCHANGED <<queue, election>> /\ (pc' = "schedule" => pc = "schedule" /\ UNCHANGED fetch)
  <2>1. pc' = "schedule" => pc = "schedule" /\ UNCHANGED fetch
    BY DEF ReplicaNext, ReplicaConnect, ReplicaNoAddress, ReplicaConnected, ReplicaRequest,
           ReplicaFails, ReplicaRetry, Conn, ReplicaResponse, HasTarget, PrefetchNext, FetchStart,
           FetchFails, FetchReady, Prefetches, PrefetchDone, GracefulOver, PrefetchDeadline,
           FinishPrefetch, Polling, Wake, Publish, CantalReports, BlacklistExpires, fetchVars
  <2> QED BY <2>1, Quiet
<1>2. /\ Stale' <=> Stale
      /\ fetch'.state # "Prefetching" /\ fetch.state # "Prefetching"
           => \A w : Coming(w)' <=> Coming(w)
      /\ fetch'.state = "Prefetching" /\ fetch.state = "Prefetching"
           => \A w : Coming(w)' <=> Coming(w)
  BY <1>1 DEF Stale, ToldOf, Coming, Found
<1>3. fetch.state \in FetchStates
  BY Types, FetchKinds DEF LoopTypes
<1>4. CASE fetch.state # "Prefetching"
  <2>1. /\ fetch'.state = fetch.state
        /\ UNCHANGED history
    <3>1. ~PrefetchNext /\ ~\E p \in Peer : BlacklistExpires(p)
      BY <1>4 DEF PrefetchNext, FetchStart, FetchFails, FetchReady, Prefetches, PrefetchDone,
             GracefulOver, PrefetchDeadline, Polling, BlacklistExpires
    <3>2. UNCHANGED history
      BY <3>1 DEF ReplicaNext, ReplicaConnect, ReplicaNoAddress, ReplicaConnected, ReplicaRequest,
             ReplicaFails, ReplicaRetry, Conn, ReplicaResponse, Wake, Publish, CantalReports,
             fetchVars
    <3> QED BY <1>3, <1>4, <3>2, Quiet DEF FetchStates
  <2> QED BY <1>1, <1>2, <1>4, <2>1 DEF BooksInv, Skips, Handled, Leading, history
<1>5. CASE fetch.state = "Prefetching" /\ fetch'.state = "StableLeader"
  <2>1. PrefetchDone \/ PrefetchDeadline
    <3>1. fetch \in PrefetchStates
      BY <1>5, Types, FetchKinds DEF LoopTypes
    <3>2. ~UNCHANGED fetch
      BY <1>5
    <3>3. ~ReplicaNext
      BY <1>5 DEF ReplicaNext, ReplicaConnect, ReplicaNoAddress, ReplicaConnected, ReplicaRequest,
             ReplicaFails, ReplicaRetry, Conn, ReplicaResponse, HasTarget, Polling
    <3> QED BY <1>5, <3>1, <3>2, <3>3
            DEF PrefetchNext, FetchStart, FetchFails, FetchReady, GracefulOver, Wake, Publish,
                CantalReports, BlacklistExpires, fetchVars, PrefetchStates
  <2>2. queue = <<>> /\ told' = {} /\ pc' # "schedule"
    BY <2>1 DEF PrefetchDone, PrefetchDeadline, Polling, FinishPrefetch
  <2>3. ~Stale'
    BY <1>1, <2>2 DEF Stale, ToldOf
  <2>4. election.is_leader
    BY <1>2, <1>5, <2>3, NotStale
  <2> QED BY <1>1, <1>5, <2>2, <2>3, <2>4 DEF BooksInv, Skips
<1>6. CASE fetch.state = "Prefetching" /\ fetch'.state = "Prefetching"
  <2>1. fetch \in PrefetchStates
    BY <1>6, Types, FetchKinds DEF LoopTypes
  <2>2. UNCHANGED history
    <3>1. ~ReplicaNext /\ ~PrefetchDone /\ ~PrefetchDeadline
      BY <1>6 DEF ReplicaNext, ReplicaConnect, ReplicaNoAddress, ReplicaConnected, ReplicaRequest,
             ReplicaFails, ReplicaRetry, Conn, ReplicaResponse, HasTarget, Polling,
             PrefetchDone, PrefetchDeadline, FinishPrefetch, StableLeader
    <3> QED BY <3>1 DEF PrefetchNext, FetchStart, FetchFails, FetchReady, Prefetches,
                GracefulOver, Wake, Publish, CantalReports, BlacklistExpires, fetchVars
  <2>3. \/ /\ fetch'.schedules = fetch.schedules /\ fetch'.waiting = fetch.waiting
           /\ \/ fetch'.fetching \subseteq fetch.fetching
              \/ fetch'.fetching \subseteq fetch.fetching \cup fetch.waiting
        \/ \E s : /\ fetch'.schedules = {x \in fetch.schedules : x.hash # s.hash} \cup {s}
                  /\ fetch'.waiting = {w \in fetch.waiting : w[1] # s.hash}
                  /\ fetch'.fetching \subseteq fetch.fetching
    <3>1. CASE Wake \/ Publish \/ CantalReports
      BY <3>1 DEF Wake, Publish, CantalReports, fetchVars
    <3>2. ASSUME NEW p \in Peer, BlacklistExpires(p) PROVE <2>3!1
      BY <2>1, <3>2 DEF BlacklistExpires, PrefetchStates
    <3>3. ASSUME NEW h \in Hashes, NEW p \in Peer, FetchStart(h, p) PROVE <2>3!1
      BY <2>1, <3>3 DEF FetchStart, Candidates, PrefetchStates
    <3>4. ASSUME NEW h \in Hashes, NEW p \in Peer, FetchFails(h, p) PROVE <2>3!1
      BY <2>1, <3>4 DEF FetchFails, PrefetchStates
    <3>5. ASSUME NEW h \in Hashes, NEW p \in Peer, NEW s \in Reported, FetchReady(h, p, s)
          PROVE  <2>3!2
      BY <2>1, <3>5 DEF FetchReady, PrefetchStates
    <3>6. CASE GracefulOver
      BY <2>1, <3>6 DEF GracefulOver, PrefetchStates
    <3>7. ~ReplicaNext /\ ~PrefetchDone /\ ~PrefetchDeadline
      BY <1>6 DEF ReplicaNext, ReplicaConnect, ReplicaNoAddress, ReplicaConnected, ReplicaRequest,
             ReplicaFails, ReplicaRetry, Conn, ReplicaResponse, HasTarget, Polling,
             PrefetchDone, PrefetchDeadline, FinishPrefetch, StableLeader
    <3> QED BY <3>1, <3>2, <3>3, <3>4, <3>5, <3>6, <3>7 DEF PrefetchNext
  <2>4. ~gathered
    BY <1>6 DEF BooksInv, Skips
  <2>5. ~Stale' => /\ fetch'.waiting \subseteq told' /\ fetch'.fetching \subseteq told'
                   /\ \A w \in fetch'.waiting : ~Held(w[1])'
    BY <1>2, <1>6, <2>2, <2>3 DEF BooksInv, Held, history
  <2>6. \A w : Handled(w) => Handled(w)'
    BY <1>2, <1>6, <2>3 DEF Handled, Held
  <2> QED BY <1>1, <1>2, <1>6, <2>2, <2>4, <2>5, <2>6 DEF BooksInv, Skips, Leading, history
<1> QED BY <1>4, <1>5, <1>6, Quiet

LEMMA LoopBooks == TypeOK /\ QueueInv /\ BooksInv /\ LoopNext => BooksInv'
BY PollBooks, MessageBooks, StepBooks DEF LoopNext, FetcherNext

LEMMA InitBooks == FetcherInit => BooksInv
<1> SUFFICES ASSUME FetcherInit PROVE BooksInv
  OBVIOUS
<1>1. queue = <<>> /\ told = {} /\ fetch.state = "Unstable" /\ ~gathered /\ pc = "idle"
  BY DEF FetcherInit, Unstable
<1>2. \A w : ~Coming(w)
  BY <1>1 DEF Coming
<1> QED BY <1>1, <1>2 DEF BooksInv

\* The books of a prefetch are exact: what is reported to the leader after it
\* has been told of the leadership is held or waited for, however it is queued,
\* and nothing else is waited for or fetched.
THEOREM PrefetchIsExact == Spec => []BooksAreExact
<1>1. TypeOK /\ QueueInv /\ BooksInv /\ [LoopNext]_vars => BooksInv'
  <2>1. BooksInv /\ UNCHANGED vars => BooksInv'
    BY DEF BooksInv, Leading, Skips, Stale, ToldOf, Handled, Held, Coming, Found, vars,
           sharedVars, fetchVars, history
  <2> QED BY <2>1, LoopBooks
<1>2. TypeOK /\ QueueInv /\ [LoopNext]_vars => QueueInv'
  <2>1. QueueInv /\ UNCHANGED vars => QueueInv'
    BY DEF QueueInv, Agrees, vars, sharedVars, fetchVars
  <2> QED BY <2>1, LoopQueue
<1>3. FetcherInit => QueueInv
  BY InitStable
<1> QED BY <1>1, <1>2, <1>3, InitBooks, BooksSuffice, FetcherTypes, PTL DEF Spec
=============================================================================
