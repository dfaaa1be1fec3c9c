------------------------------ MODULE Fetcher ------------------------------
(***************************************************************************)
(* The fetcher of one daemon (fetch.rs): it gathers the schedules of the   *)
(* cluster when the node has become the leader and replicates the schedule *)
(* of the leader when it follows one.  It learns of both from the messages *)
(* that the polls of the election (network.rs) put into its channel.       *)
(*                                                                         *)
(* The fetcher and the election are tasks of one event loop: nothing of    *)
(* the loop runs between two steps of a poll of the fetcher, but the other *)
(* threads see the shared state in between.  A poll consists of the steps  *)
(* below from Wake to Publish.                                             *)
(*                                                                         *)
(* The cluster is an environment: the election takes any turn of           *)
(* Succeeds within Views, peers report and serve any schedule, connections *)
(* fail at any time, and the timers fire whenever they are looked at.      *)
(***************************************************************************)
EXTENDS SharedState, Sequences

CONSTANTS
  Views,      \* bound: the states the election may be in
  Reported,   \* bound: the schedules that peers report and serve
  MaxQueue    \* bound: the election is not polled with more messages queued

ASSUME BoundsAssumption ==
  Views \subseteq ElectionStates /\ Reported \subseteq Schedules /\ MaxQueue \in Nat

VARIABLES
  queue,      \* the channel from the election to the fetcher
  fetch,      \* the state machine Fetch
  pc,         \* where the fetcher is: "idle", "poll", "schedule" or "publish"
  gathered,   \* history: this leadership's prefetch has been finished
  told        \* history: what peers have reported for the prefetch to gather

history   == <<gathered, told>>
fetchVars == <<queue, fetch, pc, history>>

FetchMessage ==
  [type : {"Leader", "Election"}]
    \cup [type : {"Follower"}, leader : Node]
    \cup [type : {"PeerSchedule"}, peer : Peer, hash : Hashes]

ConnStates == {"Idle", "Failed", "Connecting", "KeepAlive", "Waiting"}

Fetch ==
  [state : {"Unstable", "StableLeader"}]
    \cup [state : {"Prefetching"}, phase : {"Graceful", "Fetching"},
          schedules : SUBSET Schedules,          \* those it has
          waiting   : SUBSET (Hashes \X Peer),   \* what is missing and who has it
          fetching  : SUBSET (Hashes \X Peer),   \* requests being made
          failing   : SUBSET Peer]               \* the blacklist
    \cup [state : {"Replicating"}, leader : Node, target : Option(Hashes), conn : ConnStates]

Unstable     == [state |-> "Unstable"]
StableLeader == [state |-> "StableLeader"]

NewPrefetch(schedules) ==
  [state |-> "Prefetching", phase |-> "Graceful", schedules |-> schedules,
   waiting |-> {}, fetching |-> {}, failing |-> {}]

Replica(leader) ==
  [state |-> "Replicating", leader |-> leader, target |-> {}, conn |-> "Idle"]

FetcherInit ==
  /\ SharedInit /\ last_known \in Option(Reported)
  /\ queue = <<>>
  /\ fetch = Unstable
  /\ pc = "idle"
  /\ gathered = FALSE
  /\ told = {}

-----------------------------------------------------------------------------
(* The other tasks of the event loop.                                      *)

\* ElectionMachine::poll_forever, at its end: the message for the new state.
RoleMessage(v) ==
  IF v.is_leader THEN [type |-> "Leader"]
  ELSE IF v.leader # NoNode THEN [type |-> "Follower", leader |-> v.leader]
  ELSE [type |-> "Election"]

\* A packet of p says that p has this schedule, if any.  The fetcher is told
\* when it is another one than p has reported last, made at another time, or
\* comes with another number of errors (`differs').
News(p, reported, differs) ==
  IF reported # peers[p] \/ differs
  THEN {[type |-> "PeerSchedule", peer |-> p, hash |-> s.hash] : s \in reported}
  ELSE {}

\* A node that leads, and has not gathered the schedules yet, is to know of
\* what is reported from now on; what comes with the very poll that makes it
\* the leader is queued before the fetcher hears of the leadership.
Hears(v, news) ==
  told' = IF election.is_leader /\ v.is_leader /\ ~gathered
          THEN told \cup {<<m.hash, m.peer>> : m \in news}
          ELSE {}

\* A poll of the election, with one packet of a known peer or without.
ElectionPoll ==
  /\ pc = "idle" /\ Len(queue) <= MaxQueue
  /\ \E v \in Views :
       /\ v = election \/ Succeeds(election, v)
       /\ update_election(v)
       /\ gathered' = (gathered /\ v = election)
       /\ \/ /\ queue' = Append(queue, RoleMessage(v))
             /\ Hears(v, {})
             /\ UNCHANGED peers
          \/ \E p \in DOMAIN peers, reported \in Option(Reported), differs \in BOOLEAN :
               /\ peers' = [peers EXCEPT ![p] = reported]
               /\ Hears(v, News(p, reported, differs))
               /\ \/ /\ News(p, reported, differs) = {}
                     /\ queue' = Append(queue, RoleMessage(v))
                  \/ \E m \in News(p, reported, differs) :
                       queue' = queue \o <<m, RoleMessage(v)>>
  /\ UNCHANGED <<fetch_state, last_known, stable, parents, fetch, pc>>

\* The list of peers that cantal gives once in a second.
CantalReports ==
  /\ pc = "idle"
  /\ \E listed \in SUBSET Peer : set_peers(listed)
  /\ UNCHANGED <<election, fetch_state, scheduleVars, parents, actionVars, fetchVars>>

\* The time an address was on the blacklist for is over.
BlacklistExpires(p) ==
  /\ pc = "idle" /\ fetch.state = "Prefetching" /\ p \in fetch.failing
  /\ fetch' = [fetch EXCEPT !.failing = @ \ {p}]
  /\ UNCHANGED <<sharedVars, queue, pc, history>>

Wake ==
  /\ pc = "idle"
  /\ pc' = "poll"
  /\ UNCHANGED <<sharedVars, queue, fetch, history>>

-----------------------------------------------------------------------------
(* Fetch::poll_messages.                                                   *)

Received(type) == queue # <<>> /\ Head(queue).type = type

Take(type) ==
  /\ pc = "poll" /\ Received(type)
  /\ queue' = Tail(queue)
  /\ UNCHANGED <<election, fetch_state, peers, last_known, owned, parents, actionVars,
                 pc, history>>

Keep  == UNCHANGED <<fetch, stable>>
Reset == reset_stable_schedule

Leading == fetch.state \in {"StableLeader", "Prefetching"}

\* Mutant: every message of the leadership starts the prefetch again.
OnLeaderRestart ==
  /\ Take("Leader")
  /\ \/ fetch.state = "StableLeader" /\ Keep
     \/ fetch.state = "Prefetching" /\ Reset /\ fetch' = NewPrefetch(last_known)

OnLeader ==
  /\ Take("Leader")
  /\ Leading
  /\ Keep

\* A new leader: the shared state is locked once to reset the stable schedule
\* and once more to read the last one, which the other threads may have set
\* meanwhile.  The message is done with after the second step.
OnNewLeader ==
  /\ pc = "poll" /\ Received("Leader")
  /\ ~Leading
  /\ Reset
  /\ pc' = "schedule"
  /\ UNCHANGED <<election, fetch_state, peers, parents, actionVars, queue, fetch, history>>

StartPrefetch ==
  /\ pc = "schedule" /\ Received("Leader")
  /\ queue' = Tail(queue)
  /\ fetch' = NewPrefetch(last_known)
  /\ pc' = "poll"
  /\ UNCHANGED <<sharedVars, history>>

OnFollower ==
  /\ Take("Follower")
  /\ LET leader == Head(queue).leader
         keep   == fetch.state = "Replicating" /\ fetch.leader = leader
     IN  \/ keep /\ Keep
         \/ /\ ~keep
            /\ Reset
            /\ fetch' = Replica(leader)

OnElection ==
  /\ Take("Election")
  /\ \/ fetch.state = "Unstable" /\ Keep
     \/ /\ fetch.state # "Unstable"
        /\ Reset
        /\ fetch' = Unstable

\* Prefetch::report
Report(pre, p, hash) ==
  IF \E s \in pre.schedules : s.hash = hash
  THEN pre
  ELSE [pre EXCEPT !.waiting = @ \cup {<<hash, p>>}]

\* Mutants: the target is given up for a schedule that the node has had, or
\* the old schedule stays the stable one.
RetargetForget(hash) ==
  IF \E s \in last_known : s.hash = hash
  THEN fetch' = [fetch EXCEPT !.target = {}] /\ UNCHANGED stable
  ELSE Reset /\ fetch' = [fetch EXCEPT !.target = {hash}]
RetargetQuietly(hash) ==
  IF fetch.target = {} /\ is_current(hash)
  THEN Keep
  ELSE UNCHANGED stable /\ fetch' = [fetch EXCEPT !.target = {hash}]

\* The leader has announced a schedule.
Retarget(hash) ==
  IF fetch.target = {} /\ is_current(hash)
  THEN Keep
  ELSE Reset /\ fetch' = [fetch EXCEPT !.target = {hash}]

OnPeerSchedule ==
  /\ Take("PeerSchedule")
  /\ LET p == Head(queue).peer
         hash == Head(queue).hash
     IN  \/ fetch.state \in {"Unstable", "StableLeader"} /\ Keep
         \/ /\ fetch.state = "Prefetching"
            /\ fetch' = Report(fetch, p, hash)
            /\ UNCHANGED stable
         \/ fetch.state = "Replicating" /\ fetch.leader # p /\ Keep
         \/ fetch.state = "Replicating" /\ fetch.leader = p /\ Retarget(hash)

-----------------------------------------------------------------------------
(* Replica: ReplicaConnState::poll_state, once the messages are read.      *)

Polling(st) == pc = "poll" /\ queue = <<>> /\ fetch.state = st

Conn(from, to) ==
  /\ Polling("Replicating") /\ fetch.conn = from
  /\ fetch' = [fetch EXCEPT !.conn = to]
  /\ UNCHANGED <<sharedVars, queue, pc, history>>

HasTarget == Polling("Replicating") /\ fetch.target # {}

\* Mutant: a connection that has failed is not tried again.
ReplicaGivesUp   == Conn("Failed", "Failed")

\* Every step may fail instead; it is tried again in 100 to 300 ms.
ReplicaConnect   == HasTarget /\ fetch.leader \in DOMAIN peers /\ Conn("Idle", "Connecting")
ReplicaNoAddress == HasTarget /\ Conn("Idle", "Failed")
ReplicaConnected == Conn("Connecting", "KeepAlive")
ReplicaRequest   == HasTarget /\ Conn("KeepAlive", "Waiting")
ReplicaFails     == \E from \in {"Connecting", "KeepAlive", "Waiting"} :
                      (from = "Waiting" => HasTarget) /\ Conn(from, "Failed")
ReplicaRetry     == Conn("Failed", "Idle")

\* The leader has answered.  The connection may fail in the same poll.
ReplicaResponse(s) ==
  /\ HasTarget /\ fetch.conn = "Waiting"
  /\ \E conn \in {"KeepAlive", "Failed"} :
       \/ /\ s.hash \in fetch.target
          /\ fetch' = [fetch EXCEPT !.target = {}, !.conn = conn]
          /\ set_schedule_by_follower(s)
       \/ /\ s.hash \notin fetch.target
          /\ fetch' = [fetch EXCEPT !.conn = conn]
          /\ UNCHANGED scheduleVars
  /\ UNCHANGED <<election, fetch_state, peers, parents, actionVars, queue, pc, history>>

-----------------------------------------------------------------------------
(* Prefetch::poll_futures.                                                 *)

Prefetches ==
  /\ Polling("Prefetching")
  /\ UNCHANGED <<sharedVars, queue, pc, history>>

\* The peers that a request for the schedule may be sent to now.
Candidates(hash) ==
  {p \in DOMAIN peers \ fetch.failing :
     <<hash, p>> \in fetch.waiting /\ <<hash, p>> \notin fetch.fetching}

IsFetched(hash) == \E p \in Peer : <<hash, p>> \in fetch.fetching

\* Also when requests for it have not been answered for PREFETCH_OLD.
FetchStart(hash, p) ==
  /\ Prefetches
  /\ p \in Candidates(hash)
  /\ fetch' = [fetch EXCEPT !.fetching = @ \cup {<<hash, p>>}]

\* Mutant: what has been asked for is crossed out, whatever is answered.
FetchReadyAsked(hash, p, s) ==
  /\ Prefetches
  /\ <<hash, p>> \in fetch.fetching
  /\ fetch' = [fetch EXCEPT
       !.fetching  = @ \ {<<hash, p>>},
       !.waiting   = {w \in @ : w[1] # hash},
       !.schedules = {x \in @ : x.hash # s.hash} \cup {s}]

\* What p answers need not be what it has been asked for.
FetchReady(hash, p, s) ==
  /\ Prefetches
  /\ <<hash, p>> \in fetch.fetching
  /\ fetch' = [fetch EXCEPT
       !.fetching  = @ \ {<<hash, p>>},
       !.waiting   = {w \in @ : w[1] # s.hash},
       !.schedules = {x \in @ : x.hash # s.hash} \cup {s}]

FetchFails(hash, p) ==
  /\ Prefetches
  /\ <<hash, p>> \in fetch.fetching
  /\ fetch' = [fetch EXCEPT !.fetching = @ \ {<<hash, p>>}, !.failing = @ \cup {p}]

-----------------------------------------------------------------------------
(* Prefetch::poll.                                                         *)

\* Every schedule that is waited for is fetched from a peer, if one is there.
FuturesPolled ==
  \A hash \in Hashes : Candidates(hash) = {} \/ IsFetched(hash)

FinishPrefetch ==
  /\ set_parents(fetch.schedules)
  /\ fetch' = StableLeader
  /\ gathered' = TRUE /\ told' = {}
  /\ UNCHANGED <<election, fetch_state, peers, scheduleVars, actionVars, queue, pc>>

AllFetched == fetch.phase = "Fetching" /\ fetch.waiting = {}

PrefetchDone ==
  /\ Polling("Prefetching") /\ FuturesPolled
  /\ AllFetched
  /\ FinishPrefetch

\* PREFETCH_MIN is over.  What is waited for is only looked at in the next
\* poll.
GracefulOver ==
  /\ Polling("Prefetching") /\ FuturesPolled
  /\ fetch.phase = "Graceful"
  /\ fetch' = [fetch EXCEPT !.phase = "Fetching"]
  /\ pc' = "publish"
  /\ UNCHANGED <<sharedVars, queue, history>>

\* PREFETCH_MAX is over: the schedules that are missing are given up.  When
\* the loop has been blocked, both timers may be found elapsed in one poll.
PrefetchDeadline ==
  /\ Polling("Prefetching") /\ FuturesPolled
  /\ ~AllFetched
  /\ FinishPrefetch

-----------------------------------------------------------------------------
(* Fetch::poll, at its end.                                                *)

\* The machine waits for a timer or for the network.
Settled ==
  CASE fetch.state = "Prefetching" -> FuturesPolled /\ ~AllFetched
    [] fetch.state = "Replicating" -> fetch.conn # "Idle" \/ fetch.target = {}
    [] OTHER -> TRUE

Publish ==
  /\ pc = "publish" \/ (pc = "poll" /\ queue = <<>> /\ Settled)
  /\ fetch_state' = fetch.state
  /\ pc' = "idle"
  /\ UNCHANGED <<election, peers, scheduleVars, parents, actionVars, queue, fetch, history>>

ReplicaNext ==
  \/ ReplicaConnect \/ ReplicaNoAddress \/ ReplicaConnected
  \/ ReplicaRequest \/ ReplicaFails \/ ReplicaRetry
  \/ \E s \in Reported : ReplicaResponse(s)

PrefetchNext ==
  \/ \E hash \in Hashes, p \in Peer :
       \/ FetchStart(hash, p) \/ FetchFails(hash, p)
       \/ \E s \in Reported : FetchReady(hash, p, s)
  \/ PrefetchDone \/ GracefulOver \/ PrefetchDeadline

MessagesNext ==
  OnLeader \/ OnNewLeader \/ StartPrefetch \/ OnFollower \/ OnElection \/ OnPeerSchedule

FetcherNext == Wake \/ MessagesNext \/ ReplicaNext \/ PrefetchNext \/ Publish

LoopNext ==
  \/ ElectionPoll \/ CantalReports \/ FetcherNext
  \/ \E p \in Peer : BlacklistExpires(p)

vars == <<sharedVars, fetchVars>>

Spec == FetcherInit /\ [][LoopNext]_vars

\* The leader's ping comes with a schedule made by it, at another time than
\* the last one: its scheduler runs every 5 seconds.
LeaderAnnounces ==
  /\ election.leader \in DOMAIN peers
  /\ ElectionPoll
  /\ election' = election
  /\ \E s \in peers'[election.leader] :
       /\ s.origin = election.leader
       /\ queue' = Append(queue, [type |-> "PeerSchedule", peer |-> election.leader,
                                  hash |-> s.hash]) \o <<RoleMessage(election)>>

\* The leader answers with the schedule that it has announced.
LeaderAnswers ==
  /\ HasTarget
  /\ \E s \in Reported : /\ s.hash \in fetch.target /\ s.origin = fetch.leader
                         /\ ReplicaResponse(s)

\* The tasks are woken for their messages and timers, and a poll comes to its
\* end.
Woken == Spec /\ WF_vars(Wake) /\ WF_vars(MessagesNext) /\ SF_vars(Publish)

\* The leader can be reached again and again.
ReplicaSpec ==
  /\ Woken
  /\ SF_vars(ReplicaRetry) /\ SF_vars(ReplicaConnect) /\ SF_vars(ReplicaConnected)
  /\ SF_vars(ReplicaRequest) /\ SF_vars(LeaderAnswers) /\ SF_vars(LeaderAnnounces)

-----------------------------------------------------------------------------
(* Properties.                                                             *)

\* The types of the shared state, of the messages and of Fetch.
TypeOK ==
  /\ SharedTypeOK
  /\ queue \in Seq(FetchMessage)
  /\ fetch \in Fetch
  /\ pc \in {"idle", "poll", "schedule", "publish"}
  /\ gathered \in BOOLEAN
  /\ told \subseteq Hashes \X Peer

\* The arm (Waiting, None) of poll_state, an unreachable!(), is not reached: a
\* request for a schedule is only under way while there is a target.
ReplicaHasTarget ==
  fetch.state = "Replicating" /\ fetch.conn = "Waiting" => fetch.target # {}

\* The stable schedule is the one of the leader that the election has now: of
\* no other node, however the messages, the answers of old leaders and the
\* turns of the election interleave.  The fetcher may still have to be told.
StableIsOfLeader ==
  queue = <<>> =>
    \A s \in stable :
      \/ election.is_leader /\ s.origin = Self
      \/ election.leader = s.origin

\* The books of a prefetch are exact: it waits for just what has been reported
\* since the leadership began and what it does not have, and it only fetches
\* from peers that have reported what they are asked for.  No order of reports,
\* answers to other questions, failures and repeated messages loses an entry
\* or leaves one that holds the prefetch up.
BooksAreExact ==
  queue = <<>> /\ fetch.state = "Prefetching" =>
    /\ fetch.waiting = {w \in told : \A s \in fetch.schedules : s.hash # w[1]}
    /\ fetch.fetching \subseteq told

\* While a follower knows of a newer schedule of its leader, which it has not
\* got yet, it does not pass the old one off as stable.
TargetMeansUnstable ==
  queue = <<>> /\ fetch.state = "Replicating" /\ fetch.target # {} => stable = {}

\* A node that goes on to follow a leader, which announces what it has made,
\* has a stable schedule again and again: no sequence of failures, lost stamps
\* and late answers leaves it without one for good.
FollowerCatchesUp ==
  \A l \in Peer :
    <>[](/\ election.leader = l
         /\ l \in DOMAIN peers /\ \A s \in peers[l] : s.origin = l)
      => []<>(stable # {})
=============================================================================
