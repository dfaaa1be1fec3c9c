---------------------------- MODULE DaemonProofs ----------------------------
(***************************************************************************)
(* Proofs about Daemon, for any nodes, schedules, requests, turns of the   *)
(* election and length of the queue: its types, whom it serves, that a     *)
(* late scheduler thread publishes nothing, and what the fetcher promises  *)
(* while the thread publishes on its own.                                  *)
(***************************************************************************)
EXTENDS Daemon, FetcherProofs

-----------------------------------------------------------------------------
(* Types.                                                                  *)

IsCookie(c) == c = [epoch |-> c.epoch, parents |-> c.parents, actions |-> c.actions]

CookieTypes ==
  /\ thread \in {"sleep", "ready", "run"}
  /\ cookie = {} <=> thread = "sleep"
  /\ \A c \in cookie : /\ c.epoch \in 1 .. MaxEpoch /\ c.parents \subseteq Schedules
                       /\ DOMAIN c.actions \subseteq Nat /\ IsCookie(c)
  /\ \A c, d \in cookie : c = d
  /\ lost \in BOOLEAN

HistoryTypes ==
  /\ second \in 0 .. MaxSecond
  /\ amnesia \in 0 .. MaxEpoch
  /\ harvest \in Option(SUBSET Schedules)

DaemonInv == TypeOK /\ CookieTypes /\ HistoryTypes

LEMMA DaemonTypesSuffice == DaemonInv => DaemonTypeOK
BY DEF DaemonInv, CookieTypes, HistoryTypes, DaemonTypeOK

LEMMA Epochs ==
  ASSUME NEW v \in ElectionStates
  PROVE  v.epoch \in 0 .. MaxEpoch /\ (v.is_leader => v.epoch \in 1 .. MaxEpoch)
<1>1. CASE v \in [is_leader : {FALSE}, leader : {NoNode}, epoch : 0 .. MaxEpoch]
  BY <1>1
<1>2. CASE v \in [is_leader : {TRUE}, leader : {NoNode}, epoch : 1 .. MaxEpoch]
  BY <1>2, SelfAssumption
<1>3. CASE v \in [is_leader : {FALSE}, leader : Node, epoch : 1 .. MaxEpoch]
  BY <1>3, SelfAssumption
<1> QED BY <1>1, <1>2, <1>3 DEF ElectionStates

\* What the event loop does to what the scheduler thread looks at.
LEMMA LoopElection ==
  ASSUME TypeOK, LoopNext
  PROVE  \/ UNCHANGED <<election, owned, actionVars>>
         \/ \E v \in ElectionStates : /\ v = election \/ Succeeds(election, v)
                                      /\ update_election(v)
<1>1. CASE ElectionPoll
  BY <1>1, BoundsAssumption DEF ElectionPoll
<1>2. CASE MessagesNext
  BY <1>2, TakeTypes
<1>3. ASSUME NEW s \in Reported, ReplicaResponse(s)
      PROVE  UNCHANGED <<election, owned, actionVars>>
  BY <1>3 DEF ReplicaResponse, set_schedule_by_follower, scheduleVars
<1>4. CASE ReplicaConnect \/ ReplicaNoAddress \/ ReplicaConnected \/ ReplicaRequest
           \/ ReplicaFails \/ ReplicaRetry
  BY <1>4 DEF ReplicaConnect, ReplicaNoAddress, ReplicaConnected, ReplicaRequest,
              ReplicaFails, ReplicaRetry, Conn, sharedVars, scheduleVars
<1>5. CASE PrefetchNext
  BY <1>5 DEF PrefetchNext, FetchStart, FetchFails, FetchReady, Prefetches, PrefetchDone,
         GracefulOver, PrefetchDeadline, FinishPrefetch, sharedVars, scheduleVars
<1>6. CASE Wake \/ Publish \/ CantalReports \/ \E p \in Peer : BlacklistExpires(p)
  BY <1>6 DEF Wake, Publish, CantalReports, BlacklistExpires, sharedVars, scheduleVars
<1> QED BY <1>1, <1>2, <1>3, <1>4, <1>5, <1>6 DEF LoopNext, FetcherNext, ReplicaNext

LEMMA LoopDaemonTypes == DaemonInv /\ Loop => DaemonInv'
<1> SUFFICES ASSUME DaemonInv, Loop PROVE DaemonInv'
  OBVIOUS
<1>1. TypeOK'
  BY LoopKeepsTypes DEF DaemonInv, Loop
<1>2. CookieTypes'
  BY DEF DaemonInv, CookieTypes, Loop
<1>3. HistoryTypes'
  <2>1. election.epoch \in 0 .. MaxEpoch
    BY Types, SharedTypes, Epochs DEF DaemonInv, PeerTypes
  <2>2. fetch.state = "Prefetching" => fetch.schedules \in SUBSET Schedules
    BY Types, FetchKinds DEF DaemonInv, LoopTypes, PrefetchStates
  <2>3. harvest' \in Option(SUBSET Schedules)
    BY <2>2 DEF DaemonInv, HistoryTypes, Loop, Option
  <2> QED BY <2>1, <2>3 DEF DaemonInv, HistoryTypes, Loop
<1> QED BY <1>1, <1>2, <1>3 DEF DaemonInv

LEMMA PublishTypes ==
  ASSUME TypeOK, NEW c, NEW val \in Schedules, NEW values, set_schedule_by_leader(c, val, values)
  PROVE  ActionTypes' /\ last_known' \in Option(Schedules) /\ stable' \in Option(Schedules)
         /\ owned' \in Option(Schedules)
<1> USE Types, SharedTypes DEF ActionTypes, ScheduleTypes
<1>1. CASE ~MayPublish(c)
  BY <1>1 DEF set_schedule_by_leader, scheduleVars, actionVars
<1>2. CASE MayPublish(c)
  <2> DEFINE done == Answered(c)
  <2>1. actions' = [id \in DOMAIN actions \ done |-> actions[id]]
    BY <1>2 DEF set_schedule_by_leader, Restrict
  <2>2. reply' = [r \in Request |->
                    IF \E id \in done : actions[id] = r
                    THEN Answer(\E id \in done \cap values : actions[id] = r)
                    ELSE reply[r]]
    BY <1>2 DEF set_schedule_by_leader
  <2>3. \A b : Answer(b) \in Replies
    BY DEF Answer, Replies
  <2>4. reply' \in [Request -> Replies]
    BY <2>2, <2>3
  <2>5. last_known' = {val} /\ owned' = {val} /\ stable' = {val}
    BY <1>2 DEF set_schedule_by_leader
  <2> QED BY <2>1, <2>4, <2>5, OptionTypes
<1> QED BY <1>1, <1>2

LEMMA Pushes ==
  ASSUME ActionTypes, NEW r \in Request, push_action(r, second), second \in 0 .. MaxSecond
  PROVE  /\ ActionTypes'
         /\ \/ UNCHANGED actions /\ reply' = [reply EXCEPT ![r] = "refused"]
            \/ /\ election.is_leader /\ reply' = [reply EXCEPT ![r] = "pending"]
               /\ \E id \in Nat \ DOMAIN actions :
                    actions' = [i \in DOMAIN actions \cup {id} |-> IF i = id THEN r ELSE actions[i]]
<1>1. IdsOf(second) \subseteq Nat
  BY RateAssumption, DaemonAssumption DEF IdsOf
<1>2. CASE UNCHANGED actions /\ reply' = [reply EXCEPT ![r] = "refused"]
  BY <1>2 DEF ActionTypes, Replies
<1>3. ASSUME election.is_leader, reply' = [reply EXCEPT ![r] = "pending"],
             NEW id \in Vacant(second),
             actions' = [i \in DOMAIN actions \cup {id} |-> IF i = id THEN r ELSE actions[i]]
      PROVE  ActionTypes' /\ id \in Nat \ DOMAIN actions
  BY <1>1, <1>3 DEF Vacant, ActionTypes, Replies
<1> QED BY <1>2, <1>3 DEF push_action

LEMMA CookieOfLeader ==
  ASSUME TypeOK, election.is_leader
  PROVE  /\ leader_cookie.epoch \in 1 .. MaxEpoch /\ leader_cookie.parents \subseteq Schedules
         /\ leader_cookie.actions = actions /\ DOMAIN actions \subseteq Nat
         /\ IsCookie(leader_cookie)
<1> USE Types, SharedTypes DEF PeerTypes, ScheduleTypes, ActionTypes
<1>1. election.epoch \in 1 .. MaxEpoch
  BY Epochs
<1>2. stable \subseteq Schedules /\ UNION parents \subseteq Schedules
  BY DEF Option
<1> QED BY <1>1, <1>2 DEF leader_cookie, IsCookie

\* A publication is by the thread, of a schedule that is made here.
LEMMA Publication ==
  ASSUME DaemonInv, Succeed
  PROVE  \E c \in cookie, hash \in Scheduled : \E values \in SUBSET DOMAIN c.actions :
           /\ SchedulerSucceeds(c, hash, values)
           /\ [hash |-> hash, origin |-> Self] \in Schedules
<1>1. \A hash \in Scheduled : [hash |-> hash, origin |-> Self] \in Schedules
  BY DaemonAssumption, SelfAssumption DEF Schedules
<1> QED BY <1>1 DEF Succeed

LEMMA SchedulerTypes == DaemonInv /\ SchedulerNext => DaemonInv'
<1> SUFFICES ASSUME DaemonInv, SchedulerNext PROVE DaemonInv'
  OBVIOUS
<1> USE DEF LoopVars, fetchVars, history, scheduleVars, actionVars
<1>1. CASE TakeCookie
  <2>1. CookieTypes'
    BY <1>1, CookieOfLeader DEF TakeCookie, MayTakeCookie, DaemonInv, CookieTypes
  <2>2. PeerTypes' /\ ActionTypes' /\ LoopTypes' /\ HistoryTypes'
    BY <1>1, Types, SharedTypes DEF TakeCookie, DaemonInv, PeerTypes, ActionTypes, LoopTypes,
         HistoryTypes
  <2>3. ScheduleTypes'
    BY <1>1, Types, SharedTypes, OptionTypes DEF TakeCookie, DaemonInv, ScheduleTypes
  <2> QED BY <2>1, <2>2, <2>3, NewTypes, NewSharedTypes DEF DaemonInv
<1>2. ASSUME NEW c \in cookie, Run(c) \/ DropCookie(c) \/ SchedulerFails(c)
      PROVE  DaemonInv'
  <2>1. /\ UNCHANGED <<scheduleVars, actionVars, parents>>
        /\ UNCHANGED <<election, fetch_state, peers, fetchVars, second, amnesia, harvest>>
    BY <1>2 DEF Run, DropCookie, SchedulerFails
  <2>2. PeerTypes' /\ ScheduleTypes' /\ ActionTypes' /\ LoopTypes' /\ HistoryTypes'
    BY <2>1, Types, SharedTypes DEF DaemonInv, PeerTypes, ScheduleTypes, ActionTypes, LoopTypes,
         HistoryTypes
  <2>3. DOMAIN actions \subseteq Nat
    BY Types, SharedTypes DEF DaemonInv, ActionTypes
  <2>4. CASE Run(c)
    <3>1. c.epoch \in 1 .. MaxEpoch /\ c.parents \subseteq Schedules /\ IsCookie(c)
      BY DEF DaemonInv, CookieTypes
    <3>2. refresh_cookie(c) = [epoch |-> c.epoch, parents |-> c.parents, actions |-> actions]
      BY <3>1 DEF refresh_cookie, IsCookie
    <3>3. CookieTypes'
      <4> DEFINE d == refresh_cookie(c)
      <4>1. cookie' = {d} /\ thread' = "run" /\ UNCHANGED <<lost, actions>>
        BY <2>4 DEF Run
      <4>2. /\ d.epoch \in 1 .. MaxEpoch /\ d.parents \subseteq Schedules
            /\ DOMAIN d.actions \subseteq Nat /\ IsCookie(d)
        BY <2>3, <3>1, <3>2 DEF IsCookie
      <4> HIDE DEF d
      <4> QED BY <4>1, <4>2 DEF DaemonInv, CookieTypes
    <3> QED BY <2>2, <3>3, NewTypes, NewSharedTypes DEF DaemonInv
  <2>5. CASE DropCookie(c) \/ SchedulerFails(c)
    <3>1. CookieTypes'
      BY <2>5 DEF DropCookie, SchedulerFails, DaemonInv, CookieTypes
    <3> QED BY <2>2, <3>1, NewTypes, NewSharedTypes DEF DaemonInv
  <2> QED BY <1>2, <2>4, <2>5
<1>3. CASE Succeed
  <2>1. PICK c \in cookie, hash \in Scheduled : \E values \in SUBSET DOMAIN c.actions :
           /\ SchedulerSucceeds(c, hash, values)
           /\ [hash |-> hash, origin |-> Self] \in Schedules
    BY <1>3, Publication
  <2>2. /\ UNCHANGED <<election, fetch_state, peers, fetchVars, second, amnesia, parents>>
        /\ CookieTypes' /\ harvest' \in {harvest, {}}
    BY <2>1 DEF SchedulerSucceeds, CookieTypes
  <2>3. /\ ActionTypes' /\ last_known' \in Option(Schedules) /\ stable' \in Option(Schedules)
        /\ owned' \in Option(Schedules)
    BY <2>1, PublishTypes DEF SchedulerSucceeds, DaemonInv
  <2>5. HistoryTypes'
    BY <2>2 DEF DaemonInv, HistoryTypes, Option
  <2>4. PeerTypes' /\ ScheduleTypes' /\ LoopTypes'
    BY <2>2, <2>3, Types, SharedTypes DEF DaemonInv, PeerTypes, ScheduleTypes, LoopTypes
  <2> QED BY <2>2, <2>3, <2>4, <2>5, NewTypes, NewSharedTypes DEF DaemonInv
<1> QED BY <1>1, <1>2, <1>3 DEF SchedulerNext

LEMMA NextDaemonTypes == DaemonInv /\ [DaemonNext]_daemonVars => DaemonInv'
<1> SUFFICES ASSUME DaemonInv, [DaemonNext]_daemonVars PROVE DaemonInv'
  OBVIOUS
<1>1. CASE Tick
  <2>1. TypeOK'
    BY <1>1, StutterTypes DEF Tick, DaemonInv, vars
  <2>2. CookieTypes'
    BY <1>1 DEF Tick, DaemonInv, CookieTypes
  <2>3. HistoryTypes'
    BY <1>1, DaemonAssumption DEF Tick, DaemonInv, HistoryTypes
  <2> QED BY <2>1, <2>2, <2>3 DEF DaemonInv
<1>2. ASSUME NEW r \in Request, PushAction(r) PROVE DaemonInv'
  <2>1. UNCHANGED <<election, fetch_state, peers, scheduleVars, parents, fetchVars, schedulerVars>>
    BY <1>2 DEF PushAction
  <2>2. ActionTypes'
    BY <1>2, Pushes, Types, SharedTypes DEF PushAction, DaemonInv, HistoryTypes
  <2>3. PeerTypes' /\ ScheduleTypes' /\ LoopTypes'
    BY <2>1, Types, SharedTypes DEF DaemonInv, PeerTypes, ScheduleTypes, LoopTypes,
         scheduleVars, fetchVars, history
  <2>4. CookieTypes' /\ HistoryTypes'
    BY <2>1 DEF DaemonInv, CookieTypes, HistoryTypes, schedulerVars
  <2> QED BY <2>2, <2>3, <2>4, NewTypes, NewSharedTypes DEF DaemonInv
<1>3. CASE UNCHANGED daemonVars
  <2>1. TypeOK'
    BY <1>3, StutterTypes DEF daemonVars, DaemonInv, vars
  <2>2. CookieTypes' /\ HistoryTypes'
    BY <1>3 DEF daemonVars, schedulerVars, DaemonInv, CookieTypes, HistoryTypes
  <2> QED BY <2>1, <2>2 DEF DaemonInv
<1> QED BY <1>1, <1>2, <1>3, LoopDaemonTypes, SchedulerTypes DEF DaemonNext

LEMMA InitDaemonTypes == DaemonInit => DaemonInv
<1> SUFFICES ASSUME DaemonInit PROVE DaemonInv
  OBVIOUS
<1>1. TypeOK
  BY InitTypes DEF DaemonInit
<1>2. CookieTypes
  BY DEF DaemonInit, CookieTypes
<1>3. HistoryTypes
  BY SelfAssumption, DaemonAssumption DEF DaemonInit, HistoryTypes, Option
<1> QED BY <1>1, <1>2, <1>3 DEF DaemonInv

LEMMA DaemonInvariant == DaemonSpec => []DaemonInv
BY InitDaemonTypes, NextDaemonTypes, PTL DEF DaemonSpec

\* The types of the whole daemon hold.
THEOREM DaemonTypes == DaemonSpec => []DaemonTypeOK
BY DaemonInvariant, DaemonTypesSuffice, PTL

-----------------------------------------------------------------------------
(* Only leaders serve.                                                     *)

\* The steps of the scheduler thread before it publishes, and of the clock.
LEMMA Idles ==
  ASSUME \/ TakeCookie \/ Tick \/ UNCHANGED daemonVars
         \/ \E c \in cookie : Run(c) \/ DropCookie(c) \/ SchedulerFails(c)
  PROVE  UNCHANGED <<election, fetchVars, stable, owned, actions, reply>>
<1> USE DEF LoopVars, scheduleVars, actionVars
<1>1. CASE TakeCookie
  BY <1>1 DEF TakeCookie
<1>2. CASE Tick \/ UNCHANGED daemonVars
  BY <1>2 DEF Tick, daemonVars, sharedVars
<1>3. ASSUME NEW c \in cookie, Run(c) \/ DropCookie(c) \/ SchedulerFails(c)
      PROVE  UNCHANGED <<election, fetchVars, stable, owned, actions, reply>>
  BY <1>3 DEF Run, DropCookie, SchedulerFails
<1> QED BY <1>1, <1>2, <1>3

\* What the thread does when it publishes, or is too late for it.
LEMMA Publishes ==
  ASSUME DaemonInv, Succeed
  PROVE  \E c \in cookie, val \in Schedules : \E values \in SUBSET DOMAIN c.actions :
           /\ val.origin = Self
           /\ set_schedule_by_leader(c, val, values)
           /\ cookie' = {} /\ thread' = "sleep" /\ ~lost'
           /\ UNCHANGED <<election, fetchVars, amnesia>>
<1>1. PICK c \in cookie, hash \in Scheduled : \E values \in SUBSET DOMAIN c.actions :
        /\ SchedulerSucceeds(c, hash, values)
        /\ [hash |-> hash, origin |-> Self] \in Schedules
  BY Publication
<1> QED BY <1>1 DEF SchedulerSucceeds, LoopVars

LEMMA ServeStep == DaemonInv /\ OnlyLeadersServe /\ [DaemonNext]_daemonVars => OnlyLeadersServe'
<1> SUFFICES ASSUME DaemonInv, OnlyLeadersServe, [DaemonNext]_daemonVars
             PROVE  OnlyLeadersServe'
  OBVIOUS
<1>1. CASE Loop
  <2>1. CASE UNCHANGED <<election, owned, actionVars>>
    BY <2>1 DEF OnlyLeadersServe, actionVars
  <2>2. ASSUME NEW v \in ElectionStates, update_election(v) PROVE OnlyLeadersServe'
    <3>1. CASE ~v.is_leader /\ owned' = {} /\ actions' = [id \in {} |-> {}]
      BY <3>1 DEF OnlyLeadersServe
    <3>2. CASE v.is_leader
      BY <2>2, <3>2 DEF OnlyLeadersServe, update_election
    <3> QED BY <2>2, <3>1, <3>2 DEF update_election
  <2> QED BY <1>1, <2>1, <2>2, LoopElection DEF Loop, DaemonInv
<1>2. CASE \/ TakeCookie \/ Tick \/ UNCHANGED daemonVars
           \/ \E c \in cookie : Run(c) \/ DropCookie(c) \/ SchedulerFails(c)
  BY <1>2, Idles DEF OnlyLeadersServe
<1>3. CASE Succeed
  BY <1>3, Publishes DEF set_schedule_by_leader, MayPublish, OnlyLeadersServe, scheduleVars,
                         actionVars
<1>4. ASSUME NEW r \in Request, PushAction(r) PROVE OnlyLeadersServe'
  <2>1. UNCHANGED <<election, owned>> /\ (UNCHANGED actions \/ election.is_leader)
    BY <1>4 DEF PushAction, push_action, scheduleVars
  <2> QED BY <2>1 DEF OnlyLeadersServe
<1> QED BY <1>1, <1>2, <1>3, <1>4 DEF DaemonNext, SchedulerNext

\* Only a leader owns a schedule and holds actions.
THEOREM LeadersServe == DaemonSpec => []OnlyLeadersServe
<1>1. DaemonInit => OnlyLeadersServe
  BY DEF DaemonInit, FetcherInit, SharedInit, OnlyLeadersServe
<1> QED BY <1>1, ServeStep, DaemonInvariant, PTL DEF DaemonSpec

-----------------------------------------------------------------------------
(* What the fetcher promises, with the thread next to it.                  *)

LEMMA LeaderIsTold ==
  ASSUME TypeOK, QueueInv, election.is_leader
  PROVE  \/ fetch.state \in {"StableLeader", "Prefetching"}
         \/ \E m \in ToldOf : m.type = "Leader"
<1>1. CASE queue = <<>>
  BY <1>1 DEF QueueInv, Agrees
<1>2. CASE queue # <<>>
  <2>1. Len(queue) \in 1 .. Len(queue)
    BY <1>2 DEF TypeOK
  <2>2. queue[Len(queue)].type = "Leader"
    BY <1>2 DEF QueueInv, RoleMessage
  <2> QED BY <2>1, <2>2 DEF ToldOf
<1> QED BY <1>1, <1>2

FetcherInvs == QueueInv /\ StableInv /\ TargetInv /\ BooksInv

LEMMA FetcherStep == DaemonInv /\ FetcherInvs /\ [DaemonNext]_daemonVars => FetcherInvs'
<1> SUFFICES ASSUME DaemonInv, FetcherInvs, [DaemonNext]_daemonVars PROVE FetcherInvs'
  OBVIOUS
<1> USE DEF FetcherInvs, DaemonInv
<1>1. CASE Loop
  BY <1>1, LoopQueue, LoopStable, LoopTarget, LoopBooks DEF Loop
<1>6. ASSUME UNCHANGED <<election, fetchVars>> PROVE BooksInv'
  BY <1>6 DEF BooksInv, Leading, Skips, Stale, ToldOf, Handled, Held, Coming, Found, fetchVars,
              history
<1>2. ASSUME UNCHANGED <<election, fetchVars, stable>> PROVE FetcherInvs'
  BY <1>2, <1>6 DEF QueueInv, Agrees, StableInv, OfFetch, ToldOf, TargetInv, fetchVars
<1>3. CASE \/ TakeCookie \/ Tick \/ UNCHANGED daemonVars
           \/ \E c \in cookie : Run(c) \/ DropCookie(c) \/ SchedulerFails(c)
  BY <1>2, <1>3, Idles
<1>4. ASSUME NEW r \in Request, PushAction(r) PROVE FetcherInvs'
  BY <1>2, <1>4 DEF PushAction, scheduleVars
<1>5. CASE Succeed
  <2>1. PICK c \in cookie, val \in Schedules : \E values \in SUBSET DOMAIN c.actions :
          /\ val.origin = Self
          /\ set_schedule_by_leader(c, val, values)
          /\ UNCHANGED <<election, fetchVars>>
    BY <1>5, Publishes
  <2>2. CASE ~MayPublish(c)
    BY <1>2, <2>1, <2>2 DEF set_schedule_by_leader, scheduleVars
  <2>3. CASE MayPublish(c)
    <3>1. stable' = {val}
      BY <2>1, <2>3 DEF set_schedule_by_leader
    <3>2. /\ fetch' = fetch /\ ToldOf' = ToldOf /\ QueueInv'
      BY <2>1 DEF fetchVars, ToldOf, QueueInv, Agrees
    <3>3. \/ fetch.state \in {"StableLeader", "Prefetching"}
          \/ \E m \in ToldOf : m.type = "Leader"
      BY <2>3, LeaderIsTold DEF MayPublish
    <3>4. StableInv'
      BY <2>1, <3>1, <3>2, <3>3 DEF StableInv, OfFetch, OfMessage
    <3>5. TargetInv'
      BY <3>2, <3>3 DEF TargetInv
    <3> QED BY <2>1, <1>6, <3>2, <3>4, <3>5
  <2> QED BY <2>2, <2>3
<1> QED BY <1>1, <1>3, <1>4, <1>5 DEF DaemonNext, SchedulerNext

LEMMA FetcherInvariants == DaemonSpec => []FetcherInvs
<1>1. DaemonInit => FetcherInvs
  BY InitStable, InitBooks DEF DaemonInit, FetcherInit, SharedInit, TargetInv, FetcherInvs
<1> QED BY <1>1, FetcherStep, DaemonInvariant, PTL DEF DaemonSpec

\* The schedule that a node calls stable is its leader's, also while the
\* thread of the scheduler publishes schedules between any two steps of the
\* fetcher.
THEOREM DaemonStableIsTheLeaders == DaemonSpec => []StableIsOfLeader
BY FetcherInvariants, DaemonInvariant, StableSuffices, PTL DEF FetcherInvs, DaemonInv

\* Nor does the thread bring back a stable schedule while a follower waits for
\* a newer one.
THEOREM DaemonWaitingIsUnstable == DaemonSpec => []TargetMeansUnstable
BY FetcherInvariants, TargetSuffices, PTL DEF FetcherInvs

\* Nor does it disturb the books of the prefetch.
THEOREM DaemonPrefetchIsExact == DaemonSpec => []BooksAreExact
BY FetcherInvariants, DaemonInvariant, BooksSuffice, PTL DEF FetcherInvs, DaemonInv

-----------------------------------------------------------------------------
(* What the prefetch has gathered.                                         *)

\* The gathering of this leadership is in the shared state, or the thread has
\* taken it in this leadership.
HarvestInv ==
  /\ harvest # {} => election.is_leader
  /\ \A gathering \in harvest :
       \/ parents = {gathering}
       \/ /\ parents = {}
          /\ \E c \in cookie : c.parents = gathering /\ c.epoch = election.epoch

LEMMA HarvestSuffices == HarvestInv => ParentsAreKept
BY DEF HarvestInv, ParentsAreKept, MayPublish

\* The steps of the loop but one leave the parents alone.
LEMMA LoopParents ==
  ASSUME TypeOK, LoopNext
  PROVE  \/ UNCHANGED parents
         \/ /\ queue = <<>> /\ fetch.state = "Prefetching" /\ fetch'.state = "StableLeader"
            /\ parents' = {fetch.schedules} /\ UNCHANGED election
<1>1. CASE MessagesNext
  BY <1>1, TakeTypes
<1>2. CASE ReplicaNext
  BY <1>2 DEF ReplicaNext, ReplicaConnect, ReplicaNoAddress, ReplicaConnected, ReplicaRequest,
              ReplicaFails, ReplicaRetry, ReplicaResponse, Conn, sharedVars
<1>3. CASE PrefetchDone \/ PrefetchDeadline
  BY <1>3 DEF PrefetchDone, PrefetchDeadline, Polling, FinishPrefetch, set_parents, StableLeader
<1>4. CASE PrefetchNext /\ ~PrefetchDone /\ ~PrefetchDeadline
  BY <1>4 DEF PrefetchNext, FetchStart, FetchFails, FetchReady, Prefetches, GracefulOver,
              sharedVars
<1>5. CASE ElectionPoll \/ CantalReports \/ Wake \/ Publish \/ \E p \in Peer : BlacklistExpires(p)
  BY <1>5 DEF ElectionPoll, CantalReports, Wake, Publish, BlacklistExpires, sharedVars
<1> QED BY <1>1, <1>2, <1>3, <1>4, <1>5 DEF LoopNext, FetcherNext

\* A prefetch of the fetcher ends only by handing over what it has gathered.
LEMMA PrefetchEnds ==
  ASSUME TypeOK, LoopNext, fetch.state = "Prefetching", fetch'.state = "StableLeader"
  PROVE  queue = <<>> /\ parents' = {fetch.schedules}
<1>1. ~ElectionPoll /\ ~CantalReports /\ ~Wake /\ ~Publish
  BY DEF ElectionPoll, CantalReports, Wake, Publish, fetchVars
<1>3. ~ReplicaNext
  BY DEF ReplicaNext, ReplicaConnect, ReplicaNoAddress, ReplicaConnected, ReplicaRequest,
         ReplicaFails, ReplicaRetry, ReplicaResponse, Conn, HasTarget, Polling
<1>4. fetch \in PrefetchStates
  BY Types, FetchKinds DEF LoopTypes
<1>2. ~MessagesNext
  <2>1. ~OnPeerSchedule
    <3>1. Report(fetch, Head(queue).peer, Head(queue).hash).state = "Prefetching"
      BY <1>4 DEF Report, PrefetchStates
    <3> QED BY <3>1 DEF OnPeerSchedule, Keep
  <2>2. ~OnLeader /\ ~OnNewLeader /\ ~StartPrefetch
    BY DEF OnLeader, OnNewLeader, StartPrefetch, Keep, Leading, NewPrefetch
  <2>3. ~OnFollower /\ ~OnElection
    BY DEF OnFollower, OnElection, Keep, Replica, Unstable
  <2> QED BY <2>1, <2>2, <2>3 DEF MessagesNext
<1>5. ~\E p \in Peer : BlacklistExpires(p)
  BY <1>4 DEF BlacklistExpires, PrefetchStates
<1>6. PrefetchDone \/ PrefetchDeadline
  BY <1>1, <1>2, <1>3, <1>4, <1>5 DEF LoopNext, FetcherNext, PrefetchNext, FetchStart, FetchFails,
     FetchReady, GracefulOver, PrefetchStates
<1> QED BY <1>6 DEF PrefetchDone, PrefetchDeadline, Polling, FinishPrefetch, set_parents

LEMMA LoopHarvest ==
  ASSUME DaemonInv, QueueInv, HarvestInv, Loop
  PROVE  HarvestInv'
<1>1. /\ UNCHANGED cookie
      /\ harvest' = IF election' # election THEN {}
                    ELSE IF fetch.state = "Prefetching" /\ fetch'.state = "StableLeader"
                    THEN {fetch.schedules} ELSE harvest
  BY DEF Loop
<1>2. CASE election' # election
  BY <1>1, <1>2 DEF HarvestInv
<1>3. CASE election' = election /\ fetch.state = "Prefetching" /\ fetch'.state = "StableLeader"
  <2>1. queue = <<>> /\ parents' = {fetch.schedules}
    BY <1>3, PrefetchEnds DEF Loop, DaemonInv
  <2>2. election.is_leader
    BY <1>3, <2>1 DEF QueueInv, Agrees
  <2> QED BY <1>1, <1>3, <2>1, <2>2 DEF HarvestInv
<1>4. CASE election' = election /\ ~(fetch.state = "Prefetching" /\ fetch'.state = "StableLeader")
  <2>1. UNCHANGED parents
    BY <1>4, LoopParents DEF Loop, DaemonInv
  <2> QED BY <1>1, <1>4, <2>1 DEF HarvestInv
<1> QED BY <1>2, <1>3, <1>4

LEMMA SchedulerHarvest ==
  ASSUME DaemonInv, HarvestInv, SchedulerNext
  PROVE  HarvestInv'
<1> USE DEF LoopVars
<1>1. CASE TakeCookie
  <2>1. cookie' = {leader_cookie} /\ parents' = {} /\ cookie = {} /\ UNCHANGED <<election, harvest>>
    BY <1>1 DEF TakeCookie, DaemonInv, CookieTypes
  <2>2. \A gathering : parents = {gathering} => leader_cookie.parents = gathering
    BY DEF leader_cookie
  <2>3. leader_cookie.epoch = election.epoch
    BY DEF leader_cookie
  <2> QED BY <2>1, <2>2, <2>3 DEF HarvestInv
<1>2. ASSUME NEW c \in cookie, Run(c) PROVE HarvestInv'
  <2> DEFINE d == refresh_cookie(c)
  <2>1. d.epoch = c.epoch /\ d.parents = c.parents
    BY DEF refresh_cookie, IsCookie, DaemonInv, CookieTypes
  <2>2. cookie' = {d} /\ cookie = {c} /\ UNCHANGED <<election, harvest, parents>>
    BY <1>2 DEF Run, DaemonInv, CookieTypes
  <2> HIDE DEF d
  <2> QED BY <2>1, <2>2 DEF HarvestInv
<1>3. ASSUME NEW c \in cookie, SchedulerFails(c) PROVE HarvestInv'
  BY <1>3 DEF SchedulerFails, HarvestInv
<1>4. ASSUME NEW c \in cookie, DropCookie(c) PROVE HarvestInv'
  <2>1. cookie = {c} /\ c.epoch # election.epoch /\ UNCHANGED <<election, harvest, parents>>
    BY <1>4 DEF DropCookie, IsFresh, DaemonInv, CookieTypes
  <2> QED BY <2>1 DEF HarvestInv
<1>5. CASE Succeed
  <2>1. PICK c \in cookie, hash \in Scheduled : \E values \in SUBSET DOMAIN c.actions :
          SchedulerSucceeds(c, hash, values)
    BY <1>5 DEF Succeed
  <2>2. /\ cookie = {c} /\ UNCHANGED <<election, parents>>
        /\ harvest' = IF MayPublish(c) /\ parents = {} THEN {} ELSE harvest
    BY <2>1 DEF SchedulerSucceeds, DaemonInv, CookieTypes
  <2> QED BY <2>2 DEF HarvestInv, MayPublish
<1> QED BY <1>1, <1>2, <1>3, <1>4, <1>5 DEF SchedulerNext

LEMMA HarvestStep ==
  DaemonInv /\ FetcherInvs /\ HarvestInv /\ [DaemonNext]_daemonVars => HarvestInv'
<1> SUFFICES ASSUME DaemonInv, FetcherInvs, HarvestInv, [DaemonNext]_daemonVars PROVE HarvestInv'
  OBVIOUS
<1>1. CASE Tick \/ UNCHANGED daemonVars \/ \E r \in Request : PushAction(r)
  BY <1>1 DEF Tick, PushAction, daemonVars, sharedVars, schedulerVars, HarvestInv
<1> QED BY <1>1, LoopHarvest, SchedulerHarvest DEF DaemonNext, FetcherInvs

\* What the prefetch of a leadership has gathered reaches a schedule of that
\* leadership, or the node still has all of it: no failed run, early cookie or
\* turn of the election loses it.
THEOREM GatheredIsKept == DaemonSpec => []ParentsAreKept
<1>1. DaemonInit => HarvestInv
  BY DEF DaemonInit, HarvestInv
<1> QED BY <1>1, HarvestStep, HarvestSuffices, FetcherInvariants, DaemonInvariant, PTL
        DEF DaemonSpec

-----------------------------------------------------------------------------
(* The actions of the users.                                               *)

\* A request has one id, and its channel is held under it.
HeldInv ==
  /\ \A r \in Request : reply[r] = "pending" <=> r \in Pending
  /\ \A i, j \in DOMAIN actions : actions[i] = actions[j] => i = j

LEMMA HeldSuffices == ActionTypes /\ HeldInv => PendingIsHeld
BY DEF ActionTypes, HeldInv, PendingIsHeld, Pending

LEMMA ElectionHeld ==
  ASSUME ActionTypes, HeldInv, NEW v \in ElectionStates, update_election(v)
  PROVE  HeldInv'
<1>1. CASE UNCHANGED <<owned, actionVars>>
  BY <1>1 DEF HeldInv, Pending, actionVars
<1>2. CASE /\ actions' = [id \in {} |-> {}]
           /\ reply' = [r \in Request |-> IF r \in Pending THEN "dropped" ELSE reply[r]]
  <2>1. Pending' = {} /\ DOMAIN actions' = {}
    BY <1>2 DEF Pending
  <2>2. \A r \in Request : reply'[r] # "pending"
    BY <1>2 DEF HeldInv
  <2> QED BY <2>1, <2>2 DEF HeldInv
<1> QED BY <1>1, <1>2 DEF update_election

LEMMA PushHeld ==
  ASSUME ActionTypes, HeldInv, NEW r \in Request, reply[r] = "none", push_action(r, second),
         second \in 0 .. MaxSecond
  PROVE  HeldInv'
<1>1. r \notin Pending
  BY DEF HeldInv
<1>2. CASE UNCHANGED actions /\ reply' = [reply EXCEPT ![r] = "refused"]
  BY <1>1, <1>2 DEF HeldInv, Pending, ActionTypes
<1>3. ASSUME NEW id \in Nat \ DOMAIN actions, reply' = [reply EXCEPT ![r] = "pending"],
             actions' = [i \in DOMAIN actions \cup {id} |-> IF i = id THEN r ELSE actions[i]]
      PROVE  HeldInv'
  <2>1. Pending' = Pending \cup {r}
    BY <1>3 DEF Pending
  <2>2. \A i, j \in DOMAIN actions' : actions'[i] = actions'[j] => i = j
    BY <1>1, <1>3 DEF HeldInv, Pending
  <2> QED BY <1>3, <2>1, <2>2 DEF HeldInv, ActionTypes
<1> QED BY <1>2, <1>3, Pushes

LEMMA AnswersEnd == \A b : Answer(b) # "pending"
BY DEF Answer

\* What a publication answers.
LEMMA AnswerSteps ==
  ASSUME ActionTypes, NEW c, NEW val, NEW values, MayPublish(c),
         set_schedule_by_leader(c, val, values)
  PROVE  /\ actions' = [id \in DOMAIN actions \ Answered(c) |-> actions[id]]
         /\ \A r \in Request : IF \E id \in Answered(c) : actions[id] = r
                               THEN reply'[r] # "pending"
                               ELSE reply'[r] = reply[r]
<1>1. actions' = [id \in DOMAIN actions \ Answered(c) |-> actions[id]]
  BY DEF set_schedule_by_leader, Restrict
<1>2. reply' = [r \in Request |->
                  IF \E id \in Answered(c) : actions[id] = r
                  THEN Answer(\E id \in Answered(c) \cap values : actions[id] = r)
                  ELSE reply[r]]
  BY DEF set_schedule_by_leader
<1>3. ASSUME NEW r \in Request
      PROVE  IF \E id \in Answered(c) : actions[id] = r
             THEN reply'[r] # "pending"
             ELSE reply'[r] = reply[r]
  <2>1. reply'[r] = IF \E id \in Answered(c) : actions[id] = r
                    THEN Answer(\E id \in Answered(c) \cap values : actions[id] = r)
                    ELSE reply[r]
    BY <1>2
  <2> QED BY <2>1, AnswersEnd
<1> QED BY <1>1, <1>3

LEMMA PublishHeld ==
  ASSUME ActionTypes, HeldInv, NEW c, NEW val, NEW values, set_schedule_by_leader(c, val, values)
  PROVE  HeldInv'
<1>1. CASE ~MayPublish(c)
  BY <1>1 DEF set_schedule_by_leader, actionVars, HeldInv, Pending
<1>2. CASE MayPublish(c)
  <2>1. /\ actions' = [id \in DOMAIN actions \ Answered(c) |-> actions[id]]
        /\ \A r \in Request : IF \E id \in Answered(c) : actions[id] = r
                              THEN reply'[r] # "pending"
                              ELSE reply'[r] = reply[r]
    BY <1>2, AnswerSteps
  <2>2. \A i, j \in DOMAIN actions' : actions'[i] = actions'[j] => i = j
    BY <2>1 DEF HeldInv
  <2>3. Answered(c) \subseteq DOMAIN actions
    BY DEF Answered
  <2>4. ASSUME NEW r \in Request PROVE reply'[r] = "pending" <=> r \in Pending'
    <3>1. CASE \E id \in Answered(c) : actions[id] = r
      BY <2>1, <2>3, <3>1 DEF HeldInv, Pending
    <3>2. CASE ~\E id \in Answered(c) : actions[id] = r
      <4>1. r \in Pending <=> r \in Pending'
        BY <2>1, <3>2 DEF Pending
      <4> QED BY <2>1, <3>2, <4>1 DEF HeldInv
    <3> QED BY <3>1, <3>2
  <2> QED BY <2>2, <2>4 DEF HeldInv
<1> QED BY <1>1, <1>2

LEMMA HeldStep == DaemonInv /\ HeldInv /\ [DaemonNext]_daemonVars => HeldInv'
<1> SUFFICES ASSUME DaemonInv, HeldInv, [DaemonNext]_daemonVars PROVE HeldInv'
  OBVIOUS
<1>1. ActionTypes
  BY Types, SharedTypes DEF DaemonInv
<1>2. ASSUME UNCHANGED <<actions, reply>> PROVE HeldInv'
  BY <1>2 DEF HeldInv, Pending
<1>3. CASE Loop
  BY <1>1, <1>2, <1>3, LoopElection, ElectionHeld DEF Loop, DaemonInv, actionVars
<1>4. CASE \/ TakeCookie \/ Tick \/ UNCHANGED daemonVars
           \/ \E c \in cookie : Run(c) \/ DropCookie(c) \/ SchedulerFails(c)
  BY <1>2, <1>4, Idles
<1>5. CASE Succeed
  BY <1>1, <1>5, Publishes, PublishHeld
<1>6. ASSUME NEW r \in Request, PushAction(r) PROVE HeldInv'
  BY <1>1, <1>6, PushHeld DEF PushAction, DaemonInv, HistoryTypes
<1> QED BY <1>3, <1>4, <1>5, <1>6 DEF DaemonNext, SchedulerNext

\* A request is pending exactly as long as its channel is held.
THEOREM RequestsAreHeld == DaemonSpec => []PendingIsHeld
<1>1. DaemonInit => HeldInv
  BY DEF DaemonInit, FetcherInit, SharedInit, HeldInv, Pending
<1>2. DaemonInv /\ HeldInv => PendingIsHeld
  BY HeldSuffices, Types, SharedTypes DEF DaemonInv
<1> QED BY <1>1, <1>2, HeldStep, DaemonInvariant, PTL DEF DaemonSpec

-----------------------------------------------------------------------------
(* What the cookie stands for.                                             *)

\* As long as the leadership of the cookie lasts, its actions are held; and
\* once it is lost the node is past the epoch, or has forgotten it.
LeadershipOf(c) ==
  \/ /\ ~lost /\ election.is_leader /\ election.epoch = c.epoch
     /\ \A id \in DOMAIN c.actions : id \in DOMAIN actions /\ actions[id] = c.actions[id]
  \/ lost /\ (c.epoch <= amnesia \/ election.epoch > c.epoch)

LeadershipInv ==
  /\ \A c \in cookie : LeadershipOf(c)
  /\ cookie = {} => ~lost

LEMMA EpochsMove ==
  ASSUME NEW v \in ElectionStates, NEW w \in ElectionStates, Succeeds(v, w), w # v,
         NEW e \in Nat, NEW a \in Nat, NEW b \in Nat,
         b = IF w = blank /\ v.epoch > a THEN v.epoch ELSE a,
         v.epoch > e \/ (v.is_leader /\ v.epoch = e) \/ e <= a
  PROVE  e <= b \/ w.epoch > e
<1>1. v.epoch \in Nat /\ w.epoch \in Nat
  BY Epochs
<1>2. CASE w = blank
  BY <1>1, <1>2
<1>3. CASE w # blank /\ e <= a
  BY <1>3
<1>4. CASE w # blank /\ ~(e <= a)
  <2>1. w.epoch > v.epoch \/ (w.epoch = v.epoch /\ ~v.is_leader)
    BY <1>4 DEF Succeeds
  <2> QED BY <1>1, <1>4, <2>1
<1> QED BY <1>2, <1>3, <1>4

LEMMA LoopLeadership ==
  ASSUME DaemonInv, LeadershipInv, Loop
  PROVE  LeadershipInv'
<1>1. /\ UNCHANGED cookie /\ amnesia \in Nat /\ amnesia' \in Nat
      /\ lost' = (cookie # {} /\ (lost \/ election' # election))
      /\ amnesia' = IF election' = blank /\ election.epoch > amnesia
                    THEN election.epoch ELSE amnesia
  BY LoopDaemonTypes DEF Loop, DaemonInv, HistoryTypes
<1>2. election \in ElectionStates /\ election.epoch \in Nat
  BY Types, SharedTypes, Epochs DEF DaemonInv, PeerTypes
<1> SUFFICES ASSUME NEW c \in cookie PROVE LeadershipOf(c)'
  BY <1>1 DEF LeadershipInv
<1>3. c.epoch \in Nat
  BY DEF DaemonInv, CookieTypes
<1>4. lost' = (lost \/ election' # election)
  BY <1>1
<1>5. CASE election' = election
  <2>1. amnesia' = amnesia
    BY <1>1, <1>2, <1>5 DEF blank, DaemonInv, HistoryTypes
  <2>2. CASE lost
    BY <1>4, <1>5, <2>1, <2>2 DEF LeadershipInv, LeadershipOf
  <2>3. CASE ~lost
    <3>1. UNCHANGED actions
      <4>1. election.is_leader
        BY <2>3 DEF LeadershipInv, LeadershipOf
      <4>2. \/ UNCHANGED <<election, owned, actionVars>>
            \/ update_election(election)
        BY <1>5, LoopElection DEF Loop, DaemonInv, update_election
      <4> QED BY <4>1, <4>2 DEF update_election, actionVars
    <3> QED BY <1>4, <1>5, <2>3, <3>1 DEF LeadershipInv, LeadershipOf
  <2> QED BY <2>2, <2>3
<1>6. CASE election' # election
  <2>1. PICK v \in ElectionStates : Succeeds(election, v) /\ election' = v
    BY <1>6, LoopElection DEF Loop, DaemonInv, update_election
  <2>2. election.epoch > c.epoch \/ (election.is_leader /\ election.epoch = c.epoch)
          \/ c.epoch <= amnesia
    BY DEF LeadershipInv, LeadershipOf
  <2>3. c.epoch <= amnesia' \/ election'.epoch > c.epoch
    BY <1>1, <1>2, <1>3, <1>6, <2>1, <2>2, EpochsMove
  <2> QED BY <1>4, <1>6, <2>3 DEF LeadershipOf
<1> QED BY <1>5, <1>6

LEMMA SchedulerLeadership ==
  ASSUME DaemonInv, LeadershipInv, SchedulerNext
  PROVE  LeadershipInv'
<1> USE DEF LoopVars, scheduleVars, actionVars
<1>1. CASE TakeCookie
  <2>1. /\ cookie = {} /\ election.is_leader /\ cookie' = {leader_cookie}
        /\ UNCHANGED <<election, lost, actions>>
    BY <1>1 DEF TakeCookie, MayTakeCookie, DaemonInv, CookieTypes
  <2>2. leader_cookie.epoch = election.epoch /\ leader_cookie.actions = actions
    BY DEF leader_cookie
  <2> QED BY <2>1, <2>2 DEF LeadershipInv, LeadershipOf
<1>2. ASSUME NEW c \in cookie, Run(c) PROVE LeadershipInv'
  <2> DEFINE d == refresh_cookie(c)
  <2>1. d.epoch = c.epoch /\ d.actions = actions
    BY DEF refresh_cookie, IsCookie, DaemonInv, CookieTypes
  <2>2. cookie' = {d} /\ UNCHANGED <<election, lost, actions, amnesia>> /\ election.epoch = c.epoch
    BY <1>2 DEF Run, IsFresh
  <2> HIDE DEF d
  <2> QED BY <2>1, <2>2 DEF LeadershipInv, LeadershipOf
<1>3. ASSUME NEW c \in cookie, DropCookie(c) \/ SchedulerFails(c) PROVE LeadershipInv'
  BY <1>3 DEF DropCookie, SchedulerFails, LeadershipInv, LeadershipOf
<1>4. CASE Succeed
  BY <1>4, Publishes DEF LeadershipInv
<1> QED BY <1>1, <1>2, <1>3, <1>4 DEF SchedulerNext

LEMMA LeadershipStep == DaemonInv /\ LeadershipInv /\ [DaemonNext]_daemonVars => LeadershipInv'
<1> SUFFICES ASSUME DaemonInv, LeadershipInv, [DaemonNext]_daemonVars PROVE LeadershipInv'
  OBVIOUS
<1>1. CASE Tick \/ UNCHANGED daemonVars
  BY <1>1 DEF Tick, daemonVars, sharedVars, actionVars, schedulerVars, LeadershipInv,
              LeadershipOf
<1>2. ASSUME NEW r \in Request, PushAction(r) PROVE LeadershipInv'
  <2>1. UNCHANGED <<election, cookie, lost, amnesia>>
    BY <1>2 DEF PushAction, schedulerVars
  <2>2. \A id \in DOMAIN actions : id \in DOMAIN actions' /\ actions'[id] = actions[id]
    BY <1>2, Pushes, Types, SharedTypes DEF PushAction, DaemonInv, HistoryTypes
  <2> QED BY <2>1, <2>2 DEF LeadershipInv, LeadershipOf
<1> QED BY <1>1, <1>2, LoopLeadership, SchedulerLeadership DEF DaemonNext

LEMMA LeadershipInvariant == DaemonSpec => []LeadershipInv
<1>1. DaemonInit => LeadershipInv
  BY DEF DaemonInit, LeadershipInv
<1> QED BY <1>1, LeadershipStep, DaemonInvariant, PTL DEF DaemonSpec

\* Who may publish still has the leadership of the cookie, or is an amnesiac.
LEMMA MayPublishLate ==
  ASSUME DaemonInv, LeadershipInv, NEW c \in cookie, MayPublish(c)
  PROVE  \/ /\ ~lost
            /\ \A id \in DOMAIN c.actions : actions[id] = c.actions[id]
         \/ lost /\ c.epoch <= amnesia
<1>1. c.epoch \in Nat /\ election.epoch = c.epoch
  BY DEF MayPublish, DaemonInv, CookieTypes
<1> QED BY <1>1 DEF LeadershipInv, LeadershipOf

\* The thread goes to sleep after a run only when it has succeeded.
LEMMA SleepSteps ==
  ASSUME DaemonNext, thread = "run", thread' = "sleep"
  PROVE  Succeed
<1>1. ~Loop /\ ~Tick /\ ~\E r \in Request : PushAction(r)
  BY DEF Loop, Tick, PushAction, schedulerVars
<1>2. ~TakeCookie /\ ~\E c \in cookie : Run(c) \/ DropCookie(c) \/ SchedulerFails(c)
  BY DEF TakeCookie, Run, DropCookie, SchedulerFails
<1> QED BY <1>1, <1>2 DEF DaemonNext, SchedulerNext

\* A schedule is published in the leadership that its input was gathered in,
\* even if the node has lost and won elections while it was being made.
THEOREM LeadershipsPublish == DaemonSpec => PublishInLeadership
<1> DEFINE Published ==
      \A c \in cookie :
        (owned' # owned \/ stable' # stable) /\ thread = "run" /\ thread' = "sleep"
          => ~lost \/ c.epoch <= amnesia
<1>1. DaemonInv /\ LeadershipInv /\ [DaemonNext]_daemonVars => [Published]_daemonVars
  <2> SUFFICES ASSUME DaemonInv, LeadershipInv, DaemonNext, NEW c \in cookie,
                      owned' # owned \/ stable' # stable, thread = "run", thread' = "sleep"
               PROVE  ~lost \/ c.epoch <= amnesia
    OBVIOUS
  <2>1. PICK d \in cookie : \E val, values : set_schedule_by_leader(d, val, values)
    BY SleepSteps, Publishes
  <2>2. d = c
    BY DEF DaemonInv, CookieTypes
  <2>3. MayPublish(c)
    BY <2>1, <2>2 DEF set_schedule_by_leader, scheduleVars
  <2> QED BY <2>3, MayPublishLate
<1> QED BY <1>1, LeadershipInvariant, DaemonInvariant, PTL DEF DaemonSpec, PublishInLeadership

\* Only a publication answers.
LEMMA AnsweringSteps ==
  ASSUME DaemonInv, DaemonNext, NEW r \in Request, reply[r] = "pending",
         reply'[r] \in {"value", "no response"}
  PROVE  Succeed
<1>1. CASE Loop
  <2>1. CASE UNCHANGED reply
    BY <2>1
  <2>2. reply' = [q \in Request |-> IF q \in Pending THEN "dropped" ELSE reply[q]]
          => reply'[r] \in {"dropped", reply[r]}
    OBVIOUS
  <2> QED BY <1>1, <2>1, <2>2, LoopElection DEF Loop, DaemonInv, update_election, actionVars
<1>2. CASE \/ TakeCookie \/ Tick
           \/ \E c \in cookie : Run(c) \/ DropCookie(c) \/ SchedulerFails(c)
  BY <1>2, Idles
<1>3. ASSUME NEW q \in Request, PushAction(q) PROVE FALSE
  <2>1. reply' \in {[reply EXCEPT ![q] = "refused"], [reply EXCEPT ![q] = "pending"]}
    BY <1>3 DEF PushAction, push_action
  <2>2. reply \in [Request -> Replies]
    BY Types, SharedTypes DEF DaemonInv, ActionTypes
  <2> QED BY <2>1, <2>2
<1> QED BY <1>1, <1>2, <1>3 DEF DaemonNext, SchedulerNext

\* An action is answered by a run of the scheduler that has had it in its
\* input, unless the node leads an epoch again that it has forgotten.
THEOREM AnswersHaveBeenInput == DaemonSpec => AnswersAreInformed
<1> DEFINE Informed ==
      \A r \in Request :
        reply[r] = "pending" /\ reply'[r] \in {"value", "no response"}
          => \E c \in cookie : \/ \E id \in DOMAIN c.actions : c.actions[id] = r
                               \/ lost /\ c.epoch <= amnesia
<1>1. DaemonInv /\ LeadershipInv /\ [DaemonNext]_daemonVars => [Informed]_daemonVars
  <2> SUFFICES ASSUME DaemonInv, LeadershipInv, DaemonNext, NEW r \in Request,
                      reply[r] = "pending", reply'[r] \in {"value", "no response"}
               PROVE  \E c \in cookie : \/ \E id \in DOMAIN c.actions : c.actions[id] = r
                                        \/ lost /\ c.epoch <= amnesia
    OBVIOUS
  <2>1. PICK c \in cookie : \E val, values : set_schedule_by_leader(c, val, values)
    BY AnsweringSteps, Publishes
  <2>2. MayPublish(c)
    BY <2>1 DEF set_schedule_by_leader, actionVars
  <2>3. ActionTypes
    BY Types, SharedTypes DEF DaemonInv
  <2>4. PICK id \in Answered(c) : actions[id] = r
    BY <2>1, <2>2, <2>3, AnswerSteps
  <2>5. id \in DOMAIN c.actions
    BY DEF Answered
  <2>6. \/ c.actions[id] = r
        \/ lost /\ c.epoch <= amnesia
    BY <2>2, <2>4, <2>5, MayPublishLate
  <2> QED BY <2>5, <2>6
<1> QED BY <1>1, LeadershipInvariant, DaemonInvariant, PTL DEF DaemonSpec, AnswersAreInformed
=============================================================================
