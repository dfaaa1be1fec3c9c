---------------------------- MODULE SharedState ----------------------------
(***************************************************************************)
(* The state that the tasks and the threads of one daemon share (shared.rs)*)
(* and its methods.  Every method takes the lock for all it does, so it is *)
(* one operator here, a conjunct of the action of the task that calls it.  *)
(*                                                                         *)
(* A schedule is its hash and the node that has made it: what the daemon   *)
(* looks at.  Option<T> is a set of at most one T.                         *)
(***************************************************************************)
EXTENDS ElectionState, FiniteSets, Functions

CONSTANTS
  Self,              \* the node this daemon runs on
  Hashes,            \* hashes of schedules
  Request,           \* the actions that users push, each with its channel
  ActionsPerSecond   \* how many actions are taken in a second (1000)

Peer == Node \ {Self}

Schedules == [hash : Hashes, origin : Node]

Option(S) == {{}} \cup {{x} : x \in S}

ASSUME SelfAssumption == Self \in Node /\ NoNode \notin Node /\ MaxEpoch \in Nat
ASSUME RateAssumption == ActionsPerSecond \in Nat \ {0}

VARIABLES
  election,     \* the last ElectionState
  fetch_state,  \* what the fetcher has last published of its state
  peers,        \* [the peers cantal knows -> the last schedule reported]
  last_known,   \* last_known_schedule: Option(Schedules)
  stable,       \* stable_schedule: Option(Schedules)
  owned,        \* owned_schedule: Option(Schedules)
  parents,      \* parent_schedules: Option(SUBSET Schedules)
  actions,      \* [ids -> the pending requests]
  reply         \* what each request's channel has delivered

scheduleVars == <<last_known, stable, owned>>
actionVars   == <<actions, reply>>
sharedVars   == <<election, fetch_state, peers, scheduleVars, parents, actionVars>>

FetchStates == {"Unstable", "StableLeader", "Prefetching", "Replicating"}

\* The daemon starts with the schedule it finds on the disk.
SharedInit ==
  /\ election = blank
  /\ fetch_state = "Unstable"
  /\ peers = [p \in {} |-> {}]
  /\ last_known \in Option(Schedules)
  /\ stable = {} /\ owned = {} /\ parents = {}
  /\ actions = [id \in {} |-> {}]
  /\ reply = [r \in Request |-> "none"]

SharedTypeOK ==
  /\ election \in ElectionStates
  /\ fetch_state \in FetchStates
  /\ DOMAIN peers \subseteq Peer
  /\ \A p \in DOMAIN peers : peers[p] \in Option(Schedules)
  /\ {last_known, stable, owned} \subseteq Option(Schedules)
  /\ parents \in Option(SUBSET Schedules)
  /\ DOMAIN actions \subseteq Nat
  /\ \A id \in DOMAIN actions : actions[id] \in Request
  /\ reply \in [Request -> {"none", "pending", "refused", "dropped", "no response", "value"}]

-----------------------------------------------------------------------------
(* Peers and the election.                                                 *)

\* What is known of a peer stays while cantal lists it.
set_peers(listed) ==
  peers' = [p \in listed |-> IF p \in DOMAIN peers THEN peers[p] ELSE {}]

Pending == {actions[id] : id \in DOMAIN actions}

\* Mutant: the actions wait for the next leadership.
update_election_keep(elect) ==
  /\ election' = elect
  /\ owned' = IF elect.is_leader THEN owned ELSE {}
  /\ UNCHANGED actionVars

\* A node that does not lead owns no schedule and serves no actions: their
\* channels are dropped.
update_election(elect) ==
  /\ election' = elect
  /\ \/ /\ elect.is_leader
        /\ UNCHANGED <<owned, actionVars>>
     \/ /\ ~elect.is_leader
        /\ owned' = {}
        /\ actions' = [id \in {} |-> {}]
        /\ reply' = [r \in Request |-> IF r \in Pending THEN "dropped" ELSE reply[r]]

-----------------------------------------------------------------------------
(* Schedules.                                                              *)

is_current(hash) == \E s \in stable : s.hash = hash

reset_stable_schedule == stable' = {} /\ UNCHANGED <<last_known, owned>>

\* Mutant: whoever has made the schedule, it is taken.
MayFollowAny(s) == ~election.is_leader

\* A schedule is taken from the leader, and when it has made it itself.
MayFollow(s) == ~election.is_leader /\ election.leader = s.origin

set_schedule_by_follower(s) ==
  IF MayFollow(s)
  THEN last_known' = {s} /\ stable' = {s} /\ UNCHANGED owned
  ELSE UNCHANGED scheduleVars

set_parents(schedules) == parents' = {schedules}

-----------------------------------------------------------------------------
(* The cookie: what the scheduler works on.                                *)

MayTakeCookie == election.is_leader /\ fetch_state = "StableLeader"

\* The caller takes the parents out of the shared state.  Without them the
\* parent is the stable schedule, if there is one.
leader_cookie ==
  [epoch   |-> election.epoch,
   parents |-> IF parents = {} THEN stable ELSE UNION parents,
   actions |-> actions]

\* Only the epoch is compared: see Succeeds.
IsFresh(cookie) == cookie.epoch = election.epoch

refresh_cookie(cookie) == [cookie EXCEPT !.actions = actions]

\* Mutant: the epoch of the leadership is not looked at.
MayPublishLeading(cookie) == election.is_leader

MayPublish(cookie) == election.is_leader /\ election.epoch = cookie.epoch

\* Mutant: every action is answered.
AnsweredAll(cookie) == DOMAIN actions

\* The actions pushed while the scheduler was running wait for its next run.
Answered(cookie) == DOMAIN cookie.actions \cap DOMAIN actions

\* Mutant: an action without a value gets no answer.
AnswerValues(hasValue) == IF hasValue THEN "value" ELSE "pending"

Answer(hasValue) == IF hasValue THEN "value" ELSE "no response"

\* Values for actions that are not in the cookie are ignored.
set_schedule_by_leader(cookie, val, values) ==
  IF MayPublish(cookie)
  THEN LET done == Answered(cookie) IN
       /\ actions' = Restrict(actions, DOMAIN actions \ done)
       /\ reply' = [r \in Request |->
                      IF \E id \in done : actions[id] = r
                      THEN Answer(\E id \in done \cap values : actions[id] = r)
                      ELSE reply[r]]
       /\ last_known' = {val} /\ owned' = {val} /\ stable' = {val}
  ELSE UNCHANGED <<scheduleVars, actionVars>>

-----------------------------------------------------------------------------
(* Actions of the users.                                                   *)

\* The ids that an action pushed in this second may get.
IdsOf(second) == {second * ActionsPerSecond + i : i \in 0 .. ActionsPerSecond - 1}

Vacant(second) == IdsOf(second) \ DOMAIN actions

push_action(r, second) ==
  \/ /\ ~election.is_leader \/ Vacant(second) = {}
     /\ reply' = [reply EXCEPT ![r] = "refused"]
     /\ UNCHANGED actions
  \/ /\ election.is_leader
     /\ \E id \in Vacant(second) :
          /\ \A other \in Vacant(second) : id <= other
          /\ actions' = [i \in DOMAIN actions \cup {id} |-> IF i = id THEN r ELSE actions[i]]
     /\ reply' = [reply EXCEPT ![r] = "pending"]
=============================================================================
