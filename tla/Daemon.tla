------------------------------- MODULE Daemon -------------------------------
(***************************************************************************)
(* One daemon: the event loop with the election and the fetcher, the       *)
(* thread of the scheduler (scheduler/main.rs), and the users who push     *)
(* actions over HTTP.  The scheduler takes a cookie when the node is a     *)
(* stable leader, runs until it has a schedule or the epoch is over, and   *)
(* publishes; the election and the fetcher go on while it runs.            *)
(*                                                                         *)
(* What the scheduler program returns is an input: it fails, or it returns *)
(* a schedule and values for some of the actions.                          *)
(***************************************************************************)
EXTENDS Fetcher

CONSTANTS
  Scheduled,   \* bound: the hashes of the schedules that are made here
  MaxSecond    \* bound: the last second of the clock

ASSUME DaemonAssumption == Scheduled \subseteq Hashes /\ MaxSecond \in Nat

VARIABLES
  thread,    \* where the scheduler thread is: "sleep", "ready" or "run"
  cookie,    \* Option of its cookie
  second,    \* the clock, as push_action reads it
  lost,      \* history: the leadership the cookie was taken in has been lost
  amnesia,   \* history: the highest epoch that the election has forgotten
  harvest    \* history: what this leadership's prefetch has gathered, as long
             \* as no schedule has been published from it: Option(SUBSET Schedules)

schedulerVars == <<thread, cookie, second, lost, amnesia, harvest>>
daemonVars    == <<sharedVars, fetchVars, schedulerVars>>

DaemonInit ==
  /\ FetcherInit
  /\ thread = "sleep" /\ cookie = {}
  /\ second = 0
  /\ lost = FALSE
  /\ amnesia = 0
  /\ harvest = {}

-----------------------------------------------------------------------------
(* The scheduler thread.                                                   *)

LoopVars == <<election, fetch_state, peers, fetchVars, second, amnesia>>

\* It looks for the leadership every 5 seconds.
TakeCookie ==
  /\ thread = "sleep"
  /\ MayTakeCookie
  /\ cookie' = {leader_cookie}
  /\ parents' = {}
  /\ thread' = "ready"
  /\ UNCHANGED <<LoopVars, scheduleVars, actionVars, lost, harvest>>

\* A cookie that is refreshed is at once the input of the scheduler.
Run(c) ==
  /\ thread = "ready"
  /\ IsFresh(c)
  /\ cookie' = {refresh_cookie(c)}
  /\ thread' = "run"
  /\ UNCHANGED <<LoopVars, scheduleVars, actionVars, parents, lost, harvest>>

\* Mutant: the cookie is kept for the next leadership.
DropCookieKeep(c) ==
  /\ thread = "ready"
  /\ ~IsFresh(c)
  /\ thread' = "sleep"
  /\ UNCHANGED <<LoopVars, scheduleVars, actionVars, parents, lost, harvest, cookie>>

\* The epoch is over: the cookie is dropped with its parents.
DropCookie(c) ==
  /\ thread = "ready"
  /\ ~IsFresh(c)
  /\ cookie' = {}
  /\ thread' = "sleep"
  /\ lost' = FALSE
  /\ UNCHANGED <<LoopVars, scheduleVars, actionVars, parents, harvest>>

\* Mutant: the next run asks for a cookie again.
SchedulerFailsAnew(c) ==
  /\ thread = "run"
  /\ cookie' = {}
  /\ thread' = "sleep"
  /\ lost' = FALSE
  /\ UNCHANGED <<LoopVars, scheduleVars, actionVars, parents, harvest>>

\* The program has failed or has not returned an object; the cookie is kept.
SchedulerFails(c) ==
  /\ thread = "run"
  /\ thread' = "ready"
  /\ UNCHANGED <<LoopVars, scheduleVars, actionVars, parents, lost, harvest, cookie>>

SchedulerSucceeds(c, hash, values) ==
  /\ thread = "run"
  /\ set_schedule_by_leader(c, [hash |-> hash, origin |-> Self], values)
  /\ cookie' = {}
  /\ thread' = "sleep"
  /\ lost' = FALSE
  /\ harvest' = IF MayPublish(c) /\ parents = {} THEN {} ELSE harvest
  /\ UNCHANGED <<LoopVars, parents>>

Succeed ==
  \E c \in cookie, hash \in Scheduled : \E values \in SUBSET DOMAIN c.actions :
    SchedulerSucceeds(c, hash, values)

SchedulerNext ==
  \/ TakeCookie
  \/ \E c \in cookie : Run(c) \/ DropCookie(c) \/ SchedulerFails(c)
  \/ Succeed

-----------------------------------------------------------------------------
(* The event loop and the clock.                                           *)

\* A user's POST of an action (api.rs).
PushAction(r) ==
  /\ pc = "idle"
  /\ reply[r] = "none"
  /\ push_action(r, second)
  /\ UNCHANGED <<election, fetch_state, peers, scheduleVars, parents, fetchVars,
                 schedulerVars>>

Tick ==
  /\ second < MaxSecond
  /\ second' = second + 1
  /\ UNCHANGED <<sharedVars, fetchVars, thread, cookie, lost, amnesia, harvest>>

Loop ==
  /\ LoopNext
  /\ lost' = (cookie # {} /\ (lost \/ election' # election))
  /\ amnesia' = IF election' = blank /\ election.epoch > amnesia
                THEN election.epoch ELSE amnesia
  /\ harvest' = IF election' # election THEN {}
                ELSE IF fetch.state = "Prefetching" /\ fetch'.state = "StableLeader"
                THEN {fetch.schedules} ELSE harvest
  /\ UNCHANGED <<thread, cookie, second>>

DaemonNext ==
  Loop \/ SchedulerNext \/ Tick \/ \E r \in Request : PushAction(r)

DaemonSpec == DaemonInit /\ [][DaemonNext]_daemonVars

\* The fetcher and the scheduler go on, and the program of the scheduler does
\* not fail for ever.
DaemonFairness ==
  /\ WF_daemonVars(Loop /\ (Wake \/ MessagesNext)) /\ SF_daemonVars(Loop /\ Publish)
  /\ WF_daemonVars(Loop /\ \E hash \in Hashes, p \in Peer : FetchStart(hash, p))
  /\ SF_daemonVars(Loop /\ GracefulOver)
  /\ SF_daemonVars(Loop /\ (PrefetchDone
        \/ (Polling("Prefetching") /\ fetch.phase = "Fetching" /\ PrefetchDeadline)))
  /\ WF_daemonVars(TakeCookie) /\ WF_daemonVars(\E c \in cookie : Run(c) \/ DropCookie(c))
  /\ SF_daemonVars(Succeed)

-----------------------------------------------------------------------------
(* Properties.                                                             *)

\* The types of the whole daemon.
DaemonTypeOK ==
  /\ TypeOK
  /\ thread \in {"sleep", "ready", "run"}
  /\ cookie = {} <=> thread = "sleep"
  /\ \A c \in cookie : /\ c.epoch \in 1 .. MaxEpoch /\ c.parents \subseteq Schedules
                       /\ DOMAIN c.actions \subseteq Nat
  /\ second \in 0 .. MaxSecond
  /\ lost \in BOOLEAN
  /\ amnesia \in 0 .. MaxEpoch
  /\ harvest \in Option(SUBSET Schedules)

\* Only a leader owns a schedule, which it announces with its pings, and only
\* a leader holds actions: the scheduler thread that is late to publish does
\* not bring them back.
OnlyLeadersServe ==
  owned # {} \/ DOMAIN actions # {} => election.is_leader

\* A request is pending exactly as long as its channel is held.
PendingIsHeld == {r \in Request : reply[r] = "pending"} = Pending

\* What the prefetch of this leadership has gathered is on its way into a
\* schedule until one is published from it: it waits in the shared state, or
\* the thread holds all of it in a cookie of this leadership.  No run that
\* fails, early cookie or turn of the election loses it.
ParentsAreKept ==
  \A gathering \in harvest :
    \/ parents = {gathering}
    \/ \E c \in cookie : c.parents = gathering /\ MayPublish(c)

\* A schedule is published in the leadership its input was gathered in, even
\* if the node has lost and won elections while it was being made; except in
\* an epoch that the node has forgotten and leads for a second time.
PublishInLeadership ==
  [][\A c \in cookie :
       (owned' # owned \/ stable' # stable) /\ thread = "run" /\ thread' = "sleep"
         => ~lost \/ c.epoch <= amnesia]_daemonVars

\* An action is answered by a run of the scheduler that has had it in its
\* input; those pushed during the run are not answered with "no response".
AnswersAreInformed ==
  [][\A r \in Request :
       reply[r] = "pending" /\ reply'[r] \in {"value", "no response"}
         => \E c \in cookie : \/ \E id \in DOMAIN c.actions : c.actions[id] = r
                              \/ lost /\ c.epoch <= amnesia]_daemonVars

\* A leader that stays publishes a schedule.
LeaderPublishes ==
  \A v \in Views : v.is_leader => (election = v ~> owned # {} \/ election # v)

\* Every action that is accepted is answered, or dropped with the leadership.
ActionsAreAnswered ==
  \A r \in Request : reply[r] = "pending" ~> reply[r] # "pending"

\* A leader does not run the scheduler before the prefetch of its leadership
\* is over.
PrefetchFirst ==
  [][\A c \in cookie :
       thread = "ready" /\ thread' = "run" /\ ~lost => gathered]_daemonVars
=============================================================================
