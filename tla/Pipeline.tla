------------------------------ MODULE Pipeline ------------------------------
(***************************************************************************)
(* From a stable schedule to rendered roles, in one life of the daemon and *)
(* the next.  Two threads work one behind the other: the thread of the     *)
(* queries (query/mod.rs) takes a schedule out of a slot, computes the     *)
(* roles of this node and puts a task into the next slot, from which the   *)
(* thread of apply.rs takes it and runs verwalter_render for each role.    *)
(* A slot holds one value, and putting another one in replaces it.         *)
(*                                                                         *)
(* A schedule is its hash.  Which roles it assigns to the node and which   *)
(* it describes is given by constants.  The templates on the disk are a    *)
(* version, for the sake of the "rerender all roles" button.               *)
(***************************************************************************)
EXTENDS Naturals, FiniteSets

CONSTANTS
  Schedule,       \* hashes of schedules
  Role,           \* names of roles
  Assigned,       \* [Schedule -> roles in nodes[hostname].roles]
  Common,         \* [Schedule -> roles in the schedule's own `roles`]
  MayFail,        \* the roles whose rendering may fail
  MaxTemplates    \* bound: how often the templates are changed

ASSUME RolesAssumption ==
  /\ Assigned \in [Schedule -> SUBSET Role]
  /\ Common \in [Schedule -> SUBSET Role]
  /\ MayFail \subseteq Role
ASSUME TemplatesAssumption == MaxTemplates \in Nat

Option(S) == {{}} \cup {{x} : x \in S}

\* What is left to do of a schedule.
Task == [hash : Schedule, roles : SUBSET Role]

\* The engine that answers for a schedule: a program (query.wasm) and whether
\* it is initialised, or the compatible one.
Impl == [hash : Schedule, wasm : BOOLEAN, init : BOOLEAN]

\* What a role has been rendered from.
Rendering == [hash : Schedule, templates : 0 .. MaxTemplates]

VARIABLES
  schedule_rx,  \* Option(Schedule): the slot of new schedules
  requests,     \* how many ForceRerender are in the channel
  responder,    \* Option(Impl)
  apply_rx,     \* Option(Task): the slot of tasks
  job,          \* Option(Task): what apply is working at
  failed_roles, \* SUBSET Role, in the shared state
  templates,    \* the version of the templates on the disk
  rendered,     \* [Role -> Option(Rendering)]: what each role was last
                \* rendered from; {} if that failed or never happened
  latest,       \* history: Option of the last schedule published in this life
  asked,        \* history: the version of the templates at the last ForceRerender
  withheld,     \* history: the schedules that an error has kept from apply
  refused,      \* history: an error has kept a ForceRerender from apply, and
                \* nothing has been handed over since
  aborted       \* history: apply has given up its last task

queryVars   == <<schedule_rx, requests, responder>>
applyVars   == <<apply_rx, job>>
rolesVars   == <<failed_roles, rendered>>
errorVars   == <<withheld, refused, aborted>>
historyVars == <<latest, asked, errorVars>>
vars == <<queryVars, applyVars, rolesVars, historyVars, templates>>

Init ==
  /\ schedule_rx = {} /\ requests = 0 /\ responder = {}
  /\ apply_rx = {} /\ job = {}
  /\ failed_roles = {}
  /\ rendered = [r \in Role |-> {}]
  /\ latest = {} /\ asked = 0
  /\ withheld = {} /\ refused = FALSE /\ aborted = FALSE
  /\ templates = 0

-----------------------------------------------------------------------------
(* The rest of the daemon and the users.                                   *)

\* Mutant: a schedule waits until the one before it has been taken.
new_schedule_keep(h) ==
  schedule_rx' = IF schedule_rx = {} THEN {h} ELSE schedule_rx

\* Responder::new_schedule, called with each schedule that becomes stable.
new_schedule(h) == schedule_rx' = {h}

Publish(h) ==
  /\ new_schedule(h)
  /\ latest' = {h}
  /\ UNCHANGED <<requests, responder, applyVars, rolesVars, asked, errorVars, templates>>

\* The administrator changes the templates...
EditTemplates ==
  /\ templates < MaxTemplates
  /\ templates' = templates + 1
  /\ UNCHANGED <<queryVars, applyVars, rolesVars, historyVars>>

\* ... and presses the button.
force_rerender ==
  /\ asked < templates
  /\ requests' = requests + 1
  /\ asked' = templates
  /\ UNCHANGED <<schedule_rx, responder, applyVars, rolesVars, latest, errorVars, templates>>

-----------------------------------------------------------------------------
(* The thread of the queries.                                              *)

\* The roles in the list of a schedule.  compat.rs takes the names of the
\* variables of the assigned roles for names of roles: an assigned role that
\* the schedule does not describe in `roles` is not in the list.  A program is
\* taken to list what it renders.
all_roles(resp) == Common[resp.hash] \cup (IF resp.wasm THEN Assigned[resp.hash] ELSE {})

\* Failures are remembered for the roles in the list.
update_role_list(roles) == failed_roles' = failed_roles \cap roles

AllRolesTask(resp) == [hash |-> resp.hash, roles |-> Assigned[resp.hash]]

\* Mutant: a task that has not been taken is not replaced.
HandOverKeep(resp) ==
  /\ resp.init
  /\ update_role_list(all_roles(resp))
  /\ apply_rx' = IF apply_rx = {} THEN {AllRolesTask(resp)} ELSE apply_rx
  /\ withheld' = withheld \ {resp.hash} /\ refused' = FALSE

\* render_roles succeeds, and all roles of the node are to be rendered.
HandOver(resp) ==
  /\ resp.init
  /\ update_role_list(all_roles(resp))
  /\ apply_rx' = {AllRolesTask(resp)}
  /\ withheld' = withheld \ {resp.hash} /\ refused' = FALSE

\* A call of the program fails: it returns an error, or it traps and starts
\* without init the next time.  One that is not initialised only returns errors.
CallFails(resp) ==
  /\ resp.wasm
  /\ \E init \in {FALSE, resp.init} : responder' = {[resp EXCEPT !.init = init]}
  /\ UNCHANGED <<apply_rx, failed_roles>>

IsOld(h) == \E resp \in responder : resp.hash = h

\* The responder has it already, also when it has failed to hand it over.
OldSchedule(h) ==
  /\ IsOld(h)
  /\ UNCHANGED <<responder, apply_rx, failed_roles, withheld, refused>>

\* The program cannot be read, or its init fails: the responder is the old one.
InitFails(h) ==
  /\ ~IsOld(h)
  /\ withheld' = withheld \cup {h}
  /\ UNCHANGED <<responder, apply_rx, failed_roles, refused>>

\* Whether there is a program is looked up for every schedule.
Responds(h) ==
  /\ ~IsOld(h)
  /\ \E wasm \in BOOLEAN :
       LET resp == [hash |-> h, wasm |-> wasm, init |-> TRUE]
       IN  \/ HandOver(resp) /\ responder' = {resp}
           \/ CallFails(resp) /\ withheld' = withheld \cup {h} /\ UNCHANGED refused

NewSchedule(h) ==
  /\ schedule_rx = {h}
  /\ schedule_rx' = {}
  /\ OldSchedule(h) \/ InitFails(h) \/ Responds(h)
  /\ UNCHANGED <<requests, job, rendered, latest, asked, aborted, templates>>

\* Without a schedule there is nothing to do, and the first one renders all.
ForceRerender ==
  /\ requests > 0
  /\ requests' = requests - 1
  /\ \/ /\ responder = {}
        /\ UNCHANGED <<responder, apply_rx, failed_roles, withheld, refused>>
     \/ \E resp \in responder :
          \/ HandOver(resp) /\ UNCHANGED responder
          \/ CallFails(resp) /\ refused' = TRUE /\ UNCHANGED withheld
  /\ UNCHANGED <<schedule_rx, job, rendered, latest, asked, aborted, templates>>

\* A call for RolesData or a Query traps; if it does not, it only reads.
QueryTraps ==
  /\ \E resp \in responder :
       /\ resp.wasm /\ resp.init
       /\ responder' = {[resp EXCEPT !.init = FALSE]}
  /\ UNCHANGED <<schedule_rx, requests, applyVars, rolesVars, historyVars, templates>>

-----------------------------------------------------------------------------
(* The thread that applies.                                                *)

applyRest == <<queryVars, latest, asked, withheld, refused, templates>>

\* Mutant: a schedule that has been applied is not applied again.
TakeTaskOnce(t) ==
  /\ job = {} /\ apply_rx = {t}
  /\ apply_rx' = {}
  /\ job' = {[t EXCEPT !.roles =
                {r \in @ : \A x \in rendered[r] : x.hash # t.hash}]}
  /\ aborted' = FALSE
  /\ UNCHANGED <<applyRest, rolesVars>>

TakeTask(t) ==
  /\ job = {} /\ apply_rx = {t}
  /\ apply_rx' = {}
  /\ job' = {t}
  /\ aborted' = FALSE
  /\ UNCHANGED <<applyRest, rolesVars>>

Finish(t, r) == job' = {[t EXCEPT !.roles = @ \ {r}]}

\* verwalter_render has exited with 0 (reset_role_failure).
Rendered(t, r) ==
  /\ rendered' = [rendered EXCEPT ![r] = {[hash |-> t.hash, templates |-> templates]}]
  /\ failed_roles' = failed_roles \ {r}

\* It has failed or could not be started (mark_role_failure).  How much of the
\* role has been applied is unknown.
Failed(t, r) ==
  /\ r \in MayFail
  /\ rendered' = [rendered EXCEPT ![r] = {}]
  /\ failed_roles' = failed_roles \cup {r}

RenderRole(t, r) ==
  /\ job = {t}
  /\ r \in t.roles
  /\ Rendered(t, r) \/ Failed(t, r)
  /\ Finish(t, r)
  /\ UNCHANGED <<applyRest, apply_rx, aborted>>

\* The files for verwalter_render cannot be written: apply_schedule returns.
Abort(t) ==
  /\ job = {t} /\ t.roles # {}
  /\ job' = {}
  /\ aborted' = TRUE
  /\ UNCHANGED <<applyRest, apply_rx, rolesVars>>

Done(t) ==
  /\ job = {t} /\ t.roles = {}
  /\ job' = {}
  /\ UNCHANGED <<applyRest, apply_rx, rolesVars, aborted>>

-----------------------------------------------------------------------------

\* A thread returns, an alarm rings (180 seconds for one task), or the process
\* is killed, with verwalter_render; the service manager starts it again.  The
\* disk is all that is left, with a role that may be half done.
Crash ==
  /\ schedule_rx' = {} /\ requests' = 0 /\ responder' = {}
  /\ apply_rx' = {} /\ job' = {}
  /\ failed_roles' = {}
  /\ \/ UNCHANGED rendered
     \/ \E t \in job : \E r \in t.roles : rendered' = [rendered EXCEPT ![r] = {}]
  /\ latest' = {} /\ asked' = 0
  /\ withheld' = {} /\ refused' = FALSE /\ aborted' = FALSE
  /\ UNCHANGED templates

QueryNext == (\E h \in Schedule : NewSchedule(h)) \/ ForceRerender \/ QueryTraps

ApplyNext ==
  \E t \in apply_rx \cup job :
    \/ TakeTask(t) \/ Abort(t) \/ Done(t)
    \/ \E r \in Role : RenderRole(t, r)

Next ==
  \/ \E h \in Schedule : Publish(h)
  \/ EditTemplates \/ force_rerender
  \/ QueryNext
  \/ ApplyNext
  \/ Crash

Spec == Init /\ [][Next]_vars

\* Both threads run for ever; the stream of the schedules and that of the
\* requests take turns.
FairSpec ==
  /\ Spec
  /\ WF_vars(\E h \in Schedule : NewSchedule(h)) /\ WF_vars(ForceRerender)
  /\ WF_vars(ApplyNext)

-----------------------------------------------------------------------------
(* Properties.                                                             *)

TypeOK ==
  /\ schedule_rx \in Option(Schedule)
  /\ requests \in Nat
  /\ responder \in Option(Impl)
  /\ apply_rx \in Option(Task) /\ job \in Option(Task)
  /\ failed_roles \subseteq Role
  /\ rendered \in [Role -> Option(Rendering)]
  /\ latest \in Option(Schedule)
  /\ asked \in 0 .. MaxTemplates /\ templates \in 0 .. MaxTemplates
  /\ withheld \subseteq Schedule
  /\ refused \in BOOLEAN /\ aborted \in BOOLEAN

\* Both threads have nothing to do, and neither has stopped at an error that
\* is only logged: that of the last schedule, or of the last task.
Settled ==
  /\ schedule_rx = {} /\ requests = 0
  /\ apply_rx = {} /\ job = {}
  /\ latest \cap withheld = {} /\ ~aborted

\* A role is rendered from the schedule, or shown as failed.
Applied(r, h) ==
  /\ r \in failed_roles <=> rendered[r] = {}
  /\ \A x \in rendered[r] : x.hash = h

\* When the threads have caught up, every role of the node is rendered from the
\* last schedule that was published, or it has failed and is shown as failed:
\* whatever schedules and tasks were replaced in the slots, whatever was
\* rendered in between or before a crash.
Converged ==
  Settled => \A h \in latest : \A r \in Assigned[h] : Applied(r, h)

\* Also, a role is not left with templates older than those that the last
\* ForceRerender was to apply, whichever schedule came before or after it,
\* unless the program has answered the ForceRerender with an error.
RerenderIsHonoured ==
  Settled /\ ~refused => \A h \in latest : \A r \in Assigned[h] : \A x \in rendered[r] :
               x.templates >= asked

\* The threads do catch up with a schedule that stays.
LatestIsApplied ==
  \A h \in Schedule : latest = {h} ~> \/ \A r \in Assigned[h] : Applied(r, h)
                                      \/ latest # {h} \/ h \in withheld \/ aborted
=============================================================================
