--------------------------- MODULE PipelineProofs ---------------------------
(***************************************************************************)
(* Proofs about Pipeline, for any schedules, roles and templates: its      *)
(* types, that the node converges to the last schedule, and that a request *)
(* to rerender is honoured.                                                *)
(***************************************************************************)
EXTENDS Pipeline, TLAPS

-----------------------------------------------------------------------------
(* Types.                                                                  *)

LEMMA OptionNone == ASSUME NEW S PROVE {} \in Option(S)
BY DEF Option

LEMMA OptionSome == ASSUME NEW S, NEW x \in S PROVE {x} \in Option(S)
BY DEF Option

LEMMA OptionValue ==
  ASSUME NEW S, NEW o \in Option(S), NEW x \in o
  PROVE  x \in S /\ o = {x}
BY DEF Option

LEMMA NoneTypes ==
  /\ {} \in Option(Schedule) /\ {} \in Option(Impl)
  /\ {} \in Option(Task) /\ {} \in Option(Rendering)
BY DEF Option

LEMMA InitTypes == Init => TypeOK
<1>1. 0 \in 0 .. MaxTemplates
  BY TemplatesAssumption
<1>2. ASSUME Init PROVE rendered \in [Role -> Option(Rendering)]
  BY <1>2, NoneTypes DEF Init
<1>3. ASSUME Init
      PROVE  /\ schedule_rx \in Option(Schedule) /\ responder \in Option(Impl)
             /\ apply_rx \in Option(Task) /\ job \in Option(Task)
             /\ latest \in Option(Schedule)
  BY <1>3, NoneTypes DEF Init
<1>4. ASSUME Init
      PROVE  /\ requests \in Nat /\ failed_roles \subseteq Role
             /\ withheld \subseteq Schedule /\ refused \in BOOLEAN /\ aborted \in BOOLEAN
             /\ asked \in 0 .. MaxTemplates /\ templates \in 0 .. MaxTemplates
  BY <1>1, <1>4 DEF Init
<1> QED BY <1>2, <1>3, <1>4 DEF TypeOK

\* What the thread of the queries hands over is a task.
LEMMA HandOverTypes ==
  ASSUME NEW resp \in Impl, HandOver(resp), failed_roles \subseteq Role
  PROVE  /\ apply_rx' \in Option(Task) /\ failed_roles' \subseteq Role
         /\ withheld' \subseteq withheld /\ refused' = FALSE
<1>1. AllRolesTask(resp) \in Task
  BY RolesAssumption DEF AllRolesTask, Task, Impl
<1>2. apply_rx' \in Option(Task)
  BY <1>1, OptionSome DEF HandOver
<1> QED BY <1>2 DEF HandOver, update_role_list

LEMMA CallFailsTypes ==
  ASSUME NEW resp \in Impl, CallFails(resp)
  PROVE  responder' \in Option(Impl) /\ UNCHANGED <<apply_rx, failed_roles>>
<1>1. PICK init \in {FALSE, resp.init} : responder' = {[resp EXCEPT !.init = init]}
  BY DEF CallFails
<1>2. [resp EXCEPT !.init = init] \in Impl
  BY DEF Impl
<1> QED BY <1>1, <1>2, OptionSome DEF CallFails

LEMMA NextTypes ==
  ASSUME TypeOK, [Next]_vars
  PROVE  TypeOK'
<1>1. ASSUME NEW h \in Schedule, Publish(h) PROVE TypeOK'
  <2>1. {h} \in Option(Schedule)
    BY OptionSome
  <2> QED BY <1>1, <2>1 DEF TypeOK, Publish, new_schedule, applyVars, rolesVars, errorVars
<1>2. CASE EditTemplates
  <2>1. templates' \in 0 .. MaxTemplates
    BY <1>2, TemplatesAssumption DEF EditTemplates, TypeOK
  <2> QED BY <1>2, <2>1
          DEF TypeOK, EditTemplates, queryVars, applyVars, rolesVars, historyVars, errorVars
<1>3. CASE force_rerender
  BY <1>3 DEF TypeOK, force_rerender, applyVars, rolesVars, errorVars
<1>4. ASSUME NEW h \in Schedule, NewSchedule(h) PROVE TypeOK'
  <2>1. /\ schedule_rx' \in Option(Schedule)
        /\ UNCHANGED <<requests, job, rendered, latest, asked, aborted, templates>>
    BY <1>4, NoneTypes DEF NewSchedule
  <2>2. CASE OldSchedule(h)
    BY <2>1, <2>2 DEF TypeOK, OldSchedule
  <2>3. CASE InitFails(h)
    BY <2>1, <2>3 DEF TypeOK, InitFails
  <2>4. ASSUME NEW resp \in Impl, HandOver(resp) /\ responder' = {resp}
        PROVE  TypeOK'
    <3>1. responder' \in Option(Impl)
      BY <2>4, OptionSome
    <3> QED BY <2>1, <2>4, <3>1, HandOverTypes DEF TypeOK
  <2>5. ASSUME NEW resp \in Impl, CallFails(resp), withheld' = withheld \cup {h}, UNCHANGED refused
        PROVE  TypeOK'
    BY <2>1, <2>5, CallFailsTypes DEF TypeOK
  <2>6. CASE Responds(h)
    <3>1. \A wasm \in BOOLEAN : [hash |-> h, wasm |-> wasm, init |-> TRUE] \in Impl
      BY DEF Impl
    <3> QED BY <2>4, <2>5, <2>6, <3>1 DEF Responds
  <2> QED BY <1>4, <2>2, <2>3, <2>6 DEF NewSchedule
<1>5. CASE ForceRerender
  <2>1. /\ requests' \in Nat
        /\ UNCHANGED <<schedule_rx, job, rendered, latest, asked, aborted, templates>>
    BY <1>5 DEF ForceRerender, TypeOK
  <2>2. CASE UNCHANGED <<responder, apply_rx, failed_roles, withheld, refused>>
    BY <2>1, <2>2 DEF TypeOK
  <2>3. ASSUME NEW resp \in responder
        PROVE  resp \in Impl
    BY OptionValue DEF TypeOK
  <2>4. ASSUME NEW resp \in responder, HandOver(resp), UNCHANGED responder
        PROVE  TypeOK'
    BY <2>1, <2>3, <2>4, HandOverTypes DEF TypeOK
  <2>5. ASSUME NEW resp \in responder, CallFails(resp), refused' = TRUE, UNCHANGED withheld
        PROVE  TypeOK'
    BY <2>1, <2>3, <2>5, CallFailsTypes DEF TypeOK
  <2> QED BY <1>5, <2>2, <2>4, <2>5 DEF ForceRerender
<1>6. CASE QueryTraps
  <2>1. PICK resp \in responder : responder' = {[resp EXCEPT !.init = FALSE]}
    BY <1>6 DEF QueryTraps
  <2>2. resp \in Impl
    BY OptionValue DEF TypeOK
  <2>3. [resp EXCEPT !.init = FALSE] \in Impl
    BY <2>2 DEF Impl
  <2>4. responder' \in Option(Impl)
    BY <2>1, <2>3, OptionSome
  <2> QED BY <1>6, <2>4 DEF TypeOK, QueryTraps, applyVars, rolesVars, historyVars, errorVars
<1>7. ASSUME NEW t \in apply_rx \cup job
      PROVE  /\ t \in Task
             /\ \A r : [t EXCEPT !.roles = @ \ {r}] \in Task
  <2>1. t \in Task
    BY OptionValue DEF TypeOK
  <2> QED BY <2>1 DEF Task
<1>8. ASSUME NEW t \in apply_rx \cup job, TakeTask(t) PROVE TypeOK'
  <2>1. {t} \in Option(Task)
    BY <1>7, OptionSome
  <2> QED BY <1>8, <2>1, NoneTypes DEF TypeOK, TakeTask, applyRest, queryVars, rolesVars
<1>9. ASSUME NEW t \in apply_rx \cup job, Abort(t) PROVE TypeOK'
  BY <1>9, NoneTypes DEF TypeOK, Abort, applyRest, queryVars, rolesVars
<1>10. ASSUME NEW t \in apply_rx \cup job, Done(t) PROVE TypeOK'
  BY <1>10, NoneTypes DEF TypeOK, Done, applyRest, queryVars, rolesVars
<1>11. ASSUME NEW t \in apply_rx \cup job, NEW r \in Role, RenderRole(t, r)
       PROVE  TypeOK'
  <2>1. job' \in Option(Task)
    BY <1>7, <1>11, OptionSome DEF RenderRole, Finish
  <2>2. [hash |-> t.hash, templates |-> templates] \in Rendering
    BY <1>7 DEF TypeOK, Task, Rendering
  <2>3. {[hash |-> t.hash, templates |-> templates]} \in Option(Rendering)
    BY <2>2, OptionSome
  <2>4. /\ failed_roles' \subseteq Role
        /\ rendered' \in [Role -> Option(Rendering)]
    BY <1>11, <2>3, NoneTypes DEF TypeOK, RenderRole, Rendered, Failed
  <2> QED BY <1>11, <2>1, <2>4 DEF TypeOK, RenderRole, applyRest, queryVars
<1>12. CASE Crash
  <2>1. rendered' \in [Role -> Option(Rendering)]
    BY <1>12, NoneTypes DEF TypeOK, Crash
  <2>2. 0 \in 0 .. MaxTemplates
    BY TemplatesAssumption
  <2> QED BY <1>12, <2>1, <2>2, NoneTypes DEF TypeOK, Crash
<1>13. CASE UNCHANGED vars
  BY <1>13 DEF TypeOK, vars, queryVars, applyVars, rolesVars, historyVars, errorVars
<1> QED
  BY <1>1, <1>2, <1>3, <1>4, <1>5, <1>6, <1>8, <1>9, <1>10, <1>11, <1>12, <1>13
     DEF Next, QueryNext, ApplyNext

\* The types of all variables, as Pipeline's runs check them.
THEOREM PipelineTypes == Spec => []TypeOK
BY InitTypes, NextTypes, PTL DEF Spec

-----------------------------------------------------------------------------
(* Convergence.                                                            *)

\* The last schedule is in the slot, or it is that of the responder.
Offered ==
  \A h \in latest : schedule_rx = {h} \/ (schedule_rx = {} /\ (h \in withheld \/ IsOld(h)))

\* Nothing more is to be done for a role: it is rendered from the schedule
\* with the templates that were to be rendered, or failed.
DoneWith(r, h) ==
  /\ Applied(r, h)
  /\ requests = 0 /\ ~refused => \A x \in rendered[r] : x.templates >= asked

\* The roles that apply has not got to.
Left == UNION {t.roles : t \in job}

\* The schedule of the responder is in the other slot with all its roles, or
\* it is what apply works at and has done all roles that are not left.
HandedOver ==
  \A resp \in responder :
    LET h == resp.hash
    IN  \/ h \in withheld
        \/ \E t \in apply_rx : t.hash = h /\ t.roles = Assigned[h]
        \/ apply_rx = {} /\ aborted
        \/ /\ apply_rx = {}
           /\ \A t \in job : t.hash = h
           /\ \A r \in Assigned[h] : r \in Left \/ DoneWith(r, h)

PipelineInv == TypeOK /\ asked <= templates /\ Offered /\ HandedOver

LEMMA InvImpliesConverged == PipelineInv => Converged /\ RerenderIsHonoured
<1> SUFFICES ASSUME PipelineInv, Settled, NEW h \in latest, NEW r \in Assigned[h]
             PROVE  DoneWith(r, h) /\ requests = 0
  BY DEF Converged, RerenderIsHonoured, DoneWith
<1>1. PICK resp \in responder : resp.hash = h
  BY DEF PipelineInv, Offered, Settled, IsOld
<1>2. Left = {}
  BY DEF Left, Settled
<1> QED BY <1>1, <1>2 DEF PipelineInv, HandedOver, Settled

LEMMA InitInv == Init => PipelineInv
BY InitTypes DEF Init, PipelineInv, Offered, HandedOver

\* A successful hand-over establishes HandedOver, whatever was before.
LEMMA HandOverHands ==
  ASSUME NEW resp, HandOver(resp), \A x \in responder' : x.hash = resp.hash
  PROVE  HandedOver'
BY DEF HandOver, AllRolesTask, HandedOver

LEMMA NewScheduleInv ==
  ASSUME PipelineInv, NEW h \in Schedule, NewSchedule(h)
  PROVE  Offered' /\ HandedOver'
<1>1. /\ schedule_rx = {h} /\ schedule_rx' = {}
      /\ UNCHANGED <<requests, job, rendered, latest, asked, aborted, templates>>
  BY DEF NewSchedule
<1>2. \A x \in latest : x = h
  BY <1>1 DEF PipelineInv, Offered
<1>3. CASE OldSchedule(h)
  <2>1. Offered'
    BY <1>1, <1>2, <1>3 DEF Offered, OldSchedule, IsOld
  <2>2. HandedOver'
    BY <1>1, <1>3 DEF PipelineInv, HandedOver, OldSchedule, Left, DoneWith, Applied
  <2> QED BY <2>1, <2>2
<1>4. CASE InitFails(h)
  <2>1. Offered'
    BY <1>1, <1>2, <1>4 DEF InitFails, Offered
  <2>2. HandedOver'
    BY <1>1, <1>4 DEF InitFails, PipelineInv, HandedOver, Left, DoneWith, Applied
  <2> QED BY <2>1, <2>2
<1>5. CASE Responds(h)
  <2>1. PICK wasm \in BOOLEAN :
          LET resp == [hash |-> h, wasm |-> wasm, init |-> TRUE]
          IN  \/ HandOver(resp) /\ responder' = {resp}
              \/ CallFails(resp) /\ withheld' = withheld \cup {h} /\ UNCHANGED refused
    BY <1>5 DEF Responds
  <2> DEFINE resp == [hash |-> h, wasm |-> wasm, init |-> TRUE]
  <2>2. CASE HandOver(resp) /\ responder' = {resp}
    <3>1. HandedOver'
      BY <2>2, HandOverHands
    <3>2. \E x \in responder' : x.hash = h
      BY <2>2
    <3>3. Offered'
      BY <1>1, <1>2, <3>2 DEF PipelineInv, Offered, IsOld
    <3> QED BY <3>1, <3>3
  <2>3. CASE CallFails(resp) /\ withheld' = withheld \cup {h}
    <3>1. Offered'
      BY <1>1, <1>2, <2>3 DEF Offered
    <3>2. \A x \in responder' : x.hash \in withheld'
      BY <2>3 DEF CallFails
    <3> QED BY <3>1, <3>2 DEF HandedOver
  <2> QED BY <2>1, <2>2, <2>3
<1> QED BY <1>3, <1>4, <1>5 DEF NewSchedule

LEMMA ForceRerenderInv ==
  ASSUME PipelineInv, ForceRerender
  PROVE  Offered' /\ HandedOver'
<1>1. UNCHANGED <<schedule_rx, job, rendered, latest, asked, aborted, templates>>
  BY DEF ForceRerender
<1>2. CASE responder = {} /\ UNCHANGED <<responder, apply_rx, failed_roles, withheld, refused>>
  BY <1>1, <1>2 DEF PipelineInv, Offered, HandedOver, IsOld
<1>3. ASSUME NEW resp \in responder, HandOver(resp), UNCHANGED responder
      PROVE  Offered' /\ HandedOver'
  <2>1. \A x \in responder' : x.hash = resp.hash
    BY <1>3, OptionValue DEF PipelineInv, TypeOK
  <2>2. HandedOver'
    BY <1>3, <2>1, HandOverHands
  <2>3. \A h \in withheld : h \in withheld' \/ h = resp.hash
    BY <1>3 DEF HandOver
  <2> QED BY <1>1, <1>3, <2>2, <2>3 DEF PipelineInv, Offered, IsOld
<1>4. ASSUME NEW resp \in responder, CallFails(resp), refused' = TRUE, UNCHANGED withheld
      PROVE  Offered' /\ HandedOver'
  <2>1. PICK init \in {FALSE, resp.init} : responder' = {[resp EXCEPT !.init = init]}
    BY <1>4 DEF CallFails
  <2>2. resp \in Impl /\ responder = {resp}
    BY OptionValue DEF PipelineInv, TypeOK
  <2>3. \A x \in responder' : x.hash = resp.hash
    BY <2>1, <2>2 DEF Impl
  <2>4. \A h : IsOld(h) => IsOld(h)'
    BY <2>1, <2>2, <2>3 DEF IsOld
  <2>5. Offered'
    BY <1>1, <1>4, <2>4 DEF PipelineInv, Offered
  <2>6. HandedOver'
    BY <1>1, <1>4, <2>2, <2>3 DEF CallFails, PipelineInv, HandedOver, Left, DoneWith, Applied
  <2> QED BY <2>5, <2>6
<1> QED BY <1>2, <1>3, <1>4 DEF ForceRerender

LEMMA ApplyInv ==
  ASSUME PipelineInv, NEW t \in apply_rx \cup job,
         \/ TakeTask(t) \/ Abort(t) \/ Done(t)
         \/ \E r \in Role : RenderRole(t, r)
  PROVE  Offered' /\ HandedOver'
<1>1. UNCHANGED <<schedule_rx, requests, responder, latest, asked, withheld, refused, templates>>
  BY DEF TakeTask, Abort, Done, RenderRole, applyRest, queryVars
<1>2. Offered'
  BY <1>1 DEF PipelineInv, Offered, IsOld
<1> SUFFICES ASSUME NEW resp \in responder, resp.hash \notin withheld
             PROVE  LET h == resp.hash
                    IN  \/ \E x \in apply_rx' : x.hash = h /\ x.roles = Assigned[h]
                        \/ apply_rx' = {} /\ aborted'
                        \/ /\ apply_rx' = {}
                           /\ \A x \in job' : x.hash = h
                           /\ \A r \in Assigned[h] : r \in Left' \/ DoneWith(r, h)'
  BY <1>1, <1>2 DEF HandedOver
<1> DEFINE h == resp.hash
<1>3. \/ \E x \in apply_rx : x.hash = h /\ x.roles = Assigned[h]
      \/ apply_rx = {} /\ aborted
      \/ /\ apply_rx = {}
         /\ \A x \in job : x.hash = h
         /\ \A r \in Assigned[h] : r \in Left \/ DoneWith(r, h)
  BY DEF PipelineInv, HandedOver
<1>4. CASE TakeTask(t)
  BY <1>3, <1>4 DEF TakeTask, Left
<1>5. CASE Abort(t)
  BY <1>3, <1>5 DEF Abort
<1>6. CASE Done(t)
  BY <1>1, <1>3, <1>6 DEF Done, Left, DoneWith, Applied, rolesVars
<1>7. ASSUME NEW q \in Role, RenderRole(t, q)
      PROVE      \/ \E x \in apply_rx' : x.hash = h /\ x.roles = Assigned[h]
                 \/ apply_rx' = {} /\ aborted'
                 \/ /\ apply_rx' = {}
                    /\ \A x \in job' : x.hash = h
                    /\ \A r \in Assigned[h] : r \in Left' \/ DoneWith(r, h)'
  <2>1. apply_rx' = apply_rx /\ aborted' = aborted /\ job = {t}
    BY <1>7 DEF RenderRole
  <2> SUFFICES ASSUME apply_rx = {}, t.hash = h,
                      \A r \in Assigned[h] : r \in Left \/ DoneWith(r, h)
               PROVE  /\ \A x \in job' : x.hash = h
                      /\ \A r \in Assigned[h] : r \in Left' \/ DoneWith(r, h)'
    BY <1>3, <2>1
  <2>2. job' = {[t EXCEPT !.roles = @ \ {q}]} /\ t \in Task
    BY <1>7, <2>1, OptionValue DEF RenderRole, Finish, PipelineInv, TypeOK
  <2>3. Left = t.roles /\ Left' = t.roles \ {q}
    BY <2>1, <2>2 DEF Left, Task
  <2>4. \A x \in job' : x.hash = h
    BY <2>2 DEF Task
  <2>5. DoneWith(q, h)'
    <3>1. rendered \in [Role -> Option(Rendering)] /\ asked \in Nat /\ templates \in Nat
          /\ asked <= templates
      BY TemplatesAssumption DEF PipelineInv, TypeOK
    <3>2. CASE Rendered(t, q)
      <4>1. rendered'[q] = {[hash |-> h, templates |-> templates]} /\ q \notin failed_roles'
        BY <3>1, <3>2 DEF Rendered
      <4>2. \A x \in rendered'[q] : x.hash = h /\ x.templates >= asked
        BY <3>1, <4>1
      <4> QED BY <1>1, <4>1, <4>2 DEF DoneWith, Applied
    <3>3. CASE Failed(t, q)
      <4>1. rendered'[q] = {} /\ q \in failed_roles'
        BY <3>1, <3>3 DEF Failed
      <4> QED BY <4>1 DEF DoneWith, Applied
    <3> QED BY <1>7, <3>2, <3>3 DEF RenderRole
  <2>6. ASSUME NEW r \in Assigned[h], r # q, DoneWith(r, h) PROVE DoneWith(r, h)'
    <3>1. CASE Rendered(t, q)
      BY <1>1, <2>6, <3>1 DEF Rendered, PipelineInv, TypeOK, DoneWith, Applied
    <3>2. CASE Failed(t, q)
      BY <1>1, <2>6, <3>2 DEF Failed, PipelineInv, TypeOK, DoneWith, Applied
    <3> QED BY <1>7, <3>1, <3>2 DEF RenderRole
  <2> QED BY <2>3, <2>4, <2>5, <2>6
<1> QED BY <1>4, <1>5, <1>6, <1>7

LEMMA NextInv ==
  ASSUME PipelineInv, [Next]_vars
  PROVE  PipelineInv'
<1>1. TypeOK'
  BY NextTypes DEF PipelineInv
<1>2. (asked <= templates)'
  <2>1. asked \in Nat /\ templates \in Nat /\ asked <= templates
    BY TemplatesAssumption DEF PipelineInv, TypeOK
  <2>2. \/ templates' = templates /\ asked' \in {asked, 0, templates}
        \/ asked' = asked /\ templates' = templates + 1
    BY DEF Next, QueryNext, ApplyNext, vars, Publish, EditTemplates, force_rerender,
           NewSchedule, ForceRerender, QueryTraps, TakeTask, Abort, Done, RenderRole, Crash,
           historyVars, errorVars, applyRest
  <2> QED BY <2>1, <2>2
<1>3. Offered' /\ HandedOver'
  <2>1. ASSUME NEW h \in Schedule, Publish(h) PROVE Offered' /\ HandedOver'
    BY <2>1 DEF Publish, new_schedule, PipelineInv, Offered, HandedOver, applyVars, rolesVars,
                errorVars, Left, DoneWith, Applied
  <2>2. CASE EditTemplates
    BY <2>2 DEF EditTemplates, PipelineInv, Offered, HandedOver, queryVars, applyVars,
                rolesVars, historyVars, errorVars, IsOld, Left, DoneWith, Applied
  <2>3. CASE force_rerender
    <3>1. requests' # 0
      BY <2>3 DEF force_rerender, PipelineInv, TypeOK
    <3> QED BY <2>3, <3>1
            DEF force_rerender, PipelineInv, Offered, HandedOver, applyVars, rolesVars,
                errorVars, IsOld, Left, DoneWith, Applied
  <2>4. ASSUME NEW h \in Schedule, NewSchedule(h) PROVE Offered' /\ HandedOver'
    BY <2>4, NewScheduleInv
  <2>5. CASE ForceRerender
    BY <2>5, ForceRerenderInv
  <2>6. CASE QueryTraps
    <3>1. PICK resp \in responder : responder' = {[resp EXCEPT !.init = FALSE]}
      BY <2>6 DEF QueryTraps
    <3>2. resp \in Impl /\ responder = {resp}
      BY OptionValue DEF PipelineInv, TypeOK
    <3>3. \A x \in responder' : x.hash = resp.hash
      BY <3>1, <3>2 DEF Impl
    <3>4. \A h : IsOld(h) => IsOld(h)'
      BY <3>1, <3>2, <3>3 DEF IsOld
    <3> QED BY <2>6, <3>2, <3>3, <3>4
            DEF QueryTraps, PipelineInv, Offered, HandedOver, applyVars, rolesVars,
                historyVars, errorVars, Left, DoneWith, Applied
  <2>7. ASSUME NEW t \in apply_rx \cup job,
               \/ TakeTask(t) \/ Abort(t) \/ Done(t)
               \/ \E r \in Role : RenderRole(t, r)
        PROVE  Offered' /\ HandedOver'
    BY <2>7, ApplyInv
  <2>8. CASE Crash
    BY <2>8 DEF Crash, Offered, HandedOver
  <2>9. CASE UNCHANGED vars
    BY <2>9 DEF vars, PipelineInv, Offered, HandedOver, queryVars, applyVars, rolesVars,
                historyVars, errorVars, IsOld, Left, DoneWith, Applied
  <2> QED BY <2>1, <2>2, <2>3, <2>4, <2>5, <2>6, <2>7, <2>8, <2>9
          DEF Next, QueryNext, ApplyNext
<1> QED BY <1>1, <1>2, <1>3 DEF PipelineInv

\* When the threads have caught up, every role of the node is rendered from
\* the last schedule or shown as failed.
THEOREM PipelineConverges == Spec => []Converged
BY InitInv, NextInv, InvImpliesConverged, PTL DEF Spec

\* No role is left with templates that a rerender was to replace.
THEOREM RerendersAreHonoured == Spec => []RerenderIsHonoured
BY InitInv, NextInv, InvImpliesConverged, PTL DEF Spec
=============================================================================
