---------------------------- MODULE ReloadProofs ----------------------------
(***************************************************************************)
(* Proofs about Reload, for any number of changes of the configuration:    *)
(* that no change escapes the scheduler thread, that a program which was   *)
(* refused is shown, and that no schedule comes from an instance in which  *)
(* a call has trapped.                                                     *)
(***************************************************************************)
EXTENDS Reload, TLAPS

-----------------------------------------------------------------------------
(* What does not move away from itself, and types.                         *)

LEMMA Dirs ==
  /\ "root" \notin Dir
  /\ \A d \in Dir : Parent(d) \in All /\ Parent(d) # d
  /\ \A f \in File : DirOf(f) \in Dir
  /\ ProgramFile \subseteq File /\ RuntimeFile \subseteq File
BY DEF Dir, Parent, All, File, ProgramFile, RuntimeFile, DirOf

DiskTypes ==
  /\ disk \in [File -> Content] /\ present \subseteq Dir /\ edits \in 0 .. MaxEdits

NotifyTypes == watched \subseteq All /\ events \in Queue

ThreadTypes ==
  /\ pc \in {"watch", "read scheduler", "read runtime", "sleep", "head", "events", "run"}
  /\ booted \in BOOLEAN
  /\ towatch \subseteq All
  /\ toread \subseteq File
  /\ seen \in [File -> Content]
  /\ program \in [ProgramFile -> Content] \cup {Empty}
  /\ runtime \in [RuntimeFile -> Content] \cup {Empty}
  /\ cookie \in {"none", "fresh", "over"}
  /\ late \subseteq Dir

InstanceTypes == instance \in [trapped : BOOLEAN, failed : BOOLEAN]

SharedTypes ==
  /\ is_leader \in BOOLEAN /\ is_stable \in BOOLEAN
  /\ errors \subseteq {"scheduler", "scheduler_load"}
  /\ forgotten \in BOOLEAN

\* The first load goes through the program before it watches the runtime.
BootHasLoaded ==
  /\ booted => program # Empty /\ runtime # Empty
  /\ pc = "read runtime" => program # Empty
  /\ pc = "watch" /\ ~booted /\ toread \cap ProgramFile = {} => program # Empty
  /\ pc \in {"sleep", "head", "events", "run"} => booted
  /\ ~booted => "root" \notin towatch

TypeInv ==
  DiskTypes /\ NotifyTypes /\ ThreadTypes /\ InstanceTypes /\ SharedTypes /\ BootHasLoaded

LEMMA Types == TypeInv => TypeOK
BY DEF TypeInv, TypeOK, DiskTypes, NotifyTypes, ThreadTypes, InstanceTypes, SharedTypes,
       BootHasLoaded

LEMMA Loaded ==
  ASSUME NEW s \in [File -> Content]
  PROVE  /\ Restrict(s, ProgramFile) \in [ProgramFile -> Content]
         /\ Restrict(s, RuntimeFile) \in [RuntimeFile -> Content]
         /\ Restrict(s, ProgramFile) # Empty /\ Restrict(s, RuntimeFile) # Empty
<1>1. /\ Restrict(s, ProgramFile) = [f \in ProgramFile |-> s[f]]
      /\ Restrict(s, RuntimeFile) = [f \in RuntimeFile |-> s[f]]
  BY DEF Restrict
<1>2. DOMAIN Empty = {}
  BY DEF Empty
<1>3. DOMAIN Restrict(s, ProgramFile) # {} /\ DOMAIN Restrict(s, RuntimeFile) # {}
  BY <1>1 DEF ProgramFile, RuntimeFile
<1> QED BY <1>1, <1>2, <1>3, Dirs

LEMMA InitTypes == Init => TypeInv
<1> SUFFICES ASSUME Init PROVE TypeInv
  OBVIOUS
<1>1. 0 \in 0 .. MaxEdits
  BY ReloadAssumption
<1>2. Absent \in Content /\ [edit |-> 0, good |-> TRUE] \in Content
  BY <1>1 DEF Absent, Content
<1>3. DiskTypes
  BY <1>1, <1>2 DEF Init, DiskTypes, Dir
<1>4. NotifyTypes /\ InstanceTypes /\ SharedTypes
  <2>1. NotifyTypes
    BY DEF Init, NotifyTypes, Queue
  <2>2. InstanceTypes
    BY DEF Init, InstanceTypes, Fresh
  <2> QED BY <2>1, <2>2 DEF Init, SharedTypes
<1>5. ThreadTypes
  BY <1>2 DEF Init, ThreadTypes, All, Dir
<1>6. BootHasLoaded
  BY Dirs DEF Init, BootHasLoaded, ProgramFile
<1> QED BY <1>3, <1>4, <1>5, <1>6 DEF TypeInv

LEMMA EventTypes ==
  ASSUME events \in Queue, NEW dirs, Notify(dirs) \/ read_events
  PROVE  events' \in Queue
BY DEF Queue, Notify, Most, read_events

LEMMA PutTypes ==
  ASSUME DiskTypes, NEW files, Put(files)
  PROVE  disk' \in [File -> Content] /\ edits' \in 0 .. MaxEdits
<1>1. edits + 1 \in 0 .. MaxEdits
  BY ReloadAssumption DEF DiskTypes, Put
<1>2. \A good \in BOOLEAN : [edit |-> edits + 1, good |-> good] \in Content
  BY <1>1 DEF Content
<1>3. PICK good \in BOOLEAN :
        disk' = [f \in File |-> IF f \in files THEN [edit |-> edits + 1, good |-> good]
                                ELSE disk[f]]
  BY DEF Put
<1> QED BY <1>1, <1>2, <1>3 DEF DiskTypes, Put

LEMMA DeployTypes ==
  ASSUME TypeInv, Deploy
  PROVE  DiskTypes' /\ NotifyTypes' /\ UNCHANGED threadVars
<1> USE DEF TypeInv, NotifyTypes
<1>1. ASSUME NEW f \in File, Edit(f)
      PROVE  DiskTypes' /\ NotifyTypes' /\ UNCHANGED threadVars
  BY <1>1, PutTypes, EventTypes DEF Edit, DiskTypes
<1>2. ASSUME NEW d \in Dir, MoveAway(d)
      PROVE  DiskTypes' /\ NotifyTypes' /\ UNCHANGED threadVars
  <2>1. edits + 1 \in 0 .. MaxEdits /\ Absent \in Content
    BY <1>2, ReloadAssumption DEF MoveAway, DiskTypes, Absent, Content
  <2> QED BY <1>2, <2>1, EventTypes DEF MoveAway, DiskTypes
<1>3. ASSUME NEW d \in Dir, MoveIn(d)
      PROVE  DiskTypes' /\ NotifyTypes' /\ UNCHANGED threadVars
  <2>1. Within(d) \subseteq Dir
    BY DEF Within
  <2> QED BY <1>3, <2>1, PutTypes, EventTypes DEF MoveIn, DiskTypes
<1> QED BY <1>1, <1>2, <1>3 DEF Deploy

\* Each way of failing leaves the instance as it was, or as one that has trapped
\* and is marked.
LEMMA Failed ==
  ASSUME NEW i \in [trapped : BOOLEAN, failed : BOOLEAN], NEW j \in Failures(i)
  PROVE  j = i \/ (j \in [trapped : BOOLEAN, failed : BOOLEAN] /\ j.failed)
<1>1. \A k \in Called(i) \cup {i} :
        /\ Trap(k) \in [trapped : BOOLEAN, failed : BOOLEAN]
        /\ Mark(k) \in [trapped : BOOLEAN, failed : BOOLEAN] /\ Mark(k).failed
        /\ Mark(Trap(k)) \in [trapped : BOOLEAN, failed : BOOLEAN] /\ Mark(Trap(k)).failed
  BY DEF Called, Trap, Mark
<1>2. CASE j \in AllocFails(i) \cup {FreeResultFails(i)}
  BY <1>1, <1>2 DEF AllocFails, FreeResultFails
<1>3. ASSUME NEW k \in Called(i), j = FreeFails(k) \/ j = CallFails(k)
      PROVE  j = i \/ (j \in [trapped : BOOLEAN, failed : BOOLEAN] /\ j.failed)
  <2>1. j = FreeFails(k) => j = Mark(Trap(k))
    BY DEF FreeFails
  <2>2. CallFails(k) = Mark(k) \/ (CallFails(k) = k /\ ~k.trapped)
    BY DEF CallFails
  <2>3. k = i \/ k.trapped
    BY DEF Called, Trap
  <2> QED BY <1>1, <1>3, <2>1, <2>2, <2>3
<1> QED BY <1>2, <1>3 DEF Failures

\* A call fails in an instance as it was, or in one that is marked; when it
\* succeeds, the instance had not been marked before.
LEMMA Calls ==
  ASSUME InstanceTypes, NEW call \in json_call
  PROVE  \E i \in Instances :
           /\ i \in [trapped : BOOLEAN, failed : BOOLEAN]
           /\ \/ call.instance = i /\ (call.ok => ~i.failed)
              \/ /\ ~call.ok
                 /\ call.instance \in [trapped : BOOLEAN, failed : BOOLEAN]
                 /\ call.instance.failed
<1>1. \A i \in Instances : i \in [trapped : BOOLEAN, failed : BOOLEAN]
  <2>1. Fresh \in [trapped : BOOLEAN, failed : BOOLEAN]
    BY DEF Fresh
  <2> QED BY <2>1 DEF Instances, InstanceTypes
<1>2. PICK i \in Instances :
        call \in IF i.failed THEN {[ok |-> FALSE, instance |-> i]}
                ELSE {[ok |-> TRUE, instance |-> i]}
                       \cup {[ok |-> FALSE, instance |-> j] : j \in Failures(i)}
  BY DEF json_call
<1>3. i \in [trapped : BOOLEAN, failed : BOOLEAN]
  BY <1>1
<1>4. CASE call = [ok |-> FALSE, instance |-> i]
  BY <1>3, <1>4
<1>5. CASE ~i.failed /\ call = [ok |-> TRUE, instance |-> i]
  BY <1>3, <1>5
<1>6. ASSUME NEW j \in Failures(i), call = [ok |-> FALSE, instance |-> j]
      PROVE  \/ call.instance = i /\ ~call.ok
             \/ /\ ~call.ok
                /\ call.instance \in [trapped : BOOLEAN, failed : BOOLEAN]
                /\ call.instance.failed
  BY <1>3, <1>6, Failed
<1>7. \/ call = [ok |-> FALSE, instance |-> i]
      \/ ~i.failed /\ call = [ok |-> TRUE, instance |-> i]
      \/ \E j \in Failures(i) : call = [ok |-> FALSE, instance |-> j]
  BY <1>2
<1> QED BY <1>3, <1>4, <1>5, <1>6, <1>7

LEMMA CallTypes ==
  ASSUME InstanceTypes, NEW call \in json_call
  PROVE  call.instance \in [trapped : BOOLEAN, failed : BOOLEAN]
BY Calls

LEMMA RestartTypes ==
  ASSUME TypeInv, Restart
  PROVE  TypeInv'
<1>1. Absent \in Content
  BY ReloadAssumption DEF Absent, Content
<1>2. ThreadTypes'
  BY <1>1 DEF Restart, ThreadTypes, All, Dir
<1>3. DiskTypes' /\ NotifyTypes' /\ InstanceTypes' /\ SharedTypes'
  <2>1. DiskTypes'
    BY DEF TypeInv, Restart, diskVars, DiskTypes
  <2>2. NotifyTypes'
    BY DEF Restart, NotifyTypes, Queue
  <2>3. InstanceTypes'
    BY DEF Restart, InstanceTypes, Fresh
  <2> QED BY <2>1, <2>2, <2>3 DEF Restart, SharedTypes
<1>4. BootHasLoaded'
  BY DEF Restart, BootHasLoaded, ProgramFile, File
<1> QED BY <1>2, <1>3, <1>4 DEF TypeInv

LEMMA NotifyThreadTypes ==
  ASSUME TypeInv, Thread
  PROVE  DiskTypes' /\ NotifyTypes'
<1> USE DEF TypeInv, DiskTypes, NotifyTypes, diskVars, notifyVars
<1>1. ASSUME NEW d \in All, watch_dir(d) PROVE DiskTypes' /\ NotifyTypes'
  BY <1>1 DEF watch_dir
<1>2. CASE Settle
  BY <1>2, EventTypes DEF Settle
<1>3. CASE LookAtEvents
  BY <1>3, EventTypes DEF LookAtEvents
<1>4. CASE Watched \/ (\E f \in File : ReadFile(f)) \/ Load \/ Refuse \/ Read
  BY <1>4 DEF Watched, ReadFile, Load, Refuse, Read
<1>5. CASE TakeCookie \/ refresh_cookie \/ Fail \/ Succeed
  BY <1>5 DEF TakeCookie, refresh_cookie, Fail, Succeed
<1> QED BY <1>1, <1>2, <1>3, <1>4, <1>5 DEF Thread

LEMMA ThreadThreadTypes ==
  ASSUME TypeInv, Thread
  PROVE  ThreadTypes'
<1> USE DEF TypeInv, ThreadTypes, fileVars
<1>1. ASSUME NEW d \in All, watch_dir(d) PROVE ThreadTypes'
  <2>1. late' \subseteq Dir
    BY <1>1 DEF watch_dir, BootHasLoaded, All
  <2> QED BY <1>1, <2>1 DEF watch_dir
<1>2. CASE Watched
  BY <1>2 DEF Watched, history
<1>3. CASE Settle
  BY <1>3 DEF Settle, history
<1>4. ASSUME NEW f \in File, ReadFile(f) PROVE ThreadTypes'
  BY <1>4 DEF ReadFile, DiskTypes, history
<1>5. CASE Load
  <2>1. Within("runtime") \subseteq All
    BY DEF Within, Dir, All
  <2> QED BY <1>5, <2>1, Loaded DEF Load, NextRead
<1>6. CASE Refuse
  <2>1. Within("runtime") \subseteq All
    BY DEF Within, Dir, All
  <2> QED BY <1>6, <2>1 DEF Refuse, NextRead
<1>7. CASE Read
  BY <1>7, Loaded DEF Read, history
<1>8. CASE TakeCookie \/ refresh_cookie
  BY <1>8 DEF TakeCookie, refresh_cookie, history
<1>9. CASE LookAtEvents
  BY <1>9 DEF LookAtEvents, history
<1>10. CASE Fail \/ Succeed
  BY <1>10 DEF Fail, Succeed, history
<1> QED BY <1>1, <1>2, <1>3, <1>4, <1>5, <1>6, <1>7, <1>8, <1>9, <1>10 DEF Thread

LEMMA InstanceThreadTypes ==
  ASSUME TypeInv, Thread
  PROVE  InstanceTypes'
<1> USE DEF TypeInv, InstanceTypes
<1>1. CASE Fail \/ Succeed
  BY <1>1, CallTypes DEF Fail, Succeed
<1>2. CASE Load
  BY <1>2 DEF Load, Fresh
<1>3. CASE \/ (\E d \in All : watch_dir(d)) \/ Watched \/ Settle
           \/ (\E f \in File : ReadFile(f)) \/ Refuse \/ Read
           \/ TakeCookie \/ refresh_cookie \/ LookAtEvents
  BY <1>3 DEF watch_dir, Watched, Settle, ReadFile, Refuse, Read, TakeCookie,
              refresh_cookie, LookAtEvents
<1> QED BY <1>1, <1>2, <1>3 DEF Thread

LEMMA SharedThreadTypes ==
  ASSUME TypeInv, Thread
  PROVE  SharedTypes'
<1> USE DEF TypeInv, SharedTypes, sharedVars, history
<1>1. CASE Load \/ Refuse
  BY <1>1 DEF Load, Refuse, Report
<1>2. CASE Fail \/ Succeed
  BY <1>2 DEF Fail, Succeed
<1>3. CASE \/ (\E d \in All : watch_dir(d)) \/ Watched \/ Settle
           \/ (\E f \in File : ReadFile(f)) \/ Read
           \/ TakeCookie \/ refresh_cookie \/ LookAtEvents
  BY <1>3 DEF watch_dir, Watched, Settle, ReadFile, Read, TakeCookie, refresh_cookie,
              LookAtEvents
<1> QED BY <1>1, <1>2, <1>3 DEF Thread

LEMMA ThreadBoot ==
  ASSUME TypeInv, Thread
  PROVE  BootHasLoaded'
<1> USE DEF TypeInv, BootHasLoaded, fileVars
<1>1. ASSUME NEW d \in All, watch_dir(d) PROVE BootHasLoaded'
  BY <1>1 DEF watch_dir
<1>2. CASE Watched
  BY <1>2 DEF Watched
<1>3. CASE Settle
  BY <1>3 DEF Settle
<1>4. ASSUME NEW f \in File, ReadFile(f) PROVE BootHasLoaded'
  BY <1>4 DEF ReadFile
<1>5. CASE Load
  <2>1. "root" \notin Within("runtime")
    BY DEF Within, Dir
  <2> QED BY <1>5, <2>1, Loaded DEF Load, NextRead, ThreadTypes
<1>6. CASE Refuse
  BY <1>6 DEF Refuse, HasProgram, NextRead
<1>7. CASE Read
  BY <1>7, Loaded DEF Read, ThreadTypes
<1>8. CASE TakeCookie \/ refresh_cookie \/ LookAtEvents \/ Fail \/ Succeed
  BY <1>8 DEF TakeCookie, refresh_cookie, LookAtEvents, Fail, Succeed
<1> QED BY <1>1, <1>2, <1>3, <1>4, <1>5, <1>6, <1>7, <1>8 DEF Thread

LEMMA NextTypes == TypeInv /\ [Next]_vars => TypeInv'
<1> SUFFICES ASSUME TypeInv, [Next]_vars PROVE TypeInv'
  OBVIOUS
<1>1. CASE Deploy
  <2>1. UNCHANGED threadVars
    BY <1>1, DeployTypes
  <2>2. ThreadTypes' /\ BootHasLoaded'
    BY <2>1 DEF TypeInv, threadVars, fileVars, history, ThreadTypes, BootHasLoaded
  <2>3. InstanceTypes' /\ SharedTypes'
    BY <2>1 DEF TypeInv, threadVars, sharedVars, history, InstanceTypes, SharedTypes
  <2> QED BY <1>1, <2>2, <2>3, DeployTypes DEF TypeInv
<1>2. CASE Thread
  BY <1>2, NotifyThreadTypes, ThreadThreadTypes, InstanceThreadTypes, SharedThreadTypes,
     ThreadBoot DEF TypeInv
<1>3. CASE Exit \/ Alarm
  BY <1>3, RestartTypes DEF Exit, Alarm
<1>4. CASE Poll
  <2>1. PICK leads \in BOOLEAN, same \in BOOLEAN : update_election(leads, same)
    BY <1>4 DEF Poll
  <2>2. UNCHANGED <<diskVars, notifyVars, pc, booted, fileVars, instance, late>>
    BY <2>1 DEF update_election
  <2>3. SharedTypes'
    BY <2>1 DEF TypeInv, SharedTypes, update_election, ErrorsOf
  <2>4. cookie' \in {"none", "fresh", "over"}
    BY <2>1 DEF TypeInv, ThreadTypes, update_election
  <2>5. ThreadTypes' /\ BootHasLoaded'
    BY <2>2, <2>4 DEF TypeInv, fileVars, ThreadTypes, BootHasLoaded
  <2>6. DiskTypes' /\ NotifyTypes' /\ InstanceTypes'
    BY <2>2 DEF TypeInv, diskVars, notifyVars, DiskTypes, NotifyTypes, InstanceTypes
  <2> QED BY <2>3, <2>5, <2>6 DEF TypeInv
<1>5. CASE PublishState
  <2>1. SharedTypes'
    BY <1>5 DEF TypeInv, SharedTypes, PublishState, history
  <2>2. DiskTypes' /\ NotifyTypes' /\ InstanceTypes'
    BY <1>5 DEF PublishState, TypeInv, diskVars, notifyVars, DiskTypes, NotifyTypes,
                InstanceTypes
  <2>3. ThreadTypes' /\ BootHasLoaded'
    BY <1>5 DEF PublishState, TypeInv, fileVars, history, ThreadTypes, BootHasLoaded
  <2> QED BY <2>1, <2>2, <2>3 DEF TypeInv
<1>6. CASE UNCHANGED vars
  <2>1. DiskTypes' /\ NotifyTypes' /\ InstanceTypes' /\ SharedTypes'
    BY <1>6 DEF TypeInv, vars, diskVars, notifyVars, sharedVars, history, DiskTypes,
                NotifyTypes, InstanceTypes, SharedTypes
  <2>2. ThreadTypes' /\ BootHasLoaded'
    BY <1>6 DEF TypeInv, vars, fileVars, history, ThreadTypes, BootHasLoaded
  <2> QED BY <2>1, <2>2 DEF TypeInv
<1> QED BY <1>1, <1>2, <1>3, <1>4, <1>5, <1>6 DEF Next

LEMMA TypeInvariant == Spec => []TypeInv
BY InitTypes, NextTypes, PTL DEF Spec

\* The types hold, whatever is deployed and whatever alarms go off.
THEOREM ReloadTypes == Spec => []TypeOK
BY TypeInvariant, Types, PTL

-----------------------------------------------------------------------------
(* An instance that has trapped is marked, so that no later call uses it.  *)

TrapIsMarked == instance.trapped => instance.failed

LEMMA CallIsClean ==
  ASSUME InstanceTypes, TrapIsMarked, NEW call \in json_call
  PROVE  /\ call.instance.trapped => call.instance.failed
         /\ call.ok => ~call.instance.trapped
<1>1. \A i \in Instances : i.trapped => i.failed
  BY DEF Instances, TrapIsMarked, Fresh
<1> QED BY <1>1, Calls

LEMMA TrapStep == TypeInv /\ TrapIsMarked /\ [Next]_vars => TrapIsMarked'
<1> SUFFICES ASSUME TypeInv, TrapIsMarked, [Next]_vars PROVE TrapIsMarked'
  OBVIOUS
<1>1. CASE Fail \/ Succeed
  BY <1>1, CallIsClean DEF TypeInv, Fail, Succeed, TrapIsMarked
<1>2. CASE Load \/ Exit \/ Alarm
  <2>1. instance' = Fresh
    BY <1>2 DEF Load, Exit, Alarm, Restart
  <2> QED BY <2>1 DEF Fresh, TrapIsMarked
<1>3. CASE \/ (\E d \in All : watch_dir(d)) \/ Watched \/ Settle
           \/ (\E f \in File : ReadFile(f)) \/ Refuse \/ Read
           \/ TakeCookie \/ refresh_cookie \/ LookAtEvents
  BY <1>3 DEF TrapIsMarked, watch_dir, Watched, Settle, ReadFile, Refuse, Read, TakeCookie,
              refresh_cookie, LookAtEvents
<1>4. CASE Deploy
  BY <1>4, DeployTypes DEF threadVars, TrapIsMarked
<1>5. CASE Poll \/ PublishState \/ UNCHANGED vars
  BY <1>5 DEF Poll, update_election, PublishState, vars, TrapIsMarked
<1> QED BY <1>1, <1>2, <1>3, <1>4, <1>5 DEF Next, Thread

\* No schedule comes from an instance in which a call has trapped: whatever
\* export of the program traps, the next call runs in another instance.
THEOREM NoRunIsTrapped == Spec => RunsAreClean
<1>1. Init => TrapIsMarked
  BY DEF Init, TrapIsMarked, Fresh
<1>2. TypeInv /\ TrapIsMarked /\ [Next]_vars => [pc = "run" /\ pc' = "sleep" => ~instance'.trapped]_vars
  <2> SUFFICES ASSUME TypeInv, TrapIsMarked, Next, pc = "run", pc' = "sleep"
               PROVE  ~instance'.trapped
    OBVIOUS
  <2>1. Succeed
    <3>1. ~Deploy
      BY DeployTypes DEF threadVars
    <3>2. ~Exit /\ ~Alarm /\ ~Poll /\ ~PublishState
      BY DEF Exit, Alarm, Restart, Poll, update_election, PublishState
    <3>3. Thread
      BY <3>1, <3>2 DEF Next
    <3> QED BY <3>3 DEF Thread, watch_dir, Watched, Settle, ReadFile, Load, Refuse, Read,
               TakeCookie, refresh_cookie, LookAtEvents, Fail
  <2> QED BY <2>1, CallIsClean DEF TypeInv, Succeed
<1> QED BY <1>1, <1>2, TrapStep, TypeInvariant, PTL DEF Spec, RunsAreClean

-----------------------------------------------------------------------------
(* A refused program is shown.                                             *)

\* Once the program has been read, and until it is read again: the step from
\* reading to using it is where the error is set.
ShownInv ==
  pc # "read scheduler" /\ (booted \/ toread \cap ProgramFile = {})
    => \/ program = Restrict(seen, ProgramFile)
       \/ "scheduler_load" \in errors
       \/ forgotten

LEMMA ShownStep == TypeInv /\ ShownInv /\ [Next]_vars => ShownInv'
<1> SUFFICES ASSUME TypeInv, ShownInv, [Next]_vars PROVE ShownInv'
  OBVIOUS
<1> USE DEF ShownInv, fileVars, sharedVars, history
<1>1. CASE Deploy
  BY <1>1, DeployTypes DEF threadVars
<1>2. CASE (\E d \in All : watch_dir(d)) \/ Watched \/ Settle
  BY <1>2 DEF watch_dir, Watched, Settle
<1>3. ASSUME NEW f \in File, ReadFile(f) PROVE ShownInv'
  <2>1. CASE pc = "read scheduler"
    BY <1>3, <2>1 DEF ReadFile
  <2>2. CASE f \in RuntimeFile
    <3>1. f \notin ProgramFile
      BY <2>2 DEF ProgramFile, RuntimeFile
    <3>2. Restrict(seen', ProgramFile) = Restrict(seen, ProgramFile)
      BY <1>3, <3>1, Dirs DEF ReadFile, Restrict, TypeInv, ThreadTypes
    <3>3. toread' \cap ProgramFile = toread \cap ProgramFile
      BY <1>3, <3>1 DEF ReadFile
    <3> QED BY <1>3, <3>2, <3>3 DEF ReadFile
  <2> QED BY <1>3, <2>1, <2>2 DEF ReadFile
<1>4. CASE Load
  BY <1>4 DEF Load
<1>5. CASE Refuse
  BY <1>5 DEF Refuse, Report
<1>6. CASE Read
  BY <1>6 DEF Read, TypeInv, ThreadTypes
<1>7. CASE TakeCookie \/ refresh_cookie \/ LookAtEvents \/ Fail \/ Succeed
  BY <1>7 DEF TakeCookie, refresh_cookie, LookAtEvents, Fail, Succeed
<1>8. CASE Poll
  <2>1. PICK leads \in BOOLEAN, same \in BOOLEAN : update_election(leads, same)
    BY <1>8 DEF Poll
  <2>2. "scheduler_load" \in errors => "scheduler_load" \in errors' \/ forgotten'
    BY <2>1 DEF update_election, ErrorsOf
  <2>3. forgotten => forgotten'
    BY <2>1 DEF update_election
  <2> QED BY <2>1, <2>2, <2>3 DEF update_election
<1>9. CASE Exit \/ Alarm
  BY <1>9, Dirs DEF Exit, Alarm, Restart, ProgramFile
<1>10. CASE PublishState \/ UNCHANGED vars
  BY <1>10 DEF PublishState, vars
<1> QED BY <1>1, <1>2, <1>3, <1>4, <1>5, <1>6, <1>7, <1>8, <1>9, <1>10 DEF Next, Thread

\* A node that runs another program than the one it has read last shows that
\* it was refused, or has forgotten it with its leadership.
THEOREM RefusalsAreShown == Spec => []RefusedIsShown
<1>1. Init => ShownInv
  BY Dirs DEF Init, ShownInv, ProgramFile
<1>2. TypeInv /\ ShownInv => RefusedIsShown
  BY DEF TypeInv, BootHasLoaded, ShownInv, RefusedIsShown
<1> QED BY <1>1, <1>2, ShownStep, TypeInvariant, PTL DEF Spec

-----------------------------------------------------------------------------
(* No change escapes the thread.                                           *)

\* Until the program has been read for the first time, the walk of the runtime
\* is still to come.
FirstWalk ==
  ~booted /\ \/ pc = "watch" /\ toread \cap ProgramFile # {}
             \/ pc = "read scheduler"

Unwatched == towatch \cup IF FirstWalk THEN Within("runtime") ELSE {}

\* A directory that is there tells of its own changes, and one that is not is
\* told of by the directory that it would be in.
Reached(d) ==
  IF d \in present THEN d \in watched
                   ELSE Parent(d) \in watched \/ Parent(d) \notin present \cup {"root"}

Heard(d) == d \in Unwatched \/ events > 0 \/ Deaf(d) \/ Deaf(Parent(d)) \/ Reached(d)

HeardInv == \A d \in Dir : Heard(d)

\* The walk goes down the tree, and starts at the root when it is not the first.
WalkInv ==
  /\ pc # "watch" => towatch = {}
  /\ ~booted => "root" \notin watched \cup towatch
  /\ pc = "watch" /\ booted => "root" \in towatch \cup watched
  /\ "runtime" \in Unwatched => "version" \in Unwatched
  /\ "root" \in towatch => towatch = All
  /\ ~booted => \A f \in File : DirOf(f) \in Unwatched => f \in toread

NoticeInv == HeardInv /\ WalkInv /\ NoChangeIsMissed

LEMMA Trees ==
  /\ Within("runtime") = {"runtime", "version"}
  /\ Within("version") = {"version"}
  /\ Within("scheduler") = {"scheduler"}
  /\ Parent("version") = "runtime"
  /\ Parent("runtime") = "root" /\ Parent("scheduler") = "root"
  /\ \A f \in ProgramFile : DirOf(f) = "scheduler"
  /\ \A f \in RuntimeFile : DirOf(f) = "version" /\ f \notin ProgramFile
BY DEF Within, Dir, Parent, DirOf, ProgramFile, RuntimeFile

LEMMA InitNotice == Init => NoticeInv
<1> SUFFICES ASSUME Init PROVE NoticeInv
  OBVIOUS
<1>1. toread \cap ProgramFile # {} /\ ~booted
  BY Dirs DEF Init, ProgramFile
<1>2. Unwatched = Dir
  BY <1>1, Trees DEF Init, Unwatched, FirstWalk, Dir
<1>3. HeardInv
  BY <1>2 DEF HeardInv, Heard
<1>4. WalkInv
  BY <1>2, Dirs DEF Init, WalkInv, Dir
<1>5. NoChangeIsMissed
  BY DEF Init, NoChangeIsMissed
<1> QED BY <1>3, <1>4, <1>5 DEF NoticeInv

\* A process that has started again has everything before it.
LEMMA RestartNotice == Restart => NoticeInv'
<1> SUFFICES ASSUME Restart PROVE NoticeInv'
  OBVIOUS
<1>1. toread' \cap ProgramFile # {} /\ ~booted'
  BY Dirs DEF Restart, ProgramFile
<1>2. Unwatched' = Dir
  BY <1>1, Trees DEF Restart, Unwatched, FirstWalk, Dir
<1>3. HeardInv'
  BY <1>2 DEF HeardInv, Heard
<1>4. WalkInv'
  BY <1>2, Dirs DEF Restart, WalkInv, Dir
<1>5. NoChangeIsMissed'
  BY DEF Restart, NoChangeIsMissed
<1> QED BY <1>3, <1>4, <1>5 DEF NoticeInv

LEMMA NotifyHears ==
  ASSUME TypeInv, NEW dirs, Notify(dirs)
  PROVE  /\ events > 0 => events' > 0
         /\ dirs \cap watched # {} => events' > 0
BY DEF Notify, Most, Queue, TypeInv, NotifyTypes

\* What happens on the disk leaves the thread and its walk alone.
LEMMA DeployWalk ==
  ASSUME TypeInv, WalkInv, Deploy, watched' \subseteq watched,
         "root" \in watched => "root" \in watched'
  PROVE  WalkInv' /\ Unwatched' = Unwatched
<1>1. UNCHANGED <<pc, booted, towatch, toread>>
  BY DeployTypes DEF threadVars, fileVars
<1>2. Unwatched' = Unwatched
  BY <1>1 DEF Unwatched, FirstWalk
<1> QED BY <1>1, <1>2 DEF WalkInv

\* The files of a directory that is heard of may change, when who changes them
\* also tells whoever could hear.
LEMMA ChangeIsHeard ==
  ASSUME TypeInv, NoticeInv, UNCHANGED threadVars,
         "root" \in watched' <=> "root" \in watched,
         NEW d \in Dir, NEW dirs, Notify(dirs), Reached(d) => dirs \cap watched # {},
         \A f \in File : f \notin FilesIn(d) => disk'[f] = disk[f]
  PROVE  NoChangeIsMissed'
<1> USE DEF threadVars, fileVars, history
<1>1. WillReload => WillReload'
  BY NotifyHears DEF WillReload
<1>2. WillExit' = WillExit
  BY DEF WillExit
<1>3. \A e : Deaf(e)' = Deaf(e)
  BY DEF Deaf
<1> SUFFICES ASSUME NEW f \in File
             PROVE  \/ seen'[f] = disk'[f] \/ f \in toread' \/ WillReload' \/ WillExit'
                    \/ \E e \in Dir : Deaf(e)' /\ f \in FilesIn(e)
  BY DEF NoChangeIsMissed
<1>4. CASE f \notin FilesIn(d)
  BY <1>1, <1>2, <1>3, <1>4 DEF NoticeInv, NoChangeIsMissed
<1>5. CASE f \in FilesIn(d)
  <2>1. Heard(d)
    BY DEF NoticeInv, HeardInv
  <2>2. CASE d \in Unwatched
    <3>1. CASE booted
      BY <2>2, <3>1, <1>1 DEF Unwatched, FirstWalk, NoticeInv, WalkInv, WillReload
    <3>2. CASE ~booted
      <4>1. DirOf(f) \in Unwatched
        BY <1>5, <2>2, Trees DEF FilesIn, NoticeInv, WalkInv, Dir
      <4> QED BY <3>2, <4>1 DEF NoticeInv, WalkInv
    <3> QED BY <3>1, <3>2
  <2>3. CASE events > 0
    BY <2>3, NotifyHears DEF WillReload
  <2>4. CASE Deaf(d)
    BY <2>4, <1>3, <1>5
  <2>5. CASE Deaf(Parent(d))
    <3>1. Parent(d) \in Dir
      BY <2>5 DEF Deaf, TypeInv, ThreadTypes
    <3>2. f \in FilesIn(Parent(d))
      BY <1>5, <3>1, Trees, Dirs DEF FilesIn, Dir
    <3> QED BY <2>5, <3>1, <3>2, <1>3
  <2>6. CASE Reached(d)
    BY <2>6, NotifyHears DEF WillReload
  <2> QED BY <2>1, <2>2, <2>3, <2>4, <2>5, <2>6 DEF Heard
<1> QED BY <1>4, <1>5

LEMMA EditNotice ==
  ASSUME TypeInv, NoticeInv, NEW f \in File, Edit(f)
  PROVE  NoticeInv'
<1>1. UNCHANGED <<present, watched, threadVars>> /\ Notify({DirOf(f)})
  BY DEF Edit
<1>2. WalkInv' /\ Unwatched' = Unwatched
  BY <1>1, DeployWalk DEF NoticeInv, Edit, Deploy
<1>3. HeardInv'
  BY <1>1, <1>2, NotifyHears DEF NoticeInv, HeardInv, Heard, Deaf, Reached, threadVars, history
<1>4. NoChangeIsMissed'
  <2>1. DirOf(f) \in Dir /\ f \in FilesIn(DirOf(f))
    BY Dirs DEF FilesIn, Within
  <2>2. \A g \in File : g # f => disk'[g] = disk[g]
    BY DEF Edit, Put
  <2>3. Reached(DirOf(f)) => {DirOf(f)} \cap watched # {}
    BY DEF Edit, Reached
  <2> QED BY <1>1, <2>1, <2>2, <2>3, ChangeIsHeard
<1> QED BY <1>2, <1>3, <1>4 DEF NoticeInv

LEMMA MoveAwayNotice ==
  ASSUME TypeInv, NoticeInv, NEW d \in Dir, MoveAway(d)
  PROVE  NoticeInv'
<1>1. UNCHANGED threadVars /\ Notify({d, Parent(d)}) /\ d \in present
  BY DEF MoveAway
<1>2. present' = present \ Within(d) /\ watched' = watched \ Within(d)
  BY DEF MoveAway
<1>3. "root" \in watched' <=> "root" \in watched
  BY <1>2, Dirs DEF Within
<1>4. WalkInv' /\ Unwatched' = Unwatched
  BY <1>1, <1>2, <1>3, DeployWalk DEF NoticeInv, Deploy
<1>5. ASSUME NEW e \in Dir PROVE Heard(e)'
  <2>1. Deaf(e)' = Deaf(e) /\ Deaf(Parent(e))' = Deaf(Parent(e))
    BY <1>1, <1>3 DEF Deaf, threadVars, history
  <2>2. CASE e \notin Within(d)
    <3>1. Parent(e) \notin Within(d)
      BY <2>2, Trees, Dirs DEF Dir
    <3>2. Reached(e) => Reached(e)'
      BY <1>2, <2>2, <3>1 DEF Reached
    <3>3. Heard(e)
      BY DEF NoticeInv, HeardInv
    <3> QED BY <1>1, <1>4, <2>1, <3>2, <3>3, NotifyHears DEF Heard
  <2>3. CASE e = d
    <3>1. Heard(d)
      BY DEF NoticeInv, HeardInv
    <3>2. Reached(d) => events' > 0
      BY <1>1, NotifyHears DEF Reached
    <3> QED BY <1>1, <1>4, <2>1, <2>3, <3>1, <3>2, NotifyHears DEF Heard
  <2>4. CASE e \in Within(d) /\ e # d
    <3>1. Parent(e) = d /\ d \in Within(d)
      BY <2>4 DEF Within
    <3>2. Reached(e)'
      BY <1>2, <2>4, <3>1, Dirs DEF Reached
    <3> QED BY <3>2 DEF Heard
  <2> QED BY <2>2, <2>3, <2>4
<1>6. NoChangeIsMissed'
  <2>1. \A f \in File : f \notin FilesIn(d) => disk'[f] = disk[f]
    BY DEF MoveAway, TypeInv, DiskTypes
  <2>2. Reached(d) => {d, Parent(d)} \cap watched # {}
    BY <1>1 DEF Reached
  <2> QED BY <1>1, <1>3, <2>1, <2>2, ChangeIsHeard
<1> QED BY <1>4, <1>5, <1>6 DEF NoticeInv, HeardInv

LEMMA MoveInNotice ==
  ASSUME TypeInv, NoticeInv, NEW d \in Dir, MoveIn(d)
  PROVE  NoticeInv'
<1>1. PICK dirs \in {{d}, Within(d)} :
        present' = present \cup dirs /\ Put({f \in File : DirOf(f) \in dirs})
  BY DEF MoveIn
<1>2. UNCHANGED <<watched, threadVars>> /\ Notify({Parent(d)})
  BY DEF MoveIn
<1>3. d \notin present /\ Parent(d) \in present \cup {"root"}
  BY DEF MoveIn
<1>4. WalkInv' /\ Unwatched' = Unwatched
  BY <1>2, DeployWalk DEF NoticeInv, Deploy
<1>5. dirs \subseteq Within(d) /\ d \in dirs
  BY <1>1 DEF Within
<1>6. ~Deaf("root") /\ \A e : Deaf(e)' = Deaf(e)
  BY <1>2, Dirs DEF Deaf, threadVars, history, TypeInv, ThreadTypes
<1>7. Heard(d) /\ (Reached(d) => Parent(d) \in watched)
  BY <1>3 DEF NoticeInv, HeardInv, Reached
<1>8. Heard(d)'
  BY <1>2, <1>4, <1>6, <1>7, NotifyHears DEF Heard
<1>9. ASSUME NEW e \in Dir PROVE Heard(e)'
  <2>1. CASE e = d
    BY <1>8, <2>1
  <2>2. CASE e # d /\ Parent(e) = d
    <3>1. d = "runtime" /\ e = "version" /\ Parent(d) = "root"
      BY <2>2, Trees DEF Dir
    <3>2. d \in Unwatched => e \in Unwatched
      BY <3>1 DEF NoticeInv, WalkInv
    <3>3. CASE Parent(d) \in watched
      BY <3>3, <1>2, NotifyHears DEF Heard
    <3>4. CASE Parent(d) \notin watched
      BY <3>1, <3>2, <3>4, <1>2, <1>4, <1>6, <1>7, <2>2, NotifyHears DEF Heard
    <3> QED BY <3>3, <3>4
  <2>3. CASE e # d /\ Parent(e) # d
    <3>1. e \notin dirs /\ Parent(e) \notin dirs
      BY <1>5, <2>3, Trees, Dirs DEF Within, Dir
    <3>2. Heard(e)
      BY DEF NoticeInv, HeardInv
    <3>3. Reached(e)' = Reached(e)
      BY <1>1, <1>2, <3>1 DEF Reached
    <3> QED BY <1>2, <1>4, <1>6, <3>2, <3>3, NotifyHears DEF Heard
  <2> QED BY <2>1, <2>2, <2>3
<1>10. NoChangeIsMissed'
  <2>1. \A f \in File : f \notin FilesIn(d) => disk'[f] = disk[f]
    BY <1>1, <1>5 DEF Put, FilesIn
  <2>2. Reached(d) => {Parent(d)} \cap watched # {}
    BY <1>7
  <2> QED BY <1>2, <2>1, <2>2, ChangeIsHeard
<1> QED BY <1>4, <1>9, <1>10 DEF NoticeInv, HeardInv

-----------------------------------------------------------------------------
(* The thread hears of everything that it does not read again.             *)

\* A directory leaves the walk when it is watched, or was not there.
LEMMA WatchHears ==
  ASSUME TypeInv, NoticeInv, NEW d \in All, watch_dir(d), NEW e \in Dir
  PROVE  Heard(e)'
<1>1. /\ pc = "watch" /\ d \in towatch
      /\ d = "root" \/ Parent(d) \notin towatch
      /\ towatch' = towatch \ {d}
      /\ watched' = IF d \in present \cup {"root"} THEN watched \cup {d} ELSE watched
      /\ late' = IF booted THEN late ELSE late \cup ({d} \ present)
      /\ UNCHANGED <<present, events, pc, booted, toread>>
  BY DEF watch_dir, MayWatch, diskVars
<1>2. Unwatched \ {d} \subseteq Unwatched' /\ FirstWalk' = FirstWalk
  BY <1>1 DEF Unwatched, FirstWalk
<1>3. Heard(e) /\ (Reached(e) => Reached(e)')
  BY <1>1 DEF NoticeInv, HeardInv, Reached
<1>4. CASE d = "root"
  <2>1. e \in towatch'
    BY <1>1, <1>4, Dirs DEF NoticeInv, WalkInv, All
  <2> QED BY <2>1 DEF Heard, Unwatched
<1>5. CASE d # "root" /\ e # d
  <2>1. \A x : Deaf(x) => Deaf(x)'
    BY <1>1, <1>5 DEF Deaf
  <2> QED BY <1>1, <1>2, <1>3, <1>5, <2>1 DEF Heard
<1>6. CASE d # "root" /\ e = d /\ d \in present
  BY <1>1, <1>6 DEF Heard, Reached
<1>7. CASE d # "root" /\ e = d /\ d \notin present /\ Parent(d) = "root"
  <2>1. CASE booted
    <3>1. "root" \in watched
      BY <1>1, <1>7, <2>1 DEF NoticeInv, WalkInv
    <3> QED BY <1>1, <1>7, <3>1 DEF Heard, Reached
  <2>2. CASE ~booted
    BY <1>1, <1>7, <2>2 DEF Heard, Deaf, NoticeInv, WalkInv
  <2> QED BY <2>1, <2>2 DEF TypeInv, ThreadTypes
<1>8. CASE d # "root" /\ e = d /\ d \notin present /\ Parent(d) # "root"
  <2>1. d = "version" /\ Parent(d) = "runtime" /\ Parent("runtime") = "root"
    BY <1>8, Trees DEF Dir
  <2>2. CASE FirstWalk
    BY <1>2, <1>8, <2>1, <2>2, Trees DEF Heard, Unwatched
  <2>3. CASE ~FirstWalk
    <3>1. "runtime" \in Dir /\ "runtime" \notin Unwatched
      BY <1>1, <1>8, <2>1, <2>3 DEF Unwatched, Dir
    <3>2. events > 0 \/ Deaf("runtime") \/ Reached("runtime")
      BY <2>1, <3>1, Dirs DEF NoticeInv, HeardInv, Heard, Deaf, TypeInv, ThreadTypes
    <3>3. Deaf("runtime") => Deaf("runtime")'
      BY <1>1, <1>8 DEF Deaf
    <3>4. Reached("runtime") => Reached(d)'
      BY <1>1, <1>8, <2>1, Dirs DEF Reached
    <3> QED BY <1>1, <1>8, <2>1, <3>2, <3>3, <3>4 DEF Heard
  <2> QED BY <2>2, <2>3
<1> QED BY <1>4, <1>5, <1>6, <1>7, <1>8

\* Steps that leave the disk, the watches and the queue alone, and the walk as
\* it was.
LEMMA SameHears ==
  ASSUME HeardInv, UNCHANGED <<diskVars, watched, late>>, Unwatched \subseteq Unwatched',
         events > 0 => events' > 0
  PROVE  HeardInv'
BY DEF HeardInv, Heard, Deaf, Reached, diskVars

LEMMA SameMissed ==
  ASSUME NoChangeIsMissed, UNCHANGED <<diskVars, watched, late, seen>>,
         WillReload => WillReload', WillExit => WillExit', toread \subseteq toread'
  PROVE  NoChangeIsMissed'
BY DEF NoChangeIsMissed, Deaf, diskVars

LEMMA WatchNotice ==
  ASSUME TypeInv, NoticeInv, NEW d \in All, watch_dir(d)
  PROVE  NoticeInv'
<1>1. HeardInv'
  BY WatchHears DEF HeardInv
<1>2. WalkInv'
  <2>1. /\ pc = "watch" /\ d \in towatch
        /\ d = "root" \/ Parent(d) \notin towatch
        /\ towatch' = towatch \ {d}
        /\ d = "root" => d \in watched'
        /\ watched \subseteq watched' /\ watched' \subseteq watched \cup {d}
        /\ UNCHANGED <<pc, booted, toread>>
    BY DEF watch_dir, MayWatch
  <2>2. FirstWalk' = FirstWalk
    BY <2>1 DEF FirstWalk
  <2>3. "runtime" \in Unwatched' => "version" \in Unwatched'
    BY <2>1, <2>2, Trees DEF NoticeInv, WalkInv, Unwatched
  <2>4. "root" \notin towatch'
    BY <2>1, Dirs, Trees DEF NoticeInv, WalkInv, All, Dir
  <2>5. Unwatched' \subseteq Unwatched
    BY <2>1, <2>2 DEF Unwatched
  <2>6. ~booted => d # "root"
    BY <2>1 DEF NoticeInv, WalkInv
  <2> QED BY <2>1, <2>3, <2>4, <2>5, <2>6 DEF NoticeInv, WalkInv
<1>3. NoChangeIsMissed'
  <2>1. CASE booted
    <3>1. WillReload'
      BY <2>1 DEF watch_dir, WillReload
    <3> QED BY <3>1 DEF NoChangeIsMissed
  <2>2. CASE ~booted
    <3>1. d # "root"
      BY <2>2 DEF watch_dir, NoticeInv, WalkInv
    <3>2. \A e : Deaf(e) => Deaf(e)'
      BY <3>1 DEF watch_dir, Deaf
    <3>3. WillReload => WillReload'
      BY DEF watch_dir, WillReload
    <3>4. WillExit' = WillExit
      BY DEF watch_dir, WillExit
    <3> QED BY <3>2, <3>3, <3>4 DEF watch_dir, diskVars, NoticeInv, NoChangeIsMissed
  <2> QED BY <2>1, <2>2 DEF TypeInv, ThreadTypes
<1> QED BY <1>1, <1>2, <1>3 DEF NoticeInv

LEMMA WatchedNotice ==
  ASSUME TypeInv, NoticeInv, Watched
  PROVE  NoticeInv'
<1>1. /\ pc = "watch" /\ towatch = {} /\ ~booted
      /\ pc' = IF toread \cap ProgramFile # {} THEN "read scheduler" ELSE "read runtime"
      /\ UNCHANGED <<diskVars, notifyVars, booted, towatch, toread, seen, late>>
  BY DEF Watched, fileVars, history
<1>2. Unwatched' = Unwatched
  BY <1>1 DEF Unwatched, FirstWalk
<1>3. HeardInv'
  BY <1>1, <1>2, SameHears DEF NoticeInv, notifyVars
<1>4. WalkInv'
  BY <1>1, <1>2 DEF NoticeInv, WalkInv, notifyVars
<1>5. NoChangeIsMissed'
  BY <1>1, SameMissed DEF NoticeInv, WillReload, WillExit, notifyVars
<1> QED BY <1>3, <1>4, <1>5 DEF NoticeInv

LEMMA SettleNotice ==
  ASSUME TypeInv, NoticeInv, Settle
  PROVE  NoticeInv'
<1>1. /\ pc = "watch" /\ towatch = {} /\ booted /\ read_events
      /\ UNCHANGED <<diskVars, watched, booted, seen, late>>
  BY DEF Settle, history
<1>2. CASE events = 0 /\ pc' = "read scheduler" /\ toread' = File /\ UNCHANGED towatch
  <2>1. Unwatched' = Unwatched
    BY <1>1, <1>2 DEF Unwatched, FirstWalk
  <2>2. HeardInv'
    <3>1. events = 0 => ~(events > 0)
      OBVIOUS
    <3> QED BY <1>1, <1>2, <2>1, <3>1, SameHears DEF NoticeInv
  <2>3. WalkInv'
    BY <1>1, <1>2, <2>1 DEF NoticeInv, WalkInv
  <2>4. NoChangeIsMissed'
    BY <1>2 DEF NoChangeIsMissed
  <2> QED BY <2>2, <2>3, <2>4 DEF NoticeInv
<1>3. CASE events > 0 /\ towatch' = All /\ UNCHANGED <<pc, toread>>
  <2>1. Dir \subseteq Unwatched' /\ Unwatched' = All
    BY <1>1, <1>3 DEF Unwatched, FirstWalk, All
  <2>2. HeardInv'
    BY <2>1 DEF HeardInv, Heard
  <2>3. WalkInv'
    BY <1>1, <1>3, <2>1 DEF WalkInv, All, Dir
  <2>4. WillReload'
    BY <1>1, <1>3 DEF WillReload
  <2> QED BY <2>2, <2>3, <2>4 DEF NoticeInv, NoChangeIsMissed
<1> QED BY <1>2, <1>3 DEF Settle

LEMMA ReadFileNotice ==
  ASSUME TypeInv, NoticeInv, NEW f \in File, ReadFile(f)
  PROVE  NoticeInv'
<1>1. /\ pc \in {"read scheduler", "read runtime"} /\ toread' = toread \ {f}
      /\ pc = "read scheduler" => f \in ProgramFile
      /\ f \in toread /\ seen' = [seen EXCEPT ![f] = disk[f]]
      /\ UNCHANGED <<diskVars, notifyVars, pc, booted, towatch, late>>
  BY Trees DEF ReadFile, history
<1>2. Unwatched' = Unwatched
  BY <1>1 DEF Unwatched, FirstWalk
<1>3. HeardInv'
  BY <1>1, <1>2, SameHears DEF NoticeInv, notifyVars
<1>4. WalkInv'
  <2>1. towatch = {}
    BY <1>1 DEF NoticeInv, WalkInv
  <2>2. DirOf(f) \notin Unwatched
    <3>1. CASE pc = "read scheduler"
      BY <1>1, <2>1, <3>1, Trees DEF Unwatched
    <3>2. CASE pc = "read runtime"
      BY <2>1, <3>2 DEF Unwatched, FirstWalk
    <3> QED BY <1>1, <3>1, <3>2
  <2> QED BY <1>1, <1>2, <2>2 DEF NoticeInv, WalkInv, notifyVars
<1>5. NoChangeIsMissed'
  <2> SUFFICES ASSUME NEW g \in File
               PROVE  \/ seen'[g] = disk'[g] \/ g \in toread' \/ WillReload' \/ WillExit'
                      \/ \E d \in Dir : Deaf(d)' /\ g \in FilesIn(d)
    BY DEF NoChangeIsMissed
  <2>1. seen'[f] = disk'[f] /\ \A h \in File : h # f => seen'[h] = seen[h]
    BY <1>1 DEF diskVars, TypeInv, ThreadTypes
  <2>2. WillExit => WillExit'
    BY <1>1, <2>1, Dirs DEF WillExit
  <2>3. (WillReload' = WillReload) /\ \A d : Deaf(d)' = Deaf(d)
    BY <1>1 DEF WillReload, Deaf, notifyVars
  <2> QED BY <1>1, <2>1, <2>2, <2>3 DEF NoticeInv, NoChangeIsMissed, diskVars
<1> QED BY <1>3, <1>4, <1>5 DEF NoticeInv

LEMMA LoadNotice ==
  ASSUME TypeInv, NoticeInv, Load \/ Refuse
  PROVE  NoticeInv'
<1>1. /\ pc = "read scheduler" /\ toread \cap ProgramFile = {} /\ NextRead
      /\ UNCHANGED <<diskVars, notifyVars, booted, toread, seen, late>>
      /\ booted \/ Loads(seen)
  BY DEF Load, Refuse, HasProgram
<1>2. towatch = {} /\ booted \in BOOLEAN
  BY <1>1 DEF NoticeInv, WalkInv, TypeInv, ThreadTypes
<1>3. Unwatched' = Unwatched
  BY <1>1, <1>2 DEF NextRead, Unwatched, FirstWalk
<1>4. HeardInv'
  BY <1>1, <1>3, SameHears DEF NoticeInv, notifyVars
<1>5. WalkInv'
  <2>1. "root" \notin Within("runtime")
    BY Trees
  <2> QED BY <1>1, <1>2, <1>3, <2>1 DEF NoticeInv, WalkInv, NextRead, notifyVars
<1>6. NoChangeIsMissed'
  <2>1. ~WillExit
    BY <1>1 DEF WillExit, Loads
  <2>2. WillReload => WillReload'
    BY <1>1 DEF WillReload, notifyVars
  <2> QED BY <1>1, <2>1, <2>2, SameMissed DEF NoticeInv, notifyVars
<1> QED BY <1>4, <1>5, <1>6 DEF NoticeInv

LEMMA LookNotice ==
  ASSUME TypeInv, NoticeInv, LookAtEvents
  PROVE  NoticeInv'
<1>1. /\ pc = "events" /\ read_events /\ booted /\ towatch = {}
      /\ UNCHANGED <<diskVars, watched, booted, toread, seen, late>>
  BY DEF LookAtEvents, history, TypeInv, BootHasLoaded, NoticeInv, WalkInv
<1>2. CASE events = 0 /\ pc' = "run" /\ UNCHANGED towatch
  <2>1. Unwatched' = Unwatched
    BY <1>1, <1>2 DEF Unwatched, FirstWalk
  <2>2. HeardInv'
    BY <1>1, <1>2, <2>1, SameHears DEF NoticeInv
  <2>3. WalkInv'
    BY <1>1, <1>2, <2>1 DEF NoticeInv, WalkInv
  <2>4. NoChangeIsMissed'
    BY <1>1, <1>2, SameMissed DEF NoticeInv, WillReload, WillExit
  <2> QED BY <2>2, <2>3, <2>4 DEF NoticeInv
<1>3. CASE events > 0 /\ pc' = "watch" /\ towatch' = All
  <2>1. Dir \subseteq Unwatched' /\ Unwatched' = All
    BY <1>1, <1>3 DEF Unwatched, FirstWalk, All
  <2>2. HeardInv'
    BY <2>1 DEF HeardInv, Heard
  <2>3. WalkInv'
    BY <1>1, <1>3, <2>1 DEF WalkInv, All, Dir
  <2>4. WillReload'
    BY <1>1, <1>3 DEF WillReload
  <2> QED BY <2>2, <2>3, <2>4 DEF NoticeInv, NoChangeIsMissed
<1> QED BY <1>2, <1>3 DEF LookAtEvents

\* The steps that only move the thread on.
LEMMA LoopNotice ==
  ASSUME TypeInv, NoticeInv, Read \/ TakeCookie \/ refresh_cookie \/ Fail \/ Succeed
  PROVE  NoticeInv'
<1>1. /\ pc \in {"read runtime", "sleep", "head", "events", "run"}
      /\ pc' \in {"sleep", "head", "events", "run"} /\ booted'
      /\ pc # "read runtime" => booted
      /\ UNCHANGED <<diskVars, notifyVars, towatch, toread, seen, late>>
  BY DEF Read, TakeCookie, refresh_cookie, Fail, Succeed, fileVars, history, TypeInv,
         BootHasLoaded
<1>2. towatch = {}
  BY <1>1 DEF NoticeInv, WalkInv
<1>3. Unwatched = {} /\ Unwatched' = {}
  BY <1>1, <1>2 DEF Unwatched, FirstWalk
<1>4. HeardInv'
  BY <1>1, <1>3, SameHears DEF NoticeInv, notifyVars
<1>5. WalkInv'
  BY <1>1, <1>2, <1>3 DEF WalkInv
<1>6. NoChangeIsMissed'
  BY <1>1, SameMissed DEF NoticeInv, WillReload, WillExit, notifyVars
<1> QED BY <1>4, <1>5, <1>6 DEF NoticeInv

LEMMA NextNotice == TypeInv /\ NoticeInv /\ [Next]_vars => NoticeInv'
<1> SUFFICES ASSUME TypeInv, NoticeInv, [Next]_vars PROVE NoticeInv'
  OBVIOUS
<1>1. CASE Deploy
  BY <1>1, EditNotice, MoveAwayNotice, MoveInNotice DEF Deploy
<1>2. CASE Thread
  BY <1>2, WatchNotice, WatchedNotice, SettleNotice, ReadFileNotice, LoadNotice, LookNotice,
     LoopNotice DEF Thread
<1>3. CASE Exit \/ Alarm
  BY <1>3, RestartNotice DEF Exit, Alarm
<1>4. CASE Poll \/ PublishState \/ UNCHANGED vars
  <2>1. UNCHANGED <<diskVars, notifyVars, pc, booted, towatch, toread, seen, late>>
    BY <1>4 DEF Poll, update_election, PublishState, vars, fileVars, history
  <2>2. Unwatched' = Unwatched
    BY <2>1 DEF Unwatched, FirstWalk
  <2>3. HeardInv' /\ NoChangeIsMissed'
    BY <2>1, <2>2, SameHears, SameMissed DEF NoticeInv, WillReload, WillExit, notifyVars
  <2>4. WalkInv'
    BY <2>1, <2>2 DEF NoticeInv, WalkInv, notifyVars
  <2> QED BY <2>3, <2>4 DEF NoticeInv
<1> QED BY <1>1, <1>2, <1>3, <1>4 DEF Next

\* No change of the configuration escapes the scheduler thread, however the
\* changes fall between its watches and its reads.
THEOREM ChangesAreNoticed == Spec => []NoChangeIsMissed
BY InitNotice, NextNotice, TypeInvariant, PTL DEF Spec, NoticeInv
=============================================================================
