------------------------------- MODULE Reload -------------------------------
(***************************************************************************)
(* The configuration of the scheduler and the errors it gives rise to      *)
(* (scheduler/main.rs, wasm.rs, shared.rs): the scheduler thread watches   *)
(* the directories of the configuration with inotify, and a leader reads   *)
(* them again before a run when something has changed.                     *)
(*                                                                         *)
(* Directories are edited, moved away and moved in while the thread adds   *)
(* its watches one by one and reads its files one by one.  A file is the   *)
(* number of its last edit and whether it can be loaded.                   *)
(*                                                                         *)
(* Of the election, the thread sees is_leader and whether the epoch is     *)
(* still the one its cookie was taken in; of the fetcher, whether it has   *)
(* last published that the leader is a stable one.                         *)
(***************************************************************************)
EXTENDS Naturals, Functions

CONSTANTS
  MaxEdits     \* bound: how often the configuration is changed

ASSUME ReloadAssumption == MaxEdits \in Nat

\* runtime/ROLE/ROLE_VERSION is "version"; the root is config_dir.
Dir == {"scheduler", "runtime", "version"}

Parent(d) == IF d = "version" THEN "runtime" ELSE "root"

Within(d) == {d} \cup {e \in Dir : Parent(e) = d}

\* The program and the metadata of a version of a role.
ProgramFile == {"program"}

RuntimeFile == {"processes"}

File == ProgramFile \cup RuntimeFile

DirOf(f) == IF f \in ProgramFile THEN "scheduler" ELSE "version"

FilesIn(d) == {f \in File : DirOf(f) \in Within(d)}

Content == [edit : 0 .. MaxEdits, good : BOOLEAN]

Absent == [edit |-> 0, good |-> FALSE]

\* What inotify may have queued: nothing, some events, or more of them than
\* the buffer of a read takes.
Queue == 0 .. 2

VARIABLES
  disk,       \* [File -> Content]
  present,    \* the directories that exist
  edits,      \* how many changes there have been
  watched,    \* the directories with an inotify watch
  events,     \* the queue of inotify
  pc,         \* where the scheduler thread is
  booted,     \* it has come to its loop
  towatch,    \* the directories that this walk has yet to add
  toread,     \* the files that this reload has yet to read
  seen,       \* [File -> Content], as last read
  program,    \* [ProgramFile -> Content] of the program in use, or empty
  runtime,    \* [RuntimeFile -> Content] in use, or empty
  instance,   \* the instance of the program: has trapped, is marked as failed
  cookie,     \* its cookie: "none", "fresh", or of an epoch that is over
  is_leader,  \* of the last ElectionState
  is_stable,  \* whether fetch_state is StableLeader
  errors,     \* the domains that have an error
  late,       \* history: the directories that were not there to be watched at the start
  forgotten   \* history: leadership was lost after a program was refused

diskVars   == <<disk, present, edits>>
notifyVars == <<watched, events>>
fileVars   == <<towatch, toread, seen, program, runtime>>
sharedVars == <<is_leader, is_stable, errors>>
history    == <<late, forgotten>>
vars       == <<diskVars, notifyVars, pc, booted, fileVars, instance, cookie,
                sharedVars, history>>

Fresh == [trapped |-> FALSE, failed |-> FALSE]

Empty == [f \in {} |-> Absent]

Init ==
  /\ present \in {Dir, Dir \ {"version"}, {"scheduler"}}
  /\ disk = [f \in File |-> IF DirOf(f) \in present
                            THEN [edit |-> 0, good |-> TRUE] ELSE Absent]
  /\ edits = 0
  /\ watched = {} /\ events = 0
  /\ pc = "watch" /\ booted = FALSE
  /\ towatch = {"scheduler"} /\ toread = File
  /\ seen = [f \in File |-> Absent]
  /\ program = Empty /\ runtime = Empty
  /\ instance = Fresh
  /\ cookie = "none"
  /\ is_leader = FALSE /\ is_stable = FALSE /\ errors = {}
  /\ late = {} /\ forgotten = FALSE

-----------------------------------------------------------------------------
(* Who deploys the configuration.                                          *)

Most(n) == IF n \in Queue THEN n ELSE 2

\* A watched directory tells of its files, its entries and itself.
Notify(dirs) == events' = IF dirs \cap watched # {} THEN Most(events + 1) ELSE events

threadVars == <<pc, booted, fileVars, instance, cookie, sharedVars, history>>

\* The new contents of the program may load or not.
Put(files) ==
  /\ edits < MaxEdits
  /\ edits' = edits + 1
  /\ \E good \in IF ProgramFile \cap files = {} THEN {TRUE} ELSE BOOLEAN :
       disk' = [f \in File |-> IF f \in files THEN [edit |-> edits + 1, good |-> good]
                               ELSE disk[f]]

Edit(f) ==
  /\ DirOf(f) \in present
  /\ Put({f})
  /\ Notify({DirOf(f)})
  /\ UNCHANGED <<present, watched, threadVars>>

\* The watches stay with the directories that have gone.
MoveAway(d) ==
  /\ d \in present
  /\ edits < MaxEdits
  /\ edits' = edits + 1
  /\ present' = present \ Within(d)
  /\ disk' = [f \in File |-> IF f \in FilesIn(d) THEN Absent ELSE disk[f]]
  /\ Notify({d, Parent(d)})
  /\ watched' = watched \ Within(d)
  /\ UNCHANGED threadVars

\* A directory comes with all that is in it, or is made empty but for its file.
MoveIn(d) ==
  /\ d \notin present
  /\ Parent(d) \in present \cup {"root"}
  /\ \E dirs \in {{d}, Within(d)} :
       /\ present' = present \cup dirs
       /\ Put({f \in File : DirOf(f) \in dirs})
  /\ Notify({Parent(d)})
  /\ UNCHANGED <<watched, threadVars>>

Deploy == (\E f \in File : Edit(f)) \/ \E d \in Dir : MoveAway(d) \/ MoveIn(d)

-----------------------------------------------------------------------------
(* Watches.                                                                *)

\* Mutant: the list of a directory is read before its watch is added.
MayWatchAny(d) == TRUE

MayWatch(d) == Parent(d) \notin towatch

\* watch_dir adds a directory before it lists what is in it; what is not there
\* is logged.
watch_dir(d) ==
  /\ pc = "watch"
  /\ d \in towatch
  /\ d = "root" \/ MayWatch(d)
  /\ towatch' = towatch \ {d}
  /\ watched' = IF d \in present \cup {"root"} THEN watched \cup {d} ELSE watched
  /\ late' = IF booted THEN late ELSE late \cup ({d} \ present)
  /\ UNCHANGED <<diskVars, events, pc, booted, toread, seen, program, runtime, instance,
                 cookie, sharedVars, forgotten>>

\* The first loads: the scheduler, then the runtime.
Watched ==
  /\ pc = "watch" /\ towatch = {}
  /\ ~booted
  /\ pc' = IF toread \cap ProgramFile # {} THEN "read scheduler" ELSE "read runtime"
  /\ UNCHANGED <<diskVars, notifyVars, booted, fileVars, instance, cookie, sharedVars, history>>

All == Dir \cup {"root"}

\* A read of the queue gets some of what is in it, or all.
read_events ==
  IF events = 0 THEN events' = 0 ELSE events' \in 0 .. events - 1

\* After 200 ms: either all is quiet, or the directories are walked again.
Settle ==
  /\ pc = "watch" /\ towatch = {}
  /\ booted
  /\ read_events
  /\ \/ /\ events = 0
        /\ pc' = "read scheduler" /\ toread' = File
        /\ UNCHANGED towatch
     \/ /\ events > 0
        /\ towatch' = All
        /\ UNCHANGED <<pc, toread>>
  /\ UNCHANGED <<diskVars, watched, booted, seen, program, runtime, instance, cookie,
                 sharedVars, history>>

-----------------------------------------------------------------------------
(* Reading.                                                                *)

ReadFile(f) ==
  /\ f \in toread
  /\ \/ pc = "read scheduler" /\ f \in ProgramFile
     \/ pc = "read runtime" /\ f \in RuntimeFile
  /\ toread' = toread \ {f}
  /\ seen' = [seen EXCEPT ![f] = disk[f]]
  /\ UNCHANGED <<diskVars, notifyVars, pc, booted, towatch, program, runtime, instance,
                 cookie, sharedVars, history>>

Loads(files) == \A f \in ProgramFile : files[f].good

\* Mutant: only the program is read again.
NextReadProgram ==
  IF booted THEN pc' = "run" /\ UNCHANGED towatch
            ELSE pc' = "watch" /\ towatch' = Within("runtime")

\* The first load goes on with the watches of the runtime.
NextRead ==
  IF booted THEN pc' = "read runtime" /\ UNCHANGED towatch
            ELSE pc' = "watch" /\ towatch' = Within("runtime")

Load ==
  /\ pc = "read scheduler" /\ toread \cap ProgramFile = {}
  /\ Loads(seen)
  /\ program' = Restrict(seen, ProgramFile)
  /\ instance' = Fresh
  /\ errors' = errors \ {"scheduler_load"}
  /\ forgotten' = FALSE
  /\ NextRead
  /\ UNCHANGED <<diskVars, notifyVars, booted, toread, seen, runtime, cookie, is_leader,
                 is_stable, late>>

\* Mutant: the error is only logged.
ReportNone == UNCHANGED errors

Report == errors' = errors \cup {"scheduler_load"}

HasProgram == booted

\* The old program stays in use.
Refuse ==
  /\ pc = "read scheduler" /\ toread \cap ProgramFile = {}
  /\ HasProgram /\ ~Loads(seen)
  /\ Report
  /\ forgotten' = FALSE
  /\ NextRead
  /\ UNCHANGED <<diskVars, notifyVars, booted, toread, seen, program, runtime, instance, cookie,
                 is_leader, is_stable, late>>

\* Errors in the runtime are not kept: what can be read is what there is.
Read ==
  /\ pc = "read runtime" /\ toread = {}
  /\ runtime' = Restrict(seen, RuntimeFile)
  /\ booted' = TRUE
  /\ pc' = IF booted THEN "run" ELSE "sleep"
  /\ UNCHANGED <<diskVars, notifyVars, towatch, toread, seen, program, instance, cookie,
                 sharedVars, history>>

-----------------------------------------------------------------------------
(* The loop.                                                               *)

TakeCookie ==
  /\ pc = "sleep"
  /\ is_leader /\ is_stable
  /\ cookie' = "fresh"
  /\ pc' = "head"
  /\ UNCHANGED <<diskVars, notifyVars, booted, fileVars, instance, sharedVars, history>>

refresh_cookie ==
  /\ pc = "head"
  /\ \/ cookie = "fresh" /\ pc' = "events" /\ UNCHANGED cookie
     \/ cookie = "over" /\ pc' = "sleep" /\ cookie' = "none"
  /\ UNCHANGED <<diskVars, notifyVars, booted, fileVars, instance, sharedVars, history>>

\* Something has changed since the last run, or nothing has.
LookAtEvents ==
  /\ pc = "events"
  /\ read_events
  /\ \/ events = 0 /\ pc' = "run" /\ UNCHANGED towatch
     \/ events > 0 /\ pc' = "watch" /\ towatch' = All
  /\ UNCHANGED <<diskVars, watched, booted, toread, seen, program, runtime, instance, cookie,
                 sharedVars, history>>

\* The instance that a call runs in: instantiating it anew may fail, too.
Instances == IF instance.failed THEN {Fresh, instance} ELSE {instance}

Trap(i) == [i EXCEPT !.trapped = TRUE]
Mark(i) == [i EXCEPT !.failed = TRUE]

\* What the steps of _execute leave behind when they fail.  An instance that
\* has trapped is marked; one that has returned something else is not.
AllocFails(i) == {i, Mark(Trap(i))}

\* The function may trap.  The memory of its argument is freed all the same,
\* before the result is looked at.
Called(i) == {i, Trap(i)}

FreeFails(i) == Mark(Trap(i))

CallFails(i) == IF i.trapped THEN Mark(i) ELSE i

\* Mutant: the last of the four exports is forgotten.
FreeResultUnmarked(i) == Trap(i)

\* The result has been read and is freed.
FreeResultFails(i) == Mark(Trap(i))

Failures(i) ==
  AllocFails(i) \cup {FreeFails(j) : j \in Called(i)} \cup {CallFails(j) : j \in Called(i)}
    \cup {FreeResultFails(i)}

json_call ==
  UNION {IF i.failed THEN {[ok |-> FALSE, instance |-> i]}
         ELSE {[ok |-> TRUE, instance |-> i]}
                \cup {[ok |-> FALSE, instance |-> j] : j \in Failures(i)}
           : i \in Instances}

\* Errors are set whether the node still leads or not.
Fail ==
  /\ pc = "run"
  /\ \E call \in json_call : ~call.ok /\ instance' = call.instance
  /\ errors' = errors \cup {"scheduler"}
  /\ pc' = "head"
  /\ UNCHANGED <<diskVars, notifyVars, booted, fileVars, cookie, is_leader, is_stable, history>>

Succeed ==
  /\ pc = "run"
  /\ \E call \in json_call : call.ok /\ instance' = call.instance
  /\ errors' = errors \ {"scheduler"}
  /\ pc' = "sleep"
  /\ cookie' = "none"
  /\ UNCHANGED <<diskVars, notifyVars, booted, fileVars, is_leader, is_stable, history>>

Thread ==
  \/ (\E d \in All : watch_dir(d)) \/ Watched \/ Settle
  \/ (\E f \in File : ReadFile(f)) \/ Load \/ Refuse \/ Read
  \/ TakeCookie \/ refresh_cookie \/ LookAtEvents \/ Fail \/ Succeed

-----------------------------------------------------------------------------
(* The event loop, and the end of the process.                             *)

\* Mutant: they are removed only when leadership is lost.
ErrorsOfDemoted(leads) == IF leads \/ ~is_leader THEN errors ELSE {}

\* A follower's errors are removed with every poll of the election.
ErrorsOf(leads) == IF leads THEN errors ELSE {}

\* The epoch is the one that the cookie was taken in, or another: after a reset
\* the node may come to lead the same one again.
update_election(leads, same) ==
  /\ is_leader' = leads
  /\ cookie' = IF cookie = "none" THEN "none" ELSE IF same THEN "fresh" ELSE "over"
  /\ errors' = ErrorsOf(leads)
  /\ forgotten' = (forgotten \/ ("scheduler_load" \in errors /\ ~leads))
  /\ UNCHANGED <<diskVars, notifyVars, pc, booted, fileVars, instance, is_stable, late>>

Poll == \E leads, same \in BOOLEAN : update_election(leads, same)

\* The fetcher publishes its state at the end of its own polls, after that of
\* the election: a leader becomes a stable one when its prefetch is over, and
\* may be taken for one that it was before.
PublishState ==
  /\ is_stable \/ is_leader
  /\ is_stable' = ~is_stable
  /\ UNCHANGED <<diskVars, notifyVars, pc, booted, fileVars, instance, cookie, is_leader, errors,
                 history>>

\* The process starts again with what is on the disk.
Restart ==
  /\ watched' = {} /\ events' = 0
  /\ pc' = "watch" /\ booted' = FALSE
  /\ towatch' = {"scheduler"} /\ toread' = File
  /\ seen' = [f \in File |-> Absent]
  /\ program' = Empty /\ runtime' = Empty
  /\ instance' = Fresh
  /\ cookie' = "none"
  /\ is_leader' = FALSE /\ is_stable' = FALSE /\ errors' = {}
  /\ late' = {} /\ forgotten' = FALSE
  /\ UNCHANGED diskVars

\* The first program that is read must load.
Exit ==
  /\ pc = "read scheduler" /\ toread \cap ProgramFile = {}
  /\ ~booted /\ ~Loads(seen)
  /\ Restart

\* An alarm: the directories do not settle, a load takes too long, or a leader
\* gets no schedule for 300 seconds.
Alarm ==
  /\ pc # "sleep"
  /\ Restart

Next == Deploy \/ Thread \/ Exit \/ Alarm \/ Poll \/ PublishState

\* The thread goes on, its program succeeds now and then, the election is
\* polled again and again, and the alarms do not go off for ever.
Fairness ==
  /\ WF_vars(Thread) /\ WF_vars(Exit) /\ SF_vars(Succeed)
  /\ WF_vars(~is_leader /\ \E same \in BOOLEAN : update_election(FALSE, same))
  /\ <>[][~Alarm]_vars

Spec == Init /\ [][Next]_vars /\ Fairness

-----------------------------------------------------------------------------
(* Properties.                                                             *)

TypeOK ==
  /\ disk \in [File -> Content] /\ seen \in [File -> Content]
  /\ present \subseteq Dir /\ watched \subseteq All /\ towatch \subseteq All
  /\ edits \in 0 .. MaxEdits
  /\ events \in Queue
  /\ pc \in {"watch", "read scheduler", "read runtime", "sleep", "head", "events", "run"}
  /\ booted \in BOOLEAN
  /\ toread \subseteq File
  /\ program \in [ProgramFile -> Content] \cup {Empty}
  /\ runtime \in [RuntimeFile -> Content] \cup {Empty}
  /\ booted => program # Empty /\ runtime # Empty
  /\ instance \in [trapped : BOOLEAN, failed : BOOLEAN]
  /\ cookie \in {"none", "fresh", "over"}
  /\ is_leader \in BOOLEAN /\ is_stable \in BOOLEAN
  /\ errors \subseteq {"scheduler", "scheduler_load"}
  /\ late \subseteq Dir /\ forgotten \in BOOLEAN

\* The files will be read again.
WillReload == events > 0 \/ (pc = "watch" /\ booted)

\* The first program that is read does not load.
WillExit ==
  ~booted /\ pc = "read scheduler" /\ \E f \in ProgramFile \ toread : ~seen[f].good

\* config_dir itself is not watched before the first event.
Deaf(d) == d \in late /\ Parent(d) = "root" /\ "root" \notin watched

\* No change of the configuration escapes the thread, not even in a directory
\* that is made or replaced while the watches are being added or the files
\* read: what it has read is what is there, or events or the reload under way
\* will make it read again.  Only a directory that was not there when the daemon
\* started is not noticed before something else changes.
NoChangeIsMissed ==
  \A f \in File :
    \/ seen[f] = disk[f]
    \/ f \in toread
    \/ WillReload \/ WillExit
    \/ \E d \in Dir : Deaf(d) /\ f \in FilesIn(d)

\* A node that runs another program than the one it has read last shows the
\* error, unless it has lost its leadership since: then the error is forgotten
\* and not found again before the next change.
RefusedIsShown ==
  pc = "run"
    => \/ program = Restrict(seen, ProgramFile)
       \/ "scheduler_load" \in errors
       \/ forgotten

\* No schedule comes from an instance in which a call has trapped.
RunsAreClean == [][pc = "run" /\ pc' = "sleep" => ~instance'.trapped]_vars

Current == <<Restrict(disk, ProgramFile), Restrict(disk, RuntimeFile)>>

\* A stable leader that stays comes to run the configuration that is on the disk, and
\* no other, once that does not change any more and can be loaded.
ConfigIsUsed ==
  <>[](is_leader /\ is_stable /\ cookie # "over" /\ Loads(disk) /\ ~\E d \in Dir : Deaf(d))
    => []<>(pc = "run") /\ <>[](pc = "run" => <<program, runtime>> = Current)

\* An error that a late run of the scheduler has left on a node that does not
\* lead any more does not stay there.
FollowersAreQuiet == <>[](~is_leader) => <>[](errors = {})
=============================================================================
