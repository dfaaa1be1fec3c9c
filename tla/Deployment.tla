----------------------------- MODULE Deployment -----------------------------
(***************************************************************************)
(* One task of the thread that applies schedules (apply.rs), in detail:    *)
(* apply_schedule opens the logs, goes through the roles of the node and   *)
(* waits for the verwalter_render (render/main.rs) of each; run saves the  *)
(* schedule before it and maintains the backups after it.  Composes        *)
(* DeploymentLog, RoleFiles and Backups.                                   *)
(*                                                                         *)
(* Both programs are sequential.  `ops` is what each has still to do; a    *)
(* process can die before each operation, and what Rust drops on an early  *)
(* return is put in the place of what is left out.                         *)
(***************************************************************************)
EXTENDS DeploymentLog, RoleFiles, Backups

CONSTANTS
  RoleOrder,  \* the roles, in the order of a BTreeMap
  MaxFaults   \* bound: how often something fails, aborts or dies

ASSUME DeploymentAssumption ==
  /\ \A h \in Hash : DOMAIN Sections[h] \subseteq Role
  /\ RoleOrder \in Seq(Role)
  /\ \A r \in Role : \E i \in DOMAIN RoleOrder : RoleOrder[i] = r
  /\ \A i, j \in DOMAIN RoleOrder : RoleOrder[i] = RoleOrder[j] => i = j
  /\ MaxFaults \in Nat

VARIABLES
  ops,          \* [Writer -> sequence of operations]
  task,         \* {} or {[id, hash, at]}: the deployment, and its role in RoleOrder
  last_id,      \* how many ids have been used
  prev,         \* {} or {Hash}: prev_schedule, in memory
  outcome,      \* [Role -> {} or {Hash}]: what the role has been rendered from;
                \* {} if its last rendering is not over or has failed
  interrupted,  \* history: the roles whose directory was changed by a rendering
                \* that has not got to its Condition, and no reload since
  crashed,      \* history: the ids that a crash has ended
  faults        \* history: how many faults there have been

deployVars == <<ops, task, last_id, prev, outcome, interrupted, crashed, faults>>
vars == <<logVars, roleVars, backupVars, deployVars>>
taskVars == <<task, last_id, prev, crashed>>
statusVars == <<outcome, interrupted, faults>>

Fault == faults < MaxFaults /\ faults' = faults + 1

Init ==
  /\ LogInit
  /\ dir = [r \in Role |-> Empty] /\ loaded = [r \in Role |-> Empty] /\ pitched = Empty
  /\ saved = IF now = 0 THEN {} ELSE {CHOOSE h \in Hash : TRUE}
  /\ snapshots = [k \in Kind |-> {[name |-> PeriodAt(k, now - 1), holds |-> h] : h \in saved}]
  /\ tmp = {} /\ shared = {} /\ listed = NoLists
  /\ ops = [w \in Writer |-> <<>>]
  /\ task = {} /\ last_id = 0 /\ prev = {}
  /\ outcome = [r \in Role |-> {}]
  /\ interrupted = {} /\ crashed = {} /\ faults = 0

-----------------------------------------------------------------------------
(* The operations.                                                         *)

Do(name)            == [op |-> name]
Link(d, s)          == [op |-> "link", dir |-> d, segment |-> s]
Renaming(d, s)      == [op |-> "rename", dir |-> d, segment |-> s]
CheckLog(d, rotate) == [op |-> "check", dir |-> d, rotate |-> rotate]
Mark(d, marker)     == [op |-> "mark", dir |-> d, marker |-> marker]
RowOf(d, marker)    == [op |-> "row", dir |-> d, marker |-> marker]
Split(i)            == [op |-> "split", section |-> i]
FlushOf(i)          == [op |-> "flush", section |-> i]
Snapshot(i)         == [op |-> "snapshot", kind |-> i]

\* Index::deployment and Deployment::role, for the writer that starts them.
StartOfDeployment ==
  <<Do("index"), CheckLog(Global, TRUE), Mark(Global, "DeploymentStart")>>
StartOfRole(r) == <<CheckLog(r, TRUE), Mark(r, "RoleStart")>>

\* What is written when they are dropped.
DropRole(r)    == <<Mark(r, "RoleFinish")>>
DropDeployment == <<Mark(Global, "DeploymentError")>>
StartAction(r) == <<Mark(r, "ActionStart")>>
DropAction(r)  == <<Mark(r, "ActionFinish")>>

\* write_file, apply_schedule and maintain_backups
Program(is_new) ==
  <<Do("save")>> \o StartOfDeployment
  \o (IF is_new THEN <<CheckLog(Changes, TRUE), Mark(Changes, "DeploymentChanges")>>
                ELSE <<>>)
  \o <<Do("roles"), Mark(Global, "DeploymentFinish"), Do("backup")>>

OfRole(r) == StartOfRole(r) \o <<Do("spawn")>> \o DropRole(r) \o <<Do("roles")>>

OpensLogs(r) == <<Do("latest"), CheckLog(Global, FALSE), CheckLog(r, FALSE)>>

\* Mutant: each command is pitched when its turn comes.
RenderLate(r) ==
  OpensLogs(r) \o <<Do("templates")>> \o StartAction(r)
  \o <<Split(1), Do("pitch"), Do("condition")>> \o DropAction(r) \o <<Do("exit")>>

\* main, render_role and apply_list
Render(r) ==
  OpensLogs(r) \o <<Do("templates")>> \o StartAction(r)
  \o <<Do("pitch"), Split(1), Do("condition")>> \o DropAction(r) \o <<Do("exit")>>

\* w is about to do an operation of a kind; the daemon waits for the renderer.
At(w, kind) ==
  /\ ops[w] # <<>> /\ Head(ops[w]).op = kind
  /\ w = "daemon" => ops["render"] = <<>>

\* The operation is replaced by others.
Continue(w, s) == ops' = [ops EXCEPT ![w] = s \o Tail(@)]

LeftToDo(kind) == \E i \in DOMAIN ops["render"] : ops["render"][i].op = kind

Current(t) == RoleOrder[t.at]
Secs(t)    == Sections[t.hash][Current(t)]

-----------------------------------------------------------------------------
(* The thread.                                                             *)

StartTask(h) ==
  /\ task = {} /\ last_id + 1 \in Id
  /\ ops' = [ops EXCEPT !["daemon"] = Program(prev # {h})]
  /\ last_id' = last_id + 1
  /\ task' = {[id |-> last_id + 1, hash |-> h, at |-> 0]}
  /\ UNCHANGED <<logVars, roleVars, backupVars, prev, outcome, interrupted, crashed, faults>>

\* apply_schedule has returned.
EndTask(t) ==
  /\ ops["daemon"] = <<>> /\ ops["render"] = <<>>
  /\ task' = {} /\ prev' = {t.hash}
  /\ UNCHANGED <<logVars, roleVars, backupVars, ops, last_id, outcome, interrupted, crashed, faults>>

NextRole(t) ==
  /\ At("daemon", "roles")
  /\ \E i \in t.at + 1 .. Len(RoleOrder) + 1 :
       /\ \A j \in t.at + 1 .. i - 1 : RoleOrder[j] \notin DOMAIN Sections[t.hash]
       /\ task' = {[t EXCEPT !.at = i]}
       /\ IF i > Len(RoleOrder) THEN Continue("daemon", <<>>)
          ELSE /\ RoleOrder[i] \in DOMAIN Sections[t.hash]
               /\ Continue("daemon", OfRole(RoleOrder[i]))
  /\ UNCHANGED <<logVars, roleVars, backupVars, last_id, prev, outcome, interrupted, crashed, faults>>

\* Mutant: the deployment is dropped before its role.
AbortSwapped(t) ==
  /\ At("daemon", "spawn")
  /\ Fault
  /\ ops' = [ops EXCEPT !["daemon"] =
               DropDeployment \o DropRole(Current(t)) \o <<Do("backup")>>]
  /\ UNCHANGED <<logVars, roleVars, backupVars, taskVars, outcome, interrupted>>

\* The files for verwalter_render cannot be written: the log of the role is
\* dropped, and that of the deployment after it.
Abort(t) ==
  /\ At("daemon", "spawn")
  /\ Fault
  /\ ops' = [ops EXCEPT !["daemon"] =
               DropRole(Current(t)) \o DropDeployment \o <<Do("backup")>>]
  /\ UNCHANGED <<logVars, roleVars, backupVars, taskVars, outcome, interrupted>>

\* verwalter_render is started; it may refuse its arguments (codes 2 to 5).
StartRender(t) ==
  /\ At("daemon", "spawn")
  /\ outcome' = [outcome EXCEPT ![Current(t)] = {}]
  /\ \E s \in {<<>>, Render(Current(t))} :
       /\ ops' = [ops EXCEPT !["daemon"] = Tail(@), !["render"] = s]
       /\ IF s = <<>> THEN Fault ELSE UNCHANGED faults
  /\ UNCHANGED <<logVars, roleVars, backupVars, taskVars, interrupted>>

-----------------------------------------------------------------------------
(* The logs.                                                               *)

\* The daemon opens the index of the day, and the renderer the latest one.
OpensIndex(w) ==
  /\ \/ /\ At(w, "index") /\ Continue(w, <<Link(Index, now)>>)
        /\ UNCHANGED files
     \/ /\ At(w, "latest") /\ Continue(w, <<>>)
        /\ \E s \in latest[Index] : Open(w, Index, s)
  /\ UNCHANGED <<now, latest, leftovers, index, logs, roleVars, backupVars, taskVars, statusVars>>

\* check_log
ChecksLog(w) ==
  /\ At(w, "check")
  /\ LET o == Head(ops[w])
         going == {s \in Segment : GoesOn(o.dir, o.rotate, s)}
     IN  \/ \E s \in going : Open(w, o.dir, s) /\ Continue(w, <<>>)
         \/ going = {} /\ Continue(w, <<Link(o.dir, now)>>) /\ UNCHANGED files
  /\ UNCHANGED <<now, latest, leftovers, index, logs, roleVars, backupVars, taskVars, statusVars>>

\* open_segment
OpensSegment(w) ==
  /\ At(w, "link")
  /\ LET o == Head(ops[w])
     IN  IF IsLinked(o.dir, o.segment)
         THEN Open(w, o.dir, o.segment) /\ Continue(w, <<>>) /\ UNCHANGED leftovers
         ELSE /\ symlink(o.dir)
              /\ Continue(w, <<Renaming(o.dir, o.segment)>>)
              /\ UNCHANGED files
  /\ UNCHANGED <<now, latest, index, logs, roleVars, backupVars, taskVars, statusVars>>

Renames(w) ==
  /\ At(w, "rename")
  /\ LET o == Head(ops[w])
     IN  rename(o.dir, o.segment) /\ Open(w, o.dir, o.segment)
  /\ Continue(w, <<>>)
  /\ UNCHANGED <<now, index, logs, roleVars, backupVars, taskVars, statusVars>>

WritesEntry(w, t) ==
  /\ At(w, "mark")
  /\ LET o == Head(ops[w])
     IN  /\ index_entry(w, t.id, o.dir, o.marker)
         /\ Continue(w, <<RowOf(o.dir, o.marker)>>)
  /\ UNCHANGED <<now, latest, leftovers, logs, files, roleVars, backupVars, taskVars, statusVars>>

\* A schedule without changes has no rows in the log of changes.
WritesRow(w, t) ==
  /\ At(w, "row")
  /\ LET o == Head(ops[w])
     IN  \/ log_row(w, t.id, o.dir, o.marker)
         \/ o.dir = Changes /\ UNCHANGED logs
  /\ Continue(w, <<>>)
  /\ UNCHANGED <<now, latest, leftovers, index, files, roleVars, backupVars, taskVars, statusVars>>

-----------------------------------------------------------------------------
(* The renderer.                                                           *)

\* The renderer leaves a directory that has been changed, which Condition has not
\* seen.
NotReloaded(r) == LeftToDo("condition") /\ ~LeftToDo("pitch") /\ dir'[r] # pitched

Interrupt(t) ==
  interrupted' = IF task # {} /\ NotReloaded(Current(t))
                 THEN interrupted \cup {Current(t)} ELSE interrupted

RendersTemplates ==
  /\ At("render", "templates")
  /\ Continue("render", <<>>)
  /\ UNCHANGED <<logVars, roleVars, backupVars, taskVars, statusVars>>

Pitches(t) ==
  /\ At("render", "pitch")
  /\ pitch(Current(t)) /\ Continue("render", <<>>)
  /\ UNCHANGED <<logVars, backupVars, taskVars, statusVars>>

\* SplitText::execute renames a section when it has ended, and drops its
\* writer when the next one is opened or, with the last one, after the cleaning.
Splits(t) ==
  /\ At("render", "split")
  /\ LET i == Head(ops["render"]).section
     IN  IF i > Len(Secs(t)) THEN Continue("render", <<Do("clean")>>) /\ UNCHANGED roleVars
         ELSE /\ commit_file(Current(t), Secs(t)[i].name)
              /\ Continue("render", IF i = Len(Secs(t)) THEN <<Do("clean"), FlushOf(i)>>
                                                        ELSE <<FlushOf(i), Split(i + 1)>>)
  /\ UNCHANGED <<logVars, backupVars, taskVars, statusVars>>

Flushes(t) ==
  /\ At("render", "flush")
  /\ Flush(Current(t), Secs(t)[Head(ops["render"]).section])
  /\ Continue("render", <<>>)
  /\ UNCHANGED <<logVars, backupVars, taskVars, statusVars>>

\* Mutant: the files of sections that are gone stay.
CleansNot(t) ==
  /\ At("render", "clean")
  /\ Continue("render", <<>>) /\ UNCHANGED roleVars
  /\ UNCHANGED <<logVars, backupVars, taskVars, statusVars>>

Cleans(t) ==
  /\ At("render", "clean")
  /\ \/ \E n \in Stale(t.hash, Current(t)) : remove_file(Current(t), n) /\ UNCHANGED ops
     \/ /\ Stale(t.hash, Current(t)) = {}
        /\ Continue("render", <<>>) /\ UNCHANGED roleVars
  /\ UNCHANGED <<logVars, backupVars, taskVars, statusVars>>

Conditions(t) ==
  /\ At("render", "condition")
  /\ Condition(Current(t)) /\ Continue("render", <<>>)
  /\ interrupted' = IF dir[Current(t)] # pitched THEN interrupted \ {Current(t)} ELSE interrupted
  /\ UNCHANGED <<logVars, backupVars, taskVars, outcome, faults>>

\* A command fails: the writers, which flush, and the action are dropped
\* before main exits.
CommandFails(t) ==
  /\ Fault
  /\ \E kind \in {"pitch", "split", "flush", "clean", "condition"} : At("render", kind)
  /\ \/ ~LeftToDo("flush") /\ UNCHANGED roleVars
     \/ \E i \in DOMAIN ops["render"] :
          /\ ops["render"][i].op = "flush"
          /\ Flush(Current(t), Secs(t)[ops["render"][i].section])
  /\ ops' = [ops EXCEPT !["render"] = DropAction(Current(t)) \o <<Do("fail")>>]
  /\ Interrupt(t)
  /\ UNCHANGED <<logVars, backupVars, taskVars, outcome>>

\* main returns; the daemon sees the exit code 0.
Exits(t) ==
  /\ At("render", "exit")
  /\ Continue("render", <<>>)
  /\ outcome' = [outcome EXCEPT ![Current(t)] = {t.hash}]
  /\ UNCHANGED <<logVars, roleVars, backupVars, taskVars, interrupted, faults>>

\* It exits with another code (10, 20 or 81), or is killed by a signal.
RenderDies(t) ==
  /\ ops["render"] # <<>>
  /\ IF At("render", "fail") THEN UNCHANGED faults ELSE Fault
  /\ ops' = [ops EXCEPT !["render"] = <<>>]
  /\ UNCHANGED <<logVars, roleVars, backupVars, taskVars, outcome>>
  /\ Interrupt(t)

-----------------------------------------------------------------------------
(* The backups.                                                            *)

\* write_file; an error is only logged.
Saves(t) ==
  /\ At("daemon", "save")
  /\ \/ saved' = {t.hash} /\ UNCHANGED faults
     \/ Fault /\ UNCHANGED saved
  /\ Continue("daemon", <<>>)
  /\ UNCHANGED <<logVars, roleVars, snapshots, tmp, shared, listed, taskVars,
                 outcome, interrupted>>

BacksUp ==
  /\ At("daemon", "backup")
  /\ IF saved # {} /\ \E k \in Kind : need(k, now)
     THEN create_tmp(now) /\ Continue("daemon", <<Do("copy")>>)
     ELSE UNCHANGED backupVars /\ Continue("daemon", <<>>)
  /\ UNCHANGED <<logVars, roleVars, taskVars, statusVars>>

\* The copy is made; or it fails and maintain_backups returns.
Copies ==
  /\ At("daemon", "copy")
  /\ \/ copy /\ UNCHANGED faults /\ Continue("daemon", <<Snapshot(1)>>)
     \/ /\ Fault /\ listed' = NoLists
        /\ Continue("daemon", <<>>)
        /\ UNCHANGED <<saved, snapshots, tmp, shared>>
  /\ UNCHANGED <<logVars, roleVars, taskVars, outcome, interrupted>>

\* The copy is linked for each kind that needs one; an error is only logged.
Links ==
  /\ At("daemon", "snapshot")
  /\ LET i      == Head(ops["daemon"]).kind
         k      == KindOrder[i]
         needed == listed[k] \ Names(k)
     IN  /\ \/ \E n \in needed : hard_link(k, n) /\ UNCHANGED faults
            \/ needed # {} /\ Fault /\ UNCHANGED backupVars
            \/ needed = {} /\ UNCHANGED <<backupVars, faults>>
         /\ Continue("daemon", IF i = Len(KindOrder) THEN <<Do("untmp"), Do("prune")>>
                                                     ELSE <<Snapshot(i + 1)>>)
  /\ UNCHANGED <<logVars, roleVars, taskVars, outcome, interrupted>>

\* Mutant: backup.tmp is left.
RemovesNot ==
  /\ At("daemon", "untmp")
  /\ Continue("daemon", <<>>)
  /\ UNCHANGED <<logVars, roleVars, backupVars, taskVars, statusVars>>

Removes ==
  /\ At("daemon", "untmp")
  /\ \/ remove_tmp /\ UNCHANGED faults
     \/ Fault /\ UNCHANGED backupVars
  /\ Continue("daemon", <<>>)
  /\ UNCHANGED <<logVars, roleVars, taskVars, outcome, interrupted>>

Prunes ==
  /\ At("daemon", "prune")
  /\ LET old(k) == drained(k) \cap Names(k)
     IN  \/ \E k \in Kind : \E n \in old(k) :
              remove_snapshots(k, {n}) /\ UNCHANGED ops
         \/ /\ \A k \in Kind : old(k) = {}
            /\ Continue("daemon", <<>>)
            /\ listed' = NoLists
            /\ UNCHANGED <<saved, snapshots, tmp, shared>>
  /\ UNCHANGED <<logVars, roleVars, taskVars, statusVars>>

-----------------------------------------------------------------------------

\* Mutant: the renderer survives.
CrashLeavesOrphan ==
  /\ Fault
  /\ UNCHANGED <<logVars, roleVars, saved, snapshots, tmp, shared, last_id, outcome>>
  /\ \E t \in task : Interrupt(t) /\ crashed' = crashed \cup {t.id}
  /\ ops' = [ops EXCEPT !["daemon"] = <<>>]
  /\ task' = {} /\ prev' = {} /\ listed' = NoLists

\* The daemon is killed or its alarm rings, and the renderer dies with it.
Crash ==
  /\ Fault
  /\ UNCHANGED <<logVars, roleVars, saved, snapshots, tmp, shared, last_id, outcome>>
  /\ \E t \in task : Interrupt(t) /\ crashed' = crashed \cup {t.id}
  /\ ops' = [w \in Writer |-> <<>>]
  /\ task' = {} /\ prev' = {} /\ listed' = NoLists

Tick ==
  /\ now < MaxTime
  /\ now' = now + 1
  /\ UNCHANGED <<latest, leftovers, index, logs, files, roleVars, backupVars, deployVars>>

ApplyNext ==
  \E t \in task :
    \/ EndTask(t) \/ NextRole(t) \/ Abort(t) \/ StartRender(t)
    \/ \E w \in Writer :
         \/ OpensIndex(w) \/ ChecksLog(w) \/ OpensSegment(w) \/ Renames(w)
         \/ WritesEntry(w, t) \/ WritesRow(w, t)
    \/ RendersTemplates \/ Pitches(t) \/ Splits(t) \/ Flushes(t) \/ Cleans(t)
    \/ Saves(t) \/ BacksUp \/ Copies \/ Links \/ Removes \/ Prunes
    \/ Conditions(t) \/ CommandFails(t) \/ Exits(t) \/ RenderDies(t)

Next == (\E h \in Hash : StartTask(h)) \/ ApplyNext \/ Crash \/ Tick

Spec == Init /\ [][Next]_vars /\ WF_vars(ApplyNext)

-----------------------------------------------------------------------------
(* Properties.                                                             *)

TypeOK ==
  /\ LogTypeOK
  /\ dir \in [Role -> Dirs] /\ loaded \in [Role -> Dirs] /\ pitched \in Dirs
  /\ saved \in {{}} \cup {{h} : h \in Hash}
  /\ tmp \in {{}, {0}} \cup {{h} : h \in Hash}
  /\ \A k \in Kind : \A x \in snapshots[k] : x.name \in Nat /\ x.holds \in Hash \cup {0}
  /\ \A l \in shared : l.kind \in Kind /\ l.name \in Names(l.kind)
  /\ \A k \in Kind : listed[k] \subseteq Nat
  /\ last_id \in Id \cup {0}
  /\ task = {} => \A w \in Writer : ops[w] = <<>>
  /\ \A t \in task : t.id \in Id /\ t.hash \in Hash /\ t.at \in 0 .. Len(RoleOrder) + 1
  /\ outcome \in [Role -> {{}} \cup {{h} : h \in Hash}]
  /\ interrupted \subseteq Role /\ crashed \subseteq Id
  /\ faults \in 0 .. MaxFaults

\* What may follow an entry of the same deployment in the index.
Follows(e, f) ==
  CASE e.marker = "DeploymentStart"   -> f.marker \in {"DeploymentChanges", "RoleStart",
                                                       "DeploymentFinish"}
    [] e.marker = "DeploymentChanges" -> f.marker \in {"RoleStart", "DeploymentFinish"}
    [] e.marker = "RoleStart"         -> f.marker \in {"ActionStart", "RoleFinish"} /\ f.dir = e.dir
    [] e.marker = "ActionStart"       -> f.marker \in {"ActionFinish", "RoleFinish"} /\ f.dir = e.dir
    [] e.marker = "ActionFinish"      -> f.marker = "RoleFinish" /\ f.dir = e.dir
    [] e.marker = "RoleFinish"        -> \/ f.marker = "RoleStart" /\ f.dir # e.dir
                                         \/ f.marker \in {"DeploymentFinish", "DeploymentError"}
    [] OTHER                          -> FALSE

\* What the web interface reads from the index makes sense: all entries of a
\* deployment are in the index of one day, in which actions nest in roles and
\* roles in the deployment, and the deployment is closed unless it is under
\* way or the daemon has died; whichever process failed, aborted or was killed.
IndexIsWellFormed ==
  \A id \in 1 .. last_id :
    \E s \in Segment :
      LET entries == {i \in DOMAIN index[s] : index[s][i].id = id}
          over    == id \notin crashed /\ \A t \in task : t.id # id
      IN  /\ \A x \in Segment \ {s} : \A i \in DOMAIN index[x] : index[x][i].id # id
          /\ \A i \in entries :
               (\A j \in entries : i <= j) => index[s][i].marker = "DeploymentStart"
          /\ \A i, j \in entries :
               i < j /\ (\A k \in entries : k <= i \/ k >= j) => Follows(index[s][i], index[s][j])
          /\ over => \E i \in entries :
                       /\ \A j \in entries : j <= i
                       /\ index[s][i].marker \in {"DeploymentFinish", "DeploymentError"}

\* A role that has been rendered successfully has the files of its sections,
\* whole and no others, whatever earlier renderings have left half done.
FilesAreRendered ==
  \A r \in Role : \A h \in outcome[r] : dir[r] = Wanted(h, r)

\* Its service has loaded them, unless a rendering that changed them has failed
\* or died before its Condition.
ConditionIsHonoured ==
  \A r \in Role : outcome[r] # {} => loaded[r] = dir[r] \/ r \in interrupted

\* A backup stays as it was made until newer ones have taken its place, whenever
\* deployments are made, fail or die; only a crash, or an error, before backup.tmp
\* is removed lets the next backup write over the last one.
SnapshotsAreKept == [][KeepsSnapshots(faults > 0)]_vars

\* raceless_symlink repeats for ever at a temporary link without a `latest`.
Stuck == \E d \in leftovers : latest[d] = {}

\* A deployment comes to its end, whatever earlier lives have left on the disk
\* but the links that make it Stuck.
DeploymentEnds == task # {} ~> task = {} \/ Stuck
=============================================================================
