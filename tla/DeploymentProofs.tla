-------------------------- MODULE DeploymentProofs --------------------------
(***************************************************************************)
(* Proofs about Deployment, for any schedules, roles, days and faults.     *)
(*                                                                         *)
(* The strengthening has one part that says what each program still has to *)
(* do (Control), and others that say what is on the disk there: in the     *)
(* directories of the roles (RoleInv) and in the backups (BackupInv).  The *)
(* logs have a module of their own, DeploymentLogProofs.                   *)
(***************************************************************************)
EXTENDS Deployment, SequenceTheorems, TLAPS

-----------------------------------------------------------------------------
(* What is left of the programs.                                           *)

Named == {"save", "index", "roles", "spawn", "backup", "copy", "untmp", "prune",
          "latest", "templates", "pitch", "clean", "condition", "exit", "fail"}

Op == {Do(name) : name \in Named}
      \cup [op : {"link", "rename"}, dir : Dir, segment : Segment]
      \cup [op : {"check"}, dir : Dir, rotate : BOOLEAN]
      \cup [op : {"mark", "row"}, dir : LogDir, marker : Marker]
      \cup [op : {"split", "flush"}, section : Nat]
      \cup [op : {"snapshot"}, kind : Nat]

\* An operation is opened up into others of the same effect.
Rotating(d)    == CheckLog(d, TRUE)
Keeping(d)     == CheckLog(d, FALSE)
Openings(d)    == {Rotating(d), Keeping(d)} \cup {Link(d, s) : s \in Segment}
                  \cup {Renaming(d, s) : s \in Segment}
Writings(d, m) == {Mark(d, m), RowOf(d, m)}

Then(o, s) == <<o>> \o s
Cat(s, t)  == s \o t

\* The rests of Program, OfRole and Render.
ToBackup       == Then(Do("backup"), <<>>)
ToFinish       == Then(Mark(Global, "DeploymentFinish"), ToBackup)
ToRoles        == Then(Do("roles"), ToFinish)
ToChanges      == Then(Mark(Changes, "DeploymentChanges"), ToRoles)
AfterStart(b)  == IF b THEN Then(Rotating(Changes), ToChanges) ELSE ToRoles
ToStart(b)     == Then(Mark(Global, "DeploymentStart"), AfterStart(b))
ToGlobal(b)    == Then(Rotating(Global), ToStart(b))
ToIndex(b)     == Then(Do("index"), ToGlobal(b))
ToRoleEnd(r)   == Then(Mark(r, "RoleFinish"), ToRoles)
ToSpawn(r)     == Then(Do("spawn"), ToRoleEnd(r))
ToRoleStart(r) == Then(Mark(r, "RoleStart"), ToSpawn(r))
ToError        == Then(Mark(Global, "DeploymentError"), ToBackup)

ToExit         == Then(Do("exit"), <<>>)
ToFail         == Then(Do("fail"), <<>>)
ToActionEnd(r) == Then(Mark(r, "ActionFinish"), ToExit)
ToCondition(r) == Then(Do("condition"), ToActionEnd(r))
ToSplit(i, r)  == Then(Split(i), ToCondition(r))
ToFlush(i, r)  == Then(FlushOf(i), ToCondition(r))
ToPitch(r)     == Then(Do("pitch"), ToSplit(1, r))
ToAction(r)    == Then(Mark(r, "ActionStart"), ToPitch(r))
ToTemplates(r) == Then(Do("templates"), ToAction(r))
ToRole(r)      == Then(Keeping(r), ToTemplates(r))
ToLogs(r)      == Then(Keeping(Global), ToRole(r))

\* One of some operations, and then a rest.
Left(s, first, rest) == s # <<>> /\ Head(s) \in first /\ Tail(s) = rest

-----------------------------------------------------------------------------
(* The places of verwalter_render, for a role r with n sections.           *)

Opens(s, r) ==
  \/ Left(s, {Do("latest")}, ToLogs(r))
  \/ Left(s, Openings(Global), ToRole(r))
  \/ Left(s, Openings(r), ToTemplates(r))
  \/ Left(s, {Do("templates")}, ToAction(r))

Starts(s, r) == Left(s, Writings(r, "ActionStart"), ToPitch(r))

\* The directory is changed between the pitch and the condition.
Pitching(s, r)     == Left(s, {Do("pitch")}, ToSplit(1, r))
Splitting(s, r, n) == \E i \in 1 .. n \cup {1} : Left(s, {Split(i)}, ToCondition(r))
Flushing(s, r, n)  == \E i \in 1 .. n : i < n /\ Left(s, {FlushOf(i)}, ToSplit(i + 1, r))
Cleaning(s, r, n)  == Left(s, {Do("clean")}, IF n = 0 THEN ToCondition(r) ELSE ToFlush(n, r))
Ending(s, r, n)    == n > 0 /\ Left(s, {FlushOf(n)}, ToCondition(r))
Deciding(s, r)     == Left(s, {Do("condition")}, ToActionEnd(r))

Changing(s, r, n) ==
  \/ Splitting(s, r, n) \/ Flushing(s, r, n) \/ Cleaning(s, r, n)
  \/ Ending(s, r, n) \/ Deciding(s, r)

Finishes(s, r) == Left(s, Writings(r, "ActionFinish"), ToExit)
Fails(s, r)    == Left(s, Writings(r, "ActionFinish"), ToFail)
Exiting(s)     == Left(s, {Do("exit")}, <<>>)
Failing(s)     == Left(s, {Do("fail")}, <<>>)

RenderAt(s, r, n) ==
  \/ Opens(s, r) \/ Starts(s, r) \/ Pitching(s, r) \/ Changing(s, r, n)
  \/ Finishes(s, r) \/ Fails(s, r) \/ Exiting(s) \/ Failing(s)

-----------------------------------------------------------------------------
(* The places of the daemon.  Some are of the role r that it has got to.   *)

Saving(s)    == \E b \in BOOLEAN : Left(s, {Do("save")}, ToIndex(b))
Indexing(s)  == \E b \in BOOLEAN : Left(s, {Do("index")} \cup Openings(Index), ToGlobal(b))
Opening(s)   == \E b \in BOOLEAN : Left(s, Openings(Global), ToStart(b))
Starting(s)  == \E b \in BOOLEAN : Left(s, Writings(Global, "DeploymentStart"), AfterStart(b))
Comparing(s) == Left(s, Openings(Changes), ToChanges)
Noting(s)    == Left(s, Writings(Changes, "DeploymentChanges"), ToRoles)
Choosing(s)  == Left(s, {Do("roles")}, ToFinish)

RoleOpening(s, r)  == Left(s, Openings(r), ToRoleStart(r))
RoleStarting(s, r) == Left(s, Writings(r, "RoleStart"), ToSpawn(r))
Spawning(s, r)     == Left(s, {Do("spawn")}, ToRoleEnd(r))
RoleEnding(s, r)   == Left(s, Writings(r, "RoleFinish"), ToRoles)
RoleDropping(s, r) == Left(s, Writings(r, "RoleFinish"), ToError)

Finishing(s) == Left(s, Writings(Global, "DeploymentFinish"), ToBackup)
Dropping(s)  == Left(s, Writings(Global, "DeploymentError"), ToBackup)
Linking(s)   == \/ \E i \in 1 .. Len(KindOrder) : Left(s, {Snapshot(i)}, <<>>)
                \/ Left(s, {Do("untmp")}, <<Do("prune")>>)
BackingUp(s) == Left(s, {Do("backup"), Do("copy"), Do("prune")}, <<>>) \/ Linking(s)

InRole(s, r) ==
  \/ RoleOpening(s, r) \/ RoleStarting(s, r) \/ Spawning(s, r)
  \/ RoleEnding(s, r) \/ RoleDropping(s, r)

Outside(s) ==
  \/ s = <<>> \/ Saving(s) \/ Indexing(s) \/ Opening(s) \/ Starting(s) \/ Comparing(s)
  \/ Noting(s) \/ Choosing(s) \/ Finishing(s) \/ Dropping(s) \/ BackingUp(s)

\* The role that t has got to is one of the node.
HasRole(t) == t.at \in DOMAIN RoleOrder /\ Current(t) \in DOMAIN Sections[t.hash]

ControlOf(t) ==
  /\ Outside(ops["daemon"]) \/ (HasRole(t) /\ InRole(ops["daemon"], Current(t)))
  /\ ops["render"] # <<>> =>
       /\ HasRole(t)
       /\ RenderAt(ops["render"], Current(t), Len(Secs(t)))
       /\ Left(ops["daemon"], {Mark(Current(t), "RoleFinish")}, ToRoles)

Control == \A t \in task : ControlOf(t)

-----------------------------------------------------------------------------
(* Types.                                                                  *)

LogTypes ==
  /\ now \in Segment
  /\ latest \in [Dir -> SUBSET Segment]
  /\ \A d \in Dir : latest[d] = {} \/ \E s \in Segment : IsLinked(d, s)
  /\ leftovers \subseteq Dir
  /\ index \in [Segment -> Seq(Entry)]
  /\ logs \in [LogDir -> [Segment -> Seq(Row)]]
  /\ files \in [Writer -> [Dir -> Segment]]

RoleTypes == dir \in [Role -> Dirs] /\ loaded \in [Role -> Dirs] /\ pitched \in Dirs

BackupTypes ==
  /\ saved \in SUBSET Hash /\ tmp \in SUBSET (Hash \cup {0})
  /\ saved = {} \/ \E h \in Hash : saved = {h}
  /\ tmp = {} \/ \E h \in Hash \cup {0} : tmp = {h}
  /\ snapshots \in [Kind -> SUBSET [name : Nat, holds : Hash \cup {0}]]
  /\ shared \subseteq [kind : Kind, name : Nat]
  /\ \A l \in shared : l.name \in Names(l.kind)
  /\ listed \in [Kind -> SUBSET Nat]

Task == [id : Id, hash : Hash, at : 0 .. Len(RoleOrder) + 1]

DeployTypes ==
  /\ ops \in [Writer -> Seq(Op)]
  /\ task = {} \/ \E t \in Task : task = {t} /\ t.id = last_id
  /\ task = {} => \A w \in Writer : ops[w] = <<>>
  /\ last_id \in Id \cup {0}
  /\ outcome \in [Role -> SUBSET Hash]
  /\ \A r \in Role : outcome[r] = {} \/ \E h \in Hash : outcome[r] = {h}
  /\ interrupted \subseteq Role /\ crashed \subseteq Id
  /\ faults \in 0 .. MaxFaults

TypeInv == LogTypes /\ RoleTypes /\ BackupTypes /\ DeployTypes /\ Control

-----------------------------------------------------------------------------
(* The directories of the roles.                                           *)

\* The last of the first i sections that has a name.
LastOf(secs, i, name) ==
  {j \in 1 .. i : secs[j].name = name /\ \A k \in 1 .. i : secs[k].name = name => k <= j}

NamesOf(secs, i) == {secs[j].name : j \in 1 .. i}

\* The first i sections are in the directory f, but for one name.
Written(f, secs, i, but) ==
  \A name \in NamesOf(secs, i) \ but :
    f[name] = {secs[j].version : j \in LastOf(secs, i, name)}

\* What the directory f holds when verwalter_render has got to s.
RenderedFrom(t, s, f) ==
  LET r    == Current(t)
      secs == Secs(t)
      n    == Len(secs)
  IN  /\ \A i \in 1 .. n \cup {1} :
           Left(s, {Split(i)}, ToCondition(r)) => Written(f, secs, i - 1, {})
      /\ \A i \in 1 .. n :
           i < n /\ Left(s, {FlushOf(i)}, ToSplit(i + 1, r))
             => Written(f, secs, i, {secs[i].name})
      /\ Cleaning(s, r, n) /\ n > 0 => Written(f, secs, n, {secs[n].name})
      /\ Ending(s, r, n) => /\ Written(f, secs, n, {secs[n].name})
                            /\ \A name \in Name \ NamesOf(secs, n) : f[name] = {}
      /\ Deciding(s, r) \/ Finishes(s, r) \/ Exiting(s) => f = Wanted(t.hash, r)

RenderedOf(t) ==
  outcome[Current(t)] = {} /\ RenderedFrom(t, ops["render"], dir[Current(t)])

\* A directory is being changed that Condition will compare.
Pitched(r) ==
  /\ ops["render"] # <<>>
  /\ \E t \in task : HasRole(t) /\ r = Current(t) /\ Changing(ops["render"], r, Len(Secs(t)))

LoadedOf(r) == r \in interrupted \/ loaded[r] = IF Pitched(r) THEN pitched ELSE dir[r]

RoleInv ==
  /\ FilesAreRendered
  /\ \A t \in task : ops["render"] # <<>> => RenderedOf(t)
  /\ \A r \in Role : LoadedOf(r)

-----------------------------------------------------------------------------
(* The backups.                                                            *)

\* Without a fault, backup.tmp is only there while it is linked.
BackupInv == faults = 0 /\ shared # {} => Linking(ops["daemon"])
-----------------------------------------------------------------------------
(* Sequences of operations.                                                *)

LEMMA Conses ==
  ASSUME NEW o \in Op, NEW s \in Seq(Op)
  PROVE  /\ Then(o, s) \in Seq(Op) /\ Then(o, s) # <<>>
         /\ Head(Then(o, s)) = o /\ Tail(Then(o, s)) = s
BY DEF Then

LEMMA Joins ==
  ASSUME NEW o \in Op, NEW s \in Seq(Op), NEW t \in Seq(Op)
  PROVE  Cat(Then(o, s), t) = Then(o, Cat(s, t))
BY DEF Then, Cat

LEMMA JoinsOne ==
  ASSUME NEW o \in Op, NEW t \in Seq(Op)
  PROVE  Cat(Then(o, <<>>), t) = Then(o, t)
BY DEF Then, Cat

LEMMA JoinsNone ==
  ASSUME NEW t \in Seq(Op)
  PROVE  Cat(<<>>, t) = t
BY DEF Cat

LEMMA CatJoins ==
  ASSUME NEW s \in Seq(Op), NEW t \in Seq(Op), NEW u \in Seq(Op)
  PROVE  Cat(Cat(s, t), u) = Cat(s, Cat(t, u))
BY DEF Cat

LEMMA CatIsIn ==
  ASSUME NEW s \in Seq(Op), NEW t \in Seq(Op)
  PROVE  Cat(s, t) \in Seq(Op)
BY DEF Cat

LEMMA Lists ==
  /\ <<>> \in Seq(Op)
  /\ \A o \in Op : <<o>> = Then(o, <<>>)
  /\ \A o, p \in Op : <<o, p>> = Then(o, Then(p, <<>>))
  /\ \A o, p, q \in Op : <<o, p, q>> = Then(o, Then(p, Then(q, <<>>)))
<1>1. <<>> \in Seq(Op)
  OBVIOUS
<1>2. ASSUME NEW o \in Op PROVE <<o>> = Then(o, <<>>)
  BY DEF Then
<1>3. ASSUME NEW o \in Op, NEW s \in Seq(Op), NEW t \in Seq(Op),
             Len(t) = Len(s) + 1, t[1] = o, \A i \in 1 .. Len(s) : t[i + 1] = s[i]
      PROVE  t = Then(o, s)
  <2>1. Then(o, s) \in Seq(Op) /\ Len(Then(o, s)) = Len(s) + 1
    BY DEF Then
  <2>2. \A i \in 1 .. Len(s) + 1 : Then(o, s)[i] = IF i = 1 THEN o ELSE s[i - 1]
    BY DEF Then
  <2>3. \A i \in 1 .. Len(s) + 1 : i # 1 => i - 1 \in 1 .. Len(s) /\ (i - 1) + 1 = i
    OBVIOUS
  <2>4. \A i \in 1 .. Len(t) : t[i] = Then(o, s)[i]
    BY <1>3, <2>2, <2>3
  <2> QED BY <1>3, <2>1, <2>4, SeqEqual
<1>4. ASSUME NEW o \in Op, NEW p \in Op
      PROVE  <<o, p>> = Then(o, <<p>>)
  <2>1. /\ <<o, p>> \in Seq(Op) /\ <<p>> \in Seq(Op) /\ Len(<<o, p>>) = Len(<<p>>) + 1
        /\ <<o, p>>[1] = o /\ \A i \in 1 .. Len(<<p>>) : <<o, p>>[i + 1] = <<p>>[i]
    OBVIOUS
  <2> QED BY <1>3, <2>1, Zenon
<1>5. ASSUME NEW o \in Op, NEW p \in Op, NEW q \in Op
      PROVE  <<o, p, q>> = Then(o, <<p, q>>)
  <2>1. /\ <<o, p, q>> \in Seq(Op) /\ <<p, q>> \in Seq(Op)
        /\ Len(<<o, p, q>>) = Len(<<p, q>>) + 1
        /\ <<o, p, q>>[1] = o /\ \A i \in 1 .. Len(<<p, q>>) : <<o, p, q>>[i + 1] = <<p, q>>[i]
    OBVIOUS
  <2> QED BY <1>3, <2>1, Zenon
<1> QED BY <1>1, <1>2, <1>4, <1>5

LEMMA Ops ==
  /\ \A name \in Named : Do(name) \in Op
  /\ \A d \in Dir : Rotating(d) \in Op /\ Keeping(d) \in Op
  /\ \A d \in Dir, s \in Segment : Link(d, s) \in Op /\ Renaming(d, s) \in Op
  /\ \A d \in LogDir, m \in Marker : Mark(d, m) \in Op /\ RowOf(d, m) \in Op
  /\ \A i \in Nat : Split(i) \in Op /\ FlushOf(i) \in Op /\ Snapshot(i) \in Op
BY DEF Op, Do, CheckLog, Rotating, Keeping, Link, Renaming, Mark, RowOf, Split, FlushOf, Snapshot

LEMMA DaemonRests ==
  /\ ToBackup \in Seq(Op) /\ Left(ToBackup, {Do("backup")}, <<>>)
  /\ ToFinish \in Seq(Op) /\ Left(ToFinish, {Mark(Global, "DeploymentFinish")}, ToBackup)
  /\ ToError \in Seq(Op) /\ Left(ToError, {Mark(Global, "DeploymentError")}, ToBackup)
  /\ ToRoles \in Seq(Op) /\ Left(ToRoles, {Do("roles")}, ToFinish)
  /\ ToChanges \in Seq(Op) /\ Left(ToChanges, {Mark(Changes, "DeploymentChanges")}, ToRoles)
<1>1. ToBackup \in Seq(Op) /\ Left(ToBackup, {Do("backup")}, <<>>)
  BY Ops, Conses, Lists DEF ToBackup, Left, Named
<1>2. ToFinish \in Seq(Op) /\ Left(ToFinish, {Mark(Global, "DeploymentFinish")}, ToBackup)
  BY <1>1, Ops, Conses DEF ToFinish, Left, LogDir, Marker
<1>3. ToError \in Seq(Op) /\ Left(ToError, {Mark(Global, "DeploymentError")}, ToBackup)
  BY <1>1, Ops, Conses DEF ToError, Left, LogDir, Marker
<1>4. ToRoles \in Seq(Op) /\ Left(ToRoles, {Do("roles")}, ToFinish)
  BY <1>2, Ops, Conses DEF ToRoles, Left, Named
<1>5. ToChanges \in Seq(Op) /\ Left(ToChanges, {Mark(Changes, "DeploymentChanges")}, ToRoles)
  BY <1>4, Ops, Conses DEF ToChanges, Left, LogDir, Marker
<1> QED BY <1>1, <1>2, <1>3, <1>4, <1>5

LEMMA StartRests ==
  ASSUME NEW b \in BOOLEAN
  PROVE  /\ AfterStart(b) \in Seq(Op)
         /\ Left(AfterStart(TRUE), {Rotating(Changes)}, ToChanges)
         /\ AfterStart(FALSE) = ToRoles
         /\ ToStart(b) \in Seq(Op)
         /\ Left(ToStart(b), {Mark(Global, "DeploymentStart")}, AfterStart(b))
         /\ ToGlobal(b) \in Seq(Op) /\ Left(ToGlobal(b), {Rotating(Global)}, ToStart(b))
         /\ ToIndex(b) \in Seq(Op) /\ Left(ToIndex(b), {Do("index")}, ToGlobal(b))
<1>1. /\ AfterStart(TRUE) \in Seq(Op)
      /\ Left(AfterStart(TRUE), {Rotating(Changes)}, ToChanges)
      /\ AfterStart(FALSE) \in Seq(Op) /\ AfterStart(FALSE) = ToRoles
  <2>1. AfterStart(TRUE) = Then(Rotating(Changes), ToChanges) /\ AfterStart(FALSE) = ToRoles
    BY DEF AfterStart
  <2>2. Rotating(Changes) \in Op
    BY Ops DEF Dir, LogDir
  <2>3. ToChanges \in Seq(Op) /\ ToRoles \in Seq(Op)
    BY DaemonRests
  <2>4. Left(Then(Rotating(Changes), ToChanges), {Rotating(Changes)}, ToChanges)
    BY <2>2, <2>3, Conses DEF Left
  <2>5. Then(Rotating(Changes), ToChanges) \in Seq(Op)
    BY <2>2, <2>3, Conses
  <2> QED BY <2>1, <2>3, <2>4, <2>5
<1>5. AfterStart(b) \in Seq(Op)
  BY <1>1
<1>2. ToStart(b) \in Seq(Op) /\ Left(ToStart(b), {Mark(Global, "DeploymentStart")}, AfterStart(b))
  BY <1>5, Ops, Conses DEF ToStart, Left, LogDir, Marker
<1>3. ToGlobal(b) \in Seq(Op) /\ Left(ToGlobal(b), {Rotating(Global)}, ToStart(b))
  BY <1>2, Ops, Conses DEF ToGlobal, Left, Dir, LogDir
<1>4. ToIndex(b) \in Seq(Op) /\ Left(ToIndex(b), {Do("index")}, ToGlobal(b))
  BY <1>3, Ops, Conses DEF ToIndex, Left, Named
<1> QED BY <1>1, <1>2, <1>3, <1>4, <1>5

LEMMA RoleRests ==
  ASSUME NEW r \in Role
  PROVE  /\ ToRoleEnd(r) \in Seq(Op) /\ Left(ToRoleEnd(r), {Mark(r, "RoleFinish")}, ToRoles)
         /\ ToSpawn(r) \in Seq(Op) /\ Left(ToSpawn(r), {Do("spawn")}, ToRoleEnd(r))
         /\ ToRoleStart(r) \in Seq(Op) /\ Left(ToRoleStart(r), {Mark(r, "RoleStart")}, ToSpawn(r))
<1>1. ToRoleEnd(r) \in Seq(Op) /\ Left(ToRoleEnd(r), {Mark(r, "RoleFinish")}, ToRoles)
  BY DaemonRests, Ops, Conses DEF ToRoleEnd, Left, LogDir, Marker
<1>2. ToSpawn(r) \in Seq(Op) /\ Left(ToSpawn(r), {Do("spawn")}, ToRoleEnd(r))
  BY <1>1, Ops, Conses DEF ToSpawn, Left, Named
<1>3. ToRoleStart(r) \in Seq(Op) /\ Left(ToRoleStart(r), {Mark(r, "RoleStart")}, ToSpawn(r))
  BY <1>2, Ops, Conses DEF ToRoleStart, Left, LogDir, Marker
<1> QED BY <1>1, <1>2, <1>3

LEMMA RenderRests ==
  ASSUME NEW r \in Role
  PROVE  /\ ToExit \in Seq(Op) /\ Left(ToExit, {Do("exit")}, <<>>)
         /\ ToFail \in Seq(Op) /\ Left(ToFail, {Do("fail")}, <<>>)
         /\ ToActionEnd(r) \in Seq(Op) /\ Left(ToActionEnd(r), {Mark(r, "ActionFinish")}, ToExit)
         /\ ToCondition(r) \in Seq(Op) /\ Left(ToCondition(r), {Do("condition")}, ToActionEnd(r))
         /\ \A i \in Nat :
              /\ ToSplit(i, r) \in Seq(Op) /\ Left(ToSplit(i, r), {Split(i)}, ToCondition(r))
              /\ ToFlush(i, r) \in Seq(Op) /\ Left(ToFlush(i, r), {FlushOf(i)}, ToCondition(r))
         /\ ToPitch(r) \in Seq(Op) /\ Left(ToPitch(r), {Do("pitch")}, ToSplit(1, r))
         /\ ToAction(r) \in Seq(Op) /\ Left(ToAction(r), {Mark(r, "ActionStart")}, ToPitch(r))
         /\ ToTemplates(r) \in Seq(Op) /\ Left(ToTemplates(r), {Do("templates")}, ToAction(r))
         /\ ToRole(r) \in Seq(Op) /\ Left(ToRole(r), {Keeping(r)}, ToTemplates(r))
         /\ ToLogs(r) \in Seq(Op) /\ Left(ToLogs(r), {Keeping(Global)}, ToRole(r))
<1>1. ToExit \in Seq(Op) /\ Left(ToExit, {Do("exit")}, <<>>)
  BY Ops, Conses, Lists DEF ToExit, Left, Named
<1>2. ToFail \in Seq(Op) /\ Left(ToFail, {Do("fail")}, <<>>)
  BY Ops, Conses, Lists DEF ToFail, Left, Named
<1>3. ToActionEnd(r) \in Seq(Op) /\ Left(ToActionEnd(r), {Mark(r, "ActionFinish")}, ToExit)
  BY <1>1, Ops, Conses DEF ToActionEnd, Left, LogDir, Marker
<1>4. ToCondition(r) \in Seq(Op) /\ Left(ToCondition(r), {Do("condition")}, ToActionEnd(r))
  BY <1>3, Ops, Conses DEF ToCondition, Left, Named
<1>5. ASSUME NEW i \in Nat
      PROVE  /\ ToSplit(i, r) \in Seq(Op) /\ Left(ToSplit(i, r), {Split(i)}, ToCondition(r))
             /\ ToFlush(i, r) \in Seq(Op) /\ Left(ToFlush(i, r), {FlushOf(i)}, ToCondition(r))
  BY <1>4, Ops, Conses DEF ToSplit, ToFlush, Left
<1>6. ToPitch(r) \in Seq(Op) /\ Left(ToPitch(r), {Do("pitch")}, ToSplit(1, r))
  BY <1>5, Ops, Conses DEF ToPitch, Left, Named
<1>7. ToAction(r) \in Seq(Op) /\ Left(ToAction(r), {Mark(r, "ActionStart")}, ToPitch(r))
  BY <1>6, Ops, Conses DEF ToAction, Left, LogDir, Marker
<1>8. ToTemplates(r) \in Seq(Op) /\ Left(ToTemplates(r), {Do("templates")}, ToAction(r))
  BY <1>7, Ops, Conses DEF ToTemplates, Left, Named
<1>9. ToRole(r) \in Seq(Op) /\ Left(ToRole(r), {Keeping(r)}, ToTemplates(r))
  BY <1>8, Ops, Conses DEF ToRole, Left, Dir, LogDir
<1>10. ToLogs(r) \in Seq(Op) /\ Left(ToLogs(r), {Keeping(Global)}, ToRole(r))
  BY <1>9, Ops, Conses DEF ToLogs, Left, Dir, LogDir
<1> QED BY <1>1, <1>2, <1>3, <1>4, <1>5, <1>6, <1>7, <1>8, <1>9, <1>10

\* The programs begin with their first operation.
LEMMA ProgramBegins ==
  ASSUME NEW b \in BOOLEAN
  PROVE  Program(b) = Then(Do("save"), ToIndex(b)) /\ Program(b) \in Seq(Op)
<1> DEFINE changes == IF b THEN <<Rotating(Changes), Mark(Changes, "DeploymentChanges")>>
                           ELSE <<>>
           rest    == <<Do("roles"), Mark(Global, "DeploymentFinish"), Do("backup")>>
<1>1. /\ Do("save") \in Op /\ Do("index") \in Op /\ Do("roles") \in Op /\ Do("backup") \in Op
      /\ Mark(Changes, "DeploymentChanges") \in Op /\ Mark(Global, "DeploymentFinish") \in Op
      /\ Mark(Global, "DeploymentStart") \in Op
      /\ Rotating(Global) \in Op /\ Rotating(Changes) \in Op
  BY Ops DEF Named, Dir, LogDir, Marker
<1>2. rest = ToRoles
  BY <1>1, Lists DEF ToRoles, ToFinish, ToBackup
<1>3. Cat(changes, ToRoles) = AfterStart(b) /\ changes \in Seq(Op)
  <2>1. CASE b
    <3>1. changes = Then(Rotating(Changes), Then(Mark(Changes, "DeploymentChanges"), <<>>))
      BY <2>1, <1>1, Lists
    <3>2. Then(Mark(Changes, "DeploymentChanges"), <<>>) \in Seq(Op)
      BY <1>1, Lists, Conses
    <3> HIDE DEF changes
    <3>3. changes \in Seq(Op)
      BY <1>1, <3>1, <3>2, Conses
    <3>4. ToRoles \in Seq(Op)
      BY DaemonRests
    <3>5. Cat(Then(Mark(Changes, "DeploymentChanges"), <<>>), ToRoles) = ToChanges
      BY <1>1, <3>4, JoinsOne DEF ToChanges
    <3>6. Cat(changes, ToRoles) = Then(Rotating(Changes), ToChanges)
      BY <1>1, <3>1, <3>2, <3>4, <3>5, Joins
    <3> QED BY <2>1, <3>3, <3>6 DEF AfterStart
  <2>2. CASE ~b
    BY <2>2, JoinsNone, Lists, DaemonRests DEF AfterStart
  <2> QED BY <2>1, <2>2
<1>4. AfterStart(b) \in Seq(Op) /\ ToIndex(b) \in Seq(Op)
  BY StartRests
<1> DEFINE mark  == Then(Mark(Global, "DeploymentStart"), <<>>)
           check == Then(Rotating(Global), mark)
           start == Then(Do("index"), check)
<1>5. Program(b) = Cat(Cat(Cat(<<Do("save")>>, StartOfDeployment), changes), rest)
  BY DEF Program, Cat, Rotating
<1>6. <<Do("save")>> = Then(Do("save"), <<>>) /\ StartOfDeployment = start
  BY <1>1, Lists DEF StartOfDeployment, Rotating
<1> HIDE DEF changes, rest
<1>7. mark \in Seq(Op) /\ check \in Seq(Op) /\ start \in Seq(Op)
  BY <1>1, Lists, Conses
<1>8. Cat(mark, changes) \in Seq(Op) /\ Cat(Cat(mark, changes), ToRoles) = ToStart(b)
  BY <1>1, <1>3, <1>4, <1>7, JoinsOne, CatJoins, CatIsIn, DaemonRests DEF ToStart
<1> HIDE DEF mark
<1>9. Cat(check, changes) \in Seq(Op) /\ Cat(Cat(check, changes), ToRoles) = ToGlobal(b)
  BY <1>1, <1>3, <1>7, <1>8, Joins, CatJoins, CatIsIn, DaemonRests DEF ToGlobal, check
<1> HIDE DEF check
<1>10. Cat(start, changes) \in Seq(Op) /\ Cat(Cat(start, changes), ToRoles) = ToIndex(b)
  BY <1>1, <1>3, <1>7, <1>9, Joins, CatJoins, CatIsIn, DaemonRests DEF ToIndex, start
<1> HIDE DEF start
<1>11. Cat(Cat(Cat(Then(Do("save"), <<>>), start), changes), ToRoles) = Then(Do("save"), ToIndex(b))
  BY <1>1, <1>3, <1>7, <1>10, Joins, JoinsOne, DaemonRests
<1>12. Program(b) = Then(Do("save"), ToIndex(b))
  BY <1>2, <1>5, <1>6, <1>11
<1> QED BY <1>1, <1>4, <1>12, Conses

LEMMA RenderBegins ==
  ASSUME NEW r \in Role
  PROVE  Render(r) = Then(Do("latest"), ToLogs(r)) /\ Render(r) \in Seq(Op)
<1> DEFINE work  == <<Do("pitch"), Split(1), Do("condition")>>
           begin == <<Mark(r, "ActionStart")>>
           drop  == <<Mark(r, "ActionFinish")>>
<1>1. /\ Do("latest") \in Op /\ Do("templates") \in Op /\ Do("pitch") \in Op
      /\ Do("condition") \in Op /\ Do("exit") \in Op /\ Split(1) \in Op
      /\ Mark(r, "ActionStart") \in Op /\ Mark(r, "ActionFinish") \in Op
      /\ Keeping(Global) \in Op /\ Keeping(r) \in Op
  BY Ops DEF Named, Dir, LogDir, Marker
<1>2. begin = Then(Mark(r, "ActionStart"), <<>>) /\ begin \in Seq(Op)
  BY <1>1, Lists
<1>3. drop = Then(Mark(r, "ActionFinish"), <<>>) /\ drop \in Seq(Op)
  BY <1>1, Lists
<1> DEFINE condition == Then(Do("condition"), <<>>)
           split     == Then(Split(1), condition)
           check     == Then(Keeping(r), <<>>)
           global    == Then(Keeping(Global), check)
           templates == Then(Do("templates"), <<>>)
<1>4. work = Then(Do("pitch"), split) /\ <<Do("exit")>> = ToExit /\ <<Do("templates")>> = templates
      /\ OpensLogs(r) = Then(Do("latest"), global)
  <2>1. work = Then(Do("pitch"), split)
    BY <1>1, Lists
  <2>2. <<Do("exit")>> = ToExit /\ <<Do("templates")>> = templates
    BY <1>1, Lists DEF ToExit
  <2>3. OpensLogs(r) = Then(Do("latest"), global)
    BY <1>1, Lists DEF OpensLogs, Keeping
  <2> QED BY <2>1, <2>2, <2>3
<1>5. /\ condition \in Seq(Op) /\ split \in Seq(Op) /\ Then(Do("pitch"), split) \in Seq(Op)
      /\ check \in Seq(Op) /\ global \in Seq(Op) /\ Then(Do("latest"), global) \in Seq(Op)
      /\ templates \in Seq(Op)
  BY <1>1, Lists, Conses
<1>6. Render(r) = Cat(Cat(Cat(Cat(Cat(OpensLogs(r), <<Do("templates")>>), begin), work), drop),
                      <<Do("exit")>>)
  BY DEF Render, Cat, StartAction, DropAction
<1> DEFINE one == Cat(Then(Do("latest"), global), templates)
           two == Cat(one, begin)
           all == Cat(two, work)
<1> HIDE DEF work, begin, drop, condition, split, check, global, templates
<1>7. /\ ToExit \in Seq(Op) /\ ToActionEnd(r) \in Seq(Op) /\ ToCondition(r) \in Seq(Op)
      /\ ToSplit(1, r) \in Seq(Op) /\ ToPitch(r) \in Seq(Op) /\ ToAction(r) \in Seq(Op)
      /\ ToTemplates(r) \in Seq(Op) /\ ToRole(r) \in Seq(Op) /\ ToLogs(r) \in Seq(Op)
  BY RenderRests
<1>8. Cat(drop, ToExit) = ToActionEnd(r)
  BY <1>1, <1>3, <1>7, JoinsOne DEF ToActionEnd
<1>9. Cat(work, ToActionEnd(r)) = ToPitch(r)
  <2>1. Cat(condition, ToActionEnd(r)) = ToCondition(r)
    BY <1>1, <1>7, JoinsOne DEF ToCondition, condition
  <2>2. Cat(split, ToActionEnd(r)) = ToSplit(1, r)
    BY <1>1, <1>5, <1>7, <2>1, Joins DEF ToSplit, split
  <2> QED BY <1>1, <1>4, <1>5, <1>7, <2>2, Joins DEF ToPitch
<1>10. Cat(begin, ToPitch(r)) = ToAction(r)
  BY <1>1, <1>2, <1>7, JoinsOne DEF ToAction
<1>11. Cat(templates, ToAction(r)) = ToTemplates(r)
  BY <1>1, <1>7, JoinsOne DEF ToTemplates, templates
<1>12. Cat(Then(Do("latest"), global), ToTemplates(r)) = Then(Do("latest"), ToLogs(r))
  <2>1. Cat(check, ToTemplates(r)) = ToRole(r)
    BY <1>1, <1>7, JoinsOne DEF ToRole, check
  <2>2. Cat(global, ToTemplates(r)) = ToLogs(r)
    BY <1>1, <1>5, <1>7, <2>1, Joins DEF ToLogs, global
  <2> QED BY <1>1, <1>5, <1>7, <2>2, Joins
<1>13. one \in Seq(Op) /\ Cat(one, ToAction(r)) = Then(Do("latest"), ToLogs(r))
  BY <1>5, <1>7, <1>11, <1>12, CatJoins, CatIsIn
<1> HIDE DEF one
<1>14. two \in Seq(Op) /\ Cat(two, ToPitch(r)) = Then(Do("latest"), ToLogs(r))
  BY <1>2, <1>7, <1>10, <1>13, CatJoins, CatIsIn
<1> HIDE DEF two
<1>15. work \in Seq(Op)
  BY <1>4, <1>5
<1>16. all \in Seq(Op) /\ Cat(all, ToActionEnd(r)) = Then(Do("latest"), ToLogs(r))
  BY <1>7, <1>9, <1>14, <1>15, CatJoins, CatIsIn
<1> HIDE DEF all
<1>17. Cat(Cat(all, drop), ToExit) = Then(Do("latest"), ToLogs(r))
  BY <1>3, <1>7, <1>8, <1>16, CatJoins
<1>18. Render(r) = Cat(Cat(all, drop), ToExit)
  BY <1>4, <1>6 DEF one, two, all
<1> QED BY <1>1, <1>7, <1>17, <1>18, Conses

LEMMA RoleBegins ==
  ASSUME NEW r \in Role
  PROVE  /\ OfRole(r) \o ToFinish = Then(Rotating(r), ToRoleStart(r))
         /\ OfRole(r) \o ToFinish \in Seq(Op)
<1> DEFINE mark  == Then(Mark(r, "RoleStart"), <<>>)
           start == Then(Rotating(r), mark)
           spawn == Then(Do("spawn"), <<>>)
           drop  == Then(Mark(r, "RoleFinish"), <<>>)
           roles == Then(Do("roles"), <<>>)
<1>1. /\ Do("spawn") \in Op /\ Do("roles") \in Op /\ Rotating(r) \in Op
      /\ Mark(r, "RoleStart") \in Op /\ Mark(r, "RoleFinish") \in Op
  BY Ops DEF Named, Dir, LogDir, Marker
<1>2. /\ mark \in Seq(Op) /\ start \in Seq(Op) /\ spawn \in Seq(Op) /\ drop \in Seq(Op)
      /\ roles \in Seq(Op)
  BY <1>1, Lists, Conses
<1>3. OfRole(r) \o ToFinish = Cat(Cat(Cat(Cat(start, spawn), drop), roles), ToFinish)
  <2>1. StartOfRole(r) = start /\ <<Do("spawn")>> = spawn /\ DropRole(r) = drop
        /\ <<Do("roles")>> = roles
    BY <1>1, Lists DEF StartOfRole, DropRole, Rotating
  <2> HIDE DEF start, spawn, drop, roles
  <2> QED BY <2>1 DEF OfRole, Cat
<1>4. ToFinish \in Seq(Op) /\ ToRoles \in Seq(Op) /\ ToRoleEnd(r) \in Seq(Op)
      /\ ToSpawn(r) \in Seq(Op) /\ ToRoleStart(r) \in Seq(Op)
  BY DaemonRests, RoleRests
<1>5. Cat(roles, ToFinish) = ToRoles /\ Cat(drop, ToRoles) = ToRoleEnd(r)
      /\ Cat(spawn, ToRoleEnd(r)) = ToSpawn(r) /\ Cat(mark, ToSpawn(r)) = ToRoleStart(r)
  BY <1>1, <1>4, JoinsOne DEF ToRoles, ToRoleEnd, ToSpawn, ToRoleStart
<1>6. Cat(start, ToSpawn(r)) = Then(Rotating(r), ToRoleStart(r))
  BY <1>1, <1>2, <1>4, <1>5, Joins
<1> HIDE DEF start, spawn, drop, roles
<1>7. Cat(start, spawn) \in Seq(Op)
      /\ Cat(Cat(start, spawn), ToRoleEnd(r)) = Then(Rotating(r), ToRoleStart(r))
  BY <1>2, <1>4, <1>5, <1>6, CatJoins, CatIsIn
<1>8. Cat(Cat(start, spawn), drop) \in Seq(Op)
      /\ Cat(Cat(Cat(start, spawn), drop), ToRoles) = Then(Rotating(r), ToRoleStart(r))
  BY <1>2, <1>4, <1>5, <1>7, CatJoins, CatIsIn
<1>9. Cat(Cat(Cat(Cat(start, spawn), drop), roles), ToFinish)
      = Then(Rotating(r), ToRoleStart(r))
  BY <1>2, <1>4, <1>5, <1>8, CatJoins, CatIsIn
<1> QED BY <1>1, <1>3, <1>4, <1>9, Conses

\* What is left when a role is given up, and when an action is.
LEMMA Drops ==
  ASSUME NEW r \in Role
  PROVE  /\ DropRole(r) \o DropDeployment \o <<Do("backup")>> = Then(Mark(r, "RoleFinish"), ToError)
         /\ DropAction(r) \o <<Do("fail")>> = Then(Mark(r, "ActionFinish"), ToFail)
<1>1. /\ Do("backup") \in Op /\ Do("fail") \in Op /\ Mark(r, "RoleFinish") \in Op
      /\ Mark(Global, "DeploymentError") \in Op /\ Mark(r, "ActionFinish") \in Op
  BY Ops DEF Named, LogDir, Marker
<1> DEFINE drop  == Then(Mark(r, "RoleFinish"), <<>>)
           error == Then(Mark(Global, "DeploymentError"), <<>>)
<1>2. DropRole(r) = drop /\ DropDeployment = error /\ <<Do("backup")>> = ToBackup
      /\ DropAction(r) = Then(Mark(r, "ActionFinish"), <<>>) /\ <<Do("fail")>> = ToFail
  BY <1>1, Lists DEF DropRole, DropDeployment, DropAction, ToBackup, ToFail
<1>3. /\ drop \in Seq(Op) /\ error \in Seq(Op) /\ ToBackup \in Seq(Op)
      /\ ToError \in Seq(Op) /\ ToFail \in Seq(Op)
  BY <1>1, Lists, Conses, DaemonRests, RenderRests
<1>4. Cat(error, ToBackup) = ToError /\ Cat(drop, ToError) = Then(Mark(r, "RoleFinish"), ToError)
      /\ Cat(Then(Mark(r, "ActionFinish"), <<>>), ToFail) = Then(Mark(r, "ActionFinish"), ToFail)
  BY <1>1, <1>3, JoinsOne DEF ToError
<1> HIDE DEF drop, error
<1>5. Cat(Cat(drop, error), ToBackup) = Then(Mark(r, "RoleFinish"), ToError)
  BY <1>3, <1>4, CatJoins
<1> QED BY <1>2, <1>4, <1>5 DEF Cat

LEMMA OpKinds ==
  /\ \A name : Do(name).op = name
  /\ \A d : \A o \in Openings(d) : o.op \in {"check", "link", "rename"} /\ o.dir = d
  /\ \A d, m : \A o \in Writings(d, m) : o.op \in {"mark", "row"} /\ o.dir = d /\ o.marker = m
  /\ \A i : Split(i).op = "split" /\ Split(i).section = i
  /\ \A i : FlushOf(i).op = "flush" /\ FlushOf(i).section = i
  /\ \A i : Snapshot(i).op = "snapshot" /\ Snapshot(i).kind = i
BY DEF Do, Openings, Rotating, Keeping, CheckLog, Link, Renaming, Writings, Mark, RowOf,
       Split, FlushOf, Snapshot

LEMMA OpForms ==
  ASSUME NEW o \in Op
  PROVE  /\ o.op = "check" => o.dir \in Dir /\ o \in Openings(o.dir)
         /\ o.op \in {"link", "rename"} =>
              o.dir \in Dir /\ o.segment \in Segment /\ o \in Openings(o.dir)
         /\ o.op \in {"mark", "row"} =>
              o.dir \in LogDir /\ o.marker \in Marker /\ o \in Writings(o.dir, o.marker)
         /\ o.op \in {"split", "flush"} => o.section \in Nat
         /\ o.op = "snapshot" => o.kind \in Nat
<1>1. CASE o \in {Do(name) : name \in Named}
  BY <1>1 DEF Do, Named
<1>2. CASE o \in [op : {"link", "rename"}, dir : Dir, segment : Segment]
  <2>1. o = Link(o.dir, o.segment) \/ o = Renaming(o.dir, o.segment)
    BY <1>2 DEF Link, Renaming
  <2> QED BY <1>2, <2>1 DEF Openings
<1>3. CASE o \in [op : {"check"}, dir : Dir, rotate : BOOLEAN]
  <2>1. o.rotate = TRUE => o = Rotating(o.dir)
    BY <1>3 DEF Rotating, CheckLog
  <2>2. o.rotate = FALSE => o = Keeping(o.dir)
    BY <1>3 DEF Keeping, CheckLog
  <2> QED BY <1>3, <2>1, <2>2 DEF Openings
<1>4. CASE o \in [op : {"mark", "row"}, dir : LogDir, marker : Marker]
  <2>1. o = Mark(o.dir, o.marker) \/ o = RowOf(o.dir, o.marker)
    BY <1>4 DEF Mark, RowOf
  <2> QED BY <1>4, <2>1 DEF Writings
<1>5. CASE o \in [op : {"split", "flush"}, section : Nat]
  BY <1>5
<1>6. CASE o \in [op : {"snapshot"}, kind : Nat]
  BY <1>6
<1> QED BY <1>1, <1>2, <1>3, <1>4, <1>5, <1>6 DEF Op

\* An operation is opened up, and the rest stays.
Stays(s, x) ==
  /\ x # <<>> /\ Tail(x) = Tail(s)
  /\ \/ Head(s) = Do("index") /\ Head(x) \in Openings(Index)
     \/ \E d : Head(s) \in Openings(d) /\ Head(x) \in Openings(d)
     \/ \E d, m : Head(s) \in Writings(d, m) /\ Head(x) \in Writings(d, m)

\* A part of a place: it stays what it is.
LEMMA PartStays ==
  ASSUME NEW s, NEW x, s # <<>>, Stays(s, x)
  PROVE  /\ \A d, rest : Left(s, Openings(d), rest) => Left(x, Openings(d), rest)
         /\ \A d, m, rest : Left(s, Writings(d, m), rest) => Left(x, Writings(d, m), rest)
         /\ \A rest : Left(s, {Do("index")} \cup Openings(Index), rest)
                        => Left(x, {Do("index")} \cup Openings(Index), rest)
         /\ \A name \in Named : \A rest : name # "index" => ~Left(s, {Do(name)}, rest)
         /\ \A i, rest : ~Left(s, {Split(i)}, rest) /\ ~Left(s, {FlushOf(i)}, rest)
                         /\ ~Left(s, {Snapshot(i)}, rest)
<1>1. \A d : Head(s) \in Openings(d) => Head(x) \in Openings(d)
  BY OpKinds DEF Stays
<1>2. \A d, m : Head(s) \in Writings(d, m) => Head(x) \in Writings(d, m)
  BY OpKinds DEF Stays
<1>3. Head(s) \in {Do("index")} \cup Openings(Index) => Head(x) \in {Do("index")} \cup Openings(Index)
  BY OpKinds DEF Stays
<1>4. x # <<>> /\ Tail(x) = Tail(s) /\ Head(s).op \in {"index", "check", "link", "rename", "mark", "row"}
  BY OpKinds DEF Stays
<1>5. \A d, rest : Left(s, Openings(d), rest) => Left(x, Openings(d), rest)
  BY <1>1, <1>4 DEF Left
<1>6. \A d, m, rest : Left(s, Writings(d, m), rest) => Left(x, Writings(d, m), rest)
  BY <1>2, <1>4 DEF Left
<1>7. \A rest : Left(s, {Do("index")} \cup Openings(Index), rest)
                   => Left(x, {Do("index")} \cup Openings(Index), rest)
  BY <1>3, <1>4 DEF Left
<1>8. \A name \in Named : \A rest : name # "index" => ~Left(s, {Do(name)}, rest)
  BY <1>4, OpKinds DEF Left, Named
<1>9. \A i, rest : ~Left(s, {Split(i)}, rest) /\ ~Left(s, {FlushOf(i)}, rest)
                   /\ ~Left(s, {Snapshot(i)}, rest)
  BY <1>4, OpKinds DEF Left
<1> QED BY <1>5, <1>6, <1>7, <1>8, <1>9

LEMMA DaemonStays ==
  ASSUME NEW r, NEW s, NEW x, s # <<>>, Stays(s, x), Outside(s) \/ InRole(s, r)
  PROVE  /\ Outside(s) => Outside(x)
         /\ InRole(s, r) => InRole(x, r)
         /\ s # <<>> /\ x # <<>>
<1>1. ~Saving(s) /\ ~Choosing(s) /\ ~BackingUp(s) /\ ~Spawning(s, r)
  <2>1. ~Saving(s) /\ ~Choosing(s) /\ ~Spawning(s, r)
    BY PartStays DEF Saving, Choosing, Spawning, Named
  <2>2. ~Linking(s)
    BY PartStays DEF Linking, Named
  <2>3. ~Left(s, {Do("backup"), Do("copy"), Do("prune")}, <<>>)
    BY PartStays DEF Left, Named
  <2> QED BY <2>1, <2>2, <2>3 DEF BackingUp
<1>2. /\ Indexing(s) => Indexing(x)
      /\ Opening(s) => Opening(x)
      /\ Starting(s) => Starting(x)
      /\ Comparing(s) => Comparing(x)
      /\ Noting(s) => Noting(x)
      /\ Finishing(s) => Finishing(x)
      /\ Dropping(s) => Dropping(x)
  BY PartStays DEF Indexing, Opening, Starting, Comparing, Noting, Finishing, Dropping
<1>3. /\ RoleOpening(s, r) => RoleOpening(x, r)
      /\ RoleStarting(s, r) => RoleStarting(x, r)
      /\ RoleEnding(s, r) => RoleEnding(x, r)
      /\ RoleDropping(s, r) => RoleDropping(x, r)
  BY PartStays DEF RoleOpening, RoleStarting, RoleEnding, RoleDropping
<1> QED BY <1>1, <1>2, <1>3 DEF Outside, InRole, Stays

\* verwalter_render opens its index at once: it has no Do("index").
LEMMA RenderStays ==
  ASSUME NEW r, NEW n, NEW s, NEW x, s # <<>>, Stays(s, x), RenderAt(s, r, n)
  PROVE  /\ RenderAt(x, r, n) /\ ~Pitching(s, r) /\ ~Changing(s, r, n) /\ ~Exiting(s) /\ ~Failing(s)
         /\ Opens(s, r) => Opens(x, r)
         /\ Starts(s, r) => Starts(x, r)
         /\ Finishes(s, r) => Finishes(x, r)
         /\ Fails(s, r) => Fails(x, r)
<1>1. ~Pitching(s, r) /\ ~Changing(s, r, n) /\ ~Exiting(s) /\ ~Failing(s)
  <2>1. ~Pitching(s, r) /\ ~Exiting(s) /\ ~Failing(s) /\ ~Deciding(s, r) /\ ~Cleaning(s, r, n)
    BY PartStays DEF Pitching, Exiting, Failing, Deciding, Cleaning, Named
  <2>2. ~Splitting(s, r, n) /\ ~Flushing(s, r, n) /\ ~Ending(s, r, n)
    BY PartStays DEF Splitting, Flushing, Ending
  <2> QED BY <2>1, <2>2 DEF Changing
<1>2. Opens(s, r) => Opens(x, r)
  BY PartStays DEF Opens, Named
<1>3. /\ Starts(s, r) => Starts(x, r)
      /\ Finishes(s, r) => Finishes(x, r)
      /\ Fails(s, r) => Fails(x, r)
  BY PartStays DEF Starts, Finishes, Fails
<1> QED BY <1>1, <1>2, <1>3 DEF RenderAt

\* An operation is done: the rest begins with the next one.
LEMMA DaemonPops ==
  ASSUME NEW s, s # <<>>
  PROVE  /\ \A b \in BOOLEAN :
              /\ Left(s, {Do("save")}, ToIndex(b)) => Left(Tail(s), {Do("index")}, ToGlobal(b))
              /\ Left(s, {Do("index")} \cup Openings(Index), ToGlobal(b))
                   => Left(Tail(s), {Rotating(Global)}, ToStart(b))
              /\ Left(s, Openings(Global), ToStart(b))
                   => Left(Tail(s), {Mark(Global, "DeploymentStart")}, AfterStart(b))
         /\ Starting(s) => \/ Left(Tail(s), {Rotating(Changes)}, ToChanges)
                           \/ Left(Tail(s), {Do("roles")}, ToFinish)
         /\ Comparing(s) => Left(Tail(s), {Mark(Changes, "DeploymentChanges")}, ToRoles)
         /\ Noting(s) => Left(Tail(s), {Do("roles")}, ToFinish)
         /\ Choosing(s) => Left(Tail(s), {Mark(Global, "DeploymentFinish")}, ToBackup)
         /\ Finishing(s) \/ Dropping(s) => Left(Tail(s), {Do("backup")}, <<>>)
<1>1. \A b \in BOOLEAN :
         /\ Left(s, {Do("save")}, ToIndex(b)) => Left(Tail(s), {Do("index")}, ToGlobal(b))
         /\ Left(s, {Do("index")} \cup Openings(Index), ToGlobal(b))
              => Left(Tail(s), {Rotating(Global)}, ToStart(b))
         /\ Left(s, Openings(Global), ToStart(b))
              => Left(Tail(s), {Mark(Global, "DeploymentStart")}, AfterStart(b))
  BY StartRests DEF Left
<1>2. Starting(s) => \/ Left(Tail(s), {Rotating(Changes)}, ToChanges)
                     \/ Left(Tail(s), {Do("roles")}, ToFinish)
  <2>1. \A b \in BOOLEAN : AfterStart(b) = Then(Rotating(Changes), ToChanges) \/ AfterStart(b) = ToRoles
    BY DEF AfterStart
  <2>2. Left(Then(Rotating(Changes), ToChanges), {Rotating(Changes)}, ToChanges)
    <3>1. Rotating(Changes) \in Op /\ ToChanges \in Seq(Op)
      BY Ops, DaemonRests DEF Dir, LogDir
    <3> QED BY <3>1, Conses DEF Left
  <2> QED BY <2>1, <2>2, DaemonRests DEF Left, Starting
<1>3. /\ Comparing(s) => Left(Tail(s), {Mark(Changes, "DeploymentChanges")}, ToRoles)
      /\ Noting(s) => Left(Tail(s), {Do("roles")}, ToFinish)
      /\ Choosing(s) => Left(Tail(s), {Mark(Global, "DeploymentFinish")}, ToBackup)
      /\ Finishing(s) \/ Dropping(s) => Left(Tail(s), {Do("backup")}, <<>>)
  BY DaemonRests DEF Left, Comparing, Noting, Choosing, Finishing, Dropping
<1> QED BY <1>1, <1>2, <1>3

LEMMA RolePops ==
  ASSUME NEW r \in Role, NEW s, s # <<>>
  PROVE  /\ RoleOpening(s, r) => Left(Tail(s), {Mark(r, "RoleStart")}, ToSpawn(r))
         /\ RoleStarting(s, r) => Left(Tail(s), {Do("spawn")}, ToRoleEnd(r))
         /\ Spawning(s, r) => Left(Tail(s), {Mark(r, "RoleFinish")}, ToRoles)
         /\ RoleEnding(s, r) => Left(Tail(s), {Do("roles")}, ToFinish)
         /\ RoleDropping(s, r) => Left(Tail(s), {Mark(Global, "DeploymentError")}, ToBackup)
<1>1. /\ RoleOpening(s, r) => Left(Tail(s), {Mark(r, "RoleStart")}, ToSpawn(r))
      /\ RoleStarting(s, r) => Left(Tail(s), {Do("spawn")}, ToRoleEnd(r))
      /\ Spawning(s, r) => Left(Tail(s), {Mark(r, "RoleFinish")}, ToRoles)
  BY RoleRests DEF Left, RoleOpening, RoleStarting, Spawning
<1>2. /\ RoleEnding(s, r) => Left(Tail(s), {Do("roles")}, ToFinish)
      /\ RoleDropping(s, r) => Left(Tail(s), {Mark(Global, "DeploymentError")}, ToBackup)
  BY DaemonRests DEF Left, RoleEnding, RoleDropping
<1> QED BY <1>1, <1>2

LEMMA OneOf ==
  /\ \A d, m : Mark(d, m) \in Writings(d, m) /\ RowOf(d, m) \in Writings(d, m)
  /\ \A d : Rotating(d) \in Openings(d) /\ Keeping(d) \in Openings(d)
  /\ \A s, rest, first : \A o \in first : Left(s, {o}, rest) => Left(s, first, rest)
BY DEF Writings, Openings, Left

LEMMA DaemonMoves ==
  ASSUME NEW s, s # <<>>, Outside(s)
  PROVE  Outside(Tail(s))
<1> DEFINE x == Tail(s)
<1>1. Saving(s) => Indexing(x)
  BY DaemonPops, OneOf DEF Saving, Indexing
<1>2. Indexing(s) => Opening(x)
  BY DaemonPops, OneOf DEF Indexing, Opening
<1>3. Opening(s) => Starting(x)
  BY DaemonPops, OneOf DEF Opening, Starting
<1>4. Starting(s) => Comparing(x) \/ Choosing(x)
  BY DaemonPops, OneOf DEF Comparing, Choosing
<1>5. Comparing(s) => Noting(x)
  BY DaemonPops, OneOf DEF Noting
<1>6. Noting(s) => Choosing(x)
  BY DaemonPops DEF Choosing
<1>7. Choosing(s) => Finishing(x)
  BY DaemonPops, OneOf DEF Finishing
<1>8. Finishing(s) \/ Dropping(s) => BackingUp(x)
  BY DaemonPops, OneOf DEF BackingUp
<1>9. BackingUp(s) => BackingUp(x) \/ x = <<>>
  <2>1. \A a : <<a>> # <<>> /\ Head(<<a>>) = a /\ Tail(<<a>>) = <<>>
    OBVIOUS
  <2>2. Left(s, {Do("untmp")}, <<Do("prune")>>) => Left(x, {Do("prune")}, <<>>)
    BY <2>1 DEF Left
  <2> QED BY <2>2, OneOf DEF BackingUp, Linking, Left
<1> HIDE DEF x
<1> QED BY <1>1, <1>2, <1>3, <1>4, <1>5, <1>6, <1>7, <1>8, <1>9 DEF Outside, x

LEMMA RoleMoves ==
  ASSUME NEW r \in Role, NEW s, s # <<>>, InRole(s, r)
  PROVE  Outside(Tail(s)) \/ InRole(Tail(s), r)
<1> DEFINE x == Tail(s)
<1>1. RoleOpening(s, r) => RoleStarting(x, r)
  BY RolePops, OneOf DEF RoleStarting
<1>2. RoleStarting(s, r) => Spawning(x, r)
  BY RolePops DEF Spawning
<1>3. Spawning(s, r) => RoleEnding(x, r)
  BY RolePops, OneOf DEF RoleEnding
<1>4. RoleEnding(s, r) => Choosing(x)
  BY RolePops DEF Choosing
<1>5. RoleDropping(s, r) => Dropping(x)
  BY RolePops, OneOf DEF Dropping
<1> HIDE DEF x
<1> QED BY <1>1, <1>2, <1>3, <1>4, <1>5 DEF Outside, InRole, x

LEMMA RenderPops ==
  ASSUME NEW r \in Role, NEW n \in Nat, NEW s, s # <<>>
  PROVE  /\ Left(s, {Do("latest")}, ToLogs(r)) => Left(Tail(s), {Keeping(Global)}, ToRole(r))
         /\ Left(s, Openings(Global), ToRole(r)) => Left(Tail(s), {Keeping(r)}, ToTemplates(r))
         /\ Left(s, Openings(r), ToTemplates(r)) => Left(Tail(s), {Do("templates")}, ToAction(r))
         /\ Left(s, {Do("templates")}, ToAction(r))
              => Left(Tail(s), {Mark(r, "ActionStart")}, ToPitch(r))
         /\ Starts(s, r) => Pitching(Tail(s), r)
         /\ Pitching(s, r) => Left(Tail(s), {Split(1)}, ToCondition(r))
         /\ \A i \in Nat : Left(s, {FlushOf(i)}, ToSplit(i + 1, r))
                             => Left(Tail(s), {Split(i + 1)}, ToCondition(r))
         /\ Cleaning(s, r, n) => IF n = 0 THEN Deciding(Tail(s), r) ELSE Ending(Tail(s), r, n)
         /\ Ending(s, r, n) \/ Splitting(s, r, n) => Deciding(Tail(s), r)
         /\ Deciding(s, r) => Left(Tail(s), {Mark(r, "ActionFinish")}, ToExit)
         /\ Finishes(s, r) => Exiting(Tail(s))
         /\ Fails(s, r) => Failing(Tail(s))
         /\ Exiting(s) \/ Failing(s) => Tail(s) = <<>>
<1>1. /\ Left(s, {Do("latest")}, ToLogs(r)) => Left(Tail(s), {Keeping(Global)}, ToRole(r))
      /\ Left(s, Openings(Global), ToRole(r)) => Left(Tail(s), {Keeping(r)}, ToTemplates(r))
      /\ Left(s, Openings(r), ToTemplates(r)) => Left(Tail(s), {Do("templates")}, ToAction(r))
      /\ Left(s, {Do("templates")}, ToAction(r))
              => Left(Tail(s), {Mark(r, "ActionStart")}, ToPitch(r))
  BY RenderRests DEF Left
<1>2. /\ Starts(s, r) => Pitching(Tail(s), r)
      /\ Pitching(s, r) => Left(Tail(s), {Split(1)}, ToCondition(r))
  <2>1. PICK i \in Nat : i = 1
    OBVIOUS
  <2>2. Left(ToSplit(i, r), {Split(i)}, ToCondition(r))
    BY RenderRests
  <2>3. Left(ToSplit(1, r), {Split(1)}, ToCondition(r))
    BY <2>1, <2>2
  <2> QED BY <2>3, RenderRests DEF Left, Starts, Pitching
<1>3. \A i \in Nat : Left(s, {FlushOf(i)}, ToSplit(i + 1, r))
                             => Left(Tail(s), {Split(i + 1)}, ToCondition(r))
  <2>1. ASSUME NEW i \in Nat, NEW k \in Nat, k = i + 1, Left(s, {FlushOf(i)}, ToSplit(k, r))
        PROVE  Left(Tail(s), {Split(k)}, ToCondition(r))
    <3>1. Left(ToSplit(k, r), {Split(k)}, ToCondition(r))
      BY RenderRests
    <3> QED BY <2>1, <3>1 DEF Left
  <2> QED BY <2>1
<1>4. Cleaning(s, r, n) => IF n = 0 THEN Deciding(Tail(s), r) ELSE Ending(Tail(s), r, n)
  <2>1. Left(ToFlush(n, r), {FlushOf(n)}, ToCondition(r))
    BY RenderRests
  <2>2. Left(ToCondition(r), {Do("condition")}, ToActionEnd(r))
    BY RenderRests
  <2>3. ASSUME Cleaning(s, r, n), n = 0 PROVE Deciding(Tail(s), r)
    BY <2>2, <2>3 DEF Left, Cleaning, Deciding
  <2>4. ASSUME Cleaning(s, r, n), n # 0 PROVE Ending(Tail(s), r, n)
    <3>1. n > 0
      BY <2>4
    <3>2. Tail(s) = ToFlush(n, r)
      BY <2>4 DEF Left, Cleaning
    <3> QED BY <2>1, <3>1, <3>2 DEF Ending
  <2> QED BY <2>3, <2>4
<1>5. Ending(s, r, n) \/ Splitting(s, r, n) => Deciding(Tail(s), r)
  BY RenderRests DEF Left, Splitting, Ending, Deciding
<1>6. Deciding(s, r) => Left(Tail(s), {Mark(r, "ActionFinish")}, ToExit)
  BY RenderRests DEF Left, Deciding
<1>7. /\ Finishes(s, r) => Exiting(Tail(s))
      /\ Fails(s, r) => Failing(Tail(s))
      /\ Exiting(s) \/ Failing(s) => Tail(s) = <<>>
  BY RenderRests DEF Left, Finishes, Fails, Exiting, Failing
<1> QED BY <1>1, <1>2, <1>3, <1>4, <1>5, <1>6, <1>7

LEMMA RenderMoves ==
  ASSUME NEW r \in Role, NEW n \in Nat, NEW s, s # <<>>, RenderAt(s, r, n)
  PROVE  Tail(s) = <<>> \/ RenderAt(Tail(s), r, n)
<1> DEFINE x == Tail(s)
<1>1. Opens(s, r) => Opens(x, r) \/ Starts(x, r)
  BY RenderPops, OneOf DEF Opens, Starts
<1>2. /\ Starts(s, r) => Pitching(x, r)
      /\ Ending(s, r, n) \/ Splitting(s, r, n) => Deciding(x, r)
      /\ Cleaning(s, r, n) => Deciding(x, r) \/ Ending(x, r, n)
      /\ Finishes(s, r) => Exiting(x)
      /\ Fails(s, r) => Failing(x)
      /\ Exiting(s) \/ Failing(s) => x = <<>>
  BY RenderPops
<1>3. Pitching(s, r) => Splitting(x, r, n)
  BY RenderPops DEF Splitting
<1>4. Flushing(s, r, n) => Splitting(x, r, n)
  <2>1. ASSUME NEW i \in 1 .. n, i < n, Left(s, {FlushOf(i)}, ToSplit(i + 1, r))
        PROVE  i + 1 \in 1 .. n /\ Left(x, {Split(i + 1)}, ToCondition(r))
    <3>1. i \in Nat /\ i + 1 \in 1 .. n
      BY <2>1
    <3> QED BY <2>1, <3>1, RenderPops
  <2> QED BY <2>1 DEF Splitting, Flushing
<1>5. Deciding(s, r) => Finishes(x, r)
  BY RenderPops, OneOf DEF Finishes
<1> HIDE DEF x
<1> QED BY <1>1, <1>2, <1>3, <1>4, <1>5 DEF RenderAt, Changing, x

\* The first operation tells the place.
LEMMA PlaceOf ==
  ASSUME NEW r, NEW s, s # <<>>, Outside(s) \/ InRole(s, r)
  PROVE  /\ Head(s).op = "roles" => Choosing(s)
         /\ Head(s).op = "spawn" => Spawning(s, r) /\ InRole(s, r) /\ ~Outside(s)
         /\ Head(s).op = "save" => Saving(s)
         /\ Head(s).op \in {"backup", "copy", "snapshot", "untmp", "prune"} => BackingUp(s)
<1>1. Saving(s) => Head(s).op = "save"
  BY OpKinds DEF Saving, Left
<1>2. Indexing(s) => Head(s).op \in {"index", "check", "link", "rename"}
  BY OpKinds DEF Indexing, Left
<1>3. Opening(s) \/ Comparing(s) \/ RoleOpening(s, r) => Head(s).op \in {"check", "link", "rename"}
  BY OpKinds DEF Opening, Comparing, RoleOpening, Left
<1>4. Starting(s) \/ Noting(s) \/ Finishing(s) \/ Dropping(s) => Head(s).op \in {"mark", "row"}
  BY OpKinds DEF Starting, Noting, Finishing, Dropping, Left
<1>5. RoleStarting(s, r) \/ RoleEnding(s, r) \/ RoleDropping(s, r) => Head(s).op \in {"mark", "row"}
  BY OpKinds DEF RoleStarting, RoleEnding, RoleDropping, Left
<1>6. Choosing(s) => Head(s).op = "roles"
  BY OpKinds DEF Choosing, Left
<1>7. Spawning(s, r) => Head(s).op = "spawn"
  BY OpKinds DEF Spawning, Left
<1>8. BackingUp(s) => Head(s).op \in {"backup", "copy", "snapshot", "untmp", "prune"}
  BY OpKinds DEF BackingUp, Linking, Left
<1> QED BY <1>1, <1>2, <1>3, <1>4, <1>5, <1>6, <1>7, <1>8 DEF Outside, InRole

-----------------------------------------------------------------------------
(* Types and places.                                                       *)

LEMMA Continuing ==
  ASSUME NEW w \in Writer, ops \in [Writer -> Seq(Op)], ops[w] # <<>>
  PROVE  /\ Head(ops[w]) \in Op /\ Tail(ops[w]) \in Seq(Op)
         /\ Continue(w, <<>>) => ops' = [ops EXCEPT ![w] = Tail(ops[w])]
         /\ \A o \in Op : Continue(w, <<o>>) => ops' = [ops EXCEPT ![w] = Then(o, Tail(ops[w]))]
         /\ \A o \in Op : \A p \in Op :
              Continue(w, <<o, p>>) => ops' = [ops EXCEPT ![w] = Then(o, Then(p, Tail(ops[w])))]
<1>1. Head(ops[w]) \in Op /\ Tail(ops[w]) \in Seq(Op)
  OBVIOUS
<1>2. <<>> \o Tail(ops[w]) = Tail(ops[w])
  BY <1>1
<1>3. ASSUME NEW o \in Op, NEW p \in Op
      PROVE  <<o, p>> \o Tail(ops[w]) = Then(o, Then(p, Tail(ops[w])))
  <2>1. Cat(<<o, p>>, Tail(ops[w])) = Cat(Then(o, Then(p, <<>>)), Tail(ops[w]))
    BY Lists
  <2>2. Then(p, <<>>) \in Seq(Op)
    BY Lists, Conses
  <2>3. Cat(Then(o, Then(p, <<>>)), Tail(ops[w])) = Then(o, Cat(Then(p, <<>>), Tail(ops[w])))
    BY <1>1, <2>2, Joins
  <2>4. Cat(Then(p, <<>>), Tail(ops[w])) = Then(p, Tail(ops[w]))
    BY <1>1, JoinsOne
  <2> QED BY <2>1, <2>3, <2>4 DEF Cat
<1> QED BY <1>1, <1>2, <1>3 DEF Continue, Then

LEMMA Dirs1 ==
  /\ Role \subseteq LogDir /\ LogDir \subseteq Dir /\ Index \in Dir /\ Global \in LogDir
  /\ Changes \in LogDir /\ Index \notin LogDir
BY LogAssumption DEF LogDir, Dir

LEMMA OpenTypes ==
  ASSUME LogTypes, NEW w \in Writer, NEW d \in Dir, NEW s \in Segment,
         Open(w, d, s)
  PROVE  files' \in [Writer -> [Dir -> Segment]]
BY DEF Open, LogTypes

LEMMA LogReads ==
  ASSUME LogTypes, NEW w \in Writer, NEW d \in LogDir
  PROVE  /\ files[w][d] \in Segment /\ files[w][Index] \in Segment
         /\ logs[d][files[w][d]] \in Seq(Row) /\ Len(logs[d][files[w][d]]) \in Nat
<1>1. files[w] \in [Dir -> Segment] /\ d \in Dir /\ Index \in Dir
  BY Dirs1 DEF LogTypes
<1>2. logs[d] \in [Segment -> Seq(Row)]
  BY DEF LogTypes
<1> QED BY <1>1, <1>2

LEMMA EntryTypes ==
  ASSUME LogTypes, NEW w \in Writer, NEW id \in Id, NEW d \in LogDir, NEW m \in Marker,
         index_entry(w, id, d, m)
  PROVE  index' \in [Segment -> Seq(Entry)]
<1> DEFINE e == [id |-> id, marker |-> m, dir |-> d, segment |-> files[w][d],
                 pos |-> Len(logs[d][files[w][d]])]
           s == files[w][Index]
<1>1. e \in Entry /\ s \in Segment
  BY LogReads DEF Entry
<1>2. index' = [index EXCEPT ![s] = Append(index[s], e)]
  BY DEF index_entry
<1>3. index[s] \in Seq(Entry)
  BY <1>1 DEF LogTypes
<1> HIDE DEF e, s
<1>4. Append(index[s], e) \in Seq(Entry)
  BY <1>1, <1>3
<1> QED BY <1>1, <1>2, <1>4 DEF LogTypes

LEMMA RowTypes ==
  ASSUME LogTypes, NEW w \in Writer, NEW id \in Id, NEW d \in LogDir, NEW m \in Marker,
         log_row(w, id, d, m)
  PROVE  logs' \in [LogDir -> [Segment -> Seq(Row)]]
<1> DEFINE row == [id |-> id, marker |-> m]
           s   == files[w][d]
<1>1. row \in Row /\ s \in Segment /\ logs[d][s] \in Seq(Row)
  BY LogReads DEF Row
<1>2. logs' = [logs EXCEPT ![d] = [logs[d] EXCEPT ![s] = Append(logs[d][s], row)]]
  BY DEF log_row
<1> HIDE DEF row, s
<1>3. Append(logs[d][s], row) \in Seq(Row)
  BY <1>1
<1>4. [logs[d] EXCEPT ![s] = Append(logs[d][s], row)] \in [Segment -> Seq(Row)]
  BY <1>1, <1>3 DEF LogTypes
<1> QED BY <1>2, <1>4 DEF LogTypes

\* What the actions of the logs do to the types and to the operations.
LogAction(w, t) ==
  \/ OpensIndex(w) \/ ChecksLog(w) \/ OpensSegment(w) \/ Renames(w)
  \/ WritesEntry(w, t) \/ WritesRow(w, t)

LEMMA LogSteps ==
  ASSUME LogTypes, DeployTypes, NEW t \in task, NEW w \in Writer, LogAction(w, t)
  PROVE  /\ LogTypes'
         /\ ops[w] # <<>> /\ (w = "daemon" => ops["render"] = <<>>)
         /\ UNCHANGED <<roleVars, backupVars, taskVars, statusVars>>
         /\ \E s \in Seq(Op) :
              /\ ops' = [ops EXCEPT ![w] = s]
              /\ s = Tail(ops[w]) \/ Stays(ops[w], s)
<1> DEFINE o == Head(ops[w])
           Result == \E s \in Seq(Op) : /\ ops' = [ops EXCEPT ![w] = s]
                                        /\ s = Tail(ops[w]) \/ Stays(ops[w], s)
<1>1. ops[w] # <<>> /\ (w = "daemon" => ops["render"] = <<>>)
  BY DEF LogAction, OpensIndex, ChecksLog, OpensSegment, Renames, WritesEntry, WritesRow, At
<1>2. ops \in [Writer -> Seq(Op)] /\ now \in Segment /\ t.id \in Id
  BY DEF DeployTypes, LogTypes, Task
<1>3. o \in Op /\ Tail(ops[w]) \in Seq(Op)
  BY <1>1, <1>2, Continuing
<1>4. Continue(w, <<>>) => Result
  BY <1>1, <1>2, <1>3, Continuing
<1>5. ASSUME NEW p \in Op, Continue(w, <<p>>),
             \/ o = Do("index") /\ p \in Openings(Index)
             \/ \E d : o \in Openings(d) /\ p \in Openings(d)
             \/ \E d, m : o \in Writings(d, m) /\ p \in Writings(d, m)
      PROVE  Result
  <2>1. ops' = [ops EXCEPT ![w] = Then(p, Tail(ops[w]))]
    BY <1>1, <1>2, <1>5, Continuing
  <2>2. /\ Then(p, Tail(ops[w])) \in Seq(Op) /\ Then(p, Tail(ops[w])) # <<>>
        /\ Head(Then(p, Tail(ops[w]))) = p /\ Tail(Then(p, Tail(ops[w]))) = Tail(ops[w])
    BY <1>3, Conses
  <2>3. Stays(ops[w], Then(p, Tail(ops[w])))
    BY <1>5, <2>2 DEF Stays
  <2> QED BY <2>1, <2>2, <2>3
<1> HIDE DEF Result
<1>6. CASE OpensIndex(w)
  <2>1. /\ UNCHANGED <<now, latest, leftovers, index, logs, roleVars, backupVars, taskVars, statusVars>>
    BY <1>6 DEF OpensIndex
  <2>2. CASE At(w, "index") /\ Continue(w, <<Link(Index, now)>>) /\ UNCHANGED files
    <3>1. o = Do("index") 
      BY <1>3, <2>2 DEF At, Op, Do
    <3>2. Link(Index, now) \in Op /\ Link(Index, now) \in Openings(Index)
      BY <1>2, Ops, Dirs1 DEF Openings
    <3>3. Result
      BY <1>5, <2>2, <3>1, <3>2
    <3>4. LogTypes'
      BY <2>1, <2>2 DEF LogTypes, IsLinked
    <3> QED BY <1>1, <2>1, <3>3, <3>4 DEF Result
  <2>3. CASE At(w, "latest") /\ Continue(w, <<>>) /\ \E s \in latest[Index] : Open(w, Index, s)
    <3>1. PICK s \in latest[Index] : Open(w, Index, s)
      BY <2>3
    <3>2. s \in Segment
      BY Dirs1 DEF LogTypes
    <3>3. files' \in [Writer -> [Dir -> Segment]]
      BY <3>1, <3>2, Dirs1, OpenTypes
    <3>4. LogTypes'
      BY <2>1, <3>3 DEF LogTypes, IsLinked
    <3> QED BY <1>1, <1>4, <2>1, <2>3, <3>4 DEF Result
  <2> QED BY <1>6, <2>2, <2>3 DEF OpensIndex
<1>7. CASE ChecksLog(w)
  <2>1. /\ UNCHANGED <<now, latest, leftovers, index, logs, roleVars, backupVars, taskVars, statusVars>>
    BY <1>7 DEF ChecksLog
  <2>2. o.op = "check" /\ o.dir \in Dir /\ o \in Openings(o.dir)
    BY <1>3, <1>7, OpForms DEF ChecksLog, At
  <2>3. CASE \E s \in Segment : Open(w, o.dir, s) /\ Continue(w, <<>>)
    <3>1. files' \in [Writer -> [Dir -> Segment]]
      BY <2>2, <2>3, OpenTypes
    <3>2. LogTypes'
      BY <2>1, <3>1 DEF LogTypes, IsLinked
    <3> QED BY <1>1, <1>4, <2>1, <2>3, <3>2 DEF Result
  <2>4. CASE Continue(w, <<Link(o.dir, now)>>) /\ UNCHANGED files
    <3>1. Link(o.dir, now) \in Op /\ Link(o.dir, now) \in Openings(o.dir)
      BY <1>2, <2>2, Ops DEF Openings
    <3>2. LogTypes'
      BY <2>1, <2>4 DEF LogTypes, IsLinked
    <3> QED BY <1>1, <1>5, <2>1, <2>2, <2>4, <3>1, <3>2 DEF Result
  <2> QED BY <1>7, <2>3, <2>4 DEF ChecksLog
<1>8. CASE OpensSegment(w)
  <2>1. /\ UNCHANGED <<now, latest, index, logs, roleVars, backupVars, taskVars, statusVars>>
    BY <1>8 DEF OpensSegment
  <2>2. o.op = "link" /\ o.dir \in Dir /\ o.segment \in Segment /\ o \in Openings(o.dir)
    BY <1>3, <1>8, OpForms DEF OpensSegment, At
  <2>3. CASE Open(w, o.dir, o.segment) /\ Continue(w, <<>>) /\ UNCHANGED leftovers
    <3>1. files' \in [Writer -> [Dir -> Segment]]
      BY <2>2, <2>3, OpenTypes
    <3>2. LogTypes'
      BY <2>1, <2>3, <3>1 DEF LogTypes, IsLinked
    <3> QED BY <1>1, <1>4, <2>1, <2>3, <3>2 DEF Result
  <2>4. CASE /\ symlink(o.dir) /\ Continue(w, <<Renaming(o.dir, o.segment)>>)
             /\ UNCHANGED files
    <3>1. Renaming(o.dir, o.segment) \in Op /\ Renaming(o.dir, o.segment) \in Openings(o.dir)
      BY <2>2, Ops DEF Openings
    <3>2. LogTypes'
      BY <2>1, <2>2, <2>4 DEF LogTypes, IsLinked, symlink
    <3> QED BY <1>1, <1>5, <2>1, <2>2, <2>4, <3>1, <3>2 DEF Result
  <2> QED BY <1>8, <2>3, <2>4 DEF OpensSegment
<1>9. CASE Renames(w)
  <2>1. UNCHANGED <<now, index, logs, roleVars, backupVars, taskVars, statusVars>>
        /\ rename(o.dir, o.segment) /\ Open(w, o.dir, o.segment) /\ Continue(w, <<>>)
    BY <1>9 DEF Renames
  <2>2. o.op = "rename" /\ o.dir \in Dir /\ o.segment \in Segment
    BY <1>3, <1>9, OpForms DEF Renames, At
  <2>3. files' \in [Writer -> [Dir -> Segment]]
    BY <2>1, <2>2, OpenTypes
  <2>4. /\ leftovers' \subseteq Dir /\ latest' \in [Dir -> SUBSET Segment]
        /\ \A d \in Dir : latest'[d] = {} \/ \E s \in Segment : latest'[d] = {s}
    BY <2>1, <2>2 DEF rename, LogTypes, IsLinked
  <2>5. LogTypes'
    BY <2>1, <2>3, <2>4 DEF LogTypes, IsLinked
  <2> QED BY <1>1, <1>4, <2>1, <2>5 DEF Result
<1>10. CASE WritesEntry(w, t)
  <2>1. UNCHANGED <<now, latest, leftovers, logs, files, roleVars, backupVars, taskVars, statusVars>>
        /\ index_entry(w, t.id, o.dir, o.marker) /\ Continue(w, <<RowOf(o.dir, o.marker)>>)
    BY <1>10 DEF WritesEntry
  <2>2. o.dir \in LogDir /\ o.marker \in Marker /\ o \in Writings(o.dir, o.marker)
    BY <1>3, <1>10, OpForms DEF WritesEntry, At
  <2>3. RowOf(o.dir, o.marker) \in Op /\ RowOf(o.dir, o.marker) \in Writings(o.dir, o.marker)
    BY <2>2, Ops, OneOf
  <2>4. files[w][o.dir] \in Segment /\ files[w][Index] \in Segment
        /\ Len(logs[o.dir][files[w][o.dir]]) \in Nat
    BY <2>2, LogReads
  <2>5. index' \in [Segment -> Seq(Entry)]
    BY <1>2, <2>1, <2>2, <2>4, EntryTypes
  <2>6. LogTypes'
    BY <2>1, <2>5 DEF LogTypes, IsLinked
  <2> QED BY <1>1, <1>5, <2>1, <2>2, <2>3, <2>6 DEF Result
<1>11. CASE WritesRow(w, t)
  <2>1. /\ UNCHANGED <<now, latest, leftovers, index, files, roleVars, backupVars, taskVars, statusVars>>
        /\ Continue(w, <<>>)
        /\ log_row(w, t.id, o.dir, o.marker) \/ UNCHANGED logs
    BY <1>11 DEF WritesRow
  <2>2. o.dir \in LogDir /\ o.marker \in Marker
    BY <1>3, <1>11, OpForms DEF WritesRow, At
  <2>3. files[w][o.dir] \in Segment
    BY <2>2, LogReads
  <2>4. logs' \in [LogDir -> [Segment -> Seq(Row)]]
    BY <1>2, <2>1, <2>2, <2>3, RowTypes DEF LogTypes
  <2>5. LogTypes'
    BY <2>1, <2>4 DEF LogTypes, IsLinked
  <2> QED BY <1>1, <1>4, <2>1, <2>5 DEF Result
<1> QED BY <1>6, <1>7, <1>8, <1>9, <1>10, <1>11 DEF LogAction, Result

LEMMA Roles ==
  ASSUME NEW t \in Task, HasRole(t)
  PROVE  /\ Current(t) \in Role /\ t.at \in 1 .. Len(RoleOrder)
         /\ Secs(t) \in Seq([name : Name, version : Nat]) /\ Len(Secs(t)) \in Nat
<1>1. Current(t) \in Role /\ t.at \in 1 .. Len(RoleOrder)
  BY DeploymentAssumption DEF HasRole, Current
<1>2. Secs(t) \in Seq([name : Name, version : Nat])
  BY SectionsAssumption DEF HasRole, Secs, Task
<1> QED BY <1>1, <1>2

LEMMA ControlMoves ==
  ASSUME DeployTypes, Control, NEW w \in Writer, ops[w] # <<>>,
         w = "daemon" => ops["render"] = <<>>,
         NEW s \in Seq(Op), ops' = [ops EXCEPT ![w] = s],
         s = Tail(ops[w]) \/ Stays(ops[w], s), UNCHANGED task
  PROVE  Control'
<1> SUFFICES ASSUME NEW t \in task PROVE ControlOf(t)'
  BY DEF Control
<1>1. ControlOf(t) /\ t \in Task
  BY DEF Control, DeployTypes
<1>2. ops \in [Writer -> Seq(Op)]
  BY DEF DeployTypes
<1>3. CASE w = "daemon"
  <2>1. ops'["daemon"] = s /\ ops'["render"] = <<>>
    BY <1>2, <1>3 DEF Writer
  <2>2. Outside(s) \/ (HasRole(t) /\ InRole(s, Current(t)))
    <3>1. CASE Outside(ops["daemon"])
      <4>1. ASSUME s = Tail(ops["daemon"]) PROVE Outside(s)
        BY <1>3, <3>1, <4>1, DaemonMoves
      <4>2. ASSUME Stays(ops["daemon"], s) PROVE Outside(s)
        BY <1>3, <3>1, <4>2, DaemonStays
      <4> QED BY <1>3, <4>1, <4>2
    <3>2. CASE HasRole(t) /\ InRole(ops["daemon"], Current(t))
      BY <1>1, <1>3, <3>2, Roles, RoleMoves, DaemonStays
    <3> QED BY <1>1, <3>1, <3>2 DEF ControlOf
  <2> QED BY <2>1, <2>2 DEF ControlOf
<1>4. CASE w = "render"
  <2>1. ops'["render"] = s /\ ops'["daemon"] = ops["daemon"]
    BY <1>2, <1>4 DEF Writer
  <2>2. /\ HasRole(t) /\ RenderAt(ops["render"], Current(t), Len(Secs(t)))
        /\ Left(ops["daemon"], {Mark(Current(t), "RoleFinish")}, ToRoles)
        /\ Outside(ops["daemon"]) \/ InRole(ops["daemon"], Current(t))
    BY <1>1, <1>4 DEF ControlOf
  <2>3. s = <<>> \/ RenderAt(s, Current(t), Len(Secs(t)))
    BY <1>1, <1>4, <2>2, Roles, RenderMoves, RenderStays
  <2> QED BY <2>1, <2>2, <2>3 DEF ControlOf
<1> QED BY <1>3, <1>4 DEF Writer

-----------------------------------------------------------------------------
(* The directories.                                                        *)

LEMMA Versions ==
  ASSUME NEW h \in Hash, NEW r \in DOMAIN Sections[h], NEW i \in DOMAIN Sections[h][r]
  PROVE  Sections[h][r][i].version \in Version
<1> DEFINE OfRole1 == {Sections[h][r][j] : j \in DOMAIN Sections[h][r]}
           OfHash(g) == UNION {{Sections[g][q][j] : j \in DOMAIN Sections[g][q]}
                                 : q \in DOMAIN Sections[g]}
<1>1. Sections[h][r][i] \in OfRole1
  OBVIOUS
<1>2. OfRole1 \in {{Sections[h][q][j] : j \in DOMAIN Sections[h][q]} : q \in DOMAIN Sections[h]}
  OBVIOUS
<1>3. Sections[h][r][i] \in OfHash(h)
  BY <1>1, <1>2, Zenon
<1> HIDE DEF OfHash
<1>4. OfHash(h) \in {OfHash(g) : g \in Hash}
  OBVIOUS
<1>5. Sections[h][r][i] \in UNION {OfHash(g) : g \in Hash}
  BY <1>3, <1>4, Zenon
<1>6. Version = {sec.version : sec \in UNION {OfHash(g) : g \in Hash}}
  BY Zenon DEF Version, OfHash
<1> QED BY <1>5, <1>6, Zenon

LEMMA SectionTypes ==
  ASSUME NEW t \in Task, HasRole(t), NEW i \in 1 .. Len(Secs(t))
  PROVE  Secs(t)[i].name \in Name /\ {Secs(t)[i].version} \in Content
<1>1. Secs(t) \in Seq([name : Name, version : Nat])
  BY Roles
<1>2. t.hash \in Hash /\ Current(t) \in DOMAIN Sections[t.hash]
      /\ i \in DOMAIN Sections[t.hash][Current(t)]
  BY <1>1 DEF HasRole, Secs, Task
<1>3. Secs(t)[i].version \in Version
  BY <1>2, Versions DEF Secs
<1>4. Secs(t)[i].name \in Name
  <2>1. ASSUME NEW S, NEW s \in Seq(S), NEW j \in 1 .. Len(s) PROVE s[j] \in S
    OBVIOUS
  <2>2. Secs(t)[i] \in [name : Name, version : Nat]
    BY <1>1, <2>1
  <2> QED BY <2>2
<1>5. {Secs(t)[i].version} \in {{v} : v \in Version}
  BY <1>3
<1> QED BY <1>4, <1>5 DEF Content

LEMMA Directories ==
  ASSUME RoleTypes, NEW r \in Role, NEW n \in Name
  PROVE  /\ commit_file(r, n) \/ remove_file(r, n) => RoleTypes'
         /\ pitch(r) \/ Condition(r) => RoleTypes'
<1>1. ASSUME NEW c \in Content, dir' = [dir EXCEPT ![r][n] = c]
      PROVE  dir' \in [Role -> Dirs]
  <2>1. [dir[r] EXCEPT ![n] = c] \in Dirs
    BY DEF RoleTypes, Dirs
  <2> QED BY <1>1, <2>1 DEF RoleTypes
<1>2. {} \in Content /\ {0} \in Content
  BY DEF Content
<1>3. commit_file(r, n) \/ remove_file(r, n) => RoleTypes'
  BY <1>1, <1>2 DEF commit_file, remove_file, RoleTypes
<1>4. pitch(r) \/ Condition(r) => RoleTypes'
  BY DEF pitch, Condition, RoleTypes
<1> QED BY <1>3, <1>4

LEMMA Flushed ==
  ASSUME RoleTypes, NEW t \in Task, HasRole(t), NEW i \in 1 .. Len(Secs(t)),
         Flush(Current(t), Secs(t)[i])
  PROVE  RoleTypes'
<1>1. Secs(t)[i].name \in Name /\ {Secs(t)[i].version} \in Content /\ Current(t) \in Role
  BY SectionTypes, Roles
<1>2. [dir[Current(t)] EXCEPT ![Secs(t)[i].name] = {Secs(t)[i].version}] \in Dirs
  BY <1>1 DEF RoleTypes, Dirs
<1> QED BY <1>1, <1>2 DEF RoleTypes, Flush

-----------------------------------------------------------------------------
(* The backups.                                                            *)

LEMMA PeriodsAreNat ==
  ASSUME NEW k \in Kind, NEW time \in Nat
  PROVE  PeriodAt(k, time) \in Nat
BY BackupsAssumption DEF PeriodAt

LEMMA NamesAreNat ==
  ASSUME BackupTypes, NEW k \in Kind
  PROVE  Names(k) \subseteq Nat
BY DEF BackupTypes, Names

LEMMA SharedHolds ==
  ASSUME BackupTypes, NEW h \in Hash \cup {0}
  PROVE  /\ SharedHold(h) \in [Kind -> SUBSET [name : Nat, holds : Hash \cup {0}]]
         /\ \A k \in Kind : \A n \in Names(k) : \E s \in SharedHold(h)[k] : s.name = n
<1>1. ASSUME NEW k \in Kind, NEW s \in snapshots[k]
      PROVE  [s EXCEPT !.holds = h] \in [name : Nat, holds : Hash \cup {0}]
             /\ [s EXCEPT !.holds = h].name = s.name /\ s \in [name : Nat, holds : Hash \cup {0}]
  BY DEF BackupTypes
<1> DEFINE held(k, s) == IF [kind |-> k, name |-> s.name] \in shared
                         THEN [s EXCEPT !.holds = h] ELSE s
<1>2. SharedHold(h) = [k \in Kind |-> {held(k, s) : s \in snapshots[k]}]
  BY DEF SharedHold
<1>3. \A k \in Kind : \A s \in snapshots[k] :
        held(k, s) \in [name : Nat, holds : Hash \cup {0}] /\ held(k, s).name = s.name
  BY <1>1
<1> HIDE DEF held
<1>4. SharedHold(h) \in [Kind -> SUBSET [name : Nat, holds : Hash \cup {0}]]
  BY <1>2, <1>3
<1>5. \A k \in Kind : \A n \in Names(k) : \E s \in SharedHold(h)[k] : s.name = n
  BY <1>2, <1>3 DEF Names
<1> QED BY <1>4, <1>5

LEMMA CreateTypes ==
  ASSUME BackupTypes, NEW time \in Nat
  PROVE  /\ create_tmp(time) => BackupTypes'
         /\ copy => BackupTypes'
         /\ remove_tmp => BackupTypes'
<1>1. ASSUME NEW h \in Hash \cup {0}, snapshots' = SharedHold(h), UNCHANGED shared
      PROVE  /\ snapshots' \in [Kind -> SUBSET [name : Nat, holds : Hash \cup {0}]]
             /\ \A l \in shared' : l.name \in Names(l.kind)'
  <2>1. snapshots' \in [Kind -> SUBSET [name : Nat, holds : Hash \cup {0}]]
    BY <1>1, SharedHolds
  <2>2. \A l \in shared : l.kind \in Kind /\ \E s \in snapshots'[l.kind] : s.name = l.name
    BY <1>1, SharedHolds DEF BackupTypes
  <2> QED BY <1>1, <2>1, <2>2 DEF Names
<1>2. ASSUME create_tmp(time) PROVE BackupTypes'
  <2>1. listed' \in [Kind -> SUBSET Nat]
    BY <1>2, PeriodsAreNat, NamesAreNat DEF create_tmp
  <2> QED BY <1>1, <1>2, <2>1 DEF create_tmp, BackupTypes
<1>3. ASSUME copy PROVE BackupTypes'
  <2>1. PICK h \in saved : snapshots' = SharedHold(h)
    BY <1>3 DEF copy
  <2>2. h \in Hash \cup {0} /\ tmp' = saved /\ UNCHANGED <<saved, shared, listed>>
    BY <1>3, <2>1 DEF BackupTypes, copy
  <2> QED BY <1>1, <2>1, <2>2 DEF BackupTypes
<1>4. ASSUME remove_tmp PROVE BackupTypes'
  BY <1>4 DEF remove_tmp, BackupTypes, Names
<1> QED BY <1>2, <1>3, <1>4

LEMMA LinkTypes ==
  ASSUME BackupTypes, NEW k \in Kind, NEW n \in Nat
  PROVE  /\ hard_link(k, n) => BackupTypes'
         /\ remove_snapshots(k, {n}) => BackupTypes'
<1>1. ASSUME hard_link(k, n) PROVE BackupTypes'
  <2>1. PICK h \in tmp : snapshots' = [snapshots EXCEPT ![k] = @ \cup {[name |-> n, holds |-> h]}]
    BY <1>1 DEF hard_link
  <2>2. h \in Hash \cup {0}
    BY DEF BackupTypes
  <2>3. shared' = shared \cup {[kind |-> k, name |-> n]} /\ UNCHANGED <<saved, tmp, listed>>
    BY <1>1 DEF hard_link
  <2>4. snapshots' \in [Kind -> SUBSET [name : Nat, holds : Hash \cup {0}]]
    BY <2>1, <2>2 DEF BackupTypes
  <2>5. \A l \in shared' : l.kind \in Kind /\ \E s \in snapshots'[l.kind] : s.name = l.name
    <3>1. ASSUME NEW l \in shared PROVE l.kind \in Kind /\ \E s \in snapshots'[l.kind] : s.name = l.name
      <4>1. l.kind \in Kind /\ \E s \in snapshots[l.kind] : s.name = l.name
        BY DEF BackupTypes, Names
      <4>2. snapshots[l.kind] \subseteq snapshots'[l.kind]
        BY <2>1, <4>1 DEF BackupTypes
      <4> QED BY <4>1, <4>2
    <3>2. [name |-> n, holds |-> h] \in snapshots'[k]
      BY <2>1 DEF BackupTypes
    <3>3. \E s \in snapshots'[k] : s.name = n
      BY <3>2
    <3> QED BY <2>3, <3>1, <3>3
  <2>6. \A l \in shared' : l.name \in Names(l.kind)'
    BY <2>5 DEF Names
  <2> QED BY <2>3, <2>4, <2>6 DEF BackupTypes
<1>2. ASSUME remove_snapshots(k, {n}) PROVE BackupTypes'
  <2>1. /\ snapshots' = [snapshots EXCEPT ![k] = {s \in snapshots[k] : s.name # n}]
        /\ shared' = {l \in shared : l.kind # k \/ l.name # n} /\ UNCHANGED <<saved, tmp, listed>>
    BY <1>2 DEF remove_snapshots
  <2>2. snapshots' \in [Kind -> SUBSET [name : Nat, holds : Hash \cup {0}]]
    BY <2>1 DEF BackupTypes
  <2>3. \A l \in shared' : l.kind \in Kind /\ \E s \in snapshots'[l.kind] : s.name = l.name
    BY <2>1 DEF BackupTypes, Names
  <2>4. \A l \in shared' : l.name \in Names(l.kind)'
    BY <2>3 DEF Names
  <2> QED BY <2>1, <2>2, <2>4 DEF BackupTypes
<1> QED BY <1>1, <1>2

-----------------------------------------------------------------------------
(* Every step keeps the types and the places.                              *)

LEMMA Faults ==
  ASSUME faults \in 0 .. MaxFaults, Fault \/ UNCHANGED faults
  PROVE  faults' \in 0 .. MaxFaults
BY DeploymentAssumption DEF Fault

\* In the course of a deployment.
LEMMA TypesKept ==
  ASSUME DeployTypes, NEW t \in task, UNCHANGED taskVars, ops' \in [Writer -> Seq(Op)],
         outcome' \in [Role -> SUBSET Hash],
         \A r \in Role : outcome'[r] = {} \/ \E h \in Hash : outcome'[r] = {h},
         interrupted' \subseteq Role, Fault \/ UNCHANGED faults
  PROVE  DeployTypes'
BY Faults DEF DeployTypes, taskVars

\* An operation w is done, and others take its place.
LEMMA Popped ==
  ASSUME DeployTypes, Control, NEW w \in Writer, NEW kind, At(w, kind), Continue(w, <<>>),
         UNCHANGED task
  PROVE  /\ ops' \in [Writer -> Seq(Op)] /\ Control'
         /\ ops' = [ops EXCEPT ![w] = Tail(ops[w])] /\ Tail(ops[w]) \in Seq(Op)
<1>1. ops \in [Writer -> Seq(Op)] /\ ops[w] # <<>> /\ (w = "daemon" => ops["render"] = <<>>)
  BY DEF DeployTypes, At
<1>2. ops' = [ops EXCEPT ![w] = Tail(ops[w])] /\ Tail(ops[w]) \in Seq(Op)
  BY <1>1, Continuing
<1>3. Control'
  BY <1>1, <1>2, ControlMoves
<1> QED BY <1>1, <1>2, <1>3

LEMMA LogTypesKept == LogTypes /\ UNCHANGED logVars => LogTypes'
BY DEF LogTypes, logVars, IsLinked

LEMMA RoleTypesKept == RoleTypes /\ UNCHANGED roleVars => RoleTypes'
BY DEF RoleTypes, roleVars

LEMMA BackupTypesKept == BackupTypes /\ UNCHANGED backupVars => BackupTypes'
BY DEF BackupTypes, backupVars, Names

LEMMA StartTaskTypes ==
  ASSUME TypeInv, NEW h \in Hash, StartTask(h)
  PROVE  TypeInv'
<1> DEFINE t == [id |-> last_id + 1, hash |-> h, at |-> 0]
<1>1. /\ UNCHANGED <<logVars, roleVars, backupVars, prev, outcome, interrupted, crashed, faults>>
      /\ task = {} /\ last_id + 1 \in Id /\ last_id' = last_id + 1 /\ task' = {t}
      /\ ops' = [ops EXCEPT !["daemon"] = Program(prev # {h})]
  BY DEF StartTask
<1>2. ops \in [Writer -> Seq(Op)] /\ ops["render"] = <<>>
  BY <1>1 DEF TypeInv, DeployTypes, Writer
<1>3. PICK b \in BOOLEAN : b = (prev # {h})
  OBVIOUS
<1>4. Program(b) = Program(prev # {h})
  BY <1>3
<1>5. Program(b) \in Seq(Op) /\ Program(b) = Then(Do("save"), ToIndex(b))
  BY ProgramBegins
<1>6. ops'["daemon"] = Program(b) /\ ops'["render"] = <<>> /\ ops' \in [Writer -> Seq(Op)]
  BY <1>1, <1>2, <1>4, <1>5 DEF Writer
<1>7. Left(Program(b), {Do("save")}, ToIndex(b))
  <2>1. Do("save") \in Op /\ ToIndex(b) \in Seq(Op)
    BY Ops, StartRests DEF Named
  <2> QED BY <1>5, <2>1, Conses DEF Left
<1>8. Outside(ops'["daemon"])
  BY <1>6, <1>7 DEF Outside, Saving
<1>9. Control'
  BY <1>1, <1>6, <1>8 DEF Control, ControlOf
<1>10. t \in Task
  BY <1>1, DeploymentAssumption DEF Task
<1>11. DeployTypes'
  BY <1>1, <1>6, <1>10 DEF TypeInv, DeployTypes
<1> QED BY <1>1, <1>9, <1>11, LogTypesKept, RoleTypesKept, BackupTypesKept DEF TypeInv

LEMMA EndTaskTypes ==
  ASSUME TypeInv, NEW t \in task, EndTask(t)
  PROVE  TypeInv'
<1>1. /\ UNCHANGED <<logVars, roleVars, backupVars, ops, last_id, outcome, interrupted, crashed, faults>>
      /\ task' = {} /\ ops["daemon"] = <<>> /\ ops["render"] = <<>>
  BY DEF EndTask
<1>2. DeployTypes'
  BY <1>1 DEF TypeInv, DeployTypes, Writer
<1>3. Control'
  BY <1>1 DEF Control
<1> QED BY <1>1, <1>2, <1>3, LogTypesKept, RoleTypesKept, BackupTypesKept DEF TypeInv

\* The daemon goes on to the next of its roles, or to the end.
LEMMA Choices ==
  ASSUME TypeInv, NEW t \in task, NextRole(t)
  PROVE  /\ ops["daemon"] # <<>> /\ ops["render"] = <<>> /\ ops'["render"] = <<>>
         /\ ops' \in [Writer -> Seq(Op)] /\ Choosing(ops["daemon"])
         /\ \E i \in t.at + 1 .. Len(RoleOrder) + 1 :
              /\ task' = {[t EXCEPT !.at = i]} /\ [t EXCEPT !.at = i] \in Task
              /\ \/ i = Len(RoleOrder) + 1 /\ Finishing(ops'["daemon"])
                    /\ Head(ops'["daemon"]) = Mark(Global, "DeploymentFinish")
                 \/ /\ i <= Len(RoleOrder) /\ HasRole([t EXCEPT !.at = i])
                    /\ RoleOrder[i] = Current([t EXCEPT !.at = i])
                    /\ RoleOpening(ops'["daemon"], RoleOrder[i])
                    /\ Head(ops'["daemon"]) = Rotating(RoleOrder[i])
<1>1. ops \in [Writer -> Seq(Op)] /\ ops["daemon"] # <<>> /\ ops["render"] = <<>>
      /\ Head(ops["daemon"]).op = "roles" /\ t \in Task /\ ControlOf(t)
  BY DEF NextRole, At, TypeInv, DeployTypes, Control, Writer
<1>2. Choosing(ops["daemon"])
  BY <1>1, PlaceOf DEF ControlOf
<1>3. Tail(ops["daemon"]) = ToFinish /\ ToFinish \in Seq(Op)
  BY <1>2, DaemonRests DEF Choosing, Left
<1>4. PICK i \in t.at + 1 .. Len(RoleOrder) + 1 :
         /\ task' = {[t EXCEPT !.at = i]}
         /\ IF i > Len(RoleOrder) THEN Continue("daemon", <<>>)
            ELSE RoleOrder[i] \in DOMAIN Sections[t.hash] /\ Continue("daemon", OfRole(RoleOrder[i]))
  BY DEF NextRole
<1> DEFINE u == [t EXCEPT !.at = i]
<1>5. i \in Nat /\ i >= 1 /\ i <= Len(RoleOrder) + 1 /\ Len(RoleOrder) \in Nat
  BY <1>1, DeploymentAssumption DEF Task
<1>6. u \in Task /\ u.at = i /\ u.hash = t.hash
  BY <1>1, <1>5 DEF Task
<1>7. CASE i > Len(RoleOrder)
  <2>1. ops' = [ops EXCEPT !["daemon"] = ToFinish]
    BY <1>1, <1>3, <1>4, <1>7, Continuing DEF Writer
  <2>2. ops'["daemon"] = ToFinish /\ ops'["render"] = <<>> /\ ops' \in [Writer -> Seq(Op)]
    BY <1>1, <1>3, <2>1 DEF Writer
  <2>3. Left(ToFinish, {Mark(Global, "DeploymentFinish")}, ToBackup)
    BY DaemonRests
  <2>4. Finishing(ToFinish) /\ Head(ToFinish) = Mark(Global, "DeploymentFinish")
    BY <2>3, OneOf DEF Finishing, Left
  <2>5. i = Len(RoleOrder) + 1
    BY <1>5, <1>7
  <2> QED BY <1>1, <1>2, <1>4, <1>6, <2>2, <2>4, <2>5
<1>8. CASE ~(i > Len(RoleOrder))
  <2> DEFINE r == RoleOrder[i]
  <2>1. i \in DOMAIN RoleOrder /\ i <= Len(RoleOrder) /\ r \in Role
    BY <1>5, <1>8, DeploymentAssumption
  <2>2. HasRole(u) /\ r = Current(u)
    BY <1>4, <1>6, <1>8, <2>1 DEF HasRole, Current
  <2>3. ops' = [ops EXCEPT !["daemon"] = OfRole(r) \o ToFinish]
    BY <1>1, <1>3, <1>4, <1>8 DEF Continue, Writer
  <2>4. OfRole(r) \o ToFinish = Then(Rotating(r), ToRoleStart(r)) /\ OfRole(r) \o ToFinish \in Seq(Op)
    BY <2>1, RoleBegins
  <2>5. Left(Then(Rotating(r), ToRoleStart(r)), {Rotating(r)}, ToRoleStart(r))
    <3>1. Rotating(r) \in Op /\ ToRoleStart(r) \in Seq(Op)
      BY <2>1, Ops, RoleRests, Dirs1
    <3> QED BY <3>1, Conses DEF Left
  <2>6. ops'["daemon"] = Then(Rotating(r), ToRoleStart(r)) /\ ops'["render"] = <<>>
        /\ ops' \in [Writer -> Seq(Op)]
    BY <1>1, <2>3, <2>4 DEF Writer
  <2>7. RoleOpening(ops'["daemon"], r) /\ Head(ops'["daemon"]) = Rotating(r)
    BY <2>5, <2>6, OneOf DEF RoleOpening, Left
  <2> QED BY <1>1, <1>2, <1>4, <1>6, <2>1, <2>2, <2>6, <2>7
<1> QED BY <1>7, <1>8

LEMMA NextRoleTypes ==
  ASSUME TypeInv, NEW t \in task, NextRole(t)
  PROVE  TypeInv'
<1>1. UNCHANGED <<logVars, roleVars, backupVars, last_id, prev, outcome, interrupted, crashed, faults>>
  BY DEF NextRole
<1>2. PICK i \in t.at + 1 .. Len(RoleOrder) + 1 :
         /\ task' = {[t EXCEPT !.at = i]} /\ [t EXCEPT !.at = i] \in Task
         /\ \/ i = Len(RoleOrder) + 1 /\ Finishing(ops'["daemon"])
            \/ /\ i <= Len(RoleOrder) /\ HasRole([t EXCEPT !.at = i])
               /\ RoleOrder[i] = Current([t EXCEPT !.at = i])
               /\ RoleOpening(ops'["daemon"], RoleOrder[i])
  BY Choices
<1>3. ops'["render"] = <<>> /\ ops' \in [Writer -> Seq(Op)]
  BY Choices
<1>4. ControlOf([t EXCEPT !.at = i])'
  BY <1>2, <1>3 DEF ControlOf, Outside, InRole
<1>5. Control'
  BY <1>2, <1>4 DEF Control
<1>6. t.id = last_id /\ [t EXCEPT !.at = i].id = t.id
  BY <1>2 DEF TypeInv, DeployTypes, Task
<1>7. DeployTypes'
  BY <1>1, <1>2, <1>3, <1>6 DEF TypeInv, DeployTypes
<1> QED BY <1>1, <1>5, <1>7, LogTypesKept, RoleTypesKept, BackupTypesKept DEF TypeInv

LEMMA Spawns ==
  ASSUME TypeInv, NEW t \in task, At("daemon", "spawn")
  PROVE  /\ t \in Task /\ HasRole(t) /\ Current(t) \in Role
         /\ ops \in [Writer -> Seq(Op)] /\ ops["daemon"] # <<>> /\ ops["render"] = <<>>
         /\ Spawning(ops["daemon"], Current(t)) /\ Tail(ops["daemon"]) = ToRoleEnd(Current(t))
         /\ ToRoleEnd(Current(t)) \in Seq(Op)
         /\ Left(ToRoleEnd(Current(t)), {Mark(Current(t), "RoleFinish")}, ToRoles)
<1>1. /\ ops \in [Writer -> Seq(Op)] /\ ops["daemon"] # <<>> /\ ops["render"] = <<>>
      /\ Head(ops["daemon"]).op = "spawn" /\ t \in Task /\ ControlOf(t)
  BY DEF At, TypeInv, DeployTypes, Control
<1>2. Spawning(ops["daemon"], Current(t)) /\ HasRole(t)
  BY <1>1, PlaceOf DEF ControlOf
<1>3. Current(t) \in Role
  BY <1>1, <1>2, Roles
<1>4. Tail(ops["daemon"]) = ToRoleEnd(Current(t))
  BY <1>2 DEF Spawning, Left
<1> QED BY <1>1, <1>2, <1>3, <1>4, RoleRests

LEMMA AbortTypes ==
  ASSUME TypeInv, NEW t \in task, Abort(t)
  PROVE  TypeInv' /\ RoleDropping(ops'["daemon"], Current(t)) /\ ops'["render"] = <<>>
         /\ Head(ops'["daemon"]) = Mark(Current(t), "RoleFinish")
<1> DEFINE r == Current(t)
<1>1. /\ UNCHANGED <<logVars, roleVars, backupVars, taskVars, outcome, interrupted>> /\ Fault
      /\ At("daemon", "spawn")
      /\ ops' = [ops EXCEPT !["daemon"] = DropRole(r) \o DropDeployment \o <<Do("backup")>>]
  BY DEF Abort
<1>2. t \in Task /\ HasRole(t) /\ r \in Role /\ ops \in [Writer -> Seq(Op)] /\ ops["render"] = <<>>
  BY <1>1, Spawns
<1>3. DropRole(r) \o DropDeployment \o <<Do("backup")>> = Then(Mark(r, "RoleFinish"), ToError)
  BY <1>2, Drops
<1>4. Mark(r, "RoleFinish") \in Op /\ ToError \in Seq(Op)
  BY <1>2, Ops, Dirs1, DaemonRests DEF Marker
<1>5. Left(Then(Mark(r, "RoleFinish"), ToError), {Mark(r, "RoleFinish")}, ToError)
      /\ Then(Mark(r, "RoleFinish"), ToError) \in Seq(Op)
  BY <1>4, Conses DEF Left
<1>6. ops'["daemon"] = Then(Mark(r, "RoleFinish"), ToError) /\ ops'["render"] = <<>>
      /\ ops' \in [Writer -> Seq(Op)]
  BY <1>1, <1>2, <1>3, <1>5 DEF Writer
<1>7. RoleDropping(ops'["daemon"], r) /\ Head(ops'["daemon"]) = Mark(r, "RoleFinish")
  BY <1>5, <1>6, OneOf DEF RoleDropping, Left
<1>8. task = {t} /\ task' = task
  BY <1>1 DEF TypeInv, DeployTypes, taskVars
<1>9. Control'
  BY <1>2, <1>6, <1>7, <1>8 DEF Control, ControlOf, InRole
<1>10. DeployTypes'
  BY <1>1, <1>6, TypesKept DEF TypeInv, DeployTypes
<1> QED BY <1>1, <1>6, <1>7, <1>9, <1>10, LogTypesKept, RoleTypesKept, BackupTypesKept DEF TypeInv

LEMMA StartRenderTypes ==
  ASSUME TypeInv, NEW t \in task, StartRender(t)
  PROVE  /\ TypeInv' /\ Left(ops'["daemon"], {Mark(Current(t), "RoleFinish")}, ToRoles)
         /\ ops'["render"] = <<>> \/ Left(ops'["render"], {Do("latest")}, ToLogs(Current(t)))
<1> DEFINE r == Current(t)
<1>1. /\ UNCHANGED <<logVars, roleVars, backupVars, taskVars, interrupted>>
      /\ At("daemon", "spawn") /\ outcome' = [outcome EXCEPT ![r] = {}]
  BY DEF StartRender
<1>2. PICK s \in {<<>>, Render(r)} :
        /\ ops' = [ops EXCEPT !["daemon"] = Tail(ops["daemon"]), !["render"] = s]
        /\ IF s = <<>> THEN Fault ELSE UNCHANGED faults
  BY DEF StartRender
<1>3. /\ t \in Task /\ HasRole(t) /\ r \in Role /\ ops \in [Writer -> Seq(Op)]
      /\ Tail(ops["daemon"]) = ToRoleEnd(r) /\ ToRoleEnd(r) \in Seq(Op)
      /\ Left(ToRoleEnd(r), {Mark(r, "RoleFinish")}, ToRoles)
  BY <1>1, Spawns
<1>4. Render(r) = Then(Do("latest"), ToLogs(r)) /\ Render(r) \in Seq(Op)
  BY <1>3, RenderBegins
<1>5. Left(Then(Do("latest"), ToLogs(r)), {Do("latest")}, ToLogs(r))
  <2>1. Do("latest") \in Op /\ ToLogs(r) \in Seq(Op)
    BY <1>3, Ops, RenderRests DEF Named
  <2> QED BY <2>1, Conses DEF Left
<1>6. s \in Seq(Op) /\ (s = <<>> \/ Left(s, {Do("latest")}, ToLogs(r)))
  <2>1. s = <<>> \/ s = Render(r)
    OBVIOUS
  <2>2. <<>> \in Seq(Op)
    OBVIOUS
  <2>3. CASE s = <<>>
    BY <2>2, <2>3
  <2>4. CASE s = Render(r)
    BY <1>4, <1>5, <2>4
  <2> QED BY <2>1, <2>3, <2>4
<1>7. ops'["daemon"] = ToRoleEnd(r) /\ ops'["render"] = s /\ ops' \in [Writer -> Seq(Op)]
  BY <1>2, <1>3, <1>6 DEF Writer
<1>8. task = {t} /\ task' = task
  BY <1>1 DEF TypeInv, DeployTypes, taskVars
<1>9. RoleEnding(ops'["daemon"], r)
  BY <1>3, <1>7, OneOf DEF RoleEnding
<1>10. Control'
  BY <1>3, <1>6, <1>7, <1>8, <1>9 DEF Control, ControlOf, InRole, RenderAt, Opens
<1>11. outcome' \in [Role -> SUBSET Hash]
       /\ \A q \in Role : outcome'[q] = {} \/ \E h \in Hash : outcome'[q] = {h}
  BY <1>1 DEF TypeInv, DeployTypes
<1>12. DeployTypes'
  BY <1>1, <1>2, <1>7, <1>11, TypesKept DEF TypeInv, DeployTypes
<1> QED BY <1>1, <1>3, <1>6, <1>7, <1>10, <1>12, LogTypesKept, RoleTypesKept, BackupTypesKept DEF TypeInv

LEMMA LogActionTypes ==
  ASSUME TypeInv, NEW t \in task, NEW w \in Writer, LogAction(w, t)
  PROVE  TypeInv'
<1>1. LogTypes' /\ ops[w] # <<>> /\ (w = "daemon" => ops["render"] = <<>>)
      /\ UNCHANGED <<roleVars, backupVars, taskVars, statusVars>>
  BY LogSteps DEF TypeInv
<1>2. PICK s \in Seq(Op) : ops' = [ops EXCEPT ![w] = s] /\ (s = Tail(ops[w]) \/ Stays(ops[w], s))
  BY LogSteps DEF TypeInv
<1>3. Control'
  BY <1>1, <1>2, ControlMoves DEF TypeInv, taskVars
<1>4. ops' \in [Writer -> Seq(Op)]
  BY <1>2 DEF TypeInv, DeployTypes
<1>5. DeployTypes'
  BY <1>1, <1>4, TypesKept DEF TypeInv, DeployTypes, statusVars
<1> QED BY <1>1, <1>3, <1>5, RoleTypesKept, BackupTypesKept DEF TypeInv

\* The renderer is somewhere between its start and its exit.
LEMMA RenderPlace ==
  ASSUME TypeInv, NEW t \in task, ops["render"] # <<>>
  PROVE  /\ t \in Task /\ HasRole(t) /\ Current(t) \in Role /\ task = {t}
         /\ Len(Secs(t)) \in Nat
         /\ ops \in [Writer -> Seq(Op)]
         /\ RenderAt(ops["render"], Current(t), Len(Secs(t)))
         /\ Left(ops["daemon"], {Mark(Current(t), "RoleFinish")}, ToRoles)
         /\ InRole(ops["daemon"], Current(t))
<1>1. t \in Task /\ ControlOf(t) /\ task = {t}
  BY DEF TypeInv, DeployTypes, Control
<1>2. HasRole(t) /\ RenderAt(ops["render"], Current(t), Len(Secs(t)))
      /\ Left(ops["daemon"], {Mark(Current(t), "RoleFinish")}, ToRoles)
  BY <1>1 DEF ControlOf
<1>3. InRole(ops["daemon"], Current(t))
  BY <1>2, OneOf DEF InRole, RoleEnding
<1> QED BY <1>1, <1>2, <1>3, Roles DEF TypeInv, DeployTypes

LEMMA RenderPlaceOf ==
  ASSUME NEW r, NEW n, NEW s, s # <<>>, RenderAt(s, r, n)
  PROVE  /\ Head(s).op = "latest" => Left(s, {Do("latest")}, ToLogs(r))
         /\ Head(s).op = "templates" => Left(s, {Do("templates")}, ToAction(r))
         /\ Head(s).op = "pitch" => Pitching(s, r)
         /\ Head(s).op = "split" => Splitting(s, r, n)
         /\ Head(s).op = "flush" => Flushing(s, r, n) \/ Ending(s, r, n)
         /\ Head(s).op = "clean" => Cleaning(s, r, n)
         /\ Head(s).op = "condition" => Deciding(s, r)
         /\ Head(s).op = "exit" => Exiting(s)
         /\ Head(s).op = "fail" => Failing(s)
         /\ Changing(s, r, n) => Head(s).op \in {"split", "flush", "clean", "condition"}
<1>1. Opens(s, r) => Head(s).op \in {"latest", "check", "link", "rename", "templates"}
  BY OpKinds DEF Opens, Left
<1>2. Starts(s, r) \/ Finishes(s, r) \/ Fails(s, r) => Head(s).op \in {"mark", "row"}
  BY OpKinds DEF Starts, Finishes, Fails, Left
<1>3. Pitching(s, r) => Head(s).op = "pitch"
  BY OpKinds DEF Pitching, Left
<1>4. Splitting(s, r, n) => Head(s).op = "split"
  BY OpKinds DEF Splitting, Left
<1>5. Flushing(s, r, n) \/ Ending(s, r, n) => Head(s).op = "flush"
  BY OpKinds DEF Flushing, Ending, Left
<1>6. Cleaning(s, r, n) => Head(s).op = "clean"
  BY OpKinds DEF Cleaning, Left
<1>7. Deciding(s, r) => Head(s).op = "condition"
  BY OpKinds DEF Deciding, Left
<1>8. (Exiting(s) => Head(s).op = "exit") /\ (Failing(s) => Head(s).op = "fail")
  BY OpKinds DEF Exiting, Failing, Left
<1>9. /\ Head(s).op = "latest" /\ Opens(s, r) => Left(s, {Do("latest")}, ToLogs(r))
      /\ Head(s).op = "templates" /\ Opens(s, r) => Left(s, {Do("templates")}, ToAction(r))
  BY OpKinds DEF Opens, Left
<1> QED BY <1>1, <1>2, <1>3, <1>4, <1>5, <1>6, <1>7, <1>8, <1>9 DEF RenderAt, Changing

\* The renderer has done an operation, and nothing else is touched but by it.
LEMMA RenderTypes ==
  ASSUME TypeInv, NEW t \in task, NEW kind, At("render", kind), Continue("render", <<>>),
         UNCHANGED <<logVars, backupVars, taskVars, faults>>, RoleTypes',
         outcome' \in [Role -> SUBSET Hash],
         \A r \in Role : outcome'[r] = {} \/ \E h \in Hash : outcome'[r] = {h},
         interrupted' \subseteq Role
  PROVE  TypeInv'
<1>1. ops' \in [Writer -> Seq(Op)] /\ Control'
  BY Popped DEF TypeInv, taskVars, Writer
<1>2. DeployTypes'
  BY <1>1, TypesKept DEF TypeInv
<1> QED BY <1>1, <1>2, LogTypesKept, BackupTypesKept DEF TypeInv

LEMMA RendererTypes ==
  ASSUME TypeInv, NEW t \in task, RendersTemplates \/ Pitches(t) \/ Flushes(t) \/ Cleans(t)
                                  \/ Conditions(t) \/ Exits(t)
  PROVE  TypeInv'
<1>1. ops["render"] # <<>>
  BY DEF RendersTemplates, Pitches, Flushes, Cleans, Conditions, Exits, At
<1> DEFINE r == Current(t)
           n == Len(Secs(t))
<1>2. t \in Task /\ HasRole(t) /\ r \in Role /\ ops \in [Writer -> Seq(Op)] /\ task = {t}
      /\ RenderAt(ops["render"], r, n) /\ n \in Nat
  BY <1>1, RenderPlace
<1>3. RoleTypes /\ outcome \in [Role -> SUBSET Hash] /\ interrupted \subseteq Role
      /\ \A q \in Role : outcome[q] = {} \/ \E h \in Hash : outcome[q] = {h}
  BY DEF TypeInv, DeployTypes
<1>4. ASSUME RendersTemplates PROVE TypeInv'
  BY <1>3, <1>4, RenderTypes, RoleTypesKept DEF RendersTemplates, statusVars
<1>5. ASSUME Pitches(t) PROVE TypeInv'
  <2>1. RoleTypes'
    BY <1>2, <1>3, <1>5 DEF Pitches, pitch, RoleTypes
  <2> QED BY <1>3, <1>5, <2>1, RenderTypes DEF Pitches, statusVars
<1>6. ASSUME Flushes(t) PROVE TypeInv'
  <2> DEFINE i == Head(ops["render"]).section
  <2>1. i \in 1 .. n
    <3>1. Flushing(ops["render"], r, n) \/ Ending(ops["render"], r, n)
      BY <1>1, <1>2, <1>6, RenderPlaceOf DEF Flushes, At
    <3> QED BY <1>2, <3>1, OpKinds DEF Flushing, Ending, Left
  <2>2. RoleTypes'
    BY <1>2, <1>3, <1>6, <2>1, Flushed DEF Flushes
  <2> QED BY <1>3, <1>6, <2>2, RenderTypes DEF Flushes, statusVars
<1>7. ASSUME Cleans(t) PROVE TypeInv'
  <2>1. CASE \E m \in Stale(t.hash, r) : remove_file(r, m) /\ UNCHANGED ops
    <3>1. PICK m \in Stale(t.hash, r) : remove_file(r, m) /\ UNCHANGED ops
      BY <2>1
    <3>2. m \in Name
      BY DEF Stale
    <3>3. RoleTypes'
      BY <1>2, <1>3, <3>1, <3>2, Directories
    <3>4. UNCHANGED <<logVars, backupVars, taskVars, statusVars>>
      BY <1>7 DEF Cleans
    <3>5. DeployTypes'
      BY <1>2, <1>3, <3>1, <3>4, TypesKept DEF TypeInv, statusVars
    <3>6. Control'
      BY <3>1, <3>4 DEF TypeInv, Control, ControlOf, taskVars
    <3> QED BY <3>3, <3>4, <3>5, <3>6, LogTypesKept, BackupTypesKept DEF TypeInv
  <2>2. CASE Continue("render", <<>>) /\ UNCHANGED roleVars
    BY <1>3, <1>7, <2>2, RenderTypes, RoleTypesKept DEF Cleans, statusVars
  <2> QED BY <1>7, <2>1, <2>2 DEF Cleans
<1>8. ASSUME Conditions(t) PROVE TypeInv'
  <2>1. RoleTypes'
    BY <1>2, <1>3, <1>8 DEF Conditions, Condition, RoleTypes
  <2>2. interrupted' \subseteq Role
    BY <1>2, <1>3, <1>8 DEF Conditions
  <2> QED BY <1>3, <1>8, <2>1, <2>2, RenderTypes DEF Conditions
<1>9. ASSUME Exits(t) PROVE TypeInv'
  <2>1. outcome' = [outcome EXCEPT ![r] = {t.hash}] /\ t.hash \in Hash
    BY <1>2, <1>9 DEF Exits, Task
  <2>2. outcome' \in [Role -> SUBSET Hash]
        /\ \A q \in Role : outcome'[q] = {} \/ \E h \in Hash : outcome'[q] = {h}
    BY <1>3, <2>1
  <2> QED BY <1>3, <1>9, <2>2, RenderTypes, RoleTypesKept DEF Exits
<1> QED BY <1>4, <1>5, <1>6, <1>7, <1>8, <1>9

\* What is left to do, as a set.
OpsIn(s) == {s[i] : i \in DOMAIN s}

LEMMA OpsInThen ==
  ASSUME NEW o \in Op, NEW s \in Seq(Op)
  PROVE  OpsIn(Then(o, s)) = {o} \cup OpsIn(s)
<1>1. Then(o, s) \in Seq(Op) /\ Len(Then(o, s)) = Len(s) + 1
      /\ \A i \in 1 .. Len(s) + 1 : Then(o, s)[i] = IF i = 1 THEN o ELSE s[i - 1]
  BY DEF Then
<1>2. \A i \in 1 .. Len(s) + 1 : Then(o, s)[i] \in {o} \cup OpsIn(s)
  <2>1. \A i \in 1 .. Len(s) + 1 : i # 1 => i - 1 \in DOMAIN s
    OBVIOUS
  <2> QED BY <1>1, <2>1 DEF OpsIn
<1>3. o \in OpsIn(Then(o, s))
  <2>1. Then(o, s)[1] = o /\ 1 \in DOMAIN Then(o, s)
    BY <1>1
  <2> QED BY <2>1 DEF OpsIn
<1>4. ASSUME NEW i \in DOMAIN s PROVE s[i] \in OpsIn(Then(o, s))
  <2>1. i + 1 \in DOMAIN Then(o, s) /\ Then(o, s)[i + 1] = s[i]
    BY <1>1
  <2> QED BY <2>1 DEF OpsIn
<1>5. OpsIn(s) \subseteq OpsIn(Then(o, s))
  BY <1>4 DEF OpsIn
<1>6. OpsIn(Then(o, s)) \subseteq {o} \cup OpsIn(s)
  BY <1>1, <1>2 DEF OpsIn
<1> QED BY <1>3, <1>5, <1>6

LEMMA OpsInLeft ==
  ASSUME NEW s \in Seq(Op), NEW first, NEW rest, Left(s, first, rest)
  PROVE  \E o \in first : o = Head(s) /\ OpsIn(s) = {o} \cup OpsIn(rest)
<1>1. s # <<>> /\ Head(s) \in first /\ Tail(s) = rest
  BY DEF Left
<1>2. Head(s) \in Op /\ Tail(s) \in Seq(Op) /\ s = Then(Head(s), Tail(s))
  <2>1. Head(s) \in Op /\ Tail(s) \in Seq(Op) /\ Len(s) = Len(Tail(s)) + 1 /\ s[1] = Head(s)
        /\ \A i \in 1 .. Len(Tail(s)) : s[i + 1] = Tail(s)[i]
    BY <1>1
  <2>2. Then(Head(s), Tail(s)) \in Seq(Op) /\ Len(Then(Head(s), Tail(s))) = Len(s)
    BY <2>1 DEF Then
  <2>3. \A i \in 1 .. Len(s) : Then(Head(s), Tail(s))[i] = IF i = 1 THEN Head(s) ELSE Tail(s)[i - 1]
    BY <2>1 DEF Then
  <2>4. \A i \in 1 .. Len(s) : i # 1 => i - 1 \in 1 .. Len(Tail(s)) /\ (i - 1) + 1 = i
    BY <2>1
  <2>5. \A i \in 1 .. Len(s) : s[i] = Then(Head(s), Tail(s))[i]
    BY <2>1, <2>3, <2>4
  <2> QED BY <2>1, <2>2, <2>5, SeqEqual
<1>3. OpsIn(Then(Head(s), Tail(s))) = {Head(s)} \cup OpsIn(Tail(s))
  BY <1>2, OpsInThen
<1> QED BY <1>1, <1>2, <1>3

\* The kinds of operations that the rests of the renderer have.
LEMMA OpsInRests ==
  ASSUME NEW r \in Role
  PROVE  /\ OpsIn(<<>>) = {}
         /\ \A o \in OpsIn(ToExit) \cup OpsIn(ToFail) \cup OpsIn(ToActionEnd(r)) :
              o.op \in {"exit", "fail", "mark"}
         /\ \A o \in OpsIn(ToCondition(r)) : o.op \in {"condition", "mark", "exit"}
         /\ Do("condition") \in OpsIn(ToCondition(r))
         /\ \A i \in Nat :
              /\ OpsIn(ToSplit(i, r)) = {Split(i)} \cup OpsIn(ToCondition(r))
              /\ OpsIn(ToFlush(i, r)) = {FlushOf(i)} \cup OpsIn(ToCondition(r))
         /\ \A s \in {ToPitch(r), ToAction(r), ToTemplates(r), ToRole(r), ToLogs(r)} :
              /\ Do("pitch") \in OpsIn(s)
              /\ \A o \in OpsIn(s) : o.op # "flush"
<1>1. /\ Do("exit") \in Op /\ Do("fail") \in Op /\ Do("condition") \in Op /\ Do("pitch") \in Op
      /\ Do("templates") \in Op
      /\ Mark(r, "ActionFinish") \in Op /\ Mark(r, "ActionStart") \in Op
      /\ Keeping(r) \in Op /\ Keeping(Global) \in Op
      /\ \A i \in Nat : Split(i) \in Op /\ FlushOf(i) \in Op
  BY Ops, Dirs1 DEF Named, Marker
<1>2. /\ ToExit \in Seq(Op) /\ ToActionEnd(r) \in Seq(Op) /\ ToCondition(r) \in Seq(Op)
      /\ ToPitch(r) \in Seq(Op) /\ ToAction(r) \in Seq(Op)
      /\ ToTemplates(r) \in Seq(Op) /\ ToRole(r) \in Seq(Op) /\ ToLogs(r) \in Seq(Op)
  BY RenderRests
<1>3. OpsIn(<<>>) = {} /\ <<>> \in Seq(Op)
  BY DEF OpsIn
<1>4. /\ OpsIn(ToExit) = {Do("exit")} /\ OpsIn(ToFail) = {Do("fail")}
  <2>1. OpsIn(Then(Do("exit"), <<>>)) = {Do("exit")} \cup OpsIn(<<>>)
    BY <1>1, <1>3, OpsInThen
  <2>2. OpsIn(Then(Do("fail"), <<>>)) = {Do("fail")} \cup OpsIn(<<>>)
    BY <1>1, <1>3, OpsInThen
  <2> QED BY <1>3, <2>1, <2>2 DEF ToExit, ToFail
<1>5. OpsIn(ToActionEnd(r)) = {Mark(r, "ActionFinish")} \cup OpsIn(ToExit)
  BY <1>1, <1>2, OpsInThen DEF ToActionEnd
<1>6. OpsIn(ToCondition(r)) = {Do("condition")} \cup OpsIn(ToActionEnd(r))
  BY <1>1, <1>2, OpsInThen DEF ToCondition
<1>7. ASSUME NEW i \in Nat
      PROVE  /\ OpsIn(ToSplit(i, r)) = {Split(i)} \cup OpsIn(ToCondition(r))
             /\ OpsIn(ToFlush(i, r)) = {FlushOf(i)} \cup OpsIn(ToCondition(r))
  BY <1>1, <1>2, OpsInThen DEF ToSplit, ToFlush
<1>8. OpsIn(ToPitch(r)) = {Do("pitch"), Split(1)} \cup OpsIn(ToCondition(r))
  <2>1. ToSplit(1, r) \in Seq(Op) /\ OpsIn(ToSplit(1, r)) = {Split(1)} \cup OpsIn(ToCondition(r))
    <3>1. PICK i \in Nat : i = 1
      OBVIOUS
    <3>2. ToSplit(i, r) \in Seq(Op) /\ OpsIn(ToSplit(i, r)) = {Split(i)} \cup OpsIn(ToCondition(r))
      BY <1>7, RenderRests
    <3> QED BY <3>1, <3>2
  <2>2. OpsIn(ToPitch(r)) = {Do("pitch")} \cup OpsIn(ToSplit(1, r))
    BY <1>1, <2>1, OpsInThen DEF ToPitch
  <2> QED BY <2>1, <2>2
<1>9. OpsIn(ToAction(r)) = {Mark(r, "ActionStart")} \cup OpsIn(ToPitch(r))
  BY <1>1, <1>2, OpsInThen DEF ToAction
<1>10. OpsIn(ToTemplates(r)) = {Do("templates")} \cup OpsIn(ToAction(r))
  BY <1>1, <1>2, OpsInThen DEF ToTemplates
<1>11. OpsIn(ToRole(r)) = {Keeping(r)} \cup OpsIn(ToTemplates(r))
  BY <1>1, <1>2, OpsInThen DEF ToRole
<1>12. OpsIn(ToLogs(r)) = {Keeping(Global)} \cup OpsIn(ToRole(r))
  BY <1>1, <1>2, OpsInThen DEF ToLogs
<1>13. /\ Do("exit").op = "exit" /\ Do("fail").op = "fail" /\ Do("condition").op = "condition"
       /\ Do("pitch").op = "pitch" /\ Do("templates").op = "templates"
       /\ Mark(r, "ActionFinish").op = "mark" /\ Mark(r, "ActionStart").op = "mark"
       /\ Keeping(r).op = "check" /\ Keeping(Global).op = "check"
       /\ Split(1).op = "split"
  BY DEF Do, Mark, Keeping, CheckLog, Split
<1>14. /\ \A o \in OpsIn(ToExit) \cup OpsIn(ToFail) \cup OpsIn(ToActionEnd(r)) :
            o.op \in {"exit", "fail", "mark"}
       /\ \A o \in OpsIn(ToCondition(r)) : o.op \in {"condition", "mark", "exit"}
       /\ Do("condition") \in OpsIn(ToCondition(r))
  BY <1>4, <1>5, <1>6, <1>13
<1>15. ASSUME NEW s \in {ToPitch(r), ToAction(r), ToTemplates(r), ToRole(r), ToLogs(r)}
       PROVE  /\ Do("pitch") \in OpsIn(s)
              /\ \A o \in OpsIn(s) : o.op # "flush"
  BY <1>8, <1>9, <1>10, <1>11, <1>12, <1>13, <1>14
<1> QED BY <1>3, <1>7, <1>14, <1>15

\* The directory is being changed when the pitch is done and the condition is not.
LEMMA WhatIsLeft ==
  ASSUME NEW r \in Role, NEW n \in Nat, NEW s \in Seq(Op), s # <<>>, RenderAt(s, r, n)
  PROVE  /\ \A o \in OpsIn(s) : o.op = "flush" => o.section \in 1 .. n
         /\ Changing(s, r, n) <=> /\ \E o \in OpsIn(s) : o.op = "condition"
                                  /\ \A o \in OpsIn(s) : o.op # "pitch"
         /\ (\E o \in OpsIn(s) : o.op = "flush") => Changing(s, r, n)
<1> DEFINE Flushable == \A o \in OpsIn(s) : o.op = "flush" => o.section \in 1 .. n
           Unflushed == \A o \in OpsIn(s) : o.op # "flush"
           Changed   == /\ \E o \in OpsIn(s) : o.op = "condition"
                        /\ \A o \in OpsIn(s) : o.op # "pitch"
<1>1. Do("pitch").op = "pitch" /\ Do("condition").op = "condition"
  BY OpKinds
<1>2. ASSUME Opens(s, r) \/ Starts(s, r) PROVE Flushable /\ Unflushed /\ ~Changed
  <2>1. PICK first, rest : /\ Left(s, first, rest) /\ \A o \in first : o.op # "flush"
                           /\ rest \in {ToPitch(r), ToAction(r), ToTemplates(r), ToRole(r), ToLogs(r)}
    BY <1>2, OpKinds DEF Opens, Starts
  <2>2. Do("pitch") \in OpsIn(s) /\ \A o \in OpsIn(s) : o.op # "flush"
    BY <2>1, OpsInLeft, OpsInRests
  <2> QED BY <1>1, <2>2
<1>3. ASSUME Pitching(s, r) PROVE Flushable /\ Unflushed /\ ~Changed
  <2>1. OpsIn(s) = {Do("pitch")} \cup OpsIn(ToSplit(1, r))
    BY <1>3, OpsInLeft DEF Pitching
  <2>2. PICK i \in Nat : i = 1
    OBVIOUS
  <2>3. OpsIn(ToSplit(i, r)) = {Split(i)} \cup OpsIn(ToCondition(r))
    BY OpsInRests
  <2> QED BY <1>1, <2>1, <2>2, <2>3, OpsInRests, OpKinds
<1>4. ASSUME Changing(s, r, n) PROVE Flushable /\ Changed
  <2>1. ASSUME NEW o, OpsIn(s) = {o} \cup OpsIn(ToCondition(r)), o.op # "pitch",
               o.op = "flush" => o.section \in 1 .. n
        PROVE  Flushable /\ Changed
    BY <1>1, <2>1, OpsInRests
  <2>2. CASE Splitting(s, r, n)
    BY <2>1, <2>2, OpsInLeft, OpKinds DEF Splitting
  <2>3. CASE Flushing(s, r, n)
    <3>1. PICK i \in 1 .. n : i < n /\ Left(s, {FlushOf(i)}, ToSplit(i + 1, r))
      BY <2>3 DEF Flushing
    <3>2. i + 1 \in Nat
      BY <3>1
    <3>3. OpsIn(s) = {FlushOf(i)} \cup OpsIn(ToSplit(i + 1, r))
      BY <3>1, OpsInLeft
    <3>4. OpsIn(ToSplit(i + 1, r)) = {Split(i + 1)} \cup OpsIn(ToCondition(r))
      BY <3>2, OpsInRests
    <3>5. /\ FlushOf(i).op = "flush" /\ FlushOf(i).section = i /\ Split(i + 1).op = "split"
      BY OpKinds
    <3> QED BY <1>1, <3>3, <3>4, <3>5, OpsInRests
  <2>4. CASE Cleaning(s, r, n)
    <3>1. Do("clean").op = "clean"
      BY OpKinds
    <3>2. CASE n = 0
      BY <2>1, <2>4, <3>1, <3>2, OpsInLeft DEF Cleaning
    <3>3. CASE n # 0
      <4>1. OpsIn(s) = {Do("clean")} \cup OpsIn(ToFlush(n, r))
        BY <2>4, <3>3, OpsInLeft DEF Cleaning
      <4>2. OpsIn(ToFlush(n, r)) = {FlushOf(n)} \cup OpsIn(ToCondition(r))
        BY OpsInRests
      <4>3. FlushOf(n).op = "flush" /\ FlushOf(n).section = n /\ n \in 1 .. n
        BY <3>3, OpKinds
      <4> QED BY <1>1, <3>1, <4>1, <4>2, <4>3, OpsInRests
    <3> QED BY <3>2, <3>3
  <2>5. CASE Ending(s, r, n)
    <3>1. OpsIn(s) = {FlushOf(n)} \cup OpsIn(ToCondition(r))
      BY <2>5, OpsInLeft DEF Ending
    <3>2. FlushOf(n).op = "flush" /\ FlushOf(n).section = n /\ n \in 1 .. n
      BY <2>5, OpKinds DEF Ending
    <3> QED BY <2>1, <3>1, <3>2
  <2>6. CASE Deciding(s, r)
    <3>1. OpsIn(s) = {Do("condition")} \cup OpsIn(ToActionEnd(r))
      BY <2>6, OpsInLeft DEF Deciding
    <3> QED BY <1>1, <3>1, OpsInRests
  <2> QED BY <1>4, <2>2, <2>3, <2>4, <2>5, <2>6 DEF Changing
<1>5. ASSUME Finishes(s, r) \/ Fails(s, r) \/ Exiting(s) \/ Failing(s) PROVE Flushable /\ Unflushed /\ ~Changed
  <2>1. PICK first, rest :
           /\ Left(s, first, rest) /\ \A o \in first : o.op \notin {"flush", "condition"}
           /\ rest \in {ToExit, ToFail, <<>>}
    BY <1>5, OpKinds DEF Finishes, Fails, Exiting, Failing
  <2>2. \A o \in OpsIn(s) : o.op \notin {"flush", "condition"}
    BY <2>1, OpsInLeft, OpsInRests
  <2> QED BY <2>2
<1>6. Flushable /\ (Changing(s, r, n) <=> Changed) /\ (Unflushed \/ Changing(s, r, n))
  BY <1>2, <1>3, <1>4, <1>5 DEF RenderAt
<1> QED BY <1>6

\* A section is committed, or there is none left.
LEMMA SplitTypes ==
  ASSUME TypeInv, NEW t \in task, Splits(t)
  PROVE  /\ TypeInv'
         /\ LET s == ops'["render"]
                r == Current(t)
                n == Len(Secs(t))
                i == Head(ops["render"]).section
            IN  /\ i \in 1 .. n \cup {1} /\ Left(ops["render"], {Split(i)}, ToCondition(r))
                /\ \/ i > n /\ n = 0 /\ Cleaning(s, r, n) /\ UNCHANGED roleVars
                   \/ /\ i \in 1 .. n /\ commit_file(r, Secs(t)[i].name)
                      /\ \/ i = n /\ Cleaning(s, r, n)
                         \/ i < n /\ Left(s, {FlushOf(i)}, ToSplit(i + 1, r))
<1> DEFINE r == Current(t)
           n == Len(Secs(t))
           i == Head(ops["render"]).section
           s == ops'["render"]
<1>1. ops["render"] # <<>> /\ Head(ops["render"]).op = "split"
      /\ UNCHANGED <<logVars, backupVars, taskVars, statusVars>>
  BY DEF Splits, At
<1>2. t \in Task /\ HasRole(t) /\ r \in Role /\ ops \in [Writer -> Seq(Op)] /\ task = {t}
      /\ RenderAt(ops["render"], r, n) /\ n \in Nat
      /\ Left(ops["daemon"], {Mark(r, "RoleFinish")}, ToRoles) /\ InRole(ops["daemon"], r)
  BY <1>1, RenderPlace
<1>3. Splitting(ops["render"], r, n)
  BY <1>1, <1>2, RenderPlaceOf
<1>4. i \in 1 .. n \cup {1} /\ Left(ops["render"], {Split(i)}, ToCondition(r))
  BY <1>3, OpKinds DEF Splitting, Left
<1>5. i \in Nat /\ Tail(ops["render"]) = ToCondition(r) /\ ToCondition(r) \in Seq(Op)
      /\ Do("clean") \in Op
  <2>1. i \in Nat
    BY <1>2, <1>4
  <2>2. ToCondition(r) \in Seq(Op)
    BY <1>2, RenderRests
  <2> QED BY <1>4, <2>1, <2>2, Ops DEF Left, Named
<1>6. ASSUME NEW x \in Seq(Op), ops' = [ops EXCEPT !["render"] = x], RenderAt(x, r, n), RoleTypes'
      PROVE  TypeInv'
  <2>1. ops'["render"] = x /\ ops'["daemon"] = ops["daemon"] /\ ops' \in [Writer -> Seq(Op)]
    BY <1>2, <1>6 DEF Writer
  <2>2. Control'
    BY <1>1, <1>2, <1>6, <2>1 DEF Control, ControlOf, taskVars
  <2>3. DeployTypes'
    BY <1>1, <2>1, TypesKept DEF TypeInv, DeployTypes, statusVars
  <2> QED BY <1>1, <1>6, <2>2, <2>3, LogTypesKept, BackupTypesKept DEF TypeInv
<1>7. CASE i > n
  <2>1. i = 1 /\ n = 0
    BY <1>2, <1>4, <1>7
  <2>2. Continue("render", <<Do("clean")>>) /\ UNCHANGED roleVars
    BY <1>7 DEF Splits
  <2> DEFINE x == Then(Do("clean"), ToCondition(r))
  <2>3. ops' = [ops EXCEPT !["render"] = x]
    BY <1>1, <1>2, <1>5, <2>2, Continuing DEF Writer
  <2>4. x \in Seq(Op) /\ Left(x, {Do("clean")}, ToCondition(r))
    BY <1>5, Conses DEF Left
  <2> HIDE DEF x
  <2>5. Cleaning(x, r, n)
    BY <2>1, <2>4 DEF Cleaning
  <2>6. s = x
    BY <1>2, <2>3 DEF Writer
  <2>7. TypeInv'
    BY <1>6, <2>2, <2>3, <2>4, <2>5, RoleTypesKept DEF RenderAt, Changing, TypeInv
  <2> QED BY <1>4, <1>7, <2>1, <2>2, <2>5, <2>6, <2>7
<1>8. CASE ~(i > n)
  <2>1. i \in 1 .. n
    BY <1>2, <1>4, <1>8
  <2>2. /\ commit_file(r, Secs(t)[i].name)
        /\ Continue("render", IF i = n THEN <<Do("clean"), FlushOf(i)>>
                                       ELSE <<FlushOf(i), Split(i + 1)>>)
    BY <1>8 DEF Splits
  <2>3. RoleTypes'
    BY <1>2, <2>1, <2>2, SectionTypes, Directories DEF TypeInv
  <2>4. FlushOf(i) \in Op /\ i + 1 \in Nat
    BY <1>5, Ops
  <2>5. Split(i + 1) \in Op
    BY <2>4, Ops
  <2>6. CASE i = n
    <3> DEFINE x == Then(Do("clean"), Then(FlushOf(i), ToCondition(r)))
    <3>1. ops' = [ops EXCEPT !["render"] = x]
      BY <1>1, <1>2, <1>5, <2>2, <2>4, <2>6, Continuing DEF Writer
    <3>2. Then(FlushOf(i), ToCondition(r)) = ToFlush(n, r) /\ ToFlush(n, r) \in Seq(Op)
      BY <1>2, <2>6, RenderRests DEF ToFlush
    <3>3. x \in Seq(Op) /\ Left(x, {Do("clean")}, ToFlush(n, r))
      BY <1>5, <3>2, Conses DEF Left
    <3> HIDE DEF x
    <3>4. Cleaning(x, r, n)
      BY <1>2, <2>1, <2>6, <3>3 DEF Cleaning
    <3>5. s = x
      BY <1>2, <3>1 DEF Writer
    <3>6. TypeInv'
      BY <1>6, <2>3, <3>1, <3>3, <3>4 DEF RenderAt, Changing
    <3> QED BY <1>4, <2>1, <2>2, <2>6, <3>4, <3>5, <3>6
  <2>7. CASE i # n
    <3> DEFINE x == Then(FlushOf(i), Then(Split(i + 1), ToCondition(r)))
    <3>1. ops' = [ops EXCEPT !["render"] = x]
      BY <1>1, <1>2, <1>5, <2>2, <2>4, <2>5, <2>7, Continuing DEF Writer
    <3>2. Then(Split(i + 1), ToCondition(r)) = ToSplit(i + 1, r)
      BY DEF ToSplit
    <3>3. ToSplit(i + 1, r) \in Seq(Op)
      BY <1>5, <2>5, <3>2, Conses
    <3>4. x \in Seq(Op) /\ Left(x, {FlushOf(i)}, ToSplit(i + 1, r))
      BY <2>4, <3>2, <3>3, Conses DEF Left
    <3> HIDE DEF x
    <3>5. Flushing(x, r, n) /\ i < n
      <4>1. i < n
        BY <1>2, <2>1, <2>7
      <4> QED BY <2>1, <3>4, <4>1 DEF Flushing
    <3>6. s = x
      BY <1>2, <3>1 DEF Writer
    <3>7. TypeInv'
      BY <1>6, <2>3, <3>1, <3>4, <3>5 DEF RenderAt, Changing
    <3> QED BY <1>4, <2>1, <2>2, <3>4, <3>5, <3>6, <3>7
  <2> QED BY <2>6, <2>7
<1> QED BY <1>7, <1>8

LEMMA Interrupts ==
  ASSUME TypeInv, NEW t \in Task, HasRole(t) \/ ~NotReloaded(Current(t)), Interrupt(t)
  PROVE  interrupted' \subseteq Role
<1>1. HasRole(t) => Current(t) \in Role
  BY Roles
<1> QED BY <1>1 DEF Interrupt, TypeInv, DeployTypes

LEMMA CommandFailsTypes ==
  ASSUME TypeInv, NEW t \in task, CommandFails(t)
  PROVE  /\ TypeInv' /\ Fails(ops'["render"], Current(t))
         /\ Head(ops'["render"]) = Mark(Current(t), "ActionFinish")
<1> DEFINE r == Current(t)
           n == Len(Secs(t))
           s == Then(Mark(r, "ActionFinish"), ToFail)
<1>1. ops["render"] # <<>> /\ Fault /\ Interrupt(t) /\ UNCHANGED <<logVars, backupVars, taskVars, outcome>>
      /\ ops' = [ops EXCEPT !["render"] = DropAction(r) \o <<Do("fail")>>]
  BY DEF CommandFails, At
<1>2. t \in Task /\ HasRole(t) /\ r \in Role /\ ops \in [Writer -> Seq(Op)] /\ task = {t}
      /\ RenderAt(ops["render"], r, n) /\ n \in Nat
      /\ Left(ops["daemon"], {Mark(r, "RoleFinish")}, ToRoles) /\ InRole(ops["daemon"], r)
  BY <1>1, RenderPlace
<1>3. DropAction(r) \o <<Do("fail")>> = s
  BY <1>2, Drops
<1>4. Mark(r, "ActionFinish") \in Op /\ ToFail \in Seq(Op)
  BY <1>2, Ops, Dirs1, RenderRests DEF Marker
<1>5. s \in Seq(Op) /\ Left(s, {Mark(r, "ActionFinish")}, ToFail)
  BY <1>4, Conses DEF Left
<1>6. Fails(s, r) /\ Head(s) = Mark(r, "ActionFinish")
  BY <1>5, OneOf DEF Fails, Left
<1> HIDE DEF s
<1>7. ops'["render"] = s /\ ops'["daemon"] = ops["daemon"] /\ ops' \in [Writer -> Seq(Op)]
  BY <1>1, <1>2, <1>3, <1>5 DEF Writer
<1>8. Control'
  BY <1>1, <1>2, <1>6, <1>7 DEF Control, ControlOf, RenderAt, taskVars
<1>9. RoleTypes'
  <2>1. CASE UNCHANGED roleVars
    BY <2>1, RoleTypesKept DEF TypeInv
  <2>2. CASE \E i \in DOMAIN ops["render"] :
               /\ ops["render"][i].op = "flush"
               /\ Flush(r, Secs(t)[ops["render"][i].section])
    <3>1. PICK i \in DOMAIN ops["render"] :
               /\ ops["render"][i].op = "flush"
               /\ Flush(r, Secs(t)[ops["render"][i].section])
      BY <2>2
    <3>2. ops["render"] \in Seq(Op) /\ ops["render"][i] \in OpsIn(ops["render"])
      BY <1>2 DEF OpsIn, Writer
    <3>3. ops["render"][i].section \in 1 .. n
      BY <1>1, <1>2, <3>1, <3>2, WhatIsLeft
    <3> QED BY <1>2, <3>1, <3>3, Flushed DEF TypeInv
  <2> QED BY <2>1, <2>2 DEF CommandFails
<1>10. interrupted' \subseteq Role
  BY <1>1, <1>2, Interrupts
<1>11. DeployTypes'
  BY <1>1, <1>7, <1>10, TypesKept DEF TypeInv, DeployTypes
<1> QED BY <1>1, <1>6, <1>7, <1>8, <1>9, <1>11, LogTypesKept, BackupTypesKept DEF TypeInv

LEMMA RenderDiesTypes ==
  ASSUME TypeInv, NEW t \in task, RenderDies(t)
  PROVE  TypeInv' /\ ops'["render"] = <<>> /\ ops'["daemon"] = ops["daemon"]
<1>1. ops["render"] # <<>> /\ (Fault \/ UNCHANGED faults) /\ Interrupt(t)
      /\ UNCHANGED <<logVars, roleVars, backupVars, taskVars, outcome>>
      /\ ops' = [ops EXCEPT !["render"] = <<>>]
  BY DEF RenderDies
<1>2. t \in Task /\ HasRole(t) /\ ops \in [Writer -> Seq(Op)] /\ task = {t}
      /\ InRole(ops["daemon"], Current(t))
  BY <1>1, RenderPlace
<1>3. ops'["render"] = <<>> /\ ops'["daemon"] = ops["daemon"] /\ ops' \in [Writer -> Seq(Op)]
  BY <1>1, <1>2 DEF Writer
<1>4. Control'
  BY <1>1, <1>2, <1>3 DEF Control, ControlOf, taskVars
<1>5. interrupted' \subseteq Role
  BY <1>1, <1>2, Interrupts
<1>6. DeployTypes'
  BY <1>1, <1>3, <1>5, TypesKept DEF TypeInv, DeployTypes
<1> QED BY <1>1, <1>3, <1>4, <1>6, LogTypesKept, RoleTypesKept, BackupTypesKept DEF TypeInv

LEMMA SavesTypes ==
  ASSUME TypeInv, NEW t \in task, Saves(t)
  PROVE  TypeInv'
<1>1. /\ At("daemon", "save") /\ Continue("daemon", <<>>)
      /\ UNCHANGED <<logVars, roleVars, snapshots, tmp, shared, listed, taskVars, outcome, interrupted>>
      /\ (saved' = {t.hash} /\ UNCHANGED faults) \/ (Fault /\ UNCHANGED saved)
  BY DEF Saves
<1>2. t.hash \in Hash /\ task' = task
  BY <1>1 DEF TypeInv, DeployTypes, Task, taskVars
<1>3. ops' \in [Writer -> Seq(Op)] /\ Control'
  BY <1>1, <1>2, Popped DEF TypeInv, Writer
<1>4. BackupTypes'
  BY <1>1, <1>2 DEF TypeInv, BackupTypes, Names
<1>5. DeployTypes'
  BY <1>1, <1>3, TypesKept DEF TypeInv, DeployTypes
<1> QED BY <1>1, <1>3, <1>4, <1>5, LogTypesKept, RoleTypesKept DEF TypeInv

\* The places of maintain_backups; nobody is at its renderer's then.
BackupAction == BacksUp \/ Copies \/ Links \/ Removes \/ Prunes

LEMMA BackupPlace ==
  ASSUME TypeInv, NEW t \in task, BackupAction
  PROVE  /\ ops \in [Writer -> Seq(Op)] /\ ops["daemon"] # <<>> /\ ops["render"] = <<>>
         /\ BackingUp(ops["daemon"]) /\ task = {t}
         /\ Head(ops["daemon"]).op \in {"backup", "copy", "snapshot", "untmp", "prune"}
<1>1. ops["daemon"] # <<>> /\ ops["render"] = <<>>
      /\ Head(ops["daemon"]).op \in {"backup", "copy", "snapshot", "untmp", "prune"}
  BY DEF BackupAction, BacksUp, Copies, Links, Removes, Prunes, At
<1>2. Outside(ops["daemon"]) \/ InRole(ops["daemon"], Current(t))
  BY DEF TypeInv, Control, ControlOf
<1> QED BY <1>1, <1>2, PlaceOf DEF TypeInv, DeployTypes

\* The daemon backs up, and then does what s says.
LEMMA BacksUpTo ==
  ASSUME TypeInv, NEW t \in task, BackupAction, NEW s \in Seq(Op),
         ops' = [ops EXCEPT !["daemon"] = s], s = <<>> \/ BackingUp(s),
         UNCHANGED <<logVars, roleVars, taskVars, outcome, interrupted>>, Fault \/ UNCHANGED faults,
         BackupTypes'
  PROVE  /\ TypeInv' /\ ops'["daemon"] = s /\ ops'["render"] = <<>>
         /\ ops'["daemon"] = <<>> \/ BackingUp(ops'["daemon"])
<1>1. ops'["daemon"] = s /\ ops'["render"] = <<>> /\ ops' \in [Writer -> Seq(Op)]
  BY BackupPlace DEF Writer
<1>2. Outside(s)
  BY DEF Outside
<1>3. Control'
  BY <1>1, <1>2 DEF Control, ControlOf
<1>4. DeployTypes'
  BY <1>1, TypesKept DEF TypeInv, DeployTypes
<1> QED BY <1>1, <1>3, <1>4, LogTypesKept, RoleTypesKept DEF TypeInv

\* A kind has its link, and the next one follows, or the end of the loop.
LEMMA LinksMove ==
  ASSUME TypeInv, NEW t \in task, Links
  PROVE  TypeInv' /\ Linking(ops'["daemon"]) /\ ops'["render"] = <<>>
<1> DEFINE s == ops["daemon"]
           i == Head(s).kind
           k == KindOrder[i]
           needed == listed[k] \ Names(k)
<1>1. /\ ops \in [Writer -> Seq(Op)] /\ s # <<>> /\ BackingUp(s) /\ BackupTypes
      /\ "daemon" \in Writer /\ BackupAction
  BY BackupPlace DEF TypeInv, Writer, BackupAction
<1>2. /\ At("daemon", "snapshot") /\ UNCHANGED <<logVars, roleVars, taskVars, outcome, interrupted>>
      /\ Continue("daemon", IF i = Len(KindOrder) THEN <<Do("untmp"), Do("prune")>>
                                                  ELSE <<Snapshot(i + 1)>>)
  BY DEF Links
<1>3. /\ \A o \in Op : Continue("daemon", <<o>>) => ops' = [ops EXCEPT !["daemon"] = Then(o, Tail(s))]
      /\ \A o, p \in Op : Continue("daemon", <<o, p>>)
                            => ops' = [ops EXCEPT !["daemon"] = Then(o, Then(p, Tail(s)))]
  BY <1>1, Continuing
<1>4. i \in 1 .. Len(KindOrder) /\ Tail(s) = <<>>
  BY <1>1, <1>2, OpKinds DEF At, BackingUp, Linking, Left
<1>5. k \in Kind
  BY <1>4, BackupsAssumption
<1>6. BackupTypes' /\ (Fault \/ UNCHANGED faults)
  <2>1. \/ \E n \in needed : hard_link(k, n) /\ UNCHANGED faults
        \/ Fault /\ UNCHANGED backupVars
        \/ UNCHANGED <<backupVars, faults>>
    BY DEF Links
  <2>2. needed \subseteq Nat
    BY <1>1, <1>5 DEF BackupTypes
  <2> HIDE DEF needed, k
  <2> QED BY <1>1, <1>5, <2>1, <2>2, LinkTypes, BackupTypesKept
<1>7. \A o \in Op : Then(o, <<>>) \in Seq(Op) /\ Left(Then(o, <<>>), {o}, <<>>)
  BY Conses, Lists DEF Left
<1>8. ASSUME NEW x \in Seq(Op), ops' = [ops EXCEPT !["daemon"] = x], Linking(x)
      PROVE  TypeInv' /\ Linking(ops'["daemon"]) /\ ops'["render"] = <<>>
  BY <1>1, <1>2, <1>6, <1>8, BacksUpTo DEF BackingUp
<1>9. CASE i = Len(KindOrder)
  <2> DEFINE x == Then(Do("untmp"), Then(Do("prune"), <<>>))
  <2>1. Do("untmp") \in Op /\ Do("prune") \in Op
    BY Ops DEF Named
  <2>2. ops' = [ops EXCEPT !["daemon"] = x]
    BY <1>2, <1>3, <1>4, <1>9, <2>1
  <2>3. Then(Do("prune"), <<>>) = <<Do("prune")>> /\ Then(Do("prune"), <<>>) \in Seq(Op)
    BY <1>7, <2>1, Lists
  <2>4. x \in Seq(Op) /\ Left(x, {Do("untmp")}, <<Do("prune")>>)
    BY <2>1, <2>3, Conses DEF Left
  <2> HIDE DEF x
  <2>5. Linking(x)
    BY <2>4 DEF Linking
  <2> QED BY <1>8, <2>2, <2>4, <2>5
<1>10. CASE i # Len(KindOrder)
  <2> DEFINE x == Then(Snapshot(i + 1), <<>>)
  <2>1. i + 1 \in 1 .. Len(KindOrder) /\ i + 1 \in Nat
    <3>1. Len(KindOrder) \in Nat
      BY BackupsAssumption
    <3>2. ASSUME NEW n \in Nat, NEW j \in 1 .. n, j # n
          PROVE  j + 1 \in 1 .. n /\ j + 1 \in Nat
      BY <3>2
    <3> QED BY <1>4, <1>10, <3>1, <3>2
  <2>2. Snapshot(i + 1) \in Op
    BY <2>1, Ops
  <2>3. ops' = [ops EXCEPT !["daemon"] = x]
    BY <1>2, <1>3, <1>4, <1>10, <2>2
  <2>4. x \in Seq(Op) /\ Left(x, {Snapshot(i + 1)}, <<>>)
    BY <1>7, <2>2
  <2> HIDE DEF x
  <2>5. Linking(x)
    BY <2>1, <2>4 DEF Linking
  <2> QED BY <1>8, <2>3, <2>4, <2>5
<1> QED BY <1>9, <1>10

\* Where each step of maintain_backups leads, and what it does.
LEMMA BackupTypesStep ==
  ASSUME TypeInv, NEW t \in task, BackupAction
  PROVE  /\ TypeInv' /\ ops'["render"] = <<>>
         /\ ops'["daemon"] = <<>> \/ BackingUp(ops'["daemon"])
<1>1. ops \in [Writer -> Seq(Op)] /\ ops["daemon"] # <<>> /\ ops["render"] = <<>>
      /\ BackingUp(ops["daemon"]) /\ BackupTypes /\ now \in Nat /\ "daemon" \in Writer
  BY BackupPlace DEF TypeInv, LogTypes, Segment, Writer
<1> DEFINE s == ops["daemon"]
<1>2. /\ Continue("daemon", <<>>) => ops' = [ops EXCEPT !["daemon"] = Tail(s)]
      /\ Head(s) \in Op /\ Tail(s) \in Seq(Op)
      /\ \A o \in Op : Continue("daemon", <<o>>) => ops' = [ops EXCEPT !["daemon"] = Then(o, Tail(s))]
      /\ \A o, p \in Op : Continue("daemon", <<o, p>>)
                            => ops' = [ops EXCEPT !["daemon"] = Then(o, Then(p, Tail(s)))]
  BY <1>1, Continuing
<1>3. Head(s).op # "untmp" => Tail(s) = <<>>
  BY <1>1, OpKinds DEF BackingUp, Linking, Left
<1>4. Head(s).op = "untmp" => Tail(s) = <<Do("prune")>>
  BY <1>1, OpKinds DEF BackingUp, Linking, Left
<1>5. \A o \in Op : Then(o, <<>>) \in Seq(Op) /\ Left(Then(o, <<>>), {o}, <<>>)
  BY Conses, Lists DEF Left
<1>6. Do("copy") \in Op /\ Do("untmp") \in Op /\ Do("prune") \in Op
      /\ \A i \in Nat : Snapshot(i) \in Op
  BY Ops DEF Named
<1>7. <<>> \in Seq(Op)
  OBVIOUS
<1>8. CASE BacksUp
  <2>1. At("daemon", "backup") /\ UNCHANGED <<logVars, roleVars, taskVars, statusVars>>
    BY <1>8 DEF BacksUp
  <2>2. CASE create_tmp(now) /\ Continue("daemon", <<Do("copy")>>)
    <3>1. ops' = [ops EXCEPT !["daemon"] = Then(Do("copy"), <<>>)]
      BY <1>2, <1>3, <1>6, <2>1, <2>2 DEF At
    <3>2. BackupTypes'
      BY <1>1, <2>2, BackupsAssumption, CreateTypes
    <3>3. BackingUp(Then(Do("copy"), <<>>)) /\ Then(Do("copy"), <<>>) \in Seq(Op)
      BY <1>5, <1>6 DEF BackingUp, Left
    <3> QED BY <2>1, <3>1, <3>2, <3>3, BacksUpTo DEF statusVars
  <2>3. CASE UNCHANGED backupVars /\ Continue("daemon", <<>>)
    BY <1>1, <1>2, <1>3, <1>7, <2>1, <2>3, BacksUpTo, BackupTypesKept DEF At, statusVars
  <2> QED BY <1>8, <2>2, <2>3 DEF BacksUp
<1>9. CASE Copies
  <2>1. At("daemon", "copy") /\ UNCHANGED <<logVars, roleVars, taskVars, outcome, interrupted>>
    BY <1>9 DEF Copies
  <2>2. CASE copy /\ UNCHANGED faults /\ Continue("daemon", <<Snapshot(1)>>)
    <3>1. Snapshot(1) \in Op
      BY <1>6
    <3>2. ops' = [ops EXCEPT !["daemon"] = Then(Snapshot(1), <<>>)]
      BY <1>2, <1>3, <3>1, <2>1, <2>2 DEF At
    <3>3. BackupTypes'
      BY <1>1, <2>2, CreateTypes
    <3>4. 1 \in 1 .. Len(KindOrder)
      BY BackupsAssumption
    <3>5. BackingUp(Then(Snapshot(1), <<>>)) /\ Then(Snapshot(1), <<>>) \in Seq(Op)
      BY <1>5, <3>1, <3>4 DEF BackingUp, Linking
    <3> QED BY <2>1, <2>2, <3>2, <3>3, <3>5, BacksUpTo
  <2>3. CASE /\ Fault /\ listed' = NoLists /\ Continue("daemon", <<>>)
             /\ UNCHANGED <<saved, snapshots, tmp, shared>>
    <3>1. BackupTypes'
      BY <1>1, <2>3 DEF BackupTypes, NoLists, Names
    <3> QED BY <1>2, <1>3, <1>7, <2>1, <2>3, <3>1, BacksUpTo DEF At
  <2> QED BY <1>9, <2>2, <2>3 DEF Copies
<1>10. CASE Links
  BY <1>10, LinksMove DEF BackingUp
<1>11. CASE Removes
  <2>1. /\ At("daemon", "untmp") /\ UNCHANGED <<logVars, roleVars, taskVars, outcome, interrupted>>
        /\ (remove_tmp /\ UNCHANGED faults) \/ (Fault /\ UNCHANGED backupVars)
        /\ Continue("daemon", <<>>)
    BY <1>11 DEF Removes
  <2>2. BackupTypes' /\ (Fault \/ UNCHANGED faults)
    BY <1>1, <2>1, CreateTypes, BackupTypesKept
  <2>3. BackingUp(Tail(s))
    <3>1. <<Do("prune")>> = Then(Do("prune"), <<>>)
      BY <1>6, Lists
    <3>2. Left(Tail(s), {Do("prune")}, <<>>)
      BY <1>4, <1>5, <1>6, <2>1, <3>1 DEF At
    <3> QED BY <3>2, OneOf DEF BackingUp
  <2> QED BY <1>2, <2>1, <2>2, <2>3, BacksUpTo
<1>12. CASE Prunes
  <2>1. At("daemon", "prune") /\ UNCHANGED <<logVars, roleVars, taskVars, statusVars>>
    BY <1>12 DEF Prunes
  <2>2. CASE \E k \in Kind : \E n \in drained(k) \cap Names(k) :
               remove_snapshots(k, {n}) /\ UNCHANGED ops
    <3>1. PICK k \in Kind : \E n \in drained(k) \cap Names(k) : remove_snapshots(k, {n}) /\ UNCHANGED ops
      BY <2>2
    <3>2. PICK n \in drained(k) \cap Names(k) : remove_snapshots(k, {n}) /\ UNCHANGED ops
      BY <3>1
    <3>3. n \in Nat
      BY <1>1, NamesAreNat
    <3>4. BackupTypes'
      BY <1>1, <3>2, <3>3, LinkTypes
    <3>5. ops' = [ops EXCEPT !["daemon"] = s] /\ s \in Seq(Op)
      BY <1>1, <3>2
    <3> QED BY <1>1, <2>1, <3>4, <3>5, BacksUpTo DEF statusVars
  <2>3. CASE /\ Continue("daemon", <<>>) /\ listed' = NoLists
             /\ UNCHANGED <<saved, snapshots, tmp, shared>>
    <3>1. BackupTypes'
      BY <1>1, <2>3 DEF BackupTypes, NoLists, Names
    <3> QED BY <1>2, <1>3, <1>7, <2>1, <2>3, <3>1, BacksUpTo DEF At, statusVars
  <2> QED BY <1>12, <2>2, <2>3 DEF Prunes
<1> QED BY <1>8, <1>9, <1>10, <1>11, <1>12 DEF BackupAction

LEMMA CrashTypes ==
  ASSUME TypeInv, Crash
  PROVE  TypeInv'
<1>1. /\ UNCHANGED <<logVars, roleVars, saved, snapshots, tmp, shared, last_id, outcome>> /\ Fault
      /\ ops' = [w \in Writer |-> <<>>] /\ task' = {} /\ listed' = NoLists
  BY DEF Crash
<1>2. PICK t \in task : Interrupt(t) /\ crashed' = crashed \cup {t.id}
  BY DEF Crash
<1>3. t \in Task
  BY DEF TypeInv, DeployTypes
<1>4. interrupted' \subseteq Role
  <2>1. CASE ops["render"] = <<>>
    BY <1>2, <2>1 DEF Interrupt, NotReloaded, LeftToDo, TypeInv, DeployTypes
  <2>2. CASE ops["render"] # <<>>
    BY <1>2, <1>3, <2>2, RenderPlace, Interrupts
  <2> QED BY <2>1, <2>2
<1>5. ops' \in [Writer -> Seq(Op)] /\ \A w \in Writer : ops'[w] = <<>>
  BY <1>1
<1>6. crashed' \subseteq Id
  BY <1>2, <1>3 DEF TypeInv, DeployTypes, Task
<1>7. faults' \in 0 .. MaxFaults
  BY <1>1, Faults DEF TypeInv, DeployTypes
<1>8. DeployTypes'
  BY <1>1, <1>4, <1>5, <1>6, <1>7 DEF TypeInv, DeployTypes
<1>9. BackupTypes'
  BY <1>1 DEF TypeInv, BackupTypes, NoLists, Names
<1>10. Control'
  BY <1>1 DEF Control
<1> QED BY <1>1, <1>8, <1>9, <1>10, LogTypesKept, RoleTypesKept DEF TypeInv

LEMMA TickTypes ==
  ASSUME TypeInv, Tick
  PROVE  TypeInv'
<1>1. UNCHANGED <<latest, leftovers, index, logs, files, roleVars, backupVars, deployVars>>
      /\ now' \in Segment
  BY LogAssumption DEF Tick, TypeInv, LogTypes, Segment
<1>2. LogTypes'
  BY <1>1 DEF TypeInv, LogTypes, IsLinked
<1>3. DeployTypes' /\ Control'
  BY <1>1 DEF TypeInv, DeployTypes, Control, ControlOf, deployVars
<1> QED BY <1>1, <1>2, <1>3, RoleTypesKept, BackupTypesKept DEF TypeInv

LEMMA StutterTypes ==
  ASSUME TypeInv, UNCHANGED vars
  PROVE  TypeInv'
<1>1. UNCHANGED <<logVars, roleVars, backupVars, deployVars>>
  BY DEF vars
<1>2. DeployTypes' /\ Control'
  BY <1>1 DEF TypeInv, DeployTypes, Control, ControlOf, deployVars
<1> QED BY <1>1, <1>2, LogTypesKept, RoleTypesKept, BackupTypesKept DEF TypeInv

LEMMA InitTypes == Init => TypeInv
<1> SUFFICES ASSUME Init PROVE TypeInv
  OBVIOUS
<1>1. now \in Segment /\ MaxTime \in Nat
  BY LogAssumption DEF Init, LogInit
<1>2. LogTypes
  <2>1. latest \in [Dir -> SUBSET Segment] /\ \A d \in Dir : latest[d] = {} \/ \E s \in Segment : IsLinked(d, s)
    <3>1. CASE now = 0
      BY <3>1 DEF Init, LogInit
    <3>2. CASE now # 0
      <4>1. now - 1 \in Segment
        BY <1>1, <3>2 DEF Segment
      <4> QED BY <3>2, <4>1 DEF Init, LogInit, IsLinked
    <3> QED BY <3>1, <3>2
  <2>2. 0 \in Segment
    BY <1>1 DEF Segment
  <2> QED BY <1>1, <2>1, <2>2 DEF Init, LogInit, LogTypes
<1>3. RoleTypes
  <2>1. Empty \in Dirs
    BY DEF Empty, Dirs, Content
  <2> QED BY <2>1 DEF Init, RoleTypes
<1>4. BackupTypes
  <2>1. (CHOOSE h \in Hash : TRUE) \in Hash
    BY SectionsAssumption
  <2>2. saved = {} \/ \E h \in Hash : saved = {h}
    BY <2>1 DEF Init
  <2>3. \A k \in Kind : saved # {} => PeriodAt(k, now - 1) \in Nat
    <3>1. saved # {} => now - 1 \in Nat
      BY <1>1 DEF Init, Segment
    <3> QED BY <3>1, PeriodsAreNat
  <2>4. snapshots \in [Kind -> SUBSET [name : Nat, holds : Hash \cup {0}]]
    BY <2>2, <2>3 DEF Init
  <2> QED BY <2>2, <2>4 DEF Init, BackupTypes, NoLists
<1>5. DeployTypes
  BY DeploymentAssumption DEF Init, DeployTypes
<1>6. Control
  BY DEF Init, Control
<1> QED BY <1>2, <1>3, <1>4, <1>5, <1>6 DEF TypeInv

LEMMA StepTypes == TypeInv /\ [Next]_vars => TypeInv'
<1> SUFFICES ASSUME TypeInv, [Next]_vars PROVE TypeInv'
  OBVIOUS
<1>1. CASE \E h \in Hash : StartTask(h)
  BY <1>1, StartTaskTypes
<1>2. CASE ApplyNext
  <2>1. PICK t \in task : \/ EndTask(t) \/ NextRole(t) \/ Abort(t) \/ StartRender(t)
                          \/ \E w \in Writer : LogAction(w, t)
                          \/ RendersTemplates \/ Pitches(t) \/ Splits(t) \/ Flushes(t) \/ Cleans(t)
                          \/ Saves(t) \/ BackupAction
                          \/ Conditions(t) \/ CommandFails(t) \/ Exits(t) \/ RenderDies(t)
    BY <1>2 DEF ApplyNext, LogAction, BackupAction
  <2>2. CASE EndTask(t) \/ NextRole(t) \/ Abort(t) \/ StartRender(t)
    BY <2>2, EndTaskTypes, NextRoleTypes, AbortTypes, StartRenderTypes
  <2>3. CASE \E w \in Writer : LogAction(w, t)
    BY <2>3, LogActionTypes
  <2>4. CASE RendersTemplates \/ Pitches(t) \/ Flushes(t) \/ Cleans(t) \/ Conditions(t) \/ Exits(t)
    BY <2>4, RendererTypes
  <2>5. CASE Splits(t)
    BY <2>5, SplitTypes
  <2>6. CASE CommandFails(t) \/ RenderDies(t)
    BY <2>6, CommandFailsTypes, RenderDiesTypes
  <2>7. CASE Saves(t) \/ BackupAction
    BY <2>7, SavesTypes, BackupTypesStep
  <2> QED BY <2>1, <2>2, <2>3, <2>4, <2>5, <2>6, <2>7
<1>3. CASE Crash
  BY <1>3, CrashTypes
<1>4. CASE Tick
  BY <1>4, TickTypes
<1>5. CASE UNCHANGED vars
  BY <1>5, StutterTypes
<1> QED BY <1>1, <1>2, <1>3, <1>4, <1>5 DEF Next

LEMMA TypesHold == Spec => []TypeInv
BY InitTypes, StepTypes, PTL DEF Spec

\* The logs, the directories, the backups and what the programs remember have
\* their types whatever is deployed, and however often something fails or dies
\* (apply_schedule in apply.rs, main in render/main.rs).
THEOREM DeploymentTypes == Spec => []TypeOK
<1>1. TypeInv => TypeOK
  <2> SUFFICES ASSUME TypeInv PROVE TypeOK
    OBVIOUS
  <2>1. LogTypeOK
    BY DEF TypeInv, LogTypes, LogTypeOK
  <2>2. dir \in [Role -> Dirs] /\ loaded \in [Role -> Dirs] /\ pitched \in Dirs
    BY DEF TypeInv, RoleTypes
  <2>3. /\ saved \in {{}} \cup {{h} : h \in Hash}
        /\ tmp \in {{}, {0}} \cup {{h} : h \in Hash}
    BY DEF TypeInv, BackupTypes
  <2>4. /\ \A k \in Kind : \A x \in snapshots[k] : x.name \in Nat /\ x.holds \in Hash \cup {0}
        /\ \A k \in Kind : listed[k] \subseteq Nat
    BY DEF TypeInv, BackupTypes
  <2>5. \A l \in shared : l.kind \in Kind /\ l.name \in Names(l.kind)
    BY DEF TypeInv, BackupTypes
  <2>6. /\ last_id \in Id \cup {0}
        /\ task = {} => \A w \in Writer : ops[w] = <<>>
        /\ \A t \in task : t.id \in Id /\ t.hash \in Hash /\ t.at \in 0 .. Len(RoleOrder) + 1
        /\ outcome \in [Role -> {{}} \cup {{h} : h \in Hash}]
        /\ interrupted \subseteq Role /\ crashed \subseteq Id
        /\ faults \in 0 .. MaxFaults
    BY DEF TypeInv, DeployTypes, Task
  <2> QED BY <2>1, <2>2, <2>3, <2>4, <2>5, <2>6 DEF TypeOK
<1> QED BY <1>1, TypesHold, PTL

-----------------------------------------------------------------------------
(* The backups, once more: what is kept.                                   *)

LEMMA ShareTypes ==
  ASSUME TypeInv
  PROVE  /\ Linking(ops["daemon"]) => /\ task # {} /\ ops["daemon"] # <<>>
                                      /\ Head(ops["daemon"]).op \in {"snapshot", "untmp"}
                                      /\ ops["render"] = <<>>
         /\ faults \in Nat /\ (Fault => faults' # 0)
<1>1. ASSUME Linking(ops["daemon"])
      PROVE  /\ task # {} /\ ops["daemon"] # <<>>
             /\ Head(ops["daemon"]).op \in {"snapshot", "untmp"} /\ ops["render"] = <<>>
  <2>1. ops["daemon"] # <<>> /\ Head(ops["daemon"]).op \in {"snapshot", "untmp"}
    BY <1>1, OpKinds DEF Linking, Left
  <2>2. task # {}
    BY <2>1 DEF TypeInv, DeployTypes, Writer
  <2>3. ops["render"] = <<>>
    <3>1. PICK t \in task : TRUE
      BY <2>2
    <3>2. ops["render"] # <<>> => Left(ops["daemon"], {Mark(Current(t), "RoleFinish")}, ToRoles)
      BY <3>1, RenderPlace
    <3>3. Mark(Current(t), "RoleFinish").op = "mark"
      BY OneOf, OpKinds DEF Mark
    <3> QED BY <2>1, <3>2, <3>3 DEF Left
  <2> QED BY <2>1, <2>2, <2>3
<1>2. faults \in Nat /\ (Fault => faults' # 0)
  BY DeploymentAssumption DEF TypeInv, DeployTypes, Fault
<1> QED BY <1>1, <1>2

LEMMA BackupsKept == TypeInv /\ BackupInv /\ [Next]_vars => BackupInv'
<1> SUFFICES ASSUME TypeInv, BackupInv, [Next]_vars, faults' = 0, shared' # {}
             PROVE  Linking(ops'["daemon"])
  BY DEF BackupInv
<1>1. faults \in Nat /\ ~Fault
  BY ShareTypes
<1>2. shared # {} /\ faults = 0
        => /\ task # {} /\ Linking(ops["daemon"]) /\ ops["daemon"] # <<>>
           /\ Head(ops["daemon"]).op \in {"snapshot", "untmp"} /\ ops["render"] = <<>>
  BY ShareTypes DEF BackupInv
<1>3. CASE \E t \in task : Links
  BY <1>3, LinksMove
<1>4. CASE UNCHANGED <<faults, shared, ops>>
  BY <1>2, <1>4
<1>5. CASE \E h \in Hash : StartTask(h)
  BY <1>2, <1>5 DEF StartTask, backupVars
<1>6. CASE ApplyNext /\ ~Links
  <2>1. PICK t \in task : \/ EndTask(t) \/ NextRole(t) \/ Abort(t) \/ StartRender(t)
                          \/ \E w \in Writer : LogAction(w, t)
                          \/ RendersTemplates \/ Pitches(t) \/ Splits(t) \/ Flushes(t) \/ Cleans(t)
                          \/ Saves(t) \/ BacksUp \/ Copies \/ Removes \/ Prunes
                          \/ Conditions(t) \/ CommandFails(t) \/ Exits(t) \/ RenderDies(t)
    BY <1>6 DEF ApplyNext, LogAction
  <2>2. CASE EndTask(t) \/ NextRole(t)
    BY <1>2, <2>2 DEF EndTask, NextRole, At, backupVars
  <2>3. CASE Abort(t)
    BY <1>1, <2>3 DEF Abort
  <2>4. CASE StartRender(t)
    <3>1. At("daemon", "spawn") /\ UNCHANGED shared /\ (Fault \/ UNCHANGED faults)
      BY <2>4 DEF StartRender, backupVars
    <3> QED BY <1>1, <1>2, <3>1 DEF At
  <2>5. CASE \E w \in Writer : LogAction(w, t)
    <3>1. PICK w \in Writer : LogAction(w, t)
      BY <2>5
    <3>2. UNCHANGED <<shared, faults>>
      BY <3>1, LogSteps DEF TypeInv, backupVars, statusVars
    <3>3. At(w, "index") \/ At(w, "latest") \/ At(w, "check") \/ At(w, "link") \/ At(w, "rename")
          \/ At(w, "mark") \/ At(w, "row")
      BY <3>1 DEF LogAction, OpensIndex, ChecksLog, OpensSegment, Renames, WritesEntry, WritesRow
    <3> QED BY <1>2, <3>2, <3>3 DEF At, Writer
  <2>6. CASE RendersTemplates \/ Pitches(t) \/ Splits(t) \/ Flushes(t) \/ Cleans(t)
             \/ Conditions(t) \/ Exits(t)
    <3>1. ops["render"] # <<>> /\ UNCHANGED <<shared, faults>>
      BY <2>6 DEF RendersTemplates, Pitches, Splits, Flushes, Cleans, Conditions, Exits, At,
                  backupVars, statusVars
    <3> QED BY <1>2, <3>1
  <2>7. CASE CommandFails(t) \/ RenderDies(t)
    <3>1. ops["render"] # <<>> /\ UNCHANGED shared /\ (Fault \/ UNCHANGED faults)
      BY <2>7 DEF CommandFails, RenderDies, At, backupVars
    <3> QED BY <1>1, <1>2, <3>1
  <2>8. CASE Saves(t)
    BY <1>1, <1>2, <2>8 DEF Saves, At
  <2>9. CASE BacksUp \/ Copies
    BY <1>1, <1>2, <2>9 DEF BacksUp, Copies, At, create_tmp, copy, statusVars, backupVars
  <2>10. CASE Removes
    BY <1>1, <2>10 DEF Removes, remove_tmp
  <2>11. CASE Prunes
    <3>1. At("daemon", "prune") /\ UNCHANGED faults /\ shared' \subseteq shared
      BY <2>11 DEF Prunes, remove_snapshots, statusVars
    <3> QED BY <1>2, <3>1 DEF At
  <2> QED BY <2>1, <2>2, <2>3, <2>4, <2>5, <2>6, <2>7, <2>8, <2>9, <2>10, <2>11
<1>7. CASE Crash
  BY <1>1, <1>7 DEF Crash
<1>8. Tick \/ UNCHANGED vars => UNCHANGED <<faults, shared, ops>>
  BY DEF Tick, vars, deployVars, backupVars
<1>9. ApplyNext /\ Links => \E t \in task : Links
  BY DEF ApplyNext
<1> QED BY <1>3, <1>4, <1>5, <1>6, <1>7, <1>8, <1>9 DEF Next

\* What is written to backup.tmp shows only in the snapshots that are links to it.
LEMMA HeldKept ==
  ASSUME NEW h, NEW k \in Kind, NEW s \in snapshots[k], [kind |-> k, name |-> s.name] \notin shared
  PROVE  s \in SharedHold(h)[k]
BY DEF SharedHold

\* A step of maintain_backups keeps the snapshots.
LEMMA SnapshotsStay ==
  ASSUME TypeInv, BackupInv, NEW t \in task, BackupAction
  PROVE  KeepsSnapshots(faults > 0)
<1> SUFFICES ASSUME NEW k \in Kind, NEW s \in snapshots[k]
             PROVE  \/ s \in snapshots'[k]
                    \/ /\ s.name \notin {x.name : x \in snapshots'[k]}
                       /\ Cardinality({n \in listed[k] : n > s.name}) >= MaxSnapshots[k]
                    \/ faults > 0 /\ [kind |-> k, name |-> s.name] \in shared
  BY DEF KeepsSnapshots
<1>1. BackupTypes /\ faults \in Nat
  BY ShareTypes DEF TypeInv
<1>2. faults > 0 \/ shared = {} \/ Head(ops["daemon"]).op \in {"snapshot", "untmp"}
  BY <1>1, ShareTypes DEF BackupInv
<1>3. ASSUME NEW h, snapshots' = SharedHold(h), At("daemon", "backup") \/ At("daemon", "copy")
      PROVE  s \in snapshots'[k] \/ (faults > 0 /\ [kind |-> k, name |-> s.name] \in shared)
  <2>1. Head(ops["daemon"]).op \notin {"snapshot", "untmp"}
    BY <1>3 DEF At
  <2> QED BY <1>2, <1>3, <2>1, HeldKept
<1>4. CASE BacksUp
  <2>1. UNCHANGED snapshots \/ (snapshots' = SharedHold(0) /\ At("daemon", "backup"))
    BY <1>4 DEF BacksUp, create_tmp, backupVars
  <2> QED BY <1>3, <2>1
<1>5. CASE Copies
  <2>1. UNCHANGED snapshots \/ \E h \in saved : snapshots' = SharedHold(h) /\ At("daemon", "copy")
    BY <1>5 DEF Copies, copy
  <2> QED BY <1>3, <2>1
<1>6. CASE Links
  <2>1. UNCHANGED snapshots \/ \E q, n : hard_link(q, n)
    BY <1>6 DEF Links, backupVars
  <2> QED BY <1>1, <2>1 DEF hard_link, BackupTypes
<1>7. CASE Removes
  BY <1>7 DEF Removes, remove_tmp, backupVars
<1>8. CASE Prunes
  <2>1. CASE UNCHANGED snapshots
    BY <2>1
  <2>2. CASE \E q \in Kind : \E n \in drained(q) \cap Names(q) : remove_snapshots(q, {n})
    <3>1. PICK q \in Kind : \E n \in drained(q) \cap Names(q) : remove_snapshots(q, {n})
      BY <2>2
    <3>2. PICK n \in drained(q) \cap Names(q) : remove_snapshots(q, {n})
      BY <3>1
    <3>3. snapshots' = [snapshots EXCEPT ![q] = {x \in snapshots[q] : x.name \notin {n}}]
      BY <3>2 DEF remove_snapshots
    <3>4. CASE q = k /\ s.name = n
      <4>1. s.name \notin {x.name : x \in snapshots'[k]}
        BY <1>1, <3>3, <3>4 DEF BackupTypes
      <4>2. Cardinality({m \in listed[k] : m > n}) >= MaxSnapshots[k]
        BY <3>2, <3>4 DEF drained
      <4> QED BY <3>4, <4>1, <4>2
    <3>5. CASE ~(q = k /\ s.name = n)
      BY <1>1, <3>3, <3>5 DEF BackupTypes
    <3> QED BY <3>4, <3>5
  <2> QED BY <1>8, <2>1, <2>2 DEF Prunes
<1> QED BY <1>4, <1>5, <1>6, <1>7, <1>8 DEF BackupAction

LEMMA BackupsHold == Spec => []BackupInv
<1>1. Init => BackupInv
  BY DEF Init, BackupInv
<1> QED BY <1>1, BackupsKept, TypesHold, PTL DEF Spec

LEMMA SnapshotsKept == TypeInv /\ BackupInv /\ [Next]_vars => [KeepsSnapshots(faults > 0)]_vars
<1> SUFFICES ASSUME TypeInv, BackupInv, Next
             PROVE  KeepsSnapshots(faults > 0)
  OBVIOUS
<1>1. UNCHANGED snapshots => KeepsSnapshots(faults > 0)
  BY DEF KeepsSnapshots
<1>2. CASE \E h \in Hash : StartTask(h)
  BY <1>1, <1>2 DEF StartTask, backupVars
<1>3. CASE ApplyNext
  <2>1. PICK t \in task : \/ EndTask(t) \/ NextRole(t) \/ Abort(t) \/ StartRender(t)
                          \/ \E w \in Writer : LogAction(w, t)
                          \/ RendersTemplates \/ Pitches(t) \/ Splits(t) \/ Flushes(t) \/ Cleans(t)
                          \/ Saves(t) \/ BackupAction
                          \/ Conditions(t) \/ CommandFails(t) \/ Exits(t) \/ RenderDies(t)
    BY <1>3 DEF ApplyNext, LogAction, BackupAction
  <2>2. CASE EndTask(t) \/ NextRole(t) \/ Abort(t) \/ StartRender(t)
    BY <1>1, <2>2 DEF EndTask, NextRole, Abort, StartRender, backupVars
  <2>3. CASE \E w \in Writer : LogAction(w, t)
    BY <1>1, <2>3, LogSteps DEF TypeInv, backupVars
  <2>4. CASE RendersTemplates \/ Pitches(t) \/ Splits(t) \/ Flushes(t) \/ Cleans(t)
             \/ Conditions(t) \/ CommandFails(t) \/ Exits(t) \/ RenderDies(t)
    BY <1>1, <2>4 DEF RendersTemplates, Pitches, Splits, Flushes, Cleans, Conditions,
                      CommandFails, Exits, RenderDies, backupVars
  <2>5. CASE Saves(t)
    BY <1>1, <2>5 DEF Saves
  <2>6. CASE BackupAction
    BY <2>6, SnapshotsStay
  <2> QED BY <2>1, <2>2, <2>3, <2>4, <2>5, <2>6
<1>4. CASE Crash \/ Tick
  BY <1>1, <1>4 DEF Crash, Tick, backupVars
<1> QED BY <1>2, <1>3, <1>4 DEF Next

\* A snapshot is only removed as one of the oldest, and only changed as a link
\* to a backup.tmp that a fault has left (maintain_backups in apply.rs).
THEOREM DeploymentKeepsSnapshots == Spec => SnapshotsAreKept
BY TypesHold, BackupsHold, SnapshotsKept, PTL DEF Spec, SnapshotsAreKept

-----------------------------------------------------------------------------
(* The directories of the roles.                                           *)

SectionList == Seq([name : Name, version : Nat])

LEMMA SectionNames ==
  ASSUME NEW secs \in SectionList, NEW i \in 1 .. Len(secs)
  PROVE  secs[i].name \in Name
<1>1. ASSUME NEW S, NEW s \in Seq(S), NEW j \in 1 .. Len(s) PROVE s[j] \in S
  OBVIOUS
<1>2. secs[i] \in [name : Name, version : Nat]
  BY <1>1 DEF SectionList
<1> QED BY <1>2

LEMMA NothingWritten ==
  ASSUME NEW f, NEW secs
  PROVE  Written(f, secs, 0, {})
BY DEF Written, NamesOf

\* A section is committed: it is the last one of its name.
LEMMA Committed ==
  ASSUME NEW f \in Dirs, NEW secs \in SectionList, NEW i \in 1 .. Len(secs), NEW c,
         Written(f, secs, i - 1, {})
  PROVE  Written([f EXCEPT ![secs[i].name] = c], secs, i, {secs[i].name})
<1> DEFINE g == [f EXCEPT ![secs[i].name] = c]
<1> SUFFICES ASSUME NEW name \in NamesOf(secs, i), name # secs[i].name
             PROVE  g[name] = {secs[j].version : j \in LastOf(secs, i, name)}
  BY DEF Written
<1>1. \A j \in 1 .. i : j # i => j \in 1 .. i - 1
  OBVIOUS
<1>2. \A j \in 1 .. i - 1 : j \in 1 .. i
  OBVIOUS
<1>3. name \in NamesOf(secs, i - 1)
  BY <1>1 DEF NamesOf
<1>4. LastOf(secs, i, name) = LastOf(secs, i - 1, name)
  BY <1>1, <1>2 DEF LastOf
<1>5. name \in Name
  <2>1. \A j \in 1 .. i : j \in 1 .. Len(secs)
    OBVIOUS
  <2> QED BY <2>1, SectionNames DEF NamesOf
<1>6. g[name] = f[name]
  BY <1>5 DEF Dirs
<1> QED BY <1>3, <1>4, <1>6 DEF Written

\* And its text reaches the file.
LEMMA FlushedText ==
  ASSUME NEW f \in Dirs, NEW secs \in SectionList, NEW i \in 1 .. Len(secs),
         Written(f, secs, i, {secs[i].name})
  PROVE  Written([f EXCEPT ![secs[i].name] = {secs[i].version}], secs, i, {})
<1> DEFINE g == [f EXCEPT ![secs[i].name] = {secs[i].version}]
<1> SUFFICES ASSUME NEW name \in NamesOf(secs, i)
             PROVE  g[name] = {secs[j].version : j \in LastOf(secs, i, name)}
  BY DEF Written
<1>1. name \in Name
  <2>1. \A j \in 1 .. i : j \in 1 .. Len(secs)
    OBVIOUS
  <2> QED BY <2>1, SectionNames DEF NamesOf
<1>2. CASE name # secs[i].name
  <2>1. g[name] = f[name]
    BY <1>1, <1>2 DEF Dirs
  <2> QED BY <1>2, <2>1 DEF Written
<1>3. CASE name = secs[i].name
  <2>1. g[name] = {secs[i].version}
    BY <1>1, <1>3 DEF Dirs
  <2>2. \A j \in 1 .. i : j <= i /\ (i <= j => j = i)
    OBVIOUS
  <2>3. LastOf(secs, i, name) = {i}
    BY <1>3, <2>2 DEF LastOf
  <2> QED BY <2>1, <2>3
<1> QED BY <1>2, <1>3

\* All sections are there and nothing else.
LEMMA AllWritten ==
  ASSUME NEW h \in Hash, NEW r \in DOMAIN Sections[h], NEW f \in Dirs,
         Written(f, Sections[h][r], Len(Sections[h][r]), {}),
         \A name \in Name \ NamesOf(Sections[h][r], Len(Sections[h][r])) : f[name] = {}
  PROVE  f = Wanted(h, r)
<1> DEFINE secs == Sections[h][r]
           n == Len(secs)
<1>1. secs \in SectionList /\ DOMAIN secs = 1 .. n
  <2>1. secs \in Seq([name : Name, version : Nat])
    BY SectionsAssumption
  <2> HIDE DEF secs
  <2> QED BY <2>1 DEF SectionList
<1>2. ASSUME NEW name \in Name
      PROVE  Wanted(h, r)[name] = {secs[j].version : j \in LastOf(secs, n, name)}
  BY <1>1, <1>2 DEF Wanted, LastOf
<1>3. ASSUME NEW name \in Name
      PROVE  f[name] = Wanted(h, r)[name]
  <2>1. CASE name \in NamesOf(secs, n)
    BY <1>2, <2>1 DEF Written
  <2>2. CASE name \notin NamesOf(secs, n)
    <3>1. LastOf(secs, n, name) = {}
      BY <2>2 DEF LastOf, NamesOf
    <3> QED BY <1>2, <2>2, <3>1
  <2> QED BY <2>1, <2>2
<1>4. Wanted(h, r) = [name \in Name |-> Wanted(h, r)[name]]
  BY DEF Wanted
<1> QED BY <1>3, <1>4 DEF Dirs

LEMMA Visited ==
  ASSUME NEW h \in Hash, NEW r \in DOMAIN Sections[h]
  PROVE  visited(h, r) = NamesOf(Sections[h][r], Len(Sections[h][r]))
<1>1. DOMAIN Sections[h][r] = 1 .. Len(Sections[h][r])
  BY SectionsAssumption
<1> QED BY <1>1 DEF visited, NamesOf

\* With nothing stale, the names that are not visited have no files.
LEMMA NothingStale ==
  ASSUME NEW h \in Hash, NEW r \in DOMAIN Sections[h], Stale(h, r) = {}
  PROVE  \A name \in Name \ NamesOf(Sections[h][r], Len(Sections[h][r])) : dir[r][name] = {}
BY Visited DEF Stale

\* The only role that may be pitched is that of the task.
LEMMA PitchedOne ==
  ASSUME TypeInv, NEW t \in task, NEW q
  PROVE  Pitched(q) <=> /\ ops["render"] # <<>> /\ q = Current(t)
                        /\ Changing(ops["render"], q, Len(Secs(t)))
<1>1. ASSUME ops["render"] # <<>> PROVE HasRole(t) /\ task = {t}
  BY <1>1, RenderPlace
<1> QED BY <1>1 DEF Pitched

\* While the renderer is somewhere, and where its directory is done.
LEMMA Apart ==
  ASSUME NEW r \in Role, NEW n \in Nat, NEW s \in Seq(Op), s # <<>>
  PROVE  /\ Changing(s, r, n) => Head(s).op \in {"split", "flush", "clean", "condition"}
         /\ Finishes(s, r) => Head(s).op \in {"mark", "row"} /\ Head(s).marker = "ActionFinish"
                              /\ Tail(s) = ToExit
         /\ Fails(s, r) => Head(s).op \in {"mark", "row"} /\ Head(s).marker = "ActionFinish"
                           /\ Tail(s) = ToFail
         /\ Starts(s, r) => Head(s).op \in {"mark", "row"} /\ Head(s).marker = "ActionStart"
         /\ Opens(s, r) => Head(s).op \in {"latest", "check", "link", "rename", "templates"}
         /\ Pitching(s, r) => Head(s).op = "pitch"
         /\ Exiting(s) => Head(s).op = "exit"
         /\ Failing(s) => Head(s).op = "fail"
         /\ ToExit # ToFail
<1>1. Changing(s, r, n) => Head(s).op \in {"split", "flush", "clean", "condition"}
  BY OpKinds DEF Changing, Splitting, Flushing, Cleaning, Ending, Deciding, Left
<1>2. ToExit # ToFail
  <2>1. Left(ToExit, {Do("exit")}, <<>>) /\ Left(ToFail, {Do("fail")}, <<>>)
    BY RenderRests
  <2>2. Head(ToExit) = Do("exit") /\ Head(ToFail) = Do("fail")
    BY <2>1 DEF Left
  <2> QED BY <2>2 DEF Do
<1> QED BY <1>1, <1>2, OpKinds DEF Finishes, Fails, Starts, Opens, Pitching, Exiting, Failing, Left

\* A step that does nothing to the directories, between places where nothing is
\* known of them.
LEMMA QuietKept ==
  ASSUME TypeInv, RoleInv, TypeInv', NEW t \in task, UNCHANGED <<roleVars, outcome, interrupted, task>>,
         ops["render"] # <<>>, ~Changing(ops["render"], Current(t), Len(Secs(t))),
         ops'["render"] # <<>> =>
           /\ ~Changing(ops'["render"], Current(t), Len(Secs(t)))
           /\ Finishes(ops'["render"], Current(t)) \/ Exiting(ops'["render"])
                => Finishes(ops["render"], Current(t)) \/ Exiting(ops["render"])
  PROVE  RoleInv'
<1> DEFINE r == Current(t)
           n == Len(Secs(t))
<1>1. task = {t} /\ task' = {t} /\ n \in Nat
  BY RenderPlace
<1>2. FilesAreRendered'
  BY DEF RoleInv, FilesAreRendered, roleVars
<1>3. ASSUME ops'["render"] # <<>> PROVE RenderedOf(t)'
  <2>1. RenderedOf(t) /\ ~Changing(ops'["render"], r, n)
    BY <1>3 DEF RoleInv
  <2>2. outcome'[r] = {}
    BY <2>1 DEF RenderedOf
  <2>3. /\ \A i \in 1 .. n \cup {1} : ~Left(ops'["render"], {Split(i)}, ToCondition(r))
        /\ \A i \in 1 .. n : ~(i < n /\ Left(ops'["render"], {FlushOf(i)}, ToSplit(i + 1, r)))
        /\ ~Cleaning(ops'["render"], r, n) /\ ~Ending(ops'["render"], r, n)
        /\ ~Deciding(ops'["render"], r)
    BY <2>1 DEF Changing, Splitting, Flushing
  <2>5. Finishes(ops'["render"], r) \/ Exiting(ops'["render"]) => dir'[r] = Wanted(t.hash, r)
    BY <1>3, <2>1 DEF RenderedOf, RenderedFrom, roleVars
  <2> QED BY <2>2, <2>3, <2>5 DEF RenderedOf, RenderedFrom
<1>4. ASSUME NEW q \in Role PROVE LoadedOf(q)'
  <2>1. LoadedOf(q)
    BY DEF RoleInv
  <2>2. ~Pitched(q)
    BY PitchedOne
  <2>3. ~Pitched(q)'
    BY <1>1 DEF Pitched
  <2> QED BY <2>1, <2>2, <2>3 DEF LoadedOf, roleVars
<1> QED BY <1>1, <1>2, <1>3, <1>4 DEF RoleInv

\* Without a renderer, before and after.
LEMMA IdleKept ==
  ASSUME RoleInv, ops["render"] = <<>>, ops'["render"] = <<>>,
         UNCHANGED <<roleVars, interrupted>>,
         \A r \in Role : outcome'[r] = outcome[r] \/ outcome'[r] = {}
  PROVE  RoleInv'
<1>1. FilesAreRendered'
  BY DEF RoleInv, FilesAreRendered, roleVars
<1>2. \A q : ~Pitched(q) /\ ~Pitched(q)'
  BY DEF Pitched
<1>3. ASSUME NEW q \in Role PROVE LoadedOf(q)'
  BY <1>2 DEF RoleInv, LoadedOf, roleVars
<1> QED BY <1>1, <1>3 DEF RoleInv

\* verwalter_render begins.
LEMMA StartKept ==
  ASSUME TypeInv, RoleInv, NEW t \in task, StartRender(t)
  PROVE  RoleInv'
<1> DEFINE r == Current(t)
           n == Len(Secs(t))
<1>1. At("daemon", "spawn") /\ outcome' = [outcome EXCEPT ![r] = {}]
      /\ UNCHANGED <<roleVars, interrupted, task>>
  BY DEF StartRender, taskVars
<1>2. ops["render"] = <<>> /\ r \in Role /\ t \in Task /\ n \in Nat /\ task = {t}
  BY <1>1, Spawns, Roles DEF TypeInv, DeployTypes
<1>3. ops'["render"] = <<>> \/ Left(ops'["render"], {Do("latest")}, ToLogs(r))
  BY StartRenderTypes
<1>4. \A q \in Role : outcome'[q] = outcome[q] \/ outcome'[q] = {}
  BY <1>1 DEF TypeInv, DeployTypes
<1>5. CASE ops'["render"] = <<>>
  BY <1>1, <1>2, <1>4, <1>5, IdleKept
<1>6. CASE Left(ops'["render"], {Do("latest")}, ToLogs(r))
  <2> DEFINE s == ops'["render"]
  <2>1. s # <<>> /\ Head(s).op = "latest"
    BY <1>6, OpKinds DEF Left
  <2>2. s \in Seq(Op)
    BY StartRenderTypes DEF TypeInv, DeployTypes, Writer
  <2>3. ~Changing(s, r, n) /\ ~Finishes(s, r) /\ ~Exiting(s)
    BY <1>2, <2>1, <2>2, Apart
  <2>4. FilesAreRendered'
    BY <1>1, <1>4 DEF RoleInv, FilesAreRendered, roleVars
  <2>5. outcome'[r] = {}
    BY <1>1, <1>2 DEF TypeInv, DeployTypes
  <2>6. RenderedOf(t)'
    BY <2>3, <2>5 DEF RenderedOf, RenderedFrom, Changing, Splitting, Flushing
  <2>7. \A q : ~Pitched(q) /\ ~Pitched(q)'
    BY <1>1, <1>2, <2>3 DEF Pitched
  <2>8. \A q \in Role : LoadedOf(q)'
    BY <1>1, <2>7 DEF RoleInv, LoadedOf, roleVars
  <2> QED BY <1>1, <1>2, <2>4, <2>6, <2>8 DEF RoleInv
<1> QED BY <1>3, <1>5, <1>6

\* The logs, and the templates.
LEMMA RenderLogsKept ==
  ASSUME TypeInv, RoleInv, NEW t \in task, LogAction("render", t) \/ RendersTemplates
  PROVE  RoleInv'
<1> DEFINE r == Current(t)
           n == Len(Secs(t))
           s == ops["render"]
           x == ops'["render"]
<1>1. TypeInv' /\ UNCHANGED <<roleVars, outcome, interrupted, task>>
  <2>1. TypeInv'
    BY LogActionTypes, RendererTypes DEF Writer
  <2>2. ASSUME LogAction("render", t) PROVE UNCHANGED <<roleVars, outcome, interrupted, task>>
    BY <2>2, LogSteps DEF TypeInv, taskVars, statusVars, Writer
  <2>3. ASSUME RendersTemplates PROVE UNCHANGED <<roleVars, outcome, interrupted, task>>
    BY <2>3 DEF RendersTemplates, taskVars, statusVars
  <2> QED BY <2>1, <2>2, <2>3
<1>2. s # <<>> /\ Head(s).op \in {"latest", "check", "link", "rename", "mark", "row", "templates"}
  <2>1. ASSUME LogAction("render", t)
        PROVE  \E kind \in {"index", "latest", "check", "link", "rename", "mark", "row"} : At("render", kind)
    BY <2>1 DEF LogAction, OpensIndex, ChecksLog, OpensSegment, Renames, WritesEntry, WritesRow
  <2>2. Head(s).op # "index" \/ s = <<>>
    <3>1. ASSUME s # <<>> PROVE Head(s).op # "index"
      <4>1. RenderAt(s, r, n) /\ r \in Role /\ n \in Nat /\ s \in Seq(Op)
        BY <3>1, RenderPlace DEF Writer
      <4> QED BY <3>1, <4>1, Apart DEF RenderAt
    <3> QED BY <3>1
  <2> QED BY <2>1, <2>2 DEF RendersTemplates, At
<1>3. RenderAt(s, r, n) /\ r \in Role /\ n \in Nat /\ s \in Seq(Op)
  BY <1>2, RenderPlace DEF Writer
<1>4. ~Changing(s, r, n) /\ ~Pitching(s, r) /\ ~Exiting(s) /\ ~Failing(s)
  BY <1>2, <1>3, Apart
<1>5. x \in Seq(Op)
  BY <1>1 DEF TypeInv, DeployTypes, Writer
<1>6. x = Tail(s) \/ Stays(s, x)
  <2>1. ASSUME LogAction("render", t) PROVE x = Tail(s) \/ Stays(s, x)
    BY <2>1, LogSteps DEF TypeInv, Writer, DeployTypes
  <2>2. ASSUME RendersTemplates PROVE x = Tail(s)
    BY <2>2, Popped DEF RendersTemplates, taskVars, TypeInv, Writer, DeployTypes
  <2> QED BY <2>1, <2>2
<1>7. CASE x = Tail(s)
  <2>1. x # <<>> /\ (Opens(s, r) => Opens(x, r) \/ Starts(x, r)) /\ (Starts(s, r) => Pitching(x, r))
        /\ (Finishes(s, r) => Exiting(x)) /\ (Fails(s, r) => Failing(x))
    <3>1. /\ Opens(s, r) => Opens(x, r) \/ Starts(x, r)
          /\ Starts(s, r) => Pitching(x, r)
          /\ Finishes(s, r) => Exiting(x)
          /\ Fails(s, r) => Failing(x)
      <4>1. /\ Starts(s, r) => Pitching(Tail(s), r)
            /\ Finishes(s, r) => Exiting(Tail(s))
            /\ Fails(s, r) => Failing(Tail(s))
        BY <1>2, <1>3, RenderPops
      <4>2. Opens(s, r) => Opens(Tail(s), r) \/ Starts(Tail(s), r)
        <5> HIDE DEF s
        <5> QED BY <1>2, <1>3, RenderPops, OneOf DEF Opens, Starts
      <4> QED BY <1>7, <4>1, <4>2
    <3>2. x # <<>>
      BY <1>3, <1>4, <3>1 DEF RenderAt, Opens, Starts, Pitching, Exiting, Failing, Left
    <3> QED BY <3>1, <3>2
  <2>2. ~Changing(x, r, n) /\ (Finishes(x, r) \/ Exiting(x) => Finishes(s, r))
    BY <1>3, <1>4, <1>5, <2>1, Apart DEF RenderAt
  <2> QED BY <1>1, <1>2, <1>4, <2>2, QuietKept
<1>8. CASE Stays(s, x)
  <2>1. /\ Opens(s, r) => Opens(x, r)
        /\ Starts(s, r) => Starts(x, r)
        /\ Finishes(s, r) => Finishes(x, r)
        /\ Fails(s, r) => Fails(x, r)
        /\ x # <<>>
    BY <1>2, <1>3, <1>8, RenderStays DEF Stays
  <2>2. ~Changing(x, r, n) /\ (Finishes(x, r) \/ Exiting(x) => Finishes(s, r))
    BY <1>3, <1>4, <1>5, <2>1, Apart DEF RenderAt
  <2> QED BY <1>1, <1>2, <1>4, <2>2, QuietKept
<1> QED BY <1>6, <1>7, <1>8

\* A command changes the directory of its role, and goes on with the next one.
LEMMA ChangeKept ==
  ASSUME TypeInv, RoleInv, NEW t \in task, ops["render"] # <<>>, ops'["render"] # <<>>,
         UNCHANGED <<loaded, pitched, outcome, interrupted, task>>,
         NEW f, dir' = [dir EXCEPT ![Current(t)] = f],
         Changing(ops["render"], Current(t), Len(Secs(t))),
         Changing(ops'["render"], Current(t), Len(Secs(t))),
         RenderedOf(t)'
  PROVE  RoleInv'
<1> DEFINE r == Current(t)
           n == Len(Secs(t))
<1>1. task = {t} /\ r \in Role /\ n \in Nat /\ HasRole(t)
  BY RenderPlace
<1>2. dir \in [Role -> Dirs]
  BY DEF TypeInv, RoleTypes
<1>3. outcome[r] = {}
  BY DEF RoleInv, RenderedOf
<1>4. FilesAreRendered'
  BY <1>1, <1>2, <1>3 DEF RoleInv, FilesAreRendered
<1>5. ASSUME NEW q \in Role PROVE LoadedOf(q)'
  <2>1. Pitched(q) <=> q = r
    BY PitchedOne
  <2>2. Pitched(q)' <=> q = r
    BY <1>1 DEF Pitched
  <2>3. q # r => dir'[q] = dir[q]
    BY <1>1, <1>2
  <2> QED BY <2>1, <2>2, <2>3 DEF RoleInv, LoadedOf
<1> QED BY <1>1, <1>4, <1>5 DEF RoleInv

\* The renderer is at one place at a time.
LEMMA RenderedAt ==
  ASSUME NEW t \in Task, HasRole(t), NEW s \in Seq(Op), s # <<>>, NEW f
  PROVE  /\ \A i \in Nat : Left(s, {Split(i)}, ToCondition(Current(t))) /\ Written(f, Secs(t), i - 1, {})
              => RenderedFrom(t, s, f)
         /\ \A i \in 1 .. Len(Secs(t)) :
              /\ i < Len(Secs(t)) /\ Left(s, {FlushOf(i)}, ToSplit(i + 1, Current(t)))
              /\ Written(f, Secs(t), i, {Secs(t)[i].name})
              => RenderedFrom(t, s, f)
         /\ /\ Cleaning(s, Current(t), Len(Secs(t)))
            /\ Len(Secs(t)) > 0 => Written(f, Secs(t), Len(Secs(t)), {Secs(t)[Len(Secs(t))].name})
            => RenderedFrom(t, s, f)
         /\ /\ Ending(s, Current(t), Len(Secs(t)))
            /\ Written(f, Secs(t), Len(Secs(t)), {Secs(t)[Len(Secs(t))].name})
            /\ \A name \in Name \ NamesOf(Secs(t), Len(Secs(t))) : f[name] = {}
            => RenderedFrom(t, s, f)
         /\ /\ Deciding(s, Current(t)) \/ Finishes(s, Current(t))
            /\ f = Wanted(t.hash, Current(t))
            => RenderedFrom(t, s, f)
         /\ Pitching(s, Current(t)) \/ Fails(s, Current(t)) => RenderedFrom(t, s, f)
<1> DEFINE r == Current(t)
           secs == Secs(t)
           n == Len(secs)
<1>1. r \in Role /\ n \in Nat
  BY Roles
<1> HIDE DEF r, n, secs
<1>2. /\ \A i : Left(s, {Split(i)}, ToCondition(r)) => Head(s).op = "split" /\ Head(s).section = i
      /\ \A i, rest : Left(s, {FlushOf(i)}, rest) => Head(s).op = "flush" /\ Head(s).section = i
      /\ Ending(s, r, n) => Head(s).op = "flush" /\ Head(s).section = n
      /\ Cleaning(s, r, n) => Head(s).op = "clean"
      /\ Deciding(s, r) => Head(s).op = "condition"
  BY OpKinds DEF Ending, Cleaning, Deciding, Left
<1>3. Finishes(s, r) \/ Fails(s, r) => Head(s).op \in {"mark", "row"}
  BY <1>1, Apart
<1>4. (Exiting(s) => Head(s).op = "exit") /\ (Pitching(s, r) => Head(s).op = "pitch")
  BY <1>1, Apart
<1>5. ~(Finishes(s, r) /\ Fails(s, r))
  BY <1>1, Apart
<1>6. RenderedFrom(t, s, f) <=>
        /\ \A i \in 1 .. n \cup {1} :
             Left(s, {Split(i)}, ToCondition(r)) => Written(f, secs, i - 1, {})
        /\ \A i \in 1 .. n :
             i < n /\ Left(s, {FlushOf(i)}, ToSplit(i + 1, r))
               => Written(f, secs, i, {secs[i].name})
        /\ Cleaning(s, r, n) /\ n > 0 => Written(f, secs, n, {secs[n].name})
        /\ Ending(s, r, n) => /\ Written(f, secs, n, {secs[n].name})
                              /\ \A name \in Name \ NamesOf(secs, n) : f[name] = {}
        /\ Deciding(s, r) \/ Finishes(s, r) \/ Exiting(s) => f = Wanted(t.hash, r)
  BY DEF RenderedFrom, r, n, secs
<1>7. ASSUME NEW i \in Nat, Left(s, {Split(i)}, ToCondition(r)), Written(f, secs, i - 1, {})
      PROVE  RenderedFrom(t, s, f)
  <2>1. Head(s).op = "split" /\ \A j : Left(s, {Split(j)}, ToCondition(r)) => j = i
    BY <1>2, <1>7
  <2>2. \A j \in 1 .. n \cup {1} :
          Left(s, {Split(j)}, ToCondition(r)) => Written(f, secs, j - 1, {})
    BY <1>7, <2>1
  <2>3. /\ \A j : ~Left(s, {FlushOf(j)}, ToSplit(j + 1, r))
        /\ ~Cleaning(s, r, n) /\ ~Ending(s, r, n) /\ ~Deciding(s, r) /\ ~Finishes(s, r) /\ ~Exiting(s)
    BY <1>2, <1>3, <1>4, <2>1
  <2> QED BY <1>6, <2>2, <2>3
<1>8. ASSUME NEW i \in 1 .. n, i < n, Left(s, {FlushOf(i)}, ToSplit(i + 1, r)),
             Written(f, secs, i, {secs[i].name})
      PROVE  RenderedFrom(t, s, f)
  <2>1. i # n
    BY <1>1, <1>8
  <2>2. Head(s).op = "flush" /\ Head(s).section = i
        /\ \A j : Left(s, {FlushOf(j)}, ToSplit(j + 1, r)) => j = i
    BY <1>2, <1>8
  <2>3. \A j \in 1 .. n : j < n /\ Left(s, {FlushOf(j)}, ToSplit(j + 1, r))
                           => Written(f, secs, j, {secs[j].name})
    BY <1>8, <2>2
  <2>4. /\ \A j : ~Left(s, {Split(j)}, ToCondition(r))
        /\ ~Cleaning(s, r, n) /\ ~Ending(s, r, n) /\ ~Deciding(s, r) /\ ~Finishes(s, r) /\ ~Exiting(s)
    BY <1>2, <1>3, <1>4, <2>1, <2>2
  <2> QED BY <1>6, <2>3, <2>4
<1>9. ASSUME Cleaning(s, r, n), n > 0 => Written(f, secs, n, {secs[n].name})
      PROVE  RenderedFrom(t, s, f)
  BY <1>2, <1>3, <1>4, <1>6, <1>9
<1>10. ASSUME Ending(s, r, n), Written(f, secs, n, {secs[n].name}),
              \A name \in Name \ NamesOf(secs, n) : f[name] = {}
       PROVE  RenderedFrom(t, s, f)
  <2>1. Head(s).section = n /\ Head(s).op = "flush"
    BY <1>2, <1>10
  <2>2. \A i \in 1 .. n : i < n => i # n
    BY <1>1
  <2> QED BY <1>2, <1>3, <1>4, <1>6, <1>10, <2>1, <2>2
<1>11. ASSUME Deciding(s, r) \/ Finishes(s, r), f = Wanted(t.hash, r)
       PROVE  RenderedFrom(t, s, f)
  BY <1>2, <1>3, <1>4, <1>6, <1>11
<1>12. ASSUME Pitching(s, r) \/ Fails(s, r)
       PROVE  RenderedFrom(t, s, f)
  BY <1>2, <1>3, <1>4, <1>5, <1>6, <1>12
<1> QED BY <1>7, <1>8, <1>9, <1>10, <1>11, <1>12 DEF r, n, secs

\* What a step of the renderer finds.
LEMMA Rendering ==
  ASSUME TypeInv, RoleInv, NEW t \in task, NEW kind, At("render", kind)
  PROVE  /\ t \in Task /\ HasRole(t) /\ Current(t) \in Role /\ task = {t} /\ Len(Secs(t)) \in Nat
         /\ ops["render"] \in Seq(Op) /\ ops["render"] # <<>> /\ Head(ops["render"]).op = kind
         /\ RenderAt(ops["render"], Current(t), Len(Secs(t)))
         /\ outcome[Current(t)] = {} /\ RenderedFrom(t, ops["render"], dir[Current(t)])
         /\ dir[Current(t)] \in Dirs /\ Secs(t) \in SectionList
         /\ t.hash \in Hash /\ Current(t) \in DOMAIN Sections[t.hash]
         /\ Continue("render", <<>>) => ops'["render"] = Tail(ops["render"])
<1>1. ops["render"] # <<>> /\ Head(ops["render"]).op = kind
  BY DEF At
<1>2. t \in Task /\ HasRole(t) /\ Current(t) \in Role /\ task = {t} /\ Len(Secs(t)) \in Nat
      /\ ops \in [Writer -> Seq(Op)] /\ RenderAt(ops["render"], Current(t), Len(Secs(t)))
  BY <1>1, RenderPlace
<1>3. outcome[Current(t)] = {} /\ RenderedFrom(t, ops["render"], dir[Current(t)])
  BY <1>1 DEF RoleInv, RenderedOf
<1>4. dir[Current(t)] \in Dirs
  BY <1>2 DEF TypeInv, RoleTypes
<1>5. Secs(t) \in SectionList
  BY <1>2, Roles DEF SectionList
<1>6. Continue("render", <<>>) => ops'["render"] = Tail(ops["render"])
  BY <1>1, <1>2, Continuing DEF Writer
<1> QED BY <1>1, <1>2, <1>3, <1>4, <1>5, <1>6 DEF HasRole, Task, Writer

LEMMA PitchKept ==
  ASSUME TypeInv, RoleInv, NEW t \in task, Pitches(t)
  PROVE  RoleInv'
<1> DEFINE r == Current(t)
           n == Len(Secs(t))
           x == ops'["render"]
<1>1. /\ At("render", "pitch") /\ Continue("render", <<>>)
      /\ pitched' = dir[r] /\ UNCHANGED <<dir, loaded, outcome, interrupted, task>>
  BY DEF Pitches, pitch, taskVars, statusVars
<1>2. /\ t \in Task /\ HasRole(t) /\ r \in Role /\ task = {t} /\ n \in Nat /\ x = Tail(ops["render"])
      /\ ops["render"] # <<>> /\ ops["render"] \in Seq(Op) /\ outcome[r] = {}
      /\ RenderAt(ops["render"], r, n) /\ Head(ops["render"]).op = "pitch"
  BY <1>1, Rendering
<1>3. Pitching(ops["render"], r) /\ ~Changing(ops["render"], r, n)
  BY <1>2, RenderPlaceOf
<1>4. Left(x, {Split(1)}, ToCondition(r)) /\ x # <<>>
  <2>1. Left(Tail(ops["render"]), {Split(1)}, ToCondition(r))
    <3> HIDE DEF r, n
    <3> QED BY <1>2, <1>3, RenderPops
  <2> QED BY <1>2, <2>1 DEF Left
<1>5. x \in Seq(Op)
  BY <1>2
<1>6. Changing(x, r, n)
  BY <1>4 DEF Changing, Splitting
<1>7. RenderedFrom(t, x, dir[r])
  <2>1. PICK i \in Nat : i = 1
    OBVIOUS
  <2>2. Left(x, {Split(i)}, ToCondition(r)) /\ i - 1 = 0
    BY <1>4, <2>1
  <2>3. Written(dir[r], Secs(t), i - 1, {})
    BY <2>2, NothingWritten
  <2> HIDE DEF x
  <2> QED BY <1>2, <1>4, <1>5, <2>2, <2>3, RenderedAt
<1>8. RenderedOf(t)'
  BY <1>1, <1>2, <1>7 DEF RenderedOf
<1>9. FilesAreRendered'
  BY <1>1 DEF RoleInv, FilesAreRendered
<1>10. ASSUME NEW q \in Role PROVE LoadedOf(q)'
  <2>1. ~Pitched(q)
    BY <1>3, PitchedOne
  <2>2. Pitched(q)' <=> q = r
    BY <1>1, <1>2, <1>4, <1>6 DEF Pitched
  <2> QED BY <1>1, <2>1, <2>2 DEF RoleInv, LoadedOf
<1> QED BY <1>1, <1>2, <1>8, <1>9, <1>10 DEF RoleInv

LEMMA SplitKept ==
  ASSUME TypeInv, RoleInv, NEW t \in task, Splits(t)
  PROVE  RoleInv'
<1> DEFINE r == Current(t)
           n == Len(Secs(t))
           x == ops'["render"]
           i == Head(ops["render"]).section
<1>1. At("render", "split") /\ UNCHANGED <<outcome, interrupted, task>>
  BY DEF Splits, taskVars, statusVars
<1>2. /\ t \in Task /\ HasRole(t) /\ r \in Role /\ task = {t} /\ n \in Nat
      /\ ops["render"] # <<>> /\ outcome[r] = {} /\ RenderedFrom(t, ops["render"], dir[r])
      /\ dir[r] \in Dirs /\ Secs(t) \in SectionList
  BY <1>1, Rendering
<1>3. /\ i \in 1 .. n \cup {1} /\ Left(ops["render"], {Split(i)}, ToCondition(r))
      /\ \/ i > n /\ n = 0 /\ Cleaning(x, r, n) /\ UNCHANGED roleVars
         \/ /\ i \in 1 .. n /\ commit_file(r, Secs(t)[i].name)
            /\ \/ i = n /\ Cleaning(x, r, n)
               \/ i < n /\ Left(x, {FlushOf(i)}, ToSplit(i + 1, r))
  BY SplitTypes
<1>4. Changing(ops["render"], r, n) /\ Changing(x, r, n) /\ x # <<>>
  BY <1>3 DEF Changing, Splitting, Flushing, Cleaning, Left
<1>5. x \in Seq(Op)
  BY SplitTypes DEF TypeInv, DeployTypes, Writer
<1>6. Written(dir[r], Secs(t), i - 1, {})
  BY <1>2, <1>3 DEF RenderedFrom
<1> HIDE DEF x, i
<1>7. CASE i > n /\ n = 0 /\ Cleaning(x, r, n) /\ UNCHANGED roleVars
  <2>1. ~(n > 0)
    BY <1>7
  <2>4. RenderedFrom(t, x, dir[r])
    BY <1>2, <1>4, <1>5, <1>7, <2>1, RenderedAt
  <2>2. RenderedOf(t)'
    BY <1>1, <1>2, <1>7, <2>4 DEF RenderedOf, x, roleVars
  <2>3. dir' = [dir EXCEPT ![r] = dir[r]]
    BY <1>7 DEF roleVars, TypeInv, RoleTypes
  <2> QED BY <1>1, <1>2, <1>4, <1>7, <2>2, <2>3, ChangeKept DEF x, roleVars
<1>8. CASE /\ i \in 1 .. n /\ commit_file(r, Secs(t)[i].name)
           /\ \/ i = n /\ Cleaning(x, r, n)
              \/ i < n /\ Left(x, {FlushOf(i)}, ToSplit(i + 1, r))
  <2> DEFINE f == [dir[r] EXCEPT ![Secs(t)[i].name] = {0}]
  <2>1. Written(f, Secs(t), i, {Secs(t)[i].name})
    BY <1>2, <1>6, <1>8, Committed
  <2>2. dir' = [dir EXCEPT ![r] = f] /\ UNCHANGED <<loaded, pitched>>
    BY <1>8 DEF commit_file
  <2> HIDE DEF f
  <2>3. RenderedFrom(t, x, f)
    <3>1. CASE i = n /\ Cleaning(x, r, n)
      BY <1>2, <1>4, <1>5, <2>1, <3>1, RenderedAt
    <3>2. CASE i < n /\ Left(x, {FlushOf(i)}, ToSplit(i + 1, r))
      BY <1>2, <1>4, <1>5, <1>8, <2>1, <3>2, RenderedAt
    <3> QED BY <1>8, <3>1, <3>2
  <2>4. dir'[r] = f
    BY <1>2, <2>2 DEF TypeInv, RoleTypes
  <2>5. RenderedOf(t)'
    BY <1>1, <1>2, <2>3, <2>4 DEF RenderedOf, x
  <2> QED BY <1>1, <1>2, <1>4, <2>2, <2>5, ChangeKept DEF x
<1> QED BY <1>3, <1>7, <1>8

LEMMA FlushKept ==
  ASSUME TypeInv, RoleInv, NEW t \in task, Flushes(t)
  PROVE  RoleInv'
<1> DEFINE r == Current(t)
           n == Len(Secs(t))
           s == ops["render"]
           x == ops'["render"]
           i == Head(s).section
           f == [dir[r] EXCEPT ![Secs(t)[i].name] = {Secs(t)[i].version}]
<1>1. At("render", "flush") /\ Continue("render", <<>>) /\ UNCHANGED <<outcome, interrupted, task>>
      /\ dir' = [dir EXCEPT ![r] = f] /\ UNCHANGED <<loaded, pitched>>
  BY DEF Flushes, Flush, taskVars, statusVars
<1>2. /\ t \in Task /\ HasRole(t) /\ r \in Role /\ task = {t} /\ n \in Nat /\ s \in Seq(Op)
      /\ s # <<>> /\ outcome[r] = {} /\ RenderedFrom(t, s, dir[r])
      /\ dir[r] \in Dirs /\ Secs(t) \in SectionList /\ x = Tail(s)
      /\ RenderAt(s, r, n) /\ Head(s).op = "flush"
      /\ t.hash \in Hash /\ r \in DOMAIN Sections[t.hash]
  BY <1>1, Rendering
<1>3. Flushing(s, r, n) \/ Ending(s, r, n)
  BY <1>2, RenderPlaceOf
<1>4. x \in Seq(Op) /\ Changing(s, r, n)
  BY <1>2, <1>3 DEF Changing
<1>5. i \in 1 .. n /\ Written(dir[r], Secs(t), i, {Secs(t)[i].name})
      /\ \/ i < n /\ Left(s, {FlushOf(i)}, ToSplit(i + 1, r))
         \/ /\ i = n /\ Ending(s, r, n)
            /\ \A name \in Name \ NamesOf(Secs(t), n) : dir[r][name] = {}
  <2>1. CASE Flushing(s, r, n)
    <3>1. PICK j \in 1 .. n : j < n /\ Left(s, {FlushOf(j)}, ToSplit(j + 1, r))
      BY <2>1 DEF Flushing
    <3>2. i = j
      BY <3>1, OpKinds DEF Left
    <3> QED BY <1>2, <3>1, <3>2 DEF RenderedFrom
  <2>2. CASE Ending(s, r, n)
    <3>1. i = n /\ n > 0
      BY <2>2, OpKinds DEF Ending, Left
    <3>2. /\ Written(dir[r], Secs(t), n, {Secs(t)[n].name})
          /\ \A name \in Name \ NamesOf(Secs(t), n) : dir[r][name] = {}
      BY <1>2, <2>2 DEF RenderedFrom
    <3>3. n \in 1 .. n
      BY <1>2, <3>1
    <3> HIDE DEF i, n
    <3> QED BY <2>2, <3>1, <3>2, <3>3
  <2> QED BY <1>3, <2>1, <2>2
<1>6. Written(f, Secs(t), i, {})
  BY <1>2, <1>5, FlushedText
<1>7. RenderedFrom(t, x, f) /\ Changing(x, r, n) /\ x # <<>>
  <2>1. CASE i < n /\ Left(s, {FlushOf(i)}, ToSplit(i + 1, r))
    <3>1. PICK k \in Nat : k = i + 1 /\ k \in 1 .. n /\ k - 1 = i
      BY <1>2, <1>5, <2>1
    <3>2. i \in Nat
      BY <1>5
    <3> HIDE DEF f, i, x
    <3>3. Left(x, {Split(k)}, ToCondition(r))
      BY <1>2, <2>1, <3>1, <3>2, RenderPops
    <3>4. Written(f, Secs(t), k - 1, {})
      BY <1>6, <3>1
    <3>5. x # <<>>
      BY <3>3 DEF Left
    <3>6. RenderedFrom(t, x, f)
      BY <1>2, <1>4, <3>3, <3>4, <3>5, RenderedAt
    <3> QED BY <3>1, <3>3, <3>5, <3>6 DEF Changing, Splitting
  <2>2. CASE /\ i = n /\ Ending(s, r, n)
             /\ \A name \in Name \ NamesOf(Secs(t), n) : dir[r][name] = {}
    <3>1. Deciding(x, r)
      <4>1. Deciding(Tail(s), r)
        <5> HIDE DEF r, n, s
        <5> QED BY <1>2, <2>2, RenderPops
      <4> QED BY <1>2, <4>1
    <3>2. \A name \in Name \ NamesOf(Secs(t), n) : f[name] = {}
      <4>1. Secs(t)[n].name \in NamesOf(Secs(t), n)
        BY <1>5, <2>2 DEF NamesOf
      <4> QED BY <1>2, <2>2, <4>1 DEF Dirs
    <3>3. f \in Dirs
      <4>1. Secs(t)[i].name \in Name /\ {Secs(t)[i].version} \in Content
        BY <1>2, <1>5, SectionTypes
      <4> QED BY <1>2, <4>1 DEF Dirs
    <3> HIDE DEF f, i, x
    <3>4. f = Wanted(t.hash, r)
      BY <1>2, <1>6, <2>2, <3>2, <3>3, AllWritten DEF Secs
    <3>5. x # <<>>
      BY <3>1 DEF Deciding, Left
    <3>6. RenderedFrom(t, x, f)
      BY <1>2, <1>4, <3>1, <3>4, <3>5, RenderedAt
    <3> QED BY <3>1, <3>5, <3>6 DEF Changing
  <2> QED BY <1>5, <2>1, <2>2
<1> HIDE DEF f
<1>8. dir'[r] = f
  BY <1>1, <1>2 DEF TypeInv, RoleTypes
<1>9. RenderedOf(t)'
  BY <1>1, <1>2, <1>7, <1>8 DEF RenderedOf
<1> QED BY <1>1, <1>2, <1>4, <1>7, <1>9, ChangeKept

LEMMA CleanKept ==
  ASSUME TypeInv, RoleInv, NEW t \in task, Cleans(t)
  PROVE  RoleInv'
<1> DEFINE r == Current(t)
           n == Len(Secs(t))
           s == ops["render"]
           x == ops'["render"]
<1>1. At("render", "clean") /\ UNCHANGED <<outcome, interrupted, task>>
  BY DEF Cleans, taskVars, statusVars
<1>2. /\ t \in Task /\ HasRole(t) /\ r \in Role /\ task = {t} /\ n \in Nat /\ s \in Seq(Op)
      /\ s # <<>> /\ outcome[r] = {} /\ RenderedFrom(t, s, dir[r])
      /\ dir[r] \in Dirs /\ Secs(t) \in SectionList
      /\ RenderAt(s, r, n) /\ Head(s).op = "clean"
      /\ t.hash \in Hash /\ r \in DOMAIN Sections[t.hash]
  BY <1>1, Rendering
<1>3. Cleaning(s, r, n) /\ Changing(s, r, n)
  BY <1>2, RenderPlaceOf DEF Changing
<1>4. n > 0 => Written(dir[r], Secs(t), n, {Secs(t)[n].name})
  BY <1>2, <1>3 DEF RenderedFrom
<1>5. CASE \E m \in Stale(t.hash, r) : remove_file(r, m) /\ UNCHANGED ops
  <2>1. PICK m \in Stale(t.hash, r) : remove_file(r, m) /\ UNCHANGED ops
    BY <1>5
  <2> DEFINE f == [dir[r] EXCEPT ![m] = {}]
  <2>2. dir' = [dir EXCEPT ![r] = f] /\ UNCHANGED <<loaded, pitched>> /\ x = s
    BY <2>1 DEF remove_file
  <2>3. m \notin NamesOf(Secs(t), n)
    BY <1>2, <2>1, Visited DEF Stale, Secs
  <2>4. n > 0 => Written(f, Secs(t), n, {Secs(t)[n].name})
    <3>1. \A name \in NamesOf(Secs(t), n) : f[name] = dir[r][name]
      <4>1. \A j \in 1 .. n : Secs(t)[j].name \in Name
        BY <1>2, SectionNames
      <4> QED BY <1>2, <2>3, <4>1 DEF Dirs, NamesOf
    <3> HIDE DEF f
    <3> QED BY <1>4, <3>1 DEF Written
  <2> HIDE DEF f
  <2>5. RenderedFrom(t, s, f)
    BY <1>2, <1>3, <2>4, RenderedAt
  <2>6. dir'[r] = f
    BY <1>2, <2>2 DEF TypeInv, RoleTypes
  <2>7. RenderedOf(t)'
    BY <1>1, <1>2, <2>2, <2>5, <2>6 DEF RenderedOf
  <2> QED BY <1>1, <1>2, <1>3, <2>2, <2>7, ChangeKept
<1>6. CASE Stale(t.hash, r) = {} /\ Continue("render", <<>>) /\ UNCHANGED roleVars
  <2>1. x = Tail(s) /\ x \in Seq(Op)
    <3>1. x = Tail(s)
      BY <1>1, <1>6, Rendering
    <3>2. Tail(s) \in Seq(Op)
      BY <1>2
    <3> QED BY <3>1, <3>2
  <2>2. \A name \in Name \ NamesOf(Secs(t), n) : dir[r][name] = {}
    BY <1>2, <1>6, NothingStale DEF Secs
  <2>3. IF n = 0 THEN Deciding(Tail(s), r) ELSE Ending(Tail(s), r, n)
    <3> HIDE DEF r, n, s
    <3> QED BY <1>2, <1>3, RenderPops
  <2>4. x # <<>> /\ Changing(x, r, n)
    BY <2>1, <2>3 DEF Changing, Deciding, Ending, Left
  <2>5. RenderedFrom(t, x, dir[r])
    <3>1. CASE n = 0
      <4>1. Written(dir[r], Secs(t), n, {})
        BY <3>1, NothingWritten
      <4>2. dir[r] = Wanted(t.hash, r)
        BY <1>2, <2>2, <4>1, AllWritten DEF Secs
      <4>3. Deciding(x, r)
        BY <2>1, <2>3, <3>1
      <4> HIDE DEF x
      <4> QED BY <1>2, <2>1, <2>4, <4>2, <4>3, RenderedAt
    <3>2. CASE n # 0
      <4>1. Written(dir[r], Secs(t), n, {Secs(t)[n].name})
        BY <1>2, <1>4, <3>2
      <4>2. Ending(x, r, n)
        BY <2>1, <2>3, <3>2
      <4> HIDE DEF x
      <4> QED BY <1>2, <2>1, <2>2, <2>4, <4>1, <4>2, RenderedAt
    <3> QED BY <3>1, <3>2
  <2>6. RenderedOf(t)'
    BY <1>1, <1>2, <1>6, <2>5 DEF RenderedOf, roleVars
  <2>7. dir' = [dir EXCEPT ![r] = dir[r]]
    BY <1>6 DEF roleVars, TypeInv, RoleTypes
  <2> QED BY <1>1, <1>2, <1>3, <1>6, <2>4, <2>6, <2>7, ChangeKept DEF roleVars
<1> QED BY <1>5, <1>6 DEF Cleans

\* The service loads what has changed.
LEMMA ConditionKept ==
  ASSUME TypeInv, RoleInv, NEW t \in task, Conditions(t)
  PROVE  RoleInv'
<1> DEFINE r == Current(t)
           n == Len(Secs(t))
           s == ops["render"]
           x == ops'["render"]
<1>1. /\ At("render", "condition") /\ Continue("render", <<>>) /\ UNCHANGED <<outcome, task, dir, pitched>>
      /\ loaded' = IF dir[r] # pitched THEN [loaded EXCEPT ![r] = dir[r]] ELSE loaded
      /\ interrupted' = IF dir[r] # pitched THEN interrupted \ {r} ELSE interrupted
  BY DEF Conditions, Condition, taskVars
<1>2. /\ t \in Task /\ HasRole(t) /\ r \in Role /\ task = {t} /\ n \in Nat /\ s \in Seq(Op)
      /\ s # <<>> /\ outcome[r] = {} /\ RenderedFrom(t, s, dir[r])
      /\ RenderAt(s, r, n) /\ Head(s).op = "condition" /\ x = Tail(s)
  BY <1>1, Rendering
<1>3. Deciding(s, r) /\ Changing(s, r, n) /\ dir[r] = Wanted(t.hash, r)
  BY <1>2, RenderPlaceOf DEF Changing, RenderedFrom
<1>4. Finishes(x, r) /\ x # <<>> /\ x \in Seq(Op)
  <2>1. Left(Tail(s), {Mark(r, "ActionFinish")}, ToExit)
    <3> HIDE DEF r, n, s
    <3> QED BY <1>2, <1>3, RenderPops
  <2>2. Finishes(Tail(s), r) /\ Tail(s) # <<>>
    BY <2>1, OneOf DEF Finishes, Left
  <2> QED BY <1>2, <2>2
<1> HIDE DEF x
<1>5. RenderedFrom(t, x, dir[r]) /\ ~Changing(x, r, n)
  <2>1. RenderedFrom(t, x, dir[r])
    BY <1>2, <1>3, <1>4, RenderedAt
  <2>2. ~Changing(x, r, n)
    BY <1>2, <1>4, Apart
  <2> QED BY <2>1, <2>2
<1>6. RenderedOf(t)'
  BY <1>1, <1>2, <1>5 DEF RenderedOf, x
<1>7. FilesAreRendered'
  BY <1>1 DEF RoleInv, FilesAreRendered
<1>8. ASSUME NEW q \in Role PROVE LoadedOf(q)'
  <2>1. Pitched(q) <=> q = r
    BY <1>2, <1>3, PitchedOne
  <2>2. ~Pitched(q)'
    BY <1>1, <1>2, <1>5 DEF Pitched, x
  <2>3. LoadedOf(q)
    BY DEF RoleInv
  <2>4. CASE q # r
    <3>1. loaded'[q] = loaded[q] /\ (q \in interrupted => q \in interrupted')
      BY <1>1, <2>4 DEF TypeInv, RoleTypes
    <3> QED BY <1>1, <2>1, <2>2, <2>3, <2>4, <3>1 DEF LoadedOf
  <2>5. CASE q = r
    <3>1. CASE dir[r] # pitched
      <4>1. loaded'[r] = dir[r]
        BY <1>1, <1>2, <3>1 DEF TypeInv, RoleTypes
      <4> QED BY <1>1, <2>2, <2>5, <4>1 DEF LoadedOf
    <3>2. CASE dir[r] = pitched
      BY <1>1, <2>1, <2>2, <2>3, <2>5, <3>2 DEF LoadedOf
    <3> QED BY <3>1, <3>2
  <2> QED BY <2>4, <2>5
<1> QED BY <1>1, <1>2, <1>6, <1>7, <1>8 DEF RoleInv

LEMMA ExitKept ==
  ASSUME TypeInv, RoleInv, NEW t \in task, Exits(t)
  PROVE  RoleInv'
<1> DEFINE r == Current(t)
           n == Len(Secs(t))
           s == ops["render"]
<1>1. /\ At("render", "exit") /\ Continue("render", <<>>) /\ UNCHANGED <<roleVars, interrupted, task>>
      /\ outcome' = [outcome EXCEPT ![r] = {t.hash}]
  BY DEF Exits, taskVars
<1>2. /\ t \in Task /\ HasRole(t) /\ r \in Role /\ task = {t} /\ n \in Nat /\ s \in Seq(Op)
      /\ s # <<>> /\ RenderedFrom(t, s, dir[r])
      /\ RenderAt(s, r, n) /\ Head(s).op = "exit" /\ ops'["render"] = Tail(s)
  BY <1>1, Rendering
<1>3. Exiting(s) /\ dir[r] = Wanted(t.hash, r) /\ ~Changing(s, r, n)
  BY <1>2, RenderPlaceOf, Apart DEF RenderedFrom
<1>4. ops'["render"] = <<>>
  <2>1. Tail(s) = <<>>
    BY <1>3 DEF Exiting, Left
  <2> QED BY <1>2, <2>1
<1>5. FilesAreRendered'
  BY <1>1, <1>2, <1>3 DEF RoleInv, FilesAreRendered, roleVars, TypeInv, DeployTypes
<1>6. ASSUME NEW q \in Role PROVE LoadedOf(q)'
  <2>1. ~Pitched(q)
    BY <1>3, PitchedOne
  <2>2. ~Pitched(q)'
    BY <1>4 DEF Pitched
  <2> QED BY <1>1, <2>1, <2>2 DEF RoleInv, LoadedOf, roleVars
<1> QED BY <1>1, <1>4, <1>5, <1>6 DEF RoleInv

\* A directory that has been changed and not reloaded is one that Condition has
\* still to compare.
LEMMA NotReloadedIs ==
  ASSUME TypeInv, NEW t \in task
  PROVE  /\ ops["render"] = <<>> => ~NotReloaded(Current(t))
         /\ ops["render"] # <<>> =>
              /\ NotReloaded(Current(t)) <=> /\ Changing(ops["render"], Current(t), Len(Secs(t)))
                                             /\ dir'[Current(t)] # pitched
              /\ LeftToDo("flush") => Changing(ops["render"], Current(t), Len(Secs(t)))
<1>1. ops["render"] \in Seq(Op)
  BY DEF TypeInv, DeployTypes, Writer
<1>2. \A kind : LeftToDo(kind) <=> \E o \in OpsIn(ops["render"]) : o.op = kind
  BY DEF LeftToDo, OpsIn
<1>3. CASE ops["render"] = <<>>
  BY <1>3 DEF NotReloaded, LeftToDo
<1>4. CASE ops["render"] # <<>>
  <2>1. Current(t) \in Role /\ Len(Secs(t)) \in Nat
        /\ RenderAt(ops["render"], Current(t), Len(Secs(t)))
    BY <1>4, RenderPlace
  <2>2. Changing(ops["render"], Current(t), Len(Secs(t)))
        <=> LeftToDo("condition") /\ ~LeftToDo("pitch")
    BY <1>1, <1>2, <1>4, <2>1, WhatIsLeft
  <2>3. LeftToDo("flush") => Changing(ops["render"], Current(t), Len(Secs(t)))
    BY <1>1, <1>2, <1>4, <2>1, WhatIsLeft
  <2> QED BY <1>4, <2>2, <2>3 DEF NotReloaded
<1> QED BY <1>3, <1>4

\* A rendering ends before its time: what is not reloaded is noted.
LEMMA BreakKept ==
  ASSUME TypeInv, RoleInv, NEW t \in task, Interrupt(t), UNCHANGED <<loaded, pitched, outcome>>,
         task' \subseteq task,
         \A q \in Role : dir'[q] # dir[q] =>
           /\ ops["render"] # <<>> /\ q = Current(t)
           /\ Changing(ops["render"], q, Len(Secs(t))),
         ops'["render"] # <<>> => /\ ops["render"] # <<>> /\ Fails(ops'["render"], Current(t))
                                  /\ ops'["render"] \in Seq(Op)
  PROVE  RoleInv'
<1> DEFINE r == Current(t)
           n == Len(Secs(t))
           s == ops["render"]
           x == ops'["render"]
<1>1. task = {t}
  BY DEF TypeInv, DeployTypes
<1>2. s # <<>> => /\ r \in Role /\ n \in Nat /\ outcome[r] = {} /\ t \in Task /\ HasRole(t)
  BY RenderPlace DEF RoleInv, RenderedOf
<1>3. x # <<>> => ~Changing(x, r, n) /\ RenderedFrom(t, x, dir'[r])
  <2> HIDE DEF x
  <2> SUFFICES ASSUME x # <<>> PROVE ~Changing(x, r, n) /\ RenderedFrom(t, x, dir'[r])
    OBVIOUS
  <2>1. Fails(x, r) /\ x \in Seq(Op) /\ s # <<>>
    BY DEF x
  <2> QED BY <1>2, <2>1, Apart, RenderedAt
<1>4. FilesAreRendered'
  <2>1. ASSUME NEW q \in Role, NEW h \in outcome[q] PROVE dir'[q] = dir[q]
    BY <1>2, <2>1
  <2> QED BY <2>1 DEF RoleInv, FilesAreRendered
<1>5. ASSUME NEW u \in task', x # <<>> PROVE RenderedOf(u)'
  BY <1>1, <1>2, <1>3, <1>5 DEF RenderedOf
<1>6. ASSUME NEW q \in Role PROVE LoadedOf(q)'
  <2>1. ~Pitched(q)'
    BY <1>1, <1>3 DEF Pitched
  <2>2. LoadedOf(q)
    BY DEF RoleInv
  <2>3. q \in interrupted => q \in interrupted'
    BY DEF Interrupt
  <2>4. CASE Pitched(q)
    <3>1. s # <<>> /\ q = r /\ Changing(s, r, n)
      BY <2>4, PitchedOne
    <3>2. dir'[r] # pitched => r \in interrupted'
      BY <3>1, NotReloadedIs DEF Interrupt
    <3> QED BY <2>1, <2>2, <2>3, <2>4, <3>1, <3>2 DEF LoadedOf
  <2>5. CASE ~Pitched(q)
    <3>1. dir'[q] = dir[q]
      BY <2>5, PitchedOne
    <3> QED BY <2>1, <2>2, <2>3, <2>5, <3>1 DEF LoadedOf
  <2> QED BY <2>4, <2>5
<1> QED BY <1>4, <1>5, <1>6 DEF RoleInv

LEMMA FailKept ==
  ASSUME TypeInv, RoleInv, NEW t \in task, CommandFails(t)
  PROVE  RoleInv'
<1>1. /\ Interrupt(t) /\ UNCHANGED <<loaded, pitched, outcome, task>> /\ ops["render"] # <<>>
      /\ UNCHANGED dir \/ (LeftToDo("flush") /\ \E f : dir' = [dir EXCEPT ![Current(t)] = f])
  BY DEF CommandFails, At, Flush, taskVars, roleVars, LeftToDo
<1>2. Fails(ops'["render"], Current(t)) /\ TypeInv'
  BY CommandFailsTypes
<1>3. ops'["render"] \in Seq(Op)
  BY <1>2 DEF TypeInv, DeployTypes, Writer
<1>4. ASSUME NEW q \in Role, dir'[q] # dir[q]
      PROVE  q = Current(t) /\ Changing(ops["render"], q, Len(Secs(t)))
  <2>1. LeftToDo("flush") /\ \E f : dir' = [dir EXCEPT ![Current(t)] = f]
    BY <1>1, <1>4
  <2>2. q = Current(t)
    BY <1>4, <2>1 DEF TypeInv, RoleTypes
  <2> QED BY <1>1, <2>1, <2>2, NotReloadedIs
<1> QED BY <1>1, <1>2, <1>3, <1>4, BreakKept

LEMMA DieKept ==
  ASSUME TypeInv, RoleInv, NEW t \in task, RenderDies(t)
  PROVE  RoleInv'
<1>1. Interrupt(t) /\ UNCHANGED <<roleVars, outcome, task>>
  BY DEF RenderDies, taskVars
<1>2. ops'["render"] = <<>>
  BY RenderDiesTypes
<1> QED BY <1>1, <1>2, BreakKept DEF roleVars

LEMMA CrashKept ==
  ASSUME TypeInv, RoleInv, Crash
  PROVE  RoleInv'
<1>1. PICK t \in task : Interrupt(t)
  BY DEF Crash
<1>2. UNCHANGED <<roleVars, outcome>> /\ ops'["render"] = <<>> /\ task' = {}
  BY DEF Crash, Writer
<1> QED BY <1>1, <1>2, BreakKept DEF roleVars

\* The daemon does something while no renderer is there.
LEMMA DaemonKept ==
  ASSUME TypeInv, RoleInv, NEW t \in task,
         \/ EndTask(t) \/ NextRole(t) \/ Abort(t) \/ LogAction("daemon", t)
         \/ Saves(t) \/ BackupAction
  PROVE  RoleInv'
<1>1. ASSUME ops["render"] = <<>>, ops'["render"] = <<>>, UNCHANGED <<roleVars, interrupted, outcome>>
      PROVE  RoleInv'
  BY <1>1, IdleKept
<1>2. CASE EndTask(t)
  BY <1>1, <1>2 DEF EndTask
<1>3. CASE NextRole(t)
  BY <1>1, <1>3, Choices DEF NextRole
<1>4. CASE Abort(t)
  BY <1>1, <1>4, AbortTypes, Spawns DEF Abort
<1>5. CASE LogAction("daemon", t)
  <2>1. UNCHANGED <<roleVars, statusVars>> /\ ops["render"] = <<>>
    BY <1>5, LogSteps DEF TypeInv, Writer
  <2>2. PICK s \in Seq(Op) : ops' = [ops EXCEPT !["daemon"] = s]
    BY <1>5, LogSteps DEF TypeInv, Writer
  <2>3. ops'["render"] = <<>>
    BY <2>1, <2>2 DEF TypeInv, DeployTypes, Writer
  <2> QED BY <1>1, <2>1, <2>3 DEF statusVars
<1>6. CASE Saves(t)
  BY <1>1, <1>6 DEF Saves, At, Continue, TypeInv, DeployTypes, Writer
<1>7. CASE BackupAction
  <2>1. ops["render"] = <<>> /\ ops \in [Writer -> Seq(Op)]
    BY <1>7, BackupPlace
  <2>2. UNCHANGED <<roleVars, interrupted, outcome>>
    BY <1>7 DEF BackupAction, BacksUp, Copies, Links, Removes, Prunes, statusVars
  <2>3. UNCHANGED ops \/ \E s : ops' = [ops EXCEPT !["daemon"] = s]
    BY <1>7 DEF BackupAction, BacksUp, Copies, Links, Removes, Prunes, Continue
  <2>4. ops'["render"] = <<>>
    BY <2>1, <2>3 DEF Writer
  <2> QED BY <1>1, <2>1, <2>2, <2>4
<1> QED BY <1>2, <1>3, <1>4, <1>5, <1>6, <1>7

LEMMA RolesKept == TypeInv /\ RoleInv /\ [Next]_vars => RoleInv'
<1> SUFFICES ASSUME TypeInv, RoleInv, [Next]_vars PROVE RoleInv'
  OBVIOUS
<1>1. CASE \E h \in Hash : StartTask(h)
  <2>1. UNCHANGED <<roleVars, interrupted, outcome>> /\ ops["render"] = <<>> /\ ops'["render"] = <<>>
    BY <1>1 DEF StartTask, TypeInv, DeployTypes, Writer
  <2> QED BY <2>1, IdleKept
<1>2. CASE ApplyNext
  <2>1. PICK t \in task : \/ EndTask(t) \/ NextRole(t) \/ Abort(t) \/ StartRender(t)
                          \/ \E w \in Writer : LogAction(w, t)
                          \/ RendersTemplates \/ Pitches(t) \/ Splits(t) \/ Flushes(t) \/ Cleans(t)
                          \/ Saves(t) \/ BackupAction
                          \/ Conditions(t) \/ CommandFails(t) \/ Exits(t) \/ RenderDies(t)
    BY <1>2 DEF ApplyNext, LogAction, BackupAction
  <2>2. CASE \/ EndTask(t) \/ NextRole(t) \/ Abort(t) \/ LogAction("daemon", t)
             \/ Saves(t) \/ BackupAction
    BY <2>2, DaemonKept
  <2>3. CASE LogAction("render", t) \/ RendersTemplates
    BY <2>3, RenderLogsKept
  <2>4. CASE StartRender(t)
    BY <2>4, StartKept
  <2>5. CASE Pitches(t) \/ Splits(t) \/ Flushes(t) \/ Cleans(t)
    BY <2>5, PitchKept, SplitKept, FlushKept, CleanKept
  <2>6. CASE Conditions(t) \/ Exits(t)
    BY <2>6, ConditionKept, ExitKept
  <2>7. CASE CommandFails(t) \/ RenderDies(t)
    BY <2>7, FailKept, DieKept
  <2> QED BY <2>1, <2>2, <2>3, <2>4, <2>5, <2>6, <2>7 DEF Writer
<1>3. CASE Crash
  BY <1>3, CrashKept
<1>4. CASE Tick \/ UNCHANGED vars
  <2>1. UNCHANGED <<roleVars, interrupted, outcome, ops, task>>
    BY <1>4 DEF Tick, vars, deployVars
  <2>2. FilesAreRendered'
    BY <2>1 DEF RoleInv, FilesAreRendered, roleVars
  <2>3. \A t \in task : RenderedOf(t) => RenderedOf(t)'
    BY <2>1 DEF RenderedOf, roleVars
  <2>4. \A q \in Role : LoadedOf(q)'
    BY <2>1 DEF RoleInv, LoadedOf, Pitched, roleVars
  <2> QED BY <2>1, <2>2, <2>3, <2>4 DEF RoleInv
<1> QED BY <1>1, <1>2, <1>3, <1>4 DEF Next

LEMMA RolesHold == Spec => []RoleInv
<1>1. Init => RoleInv
  BY DEF Init, RoleInv, FilesAreRendered, LoadedOf, Pitched, Writer
<1> QED BY <1>1, RolesKept, TypesHold, PTL DEF Spec

\* A role that has been rendered successfully has the files of its sections,
\* whatever earlier renderings have left (SplitText::execute, apply_list).
THEOREM DeploymentRenders == Spec => []FilesAreRendered
<1>1. RoleInv => FilesAreRendered
  BY DEF RoleInv
<1> QED BY <1>1, RolesHold, PTL

\* Its service has loaded them, unless a rendering was cut off between a change
\* and the Condition (Condition::pitch, Condition::execute).
THEOREM DeploymentReloads == Spec => []ConditionIsHonoured
<1>1. RoleInv /\ TypeInv => ConditionIsHonoured
  <2> SUFFICES ASSUME RoleInv, TypeInv, NEW r \in Role, outcome[r] # {}, r \notin interrupted
               PROVE  loaded[r] = dir[r]
    BY DEF ConditionIsHonoured
  <2>1. ~Pitched(r)
    BY DEF Pitched, RoleInv, RenderedOf
  <2> QED BY <2>1 DEF RoleInv, LoadedOf
<1> QED BY <1>1, RolesHold, TypesHold, PTL
=============================================================================
