------------------------ MODULE DeploymentLogProofs ------------------------
(***************************************************************************)
(* Proofs about the log of Deployment.                                     *)
(*                                                                         *)
(* Ranks give the entries of a deployment an order that the index keeps    *)
(* (IndexInv).  What the deployment under way has written follows from     *)
(* what is left to do (Logged): the last entry is its own, and the next    *)
(* one may follow it.                                                      *)
(***************************************************************************)
EXTENDS DeploymentProofs

RoleMarker == {"RoleStart", "ActionStart", "ActionFinish", "RoleFinish"}
Over       == {"DeploymentFinish", "DeploymentError"}
Between    == {"DeploymentStart", "DeploymentChanges", "RoleFinish"}

Place(d) == IF d \in Role THEN CHOOSE i \in DOMAIN RoleOrder : RoleOrder[i] = d ELSE 0

StepOf(m) == CASE m = "ActionStart" -> 1 [] m = "ActionFinish" -> 2
               [] m = "RoleFinish" -> 3 [] OTHER -> 0

Rank(d, m) ==
  CASE m = "DeploymentStart"   -> 0
    [] m = "DeploymentChanges" -> 1
    [] m \in Over              -> 4 * Len(RoleOrder) + 4
    [] OTHER                   -> 4 * Place(d) + StepOf(m)

RankOf(e) == Rank(e.dir, e.marker)

\* The directory of a marker, in the deployment that has got to the role r.
IsDirOf(d, m, r) ==
  /\ m \in RoleMarker => d = r
  /\ m = "DeploymentChanges" => d = Changes
  /\ m \in Over \cup {"DeploymentStart"} => d = Global

-----------------------------------------------------------------------------
(* The index.                                                              *)

EntryIds == \A s \in Segment : \A i \in DOMAIN index[s] : index[s][i].id <= last_id

EntryDirs ==
  \A s \in Segment : \A i \in DOMAIN index[s] :
    index[s][i].marker \in RoleMarker => index[s][i].dir \in Role

\* The entries of a deployment are in one index, one after the other.
OneIndex ==
  \A s, x \in Segment : \A i \in DOMAIN index[s] : \A j \in DOMAIN index[x] :
    index[s][i].id = index[x][j].id => s = x

Precedes(e, f) == e.id < f.id \/ (e.id = f.id /\ RankOf(e) < RankOf(f))

Sorted ==
  \A s \in Segment : \A i, j \in DOMAIN index[s] : i < j => Precedes(index[s][i], index[s][j])

Nested ==
  \A s \in Segment : \A i \in DOMAIN index[s] :
    \/ index[s][i].marker = "DeploymentStart"
    \/ i > 1 /\ index[s][i - 1].id = index[s][i].id /\ Follows(index[s][i - 1], index[s][i])

Closed ==
  \A id \in 1 .. last_id :
    \/ id \in crashed
    \/ \E t \in task : t.id = id
    \/ \E s \in Segment : \E i \in DOMAIN index[s] :
         index[s][i].id = id /\ index[s][i].marker \in Over

\* The entry of a row.
EntryOf(d, s, j) ==
  [id |-> logs[d][s][j].id, marker |-> logs[d][s][j].marker,
   dir |-> d, segment |-> s, pos |-> j - 1]

RowsHaveEntries ==
  \A d \in LogDir : \A x \in Segment : \A j \in DOMAIN logs[d][x] :
    \E s \in Segment : \E i \in DOMAIN index[s] : index[s][i] = EntryOf(d, x, j)

IndexInv == EntryIds /\ EntryDirs /\ OneIndex /\ Sorted /\ Nested /\ Closed /\ RowsHaveEntries

-----------------------------------------------------------------------------
(* What the deployment t has written to the logs.                          *)

Today   == files["daemon"][Index]
LastOne == index[Today][Len(index[Today])]

NoEntries(t) == \A s \in Segment : \A i \in DOMAIN index[s] : index[s][i].id # t.id
IsToday      == IsLinked(Index, Today)

\* The last entry is one of t.
LastIn(t, markers) ==
  IsToday /\ index[Today] # <<>> /\ LastOne.id = t.id /\ LastOne.marker \in markers

LastIs(t, d, m) == LastIn(t, {m}) /\ LastOne.dir = d

BetweenRoles(t, rank) == LastIn(t, Between) /\ RankOf(LastOne) < rank

\* The row of the last entry is about to be written by w.
Awaits(w, o) ==
  /\ LastOne.segment = files[w][o.dir]
  /\ LastOne.pos = Len(logs[o.dir][files[w][o.dir]])

\* What has been written when the daemon opens a log, and when an entry is made.
Ready(t, d) ==
  /\ d = Index   => NoEntries(t)
  /\ d = Global  => NoEntries(t) /\ IsToday
  /\ d = Changes => LastIs(t, Global, "DeploymentStart")
  /\ d \in Role  => BetweenRoles(t, 4 * t.at)

Before(t, m) ==
  /\ m = "DeploymentStart"   => NoEntries(t) /\ IsToday
  /\ m = "DeploymentChanges" => LastIs(t, Global, "DeploymentStart")
  /\ m = "RoleStart"         => BetweenRoles(t, 4 * t.at)
  /\ m = "ActionStart"       => LastIs(t, Current(t), "RoleStart")
  /\ m = "ActionFinish"      => LastIs(t, Current(t), "ActionStart")
  /\ m = "RoleFinish"        => /\ LastIn(t, {"RoleStart", "ActionStart", "ActionFinish"})
                                /\ LastOne.dir = Current(t)
  /\ m = "DeploymentFinish"  => LastIn(t, Between)
  /\ m = "DeploymentError"   => LastIn(t, {"RoleFinish"})

\* What the writer w knows before the operation o.
Knows(t, w, o) ==
  /\ o.op \in {"save", "index"} => NoEntries(t)
  /\ w = "daemon" /\ o.op \in {"check", "link", "rename"} => Ready(t, o.dir)
  /\ w = "render" /\ o.op \in {"check", "link", "rename"} => LastIs(t, Current(t), "RoleStart")
  /\ o.op \in {"spawn", "latest", "templates"} => LastIs(t, Current(t), "RoleStart")
  /\ o.op = "mark" => Before(t, o.marker)
  /\ o.op = "row" => LastIs(t, o.dir, o.marker) /\ Awaits(w, o)
  /\ o.op = "roles" => BetweenRoles(t, 4 * t.at + 4)
  /\ o.op \in {"pitch", "split", "flush", "clean", "condition"} => LastIs(t, Current(t), "ActionStart")
  /\ o.op \in {"exit", "fail"} => LastIs(t, Current(t), "ActionFinish")
  /\ o.op \in {"backup", "copy", "snapshot", "untmp", "prune"} => LastIn(t, Over)
  /\ w = "render" /\ o.op # "latest" => files["render"][Index] = Today

\* s and x are left to the daemon and to the renderer.
Logged(t, s, x) ==
  /\ x # <<>> => Knows(t, "render", Head(x))
  /\ x = <<>> /\ s # <<>> => Knows(t, "daemon", Head(s))
  /\ x = <<>> /\ s = <<>> => LastIn(t, Over)

LogInv == IndexInv /\ \A t \in task : Logged(t, ops["daemon"], ops["render"])

-----------------------------------------------------------------------------
(* Ranks.                                                                  *)

LEMMA Places ==
  /\ Len(RoleOrder) \in Nat
  /\ \A d \in Role : Place(d) \in 1 .. Len(RoleOrder)
  /\ \A i \in DOMAIN RoleOrder : i \in 1 .. Len(RoleOrder) /\ Place(RoleOrder[i]) = i
<1>1. Len(RoleOrder) \in Nat /\ DOMAIN RoleOrder = 1 .. Len(RoleOrder)
  BY DeploymentAssumption
<1>2. ASSUME NEW d \in Role PROVE Place(d) \in DOMAIN RoleOrder /\ RoleOrder[Place(d)] = d
  <2>1. \E i \in DOMAIN RoleOrder : RoleOrder[i] = d
    BY DeploymentAssumption
  <2> QED BY <2>1 DEF Place
<1>3. ASSUME NEW i \in DOMAIN RoleOrder PROVE Place(RoleOrder[i]) = i
  <2>1. RoleOrder[i] \in Role
    BY DeploymentAssumption
  <2> QED BY <1>2, <2>1, DeploymentAssumption
<1> QED BY <1>1, <1>2, <1>3

LEMMA Ranks ==
  /\ \A d : Rank(d, "DeploymentStart") = 0 /\ Rank(d, "DeploymentChanges") = 1
  /\ \A d : \A m \in Over : Rank(d, m) = 4 * Len(RoleOrder) + 4
  /\ \A d : /\ Rank(d, "RoleStart") = 4 * Place(d)
            /\ Rank(d, "ActionStart") = 4 * Place(d) + 1
            /\ Rank(d, "ActionFinish") = 4 * Place(d) + 2
            /\ Rank(d, "RoleFinish") = 4 * Place(d) + 3
<1>1. ASSUME NEW d PROVE Place(d) \in Nat
  <2>1. CASE d \notin Role
    BY <2>1 DEF Place
  <2>2. CASE d \in Role
    <3>1. PICK i \in 1 .. Len(RoleOrder) : i = Place(d)
      BY <2>2, Places
    <3> QED BY <3>1
  <2> QED BY <2>1, <2>2
<1>2. \A d : Rank(d, "RoleStart") = 4 * Place(d) + 0
  BY DEF Rank, StepOf, Over
<1>3. \A d : Rank(d, "RoleStart") = 4 * Place(d)
  BY <1>1, <1>2
<1> QED BY <1>3 DEF Rank, StepOf, Over

\* No entry of a deployment comes after its last one.
LEMMA RankBounds ==
  ASSUME NEW d, NEW m \in Marker, m \in RoleMarker => d \in Role
  PROVE  Rank(d, m) \in 0 .. 4 * Len(RoleOrder) + 4
<1>1. Len(RoleOrder) \in Nat
  BY Places
<1>2. CASE m \in RoleMarker
  <2>1. PICK i \in 1 .. Len(RoleOrder) : i = Place(d)
    BY <1>2, Places
  <2>2. Rank(d, m) \in {4 * i, 4 * i + 1, 4 * i + 2, 4 * i + 3}
    BY <1>2, <2>1, Ranks DEF RoleMarker
  <2> QED BY <1>1, <2>1, <2>2
<1>3. CASE m \in Over
  BY <1>1, <1>3, Ranks
<1>4. CASE m \in {"DeploymentStart", "DeploymentChanges"}
  BY <1>1, <1>4, Ranks
<1> QED BY <1>2, <1>3, <1>4 DEF Marker, RoleMarker, Over

LEMMA CurrentPlace ==
  ASSUME NEW t \in Task, HasRole(t)
  PROVE  Current(t) \in Role /\ Place(Current(t)) = t.at /\ t.at \in 1 .. Len(RoleOrder)
BY Roles, Places DEF HasRole, Current

-----------------------------------------------------------------------------
(* The marks that are to come.                                             *)

LEMMA MarkPlace ==
  ASSUME TypeInv, NEW t \in task, NEW w \in Writer, ops[w] # <<>>,
         w = "daemon" => ops["render"] = <<>>, Head(ops[w]).op \in {"mark", "row"}
  PROVE  LET o == Head(ops[w])
         IN  /\ o \in Op /\ o.dir \in LogDir /\ o.marker \in Marker
             /\ IsDirOf(o.dir, o.marker, Current(t))
             /\ o.marker \in RoleMarker => HasRole(t)
<1> DEFINE o == Head(ops[w])
           Result == IsDirOf(o.dir, o.marker, Current(t)) /\ (o.marker \in RoleMarker => HasRole(t))
<1>1. ops \in [Writer -> Seq(Op)] /\ ControlOf(t)
  BY DEF TypeInv, DeployTypes, Control
<1>2. o \in Op
  BY <1>1, Continuing
<1>3. o.dir \in LogDir /\ o.marker \in Marker
  BY <1>2, OpForms
<1>4. \A d : \A m : o \in Writings(d, m) => o.dir = d /\ o.marker = m
  BY OpKinds
<1>5. CASE w = "daemon"
  <2> DEFINE s == ops["daemon"]
  <2>1. /\ ~Saving(s) /\ ~Indexing(s) /\ ~Opening(s) /\ ~Comparing(s) /\ ~Choosing(s)
        /\ ~RoleOpening(s, Current(t)) /\ ~Spawning(s, Current(t))
    BY <1>5, OpKinds DEF Saving, Indexing, Opening, Comparing, Choosing, RoleOpening, Spawning, Left
  <2>2. ~BackingUp(s)
    BY <1>5, OpKinds DEF BackingUp, Linking, Left
  <2>3. Starting(s) \/ Noting(s) \/ Finishing(s) \/ Dropping(s) => Result
    BY <1>4, <1>5 DEF Starting, Noting, Finishing, Dropping, Left, IsDirOf, RoleMarker, Over
  <2>4. /\ RoleStarting(s, Current(t)) \/ RoleEnding(s, Current(t)) \/ RoleDropping(s, Current(t))
        /\ HasRole(t)
        => Result
    BY <1>4, <1>5 DEF RoleStarting, RoleEnding, RoleDropping, Left, IsDirOf, RoleMarker, Over
  <2> QED BY <1>1, <1>2, <1>3, <1>5, <2>1, <2>2, <2>3, <2>4 DEF ControlOf, Outside, InRole
<1>6. CASE w = "render"
  <2> DEFINE s == ops["render"]
  <2>1. HasRole(t) /\ RenderAt(s, Current(t), Len(Secs(t)))
    BY <1>1, <1>6 DEF ControlOf
  <2>2. Current(t) \in Role /\ Len(Secs(t)) \in Nat /\ s \in Seq(Op)
    BY <1>1, <1>6, RenderPlace
  <2>3. Starts(s, Current(t)) \/ Finishes(s, Current(t)) \/ Fails(s, Current(t))
    BY <1>6, <2>1, <2>2, Apart DEF RenderAt
  <2>4. Result
    BY <1>4, <1>6, <2>1, <2>3 DEF Starts, Finishes, Fails, Left, IsDirOf, RoleMarker, Over
  <2> QED BY <1>2, <1>3, <2>4
<1> QED BY <1>5, <1>6 DEF Writer

LEMMA TodayTypes ==
  ASSUME TypeInv
  PROVE  /\ Today \in Segment /\ index[Today] \in Seq(Entry) /\ Len(index[Today]) \in Nat
         /\ index[Today] # <<>> => /\ Len(index[Today]) \in DOMAIN index[Today]
                                   /\ LastOne \in Entry
<1>1. Today \in Segment /\ index[Today] \in Seq(Entry)
  BY Dirs1 DEF Today, TypeInv, LogTypes, Writer
<1> HIDE DEF Today
<1> QED BY <1>1 DEF LastOne

\* The next entry may follow the last one.
LEMMA BeforeEntry ==
  ASSUME TypeInv, EntryDirs, NEW t \in task, NEW d, NEW m \in Marker, Before(t, m),
         IsDirOf(d, m, Current(t)), m \in RoleMarker => HasRole(t)
  PROVE  /\ IsToday
         /\ \/ NoEntries(t) /\ m = "DeploymentStart"
            \/ /\ LastIn(t, Marker)
               /\ RankOf(LastOne) < Rank(d, m)
               /\ \A e : e.dir = d /\ e.marker = m => Follows(LastOne, e)
<1> DEFINE r == Current(t)
           Goal == /\ LastIn(t, Marker)
                   /\ RankOf(LastOne) < Rank(d, m)
                   /\ \A e : e.dir = d /\ e.marker = m => Follows(LastOne, e)
<1>1. t \in Task
  BY DEF TypeInv, DeployTypes
<1>2. ASSUME NEW markers, markers \subseteq Marker, LastIn(t, markers)
      PROVE  /\ LastIn(t, Marker) /\ IsToday /\ LastOne.marker \in markers
             /\ LastOne.marker \in RoleMarker => LastOne.dir \in Role
  <2>1. LastIn(t, Marker) /\ IsToday /\ LastOne.marker \in markers /\ index[Today] # <<>>
    BY <1>2 DEF LastIn
  <2>2. PICK i \in DOMAIN index[Today] : i = Len(index[Today])
    BY <2>1, TodayTypes
  <2>3. index[Today][i].marker \in RoleMarker => index[Today][i].dir \in Role
    BY TodayTypes DEF EntryDirs
  <2> QED BY <2>1, <2>2, <2>3 DEF LastOne
<1>3. Len(RoleOrder) \in Nat
  BY Places
<1>4. CASE m = "DeploymentStart"
  BY <1>4 DEF Before
<1>5. CASE m = "DeploymentChanges"
  <2>1. LastIs(t, Global, "DeploymentStart")
    BY <1>5 DEF Before
  <2>2. LastIn(t, Marker) /\ IsToday /\ LastOne.marker = "DeploymentStart"
    BY <1>2, <2>1 DEF LastIs, Marker
  <2>3. RankOf(LastOne) = 0 /\ Rank(d, m) = 1
    BY <1>5, <2>2, Ranks DEF RankOf
  <2>4. \A e : e.dir = d /\ e.marker = m => Follows(LastOne, e)
    BY <1>5, <2>2 DEF Follows
  <2> QED BY <2>2, <2>3, <2>4
<1>6. CASE m = "RoleStart"
  <2>1. LastIn(t, Between) /\ RankOf(LastOne) < 4 * t.at
    BY <1>6 DEF Before, BetweenRoles
  <2>2. LastIn(t, Marker) /\ IsToday /\ LastOne.marker \in Between
    BY <1>2, <2>1 DEF Between, Marker
  <2>3. d = r /\ Place(r) = t.at /\ t.at \in Nat
    BY <1>1, <1>6, CurrentPlace DEF IsDirOf, RoleMarker
  <2>4. Rank(d, m) = 4 * t.at
    BY <1>6, <2>3, Ranks
  <2>5. LastOne.marker = "RoleFinish" => LastOne.dir # d
    <3>1. SUFFICES ASSUME LastOne.marker = "RoleFinish", LastOne.dir = r PROVE FALSE
      BY <2>3
    <3>2. RankOf(LastOne) = 4 * t.at + 3
      BY <2>3, <3>1, Ranks DEF RankOf
    <3> QED BY <2>1, <2>3, <3>2
  <2>6. \A e : e.dir = d /\ e.marker = m => Follows(LastOne, e)
    BY <1>6, <2>2, <2>5 DEF Follows, Between
  <2> QED BY <2>1, <2>2, <2>4, <2>6
<1>7. CASE m \in {"ActionStart", "ActionFinish", "RoleFinish"}
  <2>1. d = r /\ Place(r) = t.at /\ t.at \in Nat
    BY <1>1, <1>7, CurrentPlace DEF IsDirOf, RoleMarker
  <2>2. /\ LastIn(t, {"RoleStart", "ActionStart", "ActionFinish"}) /\ LastOne.dir = r
        /\ m = "ActionStart"  => LastOne.marker = "RoleStart"
        /\ m = "ActionFinish" => LastOne.marker = "ActionStart"
    BY <1>7 DEF Before, LastIs, LastIn
  <2>3. LastIn(t, Marker) /\ IsToday /\ LastOne.marker \in {"RoleStart", "ActionStart", "ActionFinish"}
    BY <1>2, <2>2 DEF Marker
  <2>4. /\ LastOne.marker = "RoleStart"    => RankOf(LastOne) = 4 * t.at
        /\ LastOne.marker = "ActionStart"  => RankOf(LastOne) = 4 * t.at + 1
        /\ LastOne.marker = "ActionFinish" => RankOf(LastOne) = 4 * t.at + 2
        /\ m = "ActionStart"  => Rank(d, m) = 4 * t.at + 1
        /\ m = "ActionFinish" => Rank(d, m) = 4 * t.at + 2
        /\ m = "RoleFinish"   => Rank(d, m) = 4 * t.at + 3
    BY <2>1, <2>2, Ranks DEF RankOf
  <2>5. RankOf(LastOne) < Rank(d, m)
    BY <1>7, <2>1, <2>2, <2>3, <2>4
  <2>6. \A e : e.dir = d /\ e.marker = m => Follows(LastOne, e)
    BY <1>7, <2>1, <2>2, <2>3 DEF Follows
  <2> QED BY <2>3, <2>5, <2>6
<1>8. CASE m \in Over
  <2>1. LastIn(t, Between) /\ (m = "DeploymentError" => LastOne.marker = "RoleFinish")
    BY <1>8 DEF Before, Over, LastIn, Between
  <2>2. /\ LastIn(t, Marker) /\ IsToday /\ LastOne.marker \in Between
        /\ LastOne.marker = "RoleFinish" => LastOne.dir \in Role
    BY <1>2, <2>1 DEF Between, Marker, RoleMarker
  <2>3. Rank(d, m) = 4 * Len(RoleOrder) + 4
    BY <1>8, Ranks
  <2>4. CASE LastOne.marker = "RoleFinish"
    <3>1. PICK i \in 1 .. Len(RoleOrder) : i = Place(LastOne.dir)
      BY <2>2, <2>4, Places
    <3>2. RankOf(LastOne) = 4 * i + 3
      BY <2>4, <3>1, Ranks DEF RankOf
    <3>3. RankOf(LastOne) < Rank(d, m)
      BY <1>3, <2>3, <3>1, <3>2
    <3> QED BY <1>8, <2>2, <2>4, <3>3 DEF Follows, Over
  <2>5. CASE LastOne.marker # "RoleFinish"
    <3>1. RankOf(LastOne) \in {0, 1}
      BY <2>2, <2>5, Ranks DEF RankOf, Between
    <3>2. RankOf(LastOne) < Rank(d, m)
      BY <1>3, <2>3, <3>1
    <3>3. m = "DeploymentFinish"
      BY <1>8, <2>1, <2>5 DEF Over
    <3> QED BY <2>2, <2>5, <3>2, <3>3 DEF Follows, Between
  <2> QED BY <2>2, <2>4, <2>5
<1> QED BY <1>4, <1>5, <1>6, <1>7, <1>8 DEF Marker, Over

-----------------------------------------------------------------------------
(* The index grows.                                                        *)

Appends(s, e) == index' = [index EXCEPT ![s] = Append(@, e)]

LEMMA Appended ==
  ASSUME TypeInv, NEW s \in Segment, NEW e \in Entry, Appends(s, e)
  PROVE  \E n \in Nat :
           /\ n = Len(index[s]) + 1 /\ n = Len(index'[s]) /\ index'[s] # <<>>
           /\ n \in DOMAIN index'[s] /\ index'[s][n] = e
           /\ \A x \in Segment : \A i \in DOMAIN index[x] :
                i \in DOMAIN index'[x] /\ index'[x][i] = index[x][i]
           /\ \A x \in Segment : \A i \in DOMAIN index'[x] :
                (x = s /\ i = n) \/ i \in DOMAIN index[x]
           /\ \A i \in DOMAIN index[s] : i \in Nat /\ i < n
<1>1. index \in [Segment -> Seq(Entry)] /\ index[s] \in Seq(Entry)
  BY DEF TypeInv, LogTypes
<1>2. index' = [index EXCEPT ![s] = Append(index[s], e)]
  BY DEF Appends
<1>3. index'[s] = Append(index[s], e) /\ \A x \in Segment : x # s => index'[x] = index[x]
  BY <1>1, <1>2
<1>4. PICK n \in Nat : n = Len(index[s]) + 1
  BY <1>1
<1>5. /\ n = Len(index'[s]) /\ index'[s] # <<>> /\ n \in DOMAIN index'[s] /\ index'[s][n] = e
      /\ \A i \in DOMAIN index[s] : /\ i \in DOMAIN index'[s] /\ index'[s][i] = index[s][i]
                                    /\ i \in Nat /\ i < n
      /\ \A i \in DOMAIN index'[s] : i = n \/ i \in DOMAIN index[s]
  BY <1>1, <1>3, <1>4
<1> QED BY <1>3, <1>4, <1>5

LEMMA EntryKept ==
  ASSUME TypeInv, IndexInv, NEW t \in task, NEW e \in Entry, e.id = t.id,
         e.marker \in RoleMarker => e.dir \in Role,
         Appends(Today, e), UNCHANGED <<logs, task, last_id, crashed>>,
         \/ NoEntries(t) /\ e.marker = "DeploymentStart"
         \/ LastIn(t, Marker) /\ RankOf(LastOne) < RankOf(e) /\ Follows(LastOne, e)
  PROVE  IndexInv'
<1> DEFINE today == Today
<1>1. today \in Segment /\ index \in [Segment -> Seq(Entry)] /\ index[today] \in Seq(Entry)
      /\ t.id = last_id
  BY TodayTypes DEF TypeInv, LogTypes, DeployTypes
<1> HIDE DEF today
<1>2. PICK n \in Nat :
           /\ n = Len(index[today]) + 1
           /\ n \in DOMAIN index'[today] /\ index'[today][n] = e
           /\ \A x \in Segment : \A i \in DOMAIN index[x] :
                i \in DOMAIN index'[x] /\ index'[x][i] = index[x][i]
           /\ \A x \in Segment : \A i \in DOMAIN index'[x] :
                (x = today /\ i = n) \/ i \in DOMAIN index[x]
           /\ \A i \in DOMAIN index[today] : i \in Nat /\ i < n
  BY <1>1, Appended DEF today
<1>3. \A x \in Segment : \A i \in DOMAIN index[x] : index[x][i] \in Entry
  BY <1>1
<1>4. Id \subseteq Nat /\ last_id \in Nat
  BY LogAssumption DEF TypeInv, DeployTypes
<1>5. /\ EntryIds /\ EntryDirs /\ OneIndex /\ Sorted /\ Nested /\ Closed /\ RowsHaveEntries
  BY DEF IndexInv
<1>6. ~NoEntries(t) => \E k \in DOMAIN index[today] :
                         /\ k = Len(index[today]) /\ index[today][k].id = t.id
                         /\ RankOf(index[today][k]) < RankOf(e) /\ Follows(index[today][k], e)
                         /\ \A i \in DOMAIN index[today] : i = k \/ i < k
  <2>1. SUFFICES ASSUME ~NoEntries(t) PROVE \E k \in DOMAIN index[today] :
                         /\ k = Len(index[today]) /\ index[today][k].id = t.id
                         /\ RankOf(index[today][k]) < RankOf(e) /\ Follows(index[today][k], e)
                         /\ \A i \in DOMAIN index[today] : i = k \/ i < k
    OBVIOUS
  <2>2. index[today] # <<>> /\ LastOne.id = t.id /\ RankOf(LastOne) < RankOf(e) /\ Follows(LastOne, e)
    BY <2>1 DEF LastIn, today
  <2>3. LastOne = index[today][Len(index[today])]
    BY DEF LastOne, today
  <2>4. PICK k \in DOMAIN index[today] : k = Len(index[today])
    BY <1>1, <2>2
  <2>5. \A i \in DOMAIN index[today] : i = k \/ i < k
    BY <1>1, <2>4
  <2> QED BY <2>2, <2>3, <2>4, <2>5
<1>7. EntryIds'
  BY <1>1, <1>2, <1>4, <1>5 DEF EntryIds
<1>8. EntryDirs'
  BY <1>2, <1>5 DEF EntryDirs
<1>9. OneIndex'
  <2>1. ASSUME NEW x \in Segment, NEW i \in DOMAIN index[x], index[x][i].id = t.id PROVE x = today
    BY <1>1, <1>5, <1>6, <2>1 DEF OneIndex, NoEntries
  <2> QED BY <1>1, <1>2, <1>5, <2>1 DEF OneIndex
<1>10. Sorted'
  <2>1. ASSUME NEW i \in DOMAIN index[today] PROVE Precedes(index[today][i], e)
    <3>1. CASE NoEntries(t)
      <4>1. index[today][i].id # t.id /\ index[today][i].id <= last_id /\ index[today][i].id \in Nat
        BY <1>1, <1>3, <1>4, <1>5, <3>1 DEF NoEntries, EntryIds, Entry
      <4> QED BY <1>1, <1>4, <4>1 DEF Precedes
    <3>2. CASE ~NoEntries(t)
      <4>1. PICK k \in DOMAIN index[today] :
                         /\ index[today][k].id = t.id
                         /\ RankOf(index[today][k]) < RankOf(e)
                         /\ \A j \in DOMAIN index[today] : j = k \/ j < k
        BY <1>6, <3>2
      <4>2. i = k \/ Precedes(index[today][i], index[today][k])
        BY <1>1, <1>5, <4>1 DEF Sorted
      <4>3. index[today][i] \in Entry /\ index[today][k] \in Entry
        BY <1>1, <1>3
      <4>4. RankOf(index[today][i]) \in Nat /\ RankOf(index[today][k]) \in Nat /\ RankOf(e) \in Nat
        <5>1. \A f \in Entry : (f.marker \in RoleMarker => f.dir \in Role) => RankOf(f) \in Nat
          <6>1. SUFFICES ASSUME NEW f \in Entry, f.marker \in RoleMarker => f.dir \in Role
                         PROVE  RankOf(f) \in Nat
            OBVIOUS
          <6>2. PICK q \in 0 .. 4 * Len(RoleOrder) + 4 : q = Rank(f.dir, f.marker)
            BY <6>1, RankBounds DEF Entry
          <6> QED BY <6>2 DEF RankOf
        <5> QED BY <1>1, <1>5, <4>3, <5>1 DEF EntryDirs
      <4>5. index[today][i].id \in Nat
        BY <1>4, <4>3 DEF Entry
      <4> QED BY <1>1, <1>4, <4>1, <4>2, <4>4, <4>5 DEF Precedes
    <3> QED BY <3>1, <3>2
  <2> SUFFICES ASSUME NEW s \in Segment, NEW i \in DOMAIN index'[s], NEW j \in DOMAIN index'[s], i < j
               PROVE  Precedes(index'[s][i], index'[s][j])
    BY DEF Sorted, Precedes
  <2>2. CASE j \in DOMAIN index[s]
    <3>1. i \in DOMAIN index[s]
      BY <1>2, <2>2
    <3> QED BY <1>2, <1>5, <2>2, <3>1 DEF Sorted
  <2>3. CASE s = today /\ j = n
    <3>1. i \in DOMAIN index[today]
      BY <1>2, <2>3
    <3> QED BY <1>2, <2>1, <2>3, <3>1
  <2> QED BY <1>2, <2>2, <2>3
<1>11. Nested'
  <2> SUFFICES ASSUME NEW s \in Segment, NEW i \in DOMAIN index'[s]
               PROVE  \/ index'[s][i].marker = "DeploymentStart"
                      \/ /\ i > 1 /\ index'[s][i - 1].id = index'[s][i].id
                         /\ Follows(index'[s][i - 1], index'[s][i])
    BY DEF Nested, Follows
  <2>1. CASE i \in DOMAIN index[s]
    <3>1. i > 1 => i - 1 \in DOMAIN index[s]
      <4>1. index[s] \in Seq(Entry)
        BY <1>1
      <4> QED BY <2>1, <4>1
    <3> QED BY <1>2, <1>5, <2>1, <3>1 DEF Nested
  <2>2. CASE s = today /\ i = n
    <3>1. CASE NoEntries(t)
      <4>1. e.marker = "DeploymentStart"
        BY <3>1, <1>1, TodayTypes DEF LastIn, NoEntries, LastOne, today
      <4> QED BY <1>2, <2>2, <4>1
    <3>2. CASE ~NoEntries(t)
      <4>1. PICK k \in DOMAIN index[today] :
                         /\ k = Len(index[today]) /\ index[today][k].id = t.id
                         /\ Follows(index[today][k], e)
        BY <1>6, <3>2
      <4>2. k = n - 1 /\ n > 1
        BY <1>1, <1>2, <4>1
      <4> QED BY <1>2, <2>2, <4>1, <4>2
    <3> QED BY <3>1, <3>2
  <2> QED BY <1>2, <2>1, <2>2
<1>12. Closed'
  BY <1>2, <1>5 DEF Closed
<1>13. RowsHaveEntries'
  <2>1. \A d, s, j : EntryOf(d, s, j)' = EntryOf(d, s, j)
    BY DEF EntryOf
  <2> QED BY <1>2, <1>5, <2>1 DEF RowsHaveEntries
<1> QED BY <1>7, <1>8, <1>9, <1>10, <1>11, <1>12, <1>13 DEF IndexInv

-----------------------------------------------------------------------------
(* What is known stays known.                                              *)

\* Nothing is written to the index, and no other index is opened.
SameIndex ==
  /\ UNCHANGED index /\ latest'[Index] = latest[Index]
  /\ files'["daemon"][Index] = files["daemon"][Index]

LEMMA KnowsKept ==
  ASSUME SameIndex, NEW t, NEW w, NEW o, Knows(t, w, o),
         w = "render" => files'["render"][Index] = files["render"][Index],
         o.op = "row" => UNCHANGED <<files, logs>>
  PROVE  Knows(t, w, o)'
<1>1. Today' = Today /\ LastOne' = LastOne /\ index' = index
  BY DEF SameIndex, Today, LastOne
<1>2. (NoEntries(t) => NoEntries(t)') /\ (IsToday => IsToday')
  BY <1>1 DEF SameIndex, NoEntries, IsToday, IsLinked
<1>3. ASSUME NEW markers, LastIn(t, markers) PROVE LastIn(t, markers)'
  BY <1>1, <1>2, <1>3 DEF LastIn
<1>4. ASSUME NEW d, NEW m, LastIs(t, d, m) PROVE LastIs(t, d, m)'
  BY <1>1, <1>3, <1>4 DEF LastIs
<1>5. ASSUME NEW rank, BetweenRoles(t, rank) PROVE BetweenRoles(t, rank)'
  BY <1>1, <1>3, <1>5 DEF BetweenRoles, RankOf
<1>6. ASSUME NEW d, Ready(t, d) PROVE Ready(t, d)'
  BY <1>2, <1>4, <1>5, <1>6 DEF Ready
<1>7. ASSUME NEW m, Before(t, m) PROVE Before(t, m)'
  BY <1>1, <1>2, <1>3, <1>4, <1>5, <1>7 DEF Before, Current
<1>8. o.op = "row" /\ Awaits(w, o) => Awaits(w, o)'
  BY <1>1 DEF Awaits
<1> QED BY <1>1, <1>2, <1>3, <1>4, <1>5, <1>6, <1>7, <1>8 DEF Knows, Current

LEMMA LastKept ==
  ASSUME SameIndex, NEW t, NEW markers, LastIn(t, markers)
  PROVE  LastIn(t, markers)'
BY DEF SameIndex, LastIn, LastOne, Today, IsToday, IsLinked

LEMMA LoggedKept ==
  ASSUME SameIndex, NEW t, NEW s, NEW x, Logged(t, s, x),
         x # <<>> => /\ files'["render"][Index] = files["render"][Index]
                     /\ Head(x).op = "row" => UNCHANGED <<files, logs>>,
         x = <<>> /\ s # <<>> => (Head(s).op = "row" => UNCHANGED <<files, logs>>)
  PROVE  Logged(t, s, x)'
<1>1. x # <<>> => Knows(t, "render", Head(x))'
  BY KnowsKept DEF Logged
<1>2. x = <<>> /\ s # <<>> => Knows(t, "daemon", Head(s))'
  BY KnowsKept DEF Logged
<1>3. x = <<>> /\ s = <<>> => LastIn(t, Over)'
  BY LastKept DEF Logged
<1> QED BY <1>1, <1>2, <1>3 DEF Logged

\* An operation that opens a log stays one.
LEMMA KnowsStays ==
  ASSUME NEW t, NEW w, NEW s, NEW x, Knows(t, w, Head(s)), Stays(s, x),
         Head(s).op \in {"index", "check", "link", "rename"},
         w = "render" => Head(s).op # "index"
  PROVE  Knows(t, w, Head(x))
<1>1. CASE Head(s) = Do("index") /\ Head(x) \in Openings(Index)
  <2>1. Head(s).op = "index" /\ Head(x).op \in {"check", "link", "rename"} /\ Head(x).dir = Index
    BY <1>1, OpKinds
  <2>2. Ready(t, Index)
    BY <2>1, LogAssumption DEF Ready, Knows
  <2> QED BY <2>1, <2>2 DEF Knows
<1>2. ASSUME NEW d, Head(s) \in Openings(d), Head(x) \in Openings(d)
      PROVE  Knows(t, w, Head(x))
  <2>1. /\ Head(s).op \in {"check", "link", "rename"} /\ Head(s).dir = d
        /\ Head(x).op \in {"check", "link", "rename"} /\ Head(x).dir = d
    BY <1>2, OpKinds
  <2>2. /\ w = "daemon" => Ready(t, d)
        /\ w = "render" => LastIs(t, Current(t), "RoleStart") /\ files["render"][Index] = Today
    BY <2>1 DEF Knows
  <2> QED BY <2>1, <2>2 DEF Knows
<1>3. ~(\E d, m : Head(s) \in Writings(d, m) /\ Head(x) \in Writings(d, m))
  BY OpKinds
<1> QED BY <1>1, <1>2, <1>3 DEF Stays

-----------------------------------------------------------------------------
(* What is known of the next operation.                                    *)

LEMMA DaemonKnows ==
  ASSUME NEW t
  PROVE  /\ NoEntries(t) => Knows(t, "daemon", Do("save")) /\ Knows(t, "daemon", Do("index"))
         /\ \A d : \A o \in Openings(d) : Ready(t, d) => Knows(t, "daemon", o)
         /\ \A d, m : Before(t, m) => Knows(t, "daemon", Mark(d, m))
         /\ BetweenRoles(t, 4 * t.at + 4) => Knows(t, "daemon", Do("roles"))
         /\ LastIs(t, Current(t), "RoleStart") => Knows(t, "daemon", Do("spawn"))
         /\ \A o : o.op \in {"backup", "copy", "snapshot", "untmp", "prune"} /\ LastIn(t, Over)
                     => Knows(t, "daemon", o)
<1>1. NoEntries(t) => Knows(t, "daemon", Do("save")) /\ Knows(t, "daemon", Do("index"))
  BY OpKinds DEF Knows
<1>2. ASSUME NEW d, NEW o \in Openings(d), Ready(t, d) PROVE Knows(t, "daemon", o)
  <2>1. o.op \in {"check", "link", "rename"} /\ o.dir = d
    BY OpKinds
  <2> QED BY <1>2, <2>1 DEF Knows
<1>3. ASSUME NEW d, NEW m, Before(t, m) PROVE Knows(t, "daemon", Mark(d, m))
  <2>1. Mark(d, m).op = "mark" /\ Mark(d, m).marker = m
    BY DEF Mark
  <2> QED BY <1>3, <2>1 DEF Knows
<1>4. BetweenRoles(t, 4 * t.at + 4) => Knows(t, "daemon", Do("roles"))
  BY OpKinds DEF Knows
<1>5. LastIs(t, Current(t), "RoleStart") => Knows(t, "daemon", Do("spawn"))
  BY OpKinds DEF Knows
<1>6. ASSUME NEW o, o.op \in {"backup", "copy", "snapshot", "untmp", "prune"}, LastIn(t, Over)
      PROVE  Knows(t, "daemon", o)
  BY <1>6 DEF Knows
<1> QED BY <1>1, <1>2, <1>3, <1>4, <1>5, <1>6

\* An operation of the daemon is done that is not an entry, and opens no index.
LEMMA DaemonAfter ==
  ASSUME NEW t \in Task, NEW s, s # <<>>,
         Outside(s) \/ (HasRole(t) /\ InRole(s, Current(t))),
         Knows(t, "daemon", Head(s)), Head(s).op \notin {"mark", "roles", "spawn"},
         Head(s).op \in {"check", "link", "rename"} => Head(s).dir # Index,
         Head(s).op # "index"
  PROVE  Logged(t, Tail(s), <<>>)
<1> DEFINE r == Current(t)
           K(o) == Knows(t, "daemon", o)
<1>0. ASSUME NEW first, NEW rest, Left(Tail(s), first, rest), \A o \in first : K(o)
      PROVE  Logged(t, Tail(s), <<>>)
  <2>1. Tail(s) # <<>> /\ K(Head(Tail(s)))
    BY <1>0 DEF Left
  <2> QED BY <2>1 DEF Logged
<1>1. t.at \in Nat
  BY DeploymentAssumption DEF Task
<1>2. Index # Global /\ Index # Changes /\ Index \notin Role /\ Global # Changes
      /\ Global \notin Role /\ Changes \notin Role
  BY LogAssumption
<1>3. CASE Saving(s)
  <2>1. PICK b \in BOOLEAN : Left(s, {Do("save")}, ToIndex(b))
    BY <1>3 DEF Saving
  <2>2. Left(Tail(s), {Do("index")}, ToGlobal(b))
    BY <2>1, DaemonPops
  <2>3. NoEntries(t)
    BY <2>1, OpKinds DEF Left, Knows
  <2>4. K(Do("index"))
    BY <2>3, DaemonKnows
  <2> QED BY <1>0, <2>2, <2>4
<1>4. ~Indexing(s)
  BY OpKinds DEF Indexing, Left
<1>5. CASE Opening(s)
  <2>1. PICK b \in BOOLEAN : Left(s, Openings(Global), ToStart(b))
    BY <1>5 DEF Opening
  <2>2. Left(Tail(s), {Mark(Global, "DeploymentStart")}, AfterStart(b))
    BY <2>1, DaemonPops
  <2>3. Head(s).op \in {"check", "link", "rename"} /\ Head(s).dir = Global
    BY <2>1, OpKinds DEF Left
  <2>4. Ready(t, Global)
    BY <2>3 DEF Knows
  <2>5. Before(t, "DeploymentStart")
    BY <2>4 DEF Ready, Before
  <2>6. K(Mark(Global, "DeploymentStart"))
    BY <2>5, DaemonKnows
  <2> QED BY <1>0, <2>2, <2>6
<1>6. CASE Starting(s)
  <2>1. Head(s).op \in {"mark", "row"} /\ Head(s).dir = Global /\ Head(s).marker = "DeploymentStart"
    BY <1>6, OpKinds DEF Starting, Left
  <2>2. LastIs(t, Global, "DeploymentStart")
    BY <2>1 DEF Knows
  <2>3. CASE Left(Tail(s), {Rotating(Changes)}, ToChanges)
    <3>1. Ready(t, Changes)
      BY <1>2, <2>2 DEF Ready
    <3>2. K(Rotating(Changes))
      BY <3>1, DaemonKnows, OneOf
    <3> QED BY <1>0, <2>3, <3>2
  <2>4. CASE Left(Tail(s), {Do("roles")}, ToFinish)
    <3>1. LastIn(t, Between) /\ RankOf(LastOne) = 0
      BY <2>2, Ranks DEF LastIs, LastIn, Between, RankOf
    <3>2. BetweenRoles(t, 4 * t.at + 4)
      BY <1>1, <3>1 DEF BetweenRoles
    <3>3. K(Do("roles"))
      BY <3>2, DaemonKnows
    <3> QED BY <1>0, <2>4, <3>3
  <2> QED BY <1>6, <2>3, <2>4, DaemonPops
<1>7. CASE Comparing(s)
  <2>1. Left(Tail(s), {Mark(Changes, "DeploymentChanges")}, ToRoles)
    BY <1>7, DaemonPops
  <2>2. Head(s).op \in {"check", "link", "rename"} /\ Head(s).dir = Changes
    BY <1>7, OpKinds DEF Comparing, Left
  <2>3. Ready(t, Changes)
    BY <2>2 DEF Knows
  <2>4. Before(t, "DeploymentChanges")
    BY <2>3 DEF Ready, Before
  <2>5. K(Mark(Changes, "DeploymentChanges"))
    BY <2>4, DaemonKnows
  <2> QED BY <1>0, <2>1, <2>5
<1>8. CASE Noting(s)
  <2>1. Left(Tail(s), {Do("roles")}, ToFinish)
    BY <1>8, DaemonPops
  <2>2. Head(s).op \in {"mark", "row"} /\ Head(s).dir = Changes /\ Head(s).marker = "DeploymentChanges"
    BY <1>8, OpKinds DEF Noting, Left
  <2>3. LastIs(t, Changes, "DeploymentChanges")
    BY <2>2 DEF Knows
  <2>4. LastIn(t, Between) /\ RankOf(LastOne) = 1
    BY <2>3, Ranks DEF LastIs, LastIn, Between, RankOf
  <2>5. BetweenRoles(t, 4 * t.at + 4)
    BY <1>1, <2>4 DEF BetweenRoles
  <2>6. K(Do("roles"))
    BY <2>5, DaemonKnows
  <2> QED BY <1>0, <2>1, <2>6
<1>9. ~Choosing(s) /\ ~Spawning(s, r)
  BY OpKinds DEF Choosing, Spawning, Left
<1>10. CASE Finishing(s) \/ Dropping(s)
  <2>1. Left(Tail(s), {Do("backup")}, <<>>)
    BY <1>10, DaemonPops
  <2>2. Head(s).op = "row" /\ Head(s).marker \in Over
    BY <1>10, OpKinds DEF Finishing, Dropping, Left, Over
  <2>3. LastIn(t, Over)
    BY <2>2 DEF Knows, LastIs, LastIn
  <2>4. K(Do("backup"))
    BY <2>3, DaemonKnows, OpKinds
  <2> QED BY <1>0, <2>1, <2>4
<1>11. CASE BackingUp(s)
  <2>1. Head(s).op \in {"backup", "copy", "snapshot", "untmp", "prune"}
    BY <1>11, OpKinds DEF BackingUp, Linking, Left
  <2>2. LastIn(t, Over)
    BY <2>1 DEF Knows
  <2>3. Tail(s) = <<>> \/ Tail(s) = <<Do("prune")>>
    BY <1>11 DEF BackingUp, Linking, Left
  <2>4. Tail(s) # <<>> => Head(Tail(s)).op = "prune"
    <3>1. \A a : Head(<<a>>) = a
      OBVIOUS
    <3>2. PICK o : o = Do("prune")
      OBVIOUS
    <3>3. Head(<<o>>) = o /\ o.op = "prune"
      BY <3>1, <3>2, OpKinds
    <3>4. Tail(s) = <<>> \/ Tail(s) = <<o>>
      BY <2>3, <3>2
    <3> QED BY <3>3, <3>4, Zenon
  <2> QED BY <2>2, <2>4, DaemonKnows DEF Logged
<1>12. CASE HasRole(t) /\ InRole(s, r)
  <2>1. r \in Role /\ Place(r) = t.at
    BY <1>12, CurrentPlace
  <2>2. CASE RoleOpening(s, r)
    <3>1. Left(Tail(s), {Mark(r, "RoleStart")}, ToSpawn(r))
      BY <2>1, <2>2, RolePops
    <3>2. Head(s).op \in {"check", "link", "rename"} /\ Head(s).dir = r
      BY <2>2, OpKinds DEF RoleOpening, Left
    <3>3. Ready(t, r)
      BY <3>2 DEF Knows
    <3>4. Before(t, "RoleStart")
      BY <2>1, <3>3 DEF Ready, Before
    <3>5. K(Mark(r, "RoleStart"))
      BY <3>4, DaemonKnows
    <3> QED BY <1>0, <3>1, <3>5
  <2>3. CASE RoleStarting(s, r)
    <3>1. Left(Tail(s), {Do("spawn")}, ToRoleEnd(r))
      BY <2>1, <2>3, RolePops
    <3>2. Head(s).op = "row" /\ Head(s).dir = r /\ Head(s).marker = "RoleStart"
      BY <2>3, OpKinds DEF RoleStarting, Left
    <3>3. K(Do("spawn"))
      BY <3>2, DaemonKnows DEF Knows
    <3> QED BY <1>0, <3>1, <3>3
  <2>4. CASE RoleEnding(s, r) \/ RoleDropping(s, r)
    <3>1. Head(s).op = "row" /\ Head(s).dir = r /\ Head(s).marker = "RoleFinish"
      BY <2>4, OpKinds DEF RoleEnding, RoleDropping, Left
    <3>2. LastIs(t, r, "RoleFinish")
      BY <3>1 DEF Knows
    <3>3. CASE RoleEnding(s, r)
      <4>1. Left(Tail(s), {Do("roles")}, ToFinish)
        BY <2>1, <3>3, RolePops
      <4>2. LastIn(t, Between) /\ RankOf(LastOne) = 4 * t.at + 3
        BY <2>1, <3>2, Ranks DEF LastIs, LastIn, Between, RankOf
      <4>3. BetweenRoles(t, 4 * t.at + 4)
        BY <1>1, <4>2 DEF BetweenRoles
      <4>4. K(Do("roles"))
        BY <4>3, DaemonKnows
      <4> QED BY <1>0, <4>1, <4>4
    <3>4. CASE RoleDropping(s, r)
      <4>1. Left(Tail(s), {Mark(Global, "DeploymentError")}, ToBackup)
        BY <2>1, <3>4, RolePops
      <4>2. Before(t, "DeploymentError")
        BY <3>2 DEF Before, LastIs
      <4>3. K(Mark(Global, "DeploymentError"))
        BY <4>2, DaemonKnows
      <4> QED BY <1>0, <4>1, <4>3
    <3> QED BY <2>4, <3>3, <3>4
  <2> QED BY <1>9, <1>12, <2>2, <2>3, <2>4 DEF InRole
<1> QED BY <1>3, <1>4, <1>5, <1>6, <1>7, <1>8, <1>9, <1>10, <1>11, <1>12 DEF Outside

LEMMA RenderKnows ==
  ASSUME NEW t, files["render"][Index] = Today
  PROVE  /\ LastIs(t, Current(t), "RoleStart") =>
              /\ \A d : Knows(t, "render", Keeping(d))
              /\ Knows(t, "render", Do("templates")) /\ \A d : Knows(t, "render", Mark(d, "ActionStart"))
         /\ LastIs(t, Current(t), "ActionStart") =>
              /\ Knows(t, "render", Do("pitch")) /\ Knows(t, "render", Do("condition"))
              /\ \A i : Knows(t, "render", Split(i)) /\ Knows(t, "render", FlushOf(i))
              /\ \A d : Knows(t, "render", Mark(d, "ActionFinish"))
         /\ LastIs(t, Current(t), "ActionFinish") =>
              Knows(t, "render", Do("exit")) /\ Knows(t, "render", Do("fail"))
<1>1. ASSUME LastIs(t, Current(t), "RoleStart"), NEW d
      PROVE  /\ Knows(t, "render", Keeping(d)) /\ Knows(t, "render", Do("templates"))
             /\ Knows(t, "render", Mark(d, "ActionStart"))
  <2>1. Keeping(d).op = "check"
    BY DEF Keeping, CheckLog
  <2>2. Mark(d, "ActionStart").op = "mark" /\ Mark(d, "ActionStart").marker = "ActionStart"
    BY DEF Mark
  <2>3. Before(t, "ActionStart")
    BY <1>1 DEF Before
  <2>4. Knows(t, "render", Keeping(d))
    BY <1>1, <2>1 DEF Knows
  <2>5. Knows(t, "render", Do("templates"))
    BY <1>1, OpKinds DEF Knows
  <2>6. Knows(t, "render", Mark(d, "ActionStart"))
    BY <2>2, <2>3 DEF Knows
  <2> QED BY <2>4, <2>5, <2>6
<1>2. ASSUME LastIs(t, Current(t), "ActionStart"), NEW o,
             o.op \in {"pitch", "split", "flush", "clean", "condition"}
      PROVE  Knows(t, "render", o)
  BY <1>2 DEF Knows
<1>3. ASSUME LastIs(t, Current(t), "ActionStart"), NEW d
      PROVE  Knows(t, "render", Mark(d, "ActionFinish"))
  <2>1. Mark(d, "ActionFinish").op = "mark" /\ Mark(d, "ActionFinish").marker = "ActionFinish"
    BY DEF Mark
  <2>2. Before(t, "ActionFinish")
    BY <1>3 DEF Before
  <2> QED BY <2>1, <2>2 DEF Knows
<1>4. ASSUME LastIs(t, Current(t), "ActionFinish")
      PROVE  Knows(t, "render", Do("exit")) /\ Knows(t, "render", Do("fail"))
  BY <1>4, OpKinds DEF Knows
<1> QED BY <1>1, <1>2, <1>3, <1>4, OpKinds

\* The same for the renderer; s is what is left to the daemon.
LEMMA RenderAfter ==
  ASSUME NEW t \in Task, HasRole(t), NEW x \in Seq(Op), x # <<>>,
         RenderAt(x, Current(t), Len(Secs(t))), Len(Secs(t)) \in Nat,
         Knows(t, "render", Head(x)), Head(x).op \notin {"mark", "latest", "exit", "fail"}
  PROVE  Tail(x) # <<>> /\ Knows(t, "render", Head(Tail(x)))
<1> DEFINE r == Current(t)
           n == Len(Secs(t))
<1>0. ASSUME NEW first, NEW rest, Left(Tail(x), first, rest), \A o \in first : Knows(t, "render", o)
      PROVE  Tail(x) # <<>> /\ Knows(t, "render", Head(Tail(x)))
  BY <1>0 DEF Left
<1>1. r \in Role
  BY Roles
<1>2. files["render"][Index] = Today
  BY DEF Knows
<1>3. /\ LastIs(t, r, "RoleStart") => /\ Knows(t, "render", Keeping(Global)) /\ Knows(t, "render", Keeping(r))
                                      /\ Knows(t, "render", Do("templates"))
                                      /\ Knows(t, "render", Mark(r, "ActionStart"))
      /\ LastIs(t, r, "ActionStart") => /\ Knows(t, "render", Do("pitch")) /\ Knows(t, "render", Do("condition"))
                                        /\ \A i : Knows(t, "render", Split(i)) /\ Knows(t, "render", FlushOf(i))
                                        /\ Knows(t, "render", Mark(r, "ActionFinish"))
      /\ LastIs(t, r, "ActionFinish") => Knows(t, "render", Do("exit")) /\ Knows(t, "render", Do("fail"))
  BY <1>1, <1>2, RenderKnows
<1>4. CASE Opens(x, r)
  <2>1. Head(x).op \in {"check", "link", "rename", "templates"}
    BY <1>1, <1>4, Apart
  <2>2. LastIs(t, r, "RoleStart")
    BY <2>1 DEF Knows
  <2>3. \/ Left(Tail(x), {Keeping(r)}, ToTemplates(r)) \/ Left(Tail(x), {Do("templates")}, ToAction(r))
        \/ Left(Tail(x), {Mark(r, "ActionStart")}, ToPitch(r))
    <3>1. ~Left(x, {Do("latest")}, ToLogs(r))
      BY OpKinds DEF Left
    <3> QED BY <1>1, <1>4, <3>1, RenderPops DEF Opens
  <2> QED BY <1>0, <1>3, <2>2, <2>3
<1>5. CASE Starts(x, r)
  <2>1. Head(x).op = "row" /\ Head(x).marker = "ActionStart" /\ Head(x).dir = r
    BY <1>5, OpKinds DEF Starts, Left
  <2>2. LastIs(t, r, "ActionStart")
    BY <2>1 DEF Knows
  <2>3. Left(Tail(x), {Do("pitch")}, ToSplit(1, r))
    BY <1>1, <1>5, RenderPops DEF Pitching
  <2> QED BY <1>0, <1>3, <2>2, <2>3
<1>6. CASE Pitching(x, r) \/ Changing(x, r, n)
  <2>1. Head(x).op \in {"pitch", "split", "flush", "clean", "condition"}
    BY <1>1, <1>6, Apart
  <2>2. LastIs(t, r, "ActionStart")
    BY <2>1 DEF Knows
  <2>3. CASE Pitching(x, r)
    <3>1. Left(Tail(x), {Split(1)}, ToCondition(r))
      BY <1>1, <2>3, RenderPops
    <3>2. Knows(t, "render", Split(1))
      BY <1>3, <2>2
    <3> QED BY <1>0, <3>1, <3>2
  <2>4. CASE Flushing(x, r, n)
    <3>1. PICK i \in 1 .. n : Left(x, {FlushOf(i)}, ToSplit(i + 1, r))
      BY <2>4 DEF Flushing
    <3>2. PICK k \in Nat : k = i + 1
      OBVIOUS
    <3>3. Tail(x) = ToSplit(k, r)
      BY <3>1, <3>2 DEF Left
    <3>4. Left(Tail(x), {Split(k)}, ToCondition(r))
      BY <1>1, <3>3, RenderRests
    <3> QED BY <1>0, <1>3, <2>2, <3>4
  <2>5. CASE Cleaning(x, r, n)
    <3>1. Deciding(Tail(x), r) \/ Ending(Tail(x), r, n)
      BY <1>1, <2>5, RenderPops
    <3> QED BY <1>0, <1>3, <2>2, <3>1 DEF Deciding, Ending
  <2>6. CASE Ending(x, r, n) \/ Splitting(x, r, n)
    <3>1. Deciding(Tail(x), r)
      BY <1>1, <2>6, RenderPops
    <3> QED BY <1>0, <1>3, <2>2, <3>1 DEF Deciding
  <2>7. CASE Deciding(x, r)
    <3>1. Left(Tail(x), {Mark(r, "ActionFinish")}, ToExit)
      BY <1>1, <2>7, RenderPops
    <3> QED BY <1>0, <1>3, <2>2, <3>1
  <2> QED BY <1>6, <2>3, <2>4, <2>5, <2>6, <2>7 DEF Changing
<1>7. CASE Finishes(x, r) \/ Fails(x, r)
  <2>1. Head(x).op = "row" /\ Head(x).marker = "ActionFinish" /\ Head(x).dir = r
    BY <1>7, OpKinds DEF Finishes, Fails, Left
  <2>2. LastIs(t, r, "ActionFinish")
    BY <2>1 DEF Knows
  <2>3. Exiting(Tail(x)) \/ Failing(Tail(x))
    BY <1>1, <1>7, RenderPops
  <2> QED BY <1>0, <1>3, <2>2, <2>3 DEF Exiting, Failing
<1>8. ~Exiting(x) /\ ~Failing(x)
  BY OpKinds DEF Exiting, Failing, Left
<1> QED BY <1>4, <1>5, <1>6, <1>7, <1>8 DEF RenderAt

\* Whenever the renderer ends, the daemon can end the role.
LEMMA RenderEnds ==
  ASSUME NEW t \in Task, HasRole(t), NEW x \in Seq(Op), x # <<>>,
         RenderAt(x, Current(t), Len(Secs(t))), Len(Secs(t)) \in Nat,
         Knows(t, "render", Head(x)), NEW s, Left(s, {Mark(Current(t), "RoleFinish")}, ToRoles)
  PROVE  Logged(t, s, <<>>)
<1> DEFINE r == Current(t)
           n == Len(Secs(t))
<1>1. r \in Role
  BY Roles
<1>2. ASSUME NEW m \in {"RoleStart", "ActionStart", "ActionFinish"}, LastIs(t, r, m)
      PROVE  Logged(t, s, <<>>)
  <2>1. Before(t, "RoleFinish")
    BY <1>2 DEF Before, LastIs, LastIn
  <2>2. Knows(t, "daemon", Mark(r, "RoleFinish"))
    BY <2>1, DaemonKnows
  <2> QED BY <2>2 DEF Logged, Left
<1>3. CASE Opens(x, r)
  <2>1. Head(x).op \in {"latest", "check", "link", "rename", "templates"}
    BY <1>1, <1>3, Apart
  <2>2. LastIs(t, r, "RoleStart")
    BY <2>1 DEF Knows
  <2> QED BY <1>2, <2>2
<1>4. CASE Starts(x, r)
  <2>1. Head(x).op \in {"mark", "row"} /\ Head(x).marker = "ActionStart" /\ Head(x).dir = r
    BY <1>4, OpKinds DEF Starts, Left
  <2>2. LastIs(t, r, "RoleStart") \/ LastIs(t, r, "ActionStart")
    BY <2>1 DEF Knows, Before
  <2> QED BY <1>2, <2>2
<1>5. CASE Pitching(x, r) \/ Changing(x, r, n)
  <2>1. Head(x).op \in {"pitch", "split", "flush", "clean", "condition"}
    BY <1>1, <1>5, Apart
  <2>2. LastIs(t, r, "ActionStart")
    BY <2>1 DEF Knows
  <2> QED BY <1>2, <2>2
<1>6. CASE Finishes(x, r) \/ Fails(x, r)
  <2>1. Head(x).op \in {"mark", "row"} /\ Head(x).marker = "ActionFinish" /\ Head(x).dir = r
    BY <1>6, OpKinds DEF Finishes, Fails, Left
  <2>2. LastIs(t, r, "ActionStart") \/ LastIs(t, r, "ActionFinish")
    BY <2>1 DEF Knows, Before
  <2> QED BY <1>2, <2>2
<1>7. CASE Exiting(x) \/ Failing(x)
  <2>1. Head(x).op \in {"exit", "fail"}
    BY <1>1, <1>7, Apart
  <2>2. LastIs(t, r, "ActionFinish")
    BY <2>1 DEF Knows
  <2> QED BY <1>2, <2>2
<1> QED BY <1>3, <1>4, <1>5, <1>6, <1>7 DEF RenderAt

\* The rests have no rows: those come with their entries.
LEMMA OpenedNext ==
  ASSUME NEW t \in Task, NEW s, s # <<>>, Outside(s) \/ (HasRole(t) /\ InRole(s, Current(t))),
         Tail(s) # <<>>
  PROVE  Head(Tail(s)).op # "row"
<1> DEFINE r == Current(t)
<1>0. ASSUME NEW first, NEW rest, Left(Tail(s), first, rest), \A o \in first : o.op # "row"
      PROVE  Head(Tail(s)).op # "row"
  BY <1>0 DEF Left
<1>1. \A d, m : Mark(d, m).op = "mark" /\ Rotating(d).op = "check"
  BY DEF Mark, Rotating, CheckLog
<1>2. CASE Saving(s) \/ Indexing(s) \/ Opening(s)
  <2>1. Head(Tail(s)) \in {Do("index"), Rotating(Global), Mark(Global, "DeploymentStart")}
    BY <1>2, DaemonPops DEF Saving, Indexing, Opening, Left
  <2> QED BY <1>1, <2>1, OpKinds
<1>3. CASE Starting(s)
  BY <1>0, <1>1, <1>3, DaemonPops, OpKinds
<1>4. CASE Comparing(s) \/ Noting(s) \/ Choosing(s)
  BY <1>0, <1>1, <1>4, DaemonPops, OpKinds
<1>5. CASE Finishing(s) \/ Dropping(s)
  BY <1>0, <1>5, DaemonPops, OpKinds
<1>6. CASE BackingUp(s)
  <2>1. Tail(s) = <<Do("prune")>>
    BY <1>6 DEF BackingUp, Linking, Left
  <2>2. \A a : Head(<<a>>) = a
    OBVIOUS
  <2>3. PICK o : o = Do("prune")
    OBVIOUS
  <2>4. Head(Tail(s)) = o /\ o.op = "prune"
    BY <2>1, <2>2, <2>3, OpKinds
  <2> QED BY <2>4
<1>7. CASE HasRole(t) /\ InRole(s, r)
  <2>1. r \in Role
    BY <1>7, Roles
  <2>2. CASE RoleOpening(s, r) \/ RoleStarting(s, r) \/ Spawning(s, r)
    <3>1. Head(Tail(s)) \in {Mark(r, "RoleStart"), Do("spawn"), Mark(r, "RoleFinish")}
      BY <2>1, <2>2, RolePops DEF Left
    <3> QED BY <1>1, <3>1, OpKinds
  <2>3. CASE RoleEnding(s, r) \/ RoleDropping(s, r)
    <3>1. Head(Tail(s)) \in {Do("roles"), Mark(Global, "DeploymentError")}
      BY <2>1, <2>3, RolePops DEF Left
    <3> QED BY <1>1, <3>1, OpKinds
  <2> QED BY <1>7, <2>2, <2>3 DEF InRole
<1> QED BY <1>2, <1>3, <1>4, <1>5, <1>6, <1>7 DEF Outside

LEMMA RenderOpenedNext ==
  ASSUME NEW r \in Role, NEW n \in Nat, NEW x \in Seq(Op), x # <<>>, RenderAt(x, r, n), Tail(x) # <<>>
  PROVE  Head(Tail(x)).op # "row"
<1>0. ASSUME NEW first, NEW rest, Left(Tail(x), first, rest), \A o \in first : o.op # "row"
      PROVE  Head(Tail(x)).op # "row"
  BY <1>0 DEF Left
<1>1. \A d, m : Mark(d, m).op = "mark" /\ Keeping(d).op = "check"
  BY DEF Mark, Keeping, CheckLog
<1>2. CASE Opens(x, r)
  <2>1. Head(Tail(x)) \in {Keeping(Global), Keeping(r), Do("templates"), Mark(r, "ActionStart")}
    BY <1>2, RenderPops DEF Opens, Left
  <2> QED BY <1>1, <2>1, OpKinds
<1>3. CASE Starts(x, r)
  <2>1. Pitching(Tail(x), r)
    BY <1>3, RenderPops
  <2> QED BY <2>1, OpKinds DEF Pitching, Left
<1>4. CASE Pitching(x, r)
  <2>1. Left(Tail(x), {Split(1)}, ToCondition(r))
    BY <1>4, RenderPops
  <2> QED BY <1>0, <2>1, OpKinds
<1>5. CASE Changing(x, r, n)
  <2>1. CASE Flushing(x, r, n)
    <3>1. PICK i \in 1 .. n : Left(x, {FlushOf(i)}, ToSplit(i + 1, r))
      BY <2>1 DEF Flushing
    <3>2. PICK k \in Nat : k = i + 1
      OBVIOUS
    <3>3. Left(Tail(x), {Split(k)}, ToCondition(r))
      BY <3>1, <3>2, RenderRests DEF Left
    <3> QED BY <1>0, <3>3, OpKinds
  <2>2. CASE Cleaning(x, r, n)
    <3>1. Deciding(Tail(x), r) \/ Ending(Tail(x), r, n)
      BY <2>2, RenderPops
    <3> QED BY <1>0, <3>1, OpKinds DEF Deciding, Ending
  <2>3. CASE Ending(x, r, n) \/ Splitting(x, r, n)
    <3>1. Deciding(Tail(x), r)
      BY <2>3, RenderPops
    <3> QED BY <1>0, <3>1, OpKinds DEF Deciding
  <2>4. CASE Deciding(x, r)
    <3>1. Head(Tail(x)) = Mark(r, "ActionFinish")
      BY <2>4, RenderPops DEF Left
    <3> QED BY <1>1, <3>1
  <2> QED BY <1>5, <2>1, <2>2, <2>3, <2>4 DEF Changing
<1>6. CASE Finishes(x, r) \/ Fails(x, r)
  <2>1. Exiting(Tail(x)) \/ Failing(Tail(x))
    BY <1>6, RenderPops
  <2> QED BY <2>1, OpKinds DEF Exiting, Failing, Left
<1>7. CASE Exiting(x) \/ Failing(x)
  BY <1>7, RenderPops
<1> QED BY <1>2, <1>3, <1>4, <1>5, <1>6, <1>7 DEF RenderAt

-----------------------------------------------------------------------------
(* The logs are opened.                                                    *)

LEMMA IndexKept ==
  ASSUME IndexInv, UNCHANGED <<index, logs, last_id>>, crashed \subseteq crashed',
         \A t \in task : \/ t.id \in crashed' \/ \E u \in task' : u.id = t.id
                         \/ LastIn(t, Over) /\ Today \in Segment
                            /\ Len(index[Today]) \in DOMAIN index[Today]
  PROVE  IndexInv'
<1>1. EntryIds' /\ EntryDirs' /\ OneIndex' /\ Nested'
  BY DEF IndexInv, EntryIds, EntryDirs, OneIndex, Nested, Follows
<1>2. Sorted'
  BY DEF IndexInv, Sorted, Precedes, RankOf
<1>3. RowsHaveEntries'
  BY DEF IndexInv, RowsHaveEntries, EntryOf
<1>4. Closed'
  <2> SUFFICES ASSUME NEW id \in 1 .. last_id
               PROVE  \/ id \in crashed' \/ \E t \in task' : t.id = id
                      \/ \E s \in Segment : \E i \in DOMAIN index[s] :
                           index[s][i].id = id /\ index[s][i].marker \in Over
    BY DEF Closed
  <2>1. ASSUME NEW t \in task, t.id = id, LastIn(t, Over), Today \in Segment,
               Len(index[Today]) \in DOMAIN index[Today]
        PROVE  \E s \in Segment : \E i \in DOMAIN index[s] :
                 index[s][i].id = id /\ index[s][i].marker \in Over
    BY <2>1 DEF LastIn, LastOne
  <2> QED BY <2>1 DEF IndexInv, Closed
<1> QED BY <1>1, <1>2, <1>3, <1>4 DEF IndexInv

\* The usual case: the deployment is still there.
LEMMA IndexStays ==
  ASSUME IndexInv, UNCHANGED <<index, logs, last_id, crashed, task>>
  PROVE  IndexInv'
BY IndexKept

LEMMA TheTask ==
  ASSUME TypeInv, LogInv, NEW t \in task
  PROVE  /\ t \in Task /\ task = {t} /\ t.id = last_id /\ ControlOf(t)
         /\ Logged(t, ops["daemon"], ops["render"]) /\ IndexInv
         /\ ops \in [Writer -> Seq(Op)]
BY DEF TypeInv, DeployTypes, Control, LogInv

LEMMA OpeningPlace ==
  ASSUME TypeInv, NEW t \in task, NEW w \in Writer, ops[w] # <<>>,
         Head(ops[w]).op \in {"check", "link", "rename", "index"},
         w = "daemon" => ops["render"] = <<>>
  PROVE  /\ w = "render" => Head(ops[w]).op # "index" /\ Head(ops[w]).dir # Index
         /\ w = "daemon" /\ (Head(ops[w]).op = "index" \/ Head(ops[w]).dir = Index)
              => Indexing(ops["daemon"])
<1>1. ops \in [Writer -> Seq(Op)] /\ t \in Task /\ ControlOf(t)
  BY DEF TypeInv, DeployTypes, Control
<1>2. Index # Global /\ Index # Changes /\ Index \notin Role
  BY LogAssumption
<1>3. CASE w = "render"
  <2>1. HasRole(t) /\ Current(t) \in Role /\ RenderAt(ops["render"], Current(t), Len(Secs(t)))
        /\ Len(Secs(t)) \in Nat
    BY <1>3, RenderPlace
  <2>2. Opens(ops["render"], Current(t))
    BY <1>1, <1>3, <2>1, Apart DEF RenderAt
  <2>3. Head(ops["render"]) \in Openings(Global) \cup Openings(Current(t))
    BY <1>3, <2>2, OpKinds DEF Opens, Left
  <2>4. Head(ops["render"]).dir \in {Global, Current(t)} /\ Head(ops["render"]).op # "index"
    BY <2>3, OpKinds
  <2> QED BY <1>2, <1>3, <2>1, <2>4
<1>4. CASE w = "daemon"
  <2> DEFINE s == ops["daemon"]
  <2>1. ~Saving(s) /\ ~Starting(s) /\ ~Noting(s) /\ ~Choosing(s) /\ ~Finishing(s) /\ ~Dropping(s)
    BY <1>4, OpKinds DEF Saving, Starting, Noting, Choosing, Finishing, Dropping, Left
  <2>2. ~BackingUp(s)
    BY <1>4, OpKinds DEF BackingUp, Linking, Left
  <2>3. Opening(s) \/ Comparing(s) => Head(s).op # "index" /\ Head(s).dir # Index
    BY <1>2, OpKinds DEF Opening, Comparing, Left
  <2>4. ASSUME HasRole(t), InRole(s, Current(t)) PROVE Head(s).op # "index" /\ Head(s).dir # Index
    <3>1. Current(t) \in Role
      BY <1>1, <2>4, Roles
    <3>2. RoleOpening(s, Current(t))
      BY <1>4, <2>4, OpKinds DEF InRole, RoleStarting, Spawning, RoleEnding, RoleDropping, Left
    <3> QED BY <1>2, <3>1, <3>2, OpKinds DEF RoleOpening, Left
  <2> QED BY <1>1, <1>4, <2>1, <2>2, <2>3, <2>4 DEF ControlOf, Outside
<1> QED BY <1>3, <1>4 DEF Writer

\* Other logs than the index are opened.
LEMMA LogOpened ==
  ASSUME TypeInv, LogInv, NEW t \in task, NEW w \in Writer,
         ChecksLog(w) \/ OpensSegment(w) \/ Renames(w), Head(ops[w]).dir # Index
  PROVE  LogInv'
<1> DEFINE o == Head(ops[w])
<1>1. /\ t \in Task /\ task = {t} /\ ControlOf(t) /\ Logged(t, ops["daemon"], ops["render"])
      /\ IndexInv /\ ops \in [Writer -> Seq(Op)]
  BY TheTask
<1>2. /\ ops[w] # <<>> /\ (w = "daemon" => ops["render"] = <<>>)
      /\ o.op \in {"check", "link", "rename"}
  BY DEF ChecksLog, OpensSegment, Renames, At
<1>3. PICK s \in Seq(Op) : ops' = [ops EXCEPT ![w] = s] /\ (s = Tail(ops[w]) \/ Stays(ops[w], s))
  BY LogSteps DEF TypeInv, LogAction
<1>4. /\ UNCHANGED <<index, logs, task, last_id, crashed>> /\ latest'[Index] = latest[Index]
      /\ \A x \in Writer : files'[x][Index] = files[x][Index]
  <2>1. UNCHANGED <<index, logs, task, last_id, crashed>>
    BY DEF ChecksLog, OpensSegment, Renames, taskVars
  <2>2. UNCHANGED files \/ \E s1 : Open(w, o.dir, s1)
    BY DEF ChecksLog, OpensSegment, Renames
  <2>3. \A x \in Writer : files'[x][Index] = files[x][Index]
    <3>1. files \in [Writer -> [Dir -> Segment]] /\ o.dir # Index /\ Index \in Dir
      BY Dirs1 DEF TypeInv, LogTypes
    <3>2. ASSUME NEW d, d # Index, NEW s1, files' = [files EXCEPT ![w][d] = s1]
          PROVE  \A x \in Writer : files'[x][Index] = files[x][Index]
      BY <3>1, <3>2
    <3> QED BY <2>2, <3>1, <3>2 DEF Open
  <2>4. latest'[Index] = latest[Index]
    BY Dirs1 DEF ChecksLog, OpensSegment, Renames, rename, TypeInv, LogTypes
  <2> QED BY <2>1, <2>3, <2>4
<1>5. SameIndex
  BY <1>4 DEF SameIndex, Writer
<1>6. IndexInv'
  BY <1>1, <1>4, IndexStays
<1>7. CASE w = "daemon"
  <2>1. Knows(t, "daemon", Head(ops["daemon"]))
    BY <1>1, <1>2, <1>7 DEF Logged
  <2>2. Logged(t, s, <<>>)
    <3>1. CASE s = Tail(ops["daemon"])
      BY <1>1, <1>2, <1>7, <2>1, <3>1, DaemonAfter DEF ControlOf
    <3>2. CASE Stays(ops["daemon"], s)
      <4>1. Knows(t, "daemon", Head(s))
        BY <1>2, <1>7, <2>1, <3>2, KnowsStays
      <4> QED BY <3>2, <4>1 DEF Logged, Stays
    <3> QED BY <1>3, <1>7, <3>1, <3>2
  <2>3. s # <<>> => Head(s).op # "row"
    <3>1. CASE s = Tail(ops["daemon"])
      BY <1>1, <1>2, <1>7, <3>1, OpenedNext DEF ControlOf
    <3>2. CASE Stays(ops["daemon"], s)
      BY <1>2, <1>7, <3>2, OpKinds DEF Stays
    <3> QED BY <1>3, <1>7, <3>1, <3>2
  <2>4. Logged(t, s, <<>>)'
    BY <1>5, <2>2, <2>3, LoggedKept
  <2>5. ops'["daemon"] = s /\ ops'["render"] = <<>>
    BY <1>1, <1>2, <1>3, <1>7 DEF Writer
  <2> QED BY <1>1, <1>4, <1>6, <2>4, <2>5 DEF LogInv, Logged
<1>8. CASE w = "render"
  <2>1. Knows(t, "render", Head(ops["render"]))
    BY <1>1, <1>2, <1>8 DEF Logged
  <2>2. /\ HasRole(t) /\ RenderAt(ops["render"], Current(t), Len(Secs(t)))
        /\ Len(Secs(t)) \in Nat /\ Current(t) \in Role
    BY <1>2, <1>8, RenderPlace
  <2>3. s # <<>> /\ Knows(t, "render", Head(s))
    <3>1. CASE s = Tail(ops["render"])
      BY <1>1, <1>2, <1>8, <2>1, <2>2, <3>1, RenderAfter
    <3>2. CASE Stays(ops["render"], s)
      <4>1. Knows(t, "render", Head(s))
        BY <1>2, <1>8, <2>1, <3>2, KnowsStays
      <4> QED BY <3>2, <4>1 DEF Stays
    <3> QED BY <1>3, <1>8, <3>1, <3>2
  <2>4. Head(s).op # "row"
    <3>1. CASE s = Tail(ops["render"])
      <4>1. ops["render"] \in Seq(Op)
        BY <1>1, <1>8
      <4> QED BY <1>2, <1>8, <2>2, <2>3, <3>1, <4>1, RenderOpenedNext
    <3>2. CASE Stays(ops["render"], s)
      BY <1>2, <1>8, <3>2, OpKinds DEF Stays
    <3> QED BY <1>3, <1>8, <3>1, <3>2
  <2>5. Knows(t, "render", Head(s))'
    BY <1>4, <1>5, <2>3, <2>4, KnowsKept DEF Writer
  <2>6. ops'["render"] = s
    BY <1>1, <1>3, <1>8 DEF Writer
  <2> QED BY <1>1, <1>4, <1>6, <2>3, <2>5, <2>6 DEF LogInv, Logged
<1> QED BY <1>7, <1>8 DEF Writer

\* The daemon opens the index of the day.
LEMMA IndexOpened ==
  ASSUME TypeInv, LogInv, NEW t \in task,
         \/ OpensIndex("daemon") /\ At("daemon", "index")
         \/ /\ ChecksLog("daemon") \/ OpensSegment("daemon") \/ Renames("daemon")
            /\ Head(ops["daemon"]).dir = Index
  PROVE  LogInv'
<1> DEFINE s == ops["daemon"]
           o == Head(ops["daemon"])
<1>1. /\ t \in Task /\ task = {t} /\ ControlOf(t) /\ Logged(t, ops["daemon"], ops["render"])
      /\ IndexInv /\ ops \in [Writer -> Seq(Op)]
  BY TheTask
<1>2. s # <<>> /\ ops["render"] = <<>> /\ o.op \in {"index", "check", "link", "rename"}
      /\ (o.op # "index" => o.dir = Index) /\ "daemon" \in Writer
  BY DEF ChecksLog, OpensSegment, Renames, At, Writer
<1>3. Indexing(s)
  BY <1>2, OpeningPlace
<1>4. NoEntries(t)
  BY <1>1, <1>2 DEF Logged, Knows, Ready
<1>5. UNCHANGED <<index, logs, task, last_id, crashed>>
  BY DEF OpensIndex, ChecksLog, OpensSegment, Renames, taskVars
<1>6. NoEntries(t)'
  BY <1>4, <1>5 DEF NoEntries
<1>7. IndexInv'
  BY <1>1, <1>5, IndexStays
<1>8. now \in Segment /\ Index \in Dir /\ files \in [Writer -> [Dir -> Segment]]
      /\ latest \in [Dir -> SUBSET Segment]
  BY Dirs1 DEF TypeInv, LogTypes
<1>9. o \in Op /\ Tail(s) \in Seq(Op)
  BY <1>1, <1>2, Continuing
<1>10. ASSUME Continue("daemon", <<>>), IsToday' PROVE LogInv'
  <2>1. ops' = [ops EXCEPT !["daemon"] = Tail(s)]
    BY <1>1, <1>2, <1>10, Continuing
  <2>2. ops'["daemon"] = Tail(s) /\ ops'["render"] = <<>>
    BY <1>1, <1>2, <2>1 DEF Writer
  <2>3. PICK b \in BOOLEAN : Left(Tail(s), {Rotating(Global)}, ToStart(b))
    BY <1>2, <1>3, DaemonPops DEF Indexing
  <2>4. Rotating(Global).op = "check" /\ Rotating(Global).dir = Global
    BY DEF Rotating, CheckLog
  <2>5. Ready(t, Global)'
    BY <1>6, <1>10, LogAssumption DEF Ready
  <2>6. Knows(t, "daemon", Rotating(Global))'
    BY <2>4, <2>5 DEF Knows
  <2> QED BY <1>1, <1>5, <1>7, <2>2, <2>3, <2>6 DEF LogInv, Logged, Left
<1>11. ASSUME NEW p \in Op, p.op \in {"link", "rename"}, p.dir = Index, Continue("daemon", <<p>>)
       PROVE  LogInv'
  <2>1. ops' = [ops EXCEPT !["daemon"] = Then(p, Tail(s))]
    BY <1>1, <1>2, <1>11, Continuing
  <2>2. Then(p, Tail(s)) \in Seq(Op) /\ Then(p, Tail(s)) # <<>> /\ Head(Then(p, Tail(s))) = p
    BY <1>9, Conses
  <2>3. ops'["daemon"] = Then(p, Tail(s)) /\ ops'["render"] = <<>>
    BY <1>1, <1>2, <2>1 DEF Writer
  <2>4. Ready(t, Index)'
    BY <1>6, LogAssumption DEF Ready
  <2>5. Knows(t, "daemon", p)'
    BY <1>11, <2>4 DEF Knows
  <2> QED BY <1>1, <1>5, <1>7, <2>2, <2>3, <2>5 DEF LogInv, Logged
<1>12. ASSUME NEW x \in Segment
       PROVE  /\ Link(Index, x) \in Op /\ Link(Index, x).op = "link" /\ Link(Index, x).dir = Index
              /\ Renaming(Index, x) \in Op /\ Renaming(Index, x).op = "rename"
              /\ Renaming(Index, x).dir = Index
  BY <1>8, Ops DEF Link, Renaming
<1>13. ASSUME NEW x, Open("daemon", Index, x) PROVE Today' = x
  BY <1>8, <1>13 DEF Open, Today, Writer
<1>14. CASE OpensIndex("daemon") /\ At("daemon", "index")
  <2>1. Continue("daemon", <<Link(Index, now)>>)
    BY <1>14 DEF OpensIndex, At
  <2> QED BY <1>8, <1>11, <1>12, <2>1
<1>15. CASE ChecksLog("daemon") /\ o.dir = Index
  <2>1. UNCHANGED latest
    BY <1>15 DEF ChecksLog
  <2>2. CASE \E x \in Segment : GoesOn(Index, o.rotate, x) /\ Open("daemon", Index, x) /\ Continue("daemon", <<>>)
    <3>1. PICK x \in Segment : GoesOn(Index, o.rotate, x) /\ Open("daemon", Index, x)
                               /\ Continue("daemon", <<>>)
      BY <2>2
    <3>2. IsToday'
      BY <1>13, <2>1, <3>1 DEF IsToday, IsLinked, GoesOn
    <3> QED BY <1>10, <3>1, <3>2
  <2>3. CASE Continue("daemon", <<Link(Index, now)>>)
    BY <1>8, <1>11, <1>12, <2>3
  <2> QED BY <1>15, <2>2, <2>3 DEF ChecksLog
<1>16. CASE OpensSegment("daemon") /\ o.dir = Index
  <2>1. UNCHANGED latest
    BY <1>16 DEF OpensSegment
  <2>2. o.op = "link"
    BY <1>16 DEF OpensSegment, At
  <2>3. o.segment \in Segment
    BY <1>9, <2>2, OpForms
  <2>4. CASE IsLinked(Index, o.segment) /\ Open("daemon", Index, o.segment) /\ Continue("daemon", <<>>)
    <3>1. IsToday'
      BY <1>13, <2>1, <2>4 DEF IsToday, IsLinked
    <3> QED BY <1>10, <2>4, <3>1
  <2>5. CASE Continue("daemon", <<Renaming(Index, o.segment)>>)
    BY <1>11, <1>12, <2>3, <2>5
  <2> QED BY <1>16, <2>4, <2>5 DEF OpensSegment
<1>17. CASE Renames("daemon") /\ o.dir = Index
  <2>1. rename(Index, o.segment) /\ Open("daemon", Index, o.segment) /\ Continue("daemon", <<>>)
    BY <1>17 DEF Renames
  <2>2. latest'[Index] = {o.segment}
    BY <1>8, <2>1 DEF rename
  <2>3. IsToday'
    BY <1>13, <2>1, <2>2 DEF IsToday, IsLinked
  <2> QED BY <1>10, <2>1, <2>3
<1> QED BY <1>14, <1>15, <1>16, <1>17

\* The renderer opens the latest index: it is that of the daemon.
LEMMA LatestOpened ==
  ASSUME TypeInv, LogInv, NEW t \in task, OpensIndex("render"), At("render", "latest")
  PROVE  LogInv'
<1> DEFINE x == ops["render"]
           r == Current(t)
<1>1. /\ t \in Task /\ task = {t} /\ Logged(t, ops["daemon"], ops["render"])
      /\ IndexInv /\ ops \in [Writer -> Seq(Op)] /\ "render" \in Writer
  BY TheTask DEF Writer
<1>2. x # <<>> /\ Head(x).op = "latest"
  BY DEF At
<1>3. r \in Role /\ RenderAt(x, r, Len(Secs(t))) /\ Len(Secs(t)) \in Nat
  BY <1>2, RenderPlace
<1>4. Left(x, {Do("latest")}, ToLogs(r))
  BY <1>2, <1>3, RenderPlaceOf
<1>5. LastIs(t, r, "RoleStart")
  BY <1>1, <1>2 DEF Logged, Knows
<1>6. PICK y \in latest[Index] : Open("render", Index, y)
  BY DEF OpensIndex, At
<1>7. UNCHANGED <<latest, index, logs, task, last_id, crashed>> /\ Continue("render", <<>>)
  BY DEF OpensIndex, At, taskVars
<1>8. y = Today
  BY <1>5, <1>6 DEF LastIs, LastIn, IsToday, IsLinked
<1>9. files \in [Writer -> [Dir -> Segment]] /\ Index \in Dir
  BY Dirs1 DEF TypeInv, LogTypes
<1>10. files'["daemon"] = files["daemon"] /\ files'["render"][Index] = Today
  BY <1>6, <1>8, <1>9 DEF Open, Writer
<1>11. SameIndex /\ Today' = Today
  BY <1>7, <1>10 DEF SameIndex, Today
<1>12. LastIs(t, r, "RoleStart")'
  BY <1>5, <1>7, <1>11, LastKept DEF LastIs, LastOne
<1>13. Left(Tail(x), {Keeping(Global)}, ToRole(r))
  BY <1>2, <1>3, <1>4, RenderPops
<1>14. Keeping(Global).op = "check"
  BY DEF Keeping, CheckLog
<1>15. Knows(t, "render", Keeping(Global))'
  BY <1>10, <1>11, <1>12, <1>14 DEF Knows, Current
<1>16. ops'["render"] = Tail(x)
  BY <1>1, <1>2, <1>7, Continuing
<1>17. IndexInv'
  BY <1>1, <1>7, IndexStays
<1> QED BY <1>1, <1>7, <1>13, <1>15, <1>16, <1>17 DEF LogInv, Logged, Left

-----------------------------------------------------------------------------
(* The logs are written.                                                   *)

LEMMA EntryWritten ==
  ASSUME TypeInv, LogInv, NEW t \in task, NEW w \in Writer, WritesEntry(w, t)
  PROVE  LogInv'
<1>0. PICK o : o = Head(ops[w])
  OBVIOUS
<1> DEFINE d == o.dir
           m == o.marker
           e == [id |-> t.id, marker |-> m, dir |-> d, segment |-> files[w][d],
                 pos |-> Len(logs[d][files[w][d]])]
<1>1. /\ t \in Task /\ task = {t} /\ Logged(t, ops["daemon"], ops["render"])
      /\ IndexInv /\ ops \in [Writer -> Seq(Op)]
  BY TheTask
<1>2. /\ ops[w] # <<>> /\ (w = "daemon" => ops["render"] = <<>>) /\ o.op = "mark"
      /\ index_entry(w, t.id, d, m) /\ Continue(w, <<RowOf(d, m)>>)
      /\ UNCHANGED <<latest, logs, files, task, last_id, crashed>>
  BY <1>0 DEF WritesEntry, At, taskVars
<1>3. /\ o \in Op /\ d \in LogDir /\ m \in Marker /\ IsDirOf(d, m, Current(t))
      /\ m \in RoleMarker => HasRole(t)
  BY <1>0, <1>2, MarkPlace
<1>4. Knows(t, w, o)
  BY <1>0, <1>1, <1>2 DEF Logged, Writer
<1>5. Before(t, m) /\ files[w][Index] = Today /\ (w = "render" => files["render"][Index] = Today)
  BY <1>2, <1>4 DEF Knows, Today, Writer
<1>6. t.id \in Id /\ files[w][d] \in Segment /\ Len(logs[d][files[w][d]]) \in Nat
  BY <1>1, <1>3, LogReads DEF Task, TypeInv
<1>7. e \in Entry
  BY <1>3, <1>6 DEF Entry
<1>8. Appends(Today, e)
  BY <1>2, <1>5 DEF index_entry, Appends
<1>9. m \in RoleMarker => d \in Role
  BY <1>1, <1>3, Roles DEF IsDirOf
<1>10. /\ IsToday
       /\ \/ NoEntries(t) /\ m = "DeploymentStart"
          \/ /\ LastIn(t, Marker) /\ RankOf(LastOne) < Rank(d, m)
             /\ \A f : f.dir = d /\ f.marker = m => Follows(LastOne, f)
  BY <1>1, <1>3, <1>5, BeforeEntry DEF IndexInv
<1>11. e.id = t.id /\ e.marker = m /\ e.dir = d /\ RankOf(e) = Rank(d, m)
       /\ e.segment = files[w][d] /\ e.pos = Len(logs[d][files[w][d]])
  BY DEF RankOf
<1>12. Today \in Segment
  BY TodayTypes
<1> HIDE DEF e
<1>13. IndexInv'
  BY <1>1, <1>2, <1>7, <1>8, <1>9, <1>10, <1>11, EntryKept
<1>14. Today' = Today /\ (IsToday => IsToday')
  BY <1>2 DEF Today, IsToday, IsLinked
<1>15. PICK n \in Nat : n = Len(index'[Today]) /\ index'[Today] # <<>> /\ index'[Today][n] = e
  <2>1. PICK y \in Segment : y = Today
    BY <1>12
  <2>2. PICK f \in Entry : f = e
    BY <1>7
  <2>3. Appends(y, f)
    BY <1>8, <2>1, <2>2
  <2>4. PICK n \in Nat : n = Len(index'[y]) /\ index'[y] # <<>> /\ index'[y][n] = f
    BY <2>3, Appended
  <2> QED BY <2>1, <2>2, <2>4
<1>16. LastOne' = e
  BY <1>14, <1>15 DEF LastOne
<1>17. LastIs(t, d, m)'
  BY <1>10, <1>11, <1>14, <1>15, <1>16 DEF LastIs, LastIn
<1>18. RowOf(d, m) \in Op /\ RowOf(d, m).op = "row" /\ RowOf(d, m).dir = d /\ RowOf(d, m).marker = m
  BY <1>3, Ops DEF RowOf
<1> DEFINE row == RowOf(d, m)
<1> HIDE DEF row
<1>19. Awaits(w, row)'
  BY <1>2, <1>11, <1>16, <1>18 DEF Awaits, row
<1>20. w = "render" => files'["render"][Index] = Today'
  BY <1>2, <1>5, <1>14
<1>21. row.op = "row" /\ row.dir = d /\ row.marker = m
  BY <1>18 DEF row
<1>22. Knows(t, w, row)'
  BY <1>17, <1>19, <1>20, <1>21 DEF Knows
<1>23. Tail(ops[w]) \in Seq(Op) /\ ops' = [ops EXCEPT ![w] = Then(row, Tail(ops[w]))]
  BY <1>1, <1>2, <1>18, Continuing DEF row
<1>24. Then(row, Tail(ops[w])) # <<>> /\ Head(Then(row, Tail(ops[w]))) = row
  BY <1>18, <1>23, Conses DEF row
<1>25. ops'[w] = Then(row, Tail(ops[w])) /\ (w = "daemon" => ops'["render"] = <<>>)
  BY <1>1, <1>2, <1>23 DEF Writer
<1>26. Logged(t, ops["daemon"], ops["render"])'
  <2>1. CASE w = "daemon"
    BY <1>22, <1>24, <1>25, <2>1 DEF Logged
  <2>2. CASE w = "render"
    BY <1>22, <1>24, <1>25, <2>2 DEF Logged
  <2> QED BY <2>1, <2>2 DEF Writer
<1> QED BY <1>1, <1>2, <1>13, <1>26 DEF LogInv

\* The row is where the last entry says.
LEMMA RowWritten ==
  ASSUME TypeInv, LogInv, NEW t \in task, NEW w \in Writer, WritesRow(w, t)
  PROVE  LogInv'
<1> DEFINE o == Head(ops[w])
           d == o.dir
           m == o.marker
           x == files[w][d]
           row == [id |-> t.id, marker |-> m]
<1>1. /\ t \in Task /\ task = {t} /\ Logged(t, ops["daemon"], ops["render"]) /\ ControlOf(t)
      /\ IndexInv /\ ops \in [Writer -> Seq(Op)]
  BY TheTask
<1>2. /\ ops[w] # <<>> /\ (w = "daemon" => ops["render"] = <<>>) /\ o.op = "row"
      /\ log_row(w, t.id, d, m) \/ UNCHANGED logs
      /\ Continue(w, <<>>)
      /\ UNCHANGED <<latest, index, files, task, last_id, crashed>>
  BY DEF WritesRow, At, taskVars
<1>3. o \in Op /\ d \in LogDir /\ m \in Marker
  BY <1>2, MarkPlace
<1>4. Knows(t, w, o)
  BY <1>1, <1>2 DEF Logged, Writer
<1>5. LastIs(t, d, m) /\ Awaits(w, o)
  BY <1>2, <1>4 DEF Knows
<1>6. SameIndex
  BY <1>2 DEF SameIndex
<1>7. RowsHaveEntries'
  <2>1. RowsHaveEntries
    BY <1>1 DEF IndexInv
  <2>2. CASE UNCHANGED logs
    BY <1>2, <2>1, <2>2 DEF RowsHaveEntries, EntryOf
  <2>3. CASE log_row(w, t.id, d, m)
    <3>1. x \in Segment /\ logs[d][x] \in Seq(Row) /\ Len(logs[d][x]) \in Nat
      BY <1>3, LogReads DEF TypeInv
    <3>2. logs \in [LogDir -> [Segment -> Seq(Row)]]
      BY DEF TypeInv, LogTypes
    <3>3. row \in Row
      BY <1>1, <1>3 DEF Row, Task
    <3>4. row.id = t.id /\ row.marker = m
      OBVIOUS
    <3>5. logs' = [logs EXCEPT ![d] = [logs[d] EXCEPT ![x] = Append(logs[d][x], row)]]
      BY <2>3 DEF log_row
    <3> HIDE DEF x, row, d, m
    <3>6. logs'[d][x] = Append(logs[d][x], row)
          /\ \A c \in LogDir : \A y \in Segment : c # d \/ y # x => logs'[c][y] = logs[c][y]
      BY <1>3, <3>1, <3>2, <3>5
    <3>7. ASSUME NEW j \in DOMAIN logs'[d][x]
          PROVE  \/ j \in DOMAIN logs[d][x] /\ logs'[d][x][j] = logs[d][x][j]
                 \/ logs'[d][x][j] = row /\ j - 1 = Len(logs[d][x])
      BY <3>1, <3>3, <3>6
    <3>8. LastOne \in Entry /\ Today \in Segment /\ Len(index[Today]) \in DOMAIN index[Today]
          /\ LastOne = index[Today][Len(index[Today])]
      BY <1>5, TodayTypes DEF LastIs, LastIn, LastOne
    <3>9. LastOne.id = t.id /\ LastOne.marker = m /\ LastOne.dir = d
          /\ LastOne.segment = x /\ LastOne.pos = Len(logs[d][x])
      BY <1>5 DEF LastIs, LastIn, Awaits, x, d, m
    <3> SUFFICES ASSUME NEW c \in LogDir, NEW y \in Segment, NEW j \in DOMAIN logs'[c][y]
                 PROVE  \E s \in Segment : \E i \in DOMAIN index[s] :
                          index[s][i] = [id |-> logs'[c][y][j].id, marker |-> logs'[c][y][j].marker,
                                         dir |-> c, segment |-> y, pos |-> j - 1]
      BY <1>2 DEF RowsHaveEntries, EntryOf
    <3>10. CASE j \in DOMAIN logs[c][y] /\ logs'[c][y][j] = logs[c][y][j]
      BY <2>1, <3>10 DEF RowsHaveEntries, EntryOf
    <3>11. CASE c = d /\ y = x /\ logs'[d][x][j] = row /\ j - 1 = Len(logs[d][x])
      <4>1. LastOne = [id |-> t.id, marker |-> m, dir |-> d, segment |-> x, pos |-> Len(logs[d][x])]
        BY <3>8, <3>9 DEF Entry
      <4> QED BY <3>4, <3>8, <3>11, <4>1
    <3> QED BY <3>6, <3>7, <3>10, <3>11
  <2> QED BY <1>2, <2>2, <2>3
<1>8. IndexInv'
  <2>1. EntryIds' /\ EntryDirs' /\ OneIndex' /\ Nested' /\ Closed'
    BY <1>1, <1>2 DEF IndexInv, EntryIds, EntryDirs, OneIndex, Nested, Follows, Closed
  <2>2. Sorted'
    BY <1>1, <1>2 DEF IndexInv, Sorted, Precedes, RankOf
  <2> QED BY <1>7, <2>1, <2>2 DEF IndexInv
<1>9. ops' = [ops EXCEPT ![w] = Tail(ops[w])] /\ Tail(ops[w]) \in Seq(Op)
  BY <1>1, <1>2, Continuing
<1>10. PICK s : s = Tail(ops[w])
  OBVIOUS
<1>11. CASE w = "daemon"
  <2>1. Logged(t, s, <<>>)
    BY <1>1, <1>2, <1>4, <1>11, <1>10, DaemonAfter DEF ControlOf
  <2>2. s # <<>> => Head(s).op # "row"
    BY <1>1, <1>2, <1>11, <1>10, OpenedNext DEF ControlOf
  <2>3. Logged(t, s, <<>>)'
    BY <1>6, <2>1, <2>2, LoggedKept
  <2>4. ops'["daemon"] = s /\ ops'["render"] = <<>>
    BY <1>1, <1>2, <1>9, <1>11, <1>10 DEF Writer
  <2> QED BY <1>1, <1>2, <1>8, <2>3, <2>4 DEF LogInv, Logged
<1>12. CASE w = "render"
  <2>1. /\ HasRole(t) /\ RenderAt(ops["render"], Current(t), Len(Secs(t)))
        /\ Len(Secs(t)) \in Nat /\ Current(t) \in Role /\ ops["render"] \in Seq(Op)
    BY <1>1, <1>2, <1>12, RenderPlace
  <2>2. s # <<>> /\ Knows(t, "render", Head(s))
    BY <1>1, <1>2, <1>4, <1>12, <1>10, <2>1, RenderAfter
  <2>3. Head(s).op # "row"
    BY <1>2, <1>12, <1>10, <2>1, <2>2, RenderOpenedNext
  <2>4. Knows(t, "render", Head(s))'
    BY <1>2, <1>6, <2>2, <2>3, KnowsKept
  <2>5. ops'["render"] = s
    BY <1>1, <1>9, <1>12, <1>10
  <2> QED BY <1>1, <1>2, <1>8, <2>2, <2>4, <2>5 DEF LogInv, Logged
<1> QED BY <1>11, <1>12 DEF Writer

LEMMA DaemonOps ==
  ASSUME NEW r, NEW s, s # <<>>, Outside(s) \/ InRole(s, r)
  PROVE  Head(s).op # "latest"
<1>1. CASE Saving(s) \/ Choosing(s) \/ Spawning(s, r)
  BY <1>1, OpKinds DEF Saving, Choosing, Spawning, Left
<1>2. CASE Indexing(s) \/ Opening(s) \/ Comparing(s) \/ RoleOpening(s, r)
  BY <1>2, OpKinds DEF Indexing, Opening, Comparing, RoleOpening, Left
<1>3. CASE Starting(s) \/ Noting(s) \/ Finishing(s) \/ Dropping(s)
  BY <1>3, OpKinds DEF Starting, Noting, Finishing, Dropping, Left
<1>4. CASE RoleStarting(s, r) \/ RoleEnding(s, r) \/ RoleDropping(s, r)
  BY <1>4, OpKinds DEF RoleStarting, RoleEnding, RoleDropping, Left
<1>5. CASE BackingUp(s)
  BY <1>5, OpKinds DEF BackingUp, Linking, Left
<1> QED BY <1>1, <1>2, <1>3, <1>4, <1>5 DEF Outside, InRole

LEMMA LogActionLogged ==
  ASSUME TypeInv, LogInv, NEW t \in task, NEW w \in Writer, LogAction(w, t)
  PROVE  LogInv'
<1>1. CASE WritesEntry(w, t) \/ WritesRow(w, t)
  BY <1>1, EntryWritten, RowWritten
<1>2. CASE ChecksLog(w) \/ OpensSegment(w) \/ Renames(w)
  <2>1. /\ ops[w] # <<>> /\ (w = "daemon" => ops["render"] = <<>>)
        /\ Head(ops[w]).op \in {"check", "link", "rename"}
    BY <1>2 DEF ChecksLog, OpensSegment, Renames, At
  <2>2. CASE Head(ops[w]).dir # Index
    BY <1>2, <2>2, LogOpened
  <2>3. CASE Head(ops[w]).dir = Index
    <3>1. w = "daemon"
      BY <2>1, <2>3, OpeningPlace DEF Writer
    <3> QED BY <1>2, <2>3, <3>1, IndexOpened
  <2> QED BY <2>2, <2>3
<1>3. CASE OpensIndex(w)
  <2>1. CASE At(w, "index")
    <3>1. ops[w] # <<>> /\ (w = "daemon" => ops["render"] = <<>>) /\ Head(ops[w]).op = "index"
      BY <2>1 DEF At
    <3>2. w = "daemon"
      BY <3>1, OpeningPlace DEF Writer
    <3> QED BY <1>3, <2>1, <3>2, IndexOpened
  <2>2. CASE At(w, "latest")
    <3>1. ops[w] # <<>> /\ Head(ops[w]).op = "latest"
      BY <2>2 DEF At
    <3>2. w # "daemon"
      BY <3>1, TheTask, DaemonOps DEF ControlOf
    <3> QED BY <1>3, <2>2, <3>2, LatestOpened DEF Writer
  <2> QED BY <1>3, <2>1, <2>2 DEF OpensIndex
<1> QED BY <1>1, <1>2, <1>3 DEF LogAction

-----------------------------------------------------------------------------
(* The other steps write nothing to the logs.                              *)

\* The deployment t goes on as u; s and x are left.
LEMMA GoesOnAs ==
  ASSUME LogInv, UNCHANGED <<latest, index, logs, files, last_id, crashed>>,
         NEW t, NEW u, task = {t}, task' = {u}, u.id = t.id,
         NEW s, NEW x, ops'["daemon"] = s, ops'["render"] = x, Logged(u, s, x)
  PROVE  LogInv'
<1>1. SameIndex
  BY DEF SameIndex
<1>2. Logged(u, s, x)'
  BY <1>1, LoggedKept
<1>3. IndexInv'
  BY IndexKept DEF LogInv
<1> QED BY <1>2, <1>3 DEF LogInv, Logged

LEMMA StartTaskLogged ==
  ASSUME TypeInv, LogInv, NEW h \in Hash, StartTask(h)
  PROVE  LogInv'
<1>1. PICK t : t = [id |-> last_id + 1, hash |-> h, at |-> 0]
  OBVIOUS
<1>2. /\ UNCHANGED <<logVars, crashed>> /\ task = {} /\ task' = {t} /\ last_id' = last_id + 1
      /\ ops' = [ops EXCEPT !["daemon"] = Program(prev # {h})]
  BY <1>1 DEF StartTask
<1>3. UNCHANGED <<latest, index, logs, files, crashed>> /\ t.id = last_id + 1 /\ last_id \in Nat
  BY <1>1, <1>2, LogAssumption DEF logVars, TypeInv, DeployTypes
<1>4. IndexInv
  BY DEF LogInv
<1>5. ASSUME NEW s \in Segment, NEW i \in DOMAIN index[s]
      PROVE  index[s][i].id \in Nat /\ index[s][i].id <= last_id
  <2>1. index[s][i] \in Entry
    BY DEF TypeInv, LogTypes
  <2> QED BY <1>4, <2>1, LogAssumption DEF Entry, IndexInv, EntryIds
<1>6. EntryIds'
  BY <1>2, <1>3, <1>5 DEF EntryIds
<1>7. EntryDirs' /\ OneIndex' /\ Nested'
  BY <1>3, <1>4 DEF IndexInv, EntryDirs, OneIndex, Nested, Follows
<1>8. Sorted'
  BY <1>3, <1>4 DEF IndexInv, Sorted, Precedes, RankOf
<1>9. RowsHaveEntries'
  BY <1>3, <1>4 DEF IndexInv, RowsHaveEntries, EntryOf
<1>10. Closed'
  <2> SUFFICES ASSUME NEW id \in 1 .. last_id'
               PROVE  \/ id \in crashed \/ \E u \in task' : u.id = id
                      \/ \E s \in Segment : \E i \in DOMAIN index[s] :
                           index[s][i].id = id /\ index[s][i].marker \in Over
    BY <1>3 DEF Closed
  <2>1. id = last_id + 1 \/ id \in 1 .. last_id
    BY <1>2, <1>3
  <2> QED BY <1>2, <1>3, <1>4, <2>1 DEF IndexInv, Closed
<1>11. IndexInv'
  BY <1>6, <1>7, <1>8, <1>9, <1>10 DEF IndexInv
<1>12. NoEntries(t)'
  <2>1. \A s \in Segment : \A i \in DOMAIN index[s] : index[s][i].id # t.id
    BY <1>3, <1>5
  <2> QED BY <1>3, <2>1 DEF NoEntries
<1>13. PICK b \in BOOLEAN : b = (prev # {h})
  OBVIOUS
<1>14. PICK s \in Seq(Op) : s = Program(b) /\ s = Then(Do("save"), ToIndex(b))
  BY ProgramBegins
<1>15. PICK o \in Op : o = Do("save") /\ o.op = "save"
  BY Ops, OpKinds DEF Named
<1>16. s # <<>> /\ Head(s) = o
  BY <1>14, <1>15, StartRests, Conses
<1>17. ops'["daemon"] = s /\ ops'["render"] = <<>>
  <2>1. ops \in [Writer -> Seq(Op)] /\ ops["render"] = <<>>
    BY <1>2 DEF TypeInv, DeployTypes, Writer
  <2>2. ops' = [ops EXCEPT !["daemon"] = s]
    BY <1>2, <1>13, <1>14
  <2> QED BY <2>1, <2>2 DEF Writer
<1>18. Knows(t, "daemon", o)'
  BY <1>12, <1>15 DEF Knows
<1> QED BY <1>2, <1>11, <1>16, <1>17, <1>18 DEF LogInv, Logged

LEMMA EndTaskLogged ==
  ASSUME TypeInv, LogInv, NEW t \in task, EndTask(t)
  PROVE  LogInv'
<1>1. task = {t} /\ IndexInv /\ Logged(t, ops["daemon"], ops["render"])
  BY TheTask
<1>2. /\ UNCHANGED <<index, logs, last_id, crashed>> /\ task' = {}
      /\ ops["daemon"] = <<>> /\ ops["render"] = <<>>
  BY DEF EndTask, logVars
<1>3. LastIn(t, Over)
  BY <1>1, <1>2 DEF Logged
<1>4. Today \in Segment /\ Len(index[Today]) \in DOMAIN index[Today]
  BY <1>3, TodayTypes DEF LastIn
<1>5. IndexInv'
  BY <1>1, <1>2, <1>3, <1>4, IndexKept
<1> QED BY <1>2, <1>5 DEF LogInv

\* The next role, if there is one, comes after the last one in the order.
LEMMA NextRoleLogged ==
  ASSUME TypeInv, LogInv, NEW t \in task, NextRole(t)
  PROVE  LogInv'
<1>1. t \in Task /\ task = {t} /\ IndexInv /\ Logged(t, ops["daemon"], ops["render"])
  BY TheTask
<1>2. UNCHANGED <<latest, index, logs, files, last_id, crashed>> /\ Head(ops["daemon"]).op = "roles"
  BY DEF NextRole, logVars, At
<1>3. ops["daemon"] # <<>> /\ ops["render"] = <<>> /\ ops'["render"] = <<>>
  BY Choices
<1>4. BetweenRoles(t, 4 * t.at + 4)
  BY <1>1, <1>2, <1>3 DEF Logged, Knows
<1>5. PICK i \in t.at + 1 .. Len(RoleOrder) + 1 :
         /\ task' = {[t EXCEPT !.at = i]} /\ [t EXCEPT !.at = i] \in Task
         /\ \/ i = Len(RoleOrder) + 1 /\ Finishing(ops'["daemon"])
               /\ Head(ops'["daemon"]) = Mark(Global, "DeploymentFinish")
            \/ /\ i <= Len(RoleOrder) /\ HasRole([t EXCEPT !.at = i])
               /\ RoleOrder[i] = Current([t EXCEPT !.at = i])
               /\ RoleOpening(ops'["daemon"], RoleOrder[i])
               /\ Head(ops'["daemon"]) = Rotating(RoleOrder[i])
  BY Choices
<1>6. PICK u \in Task : u = [t EXCEPT !.at = i] /\ u.at = i /\ u.id = t.id
  BY <1>1, <1>5 DEF Task
<1>7. LastIn(u, Between) /\ RankOf(LastOne) < 4 * u.at
  <2>1. LastIn(t, Between) /\ RankOf(LastOne) < 4 * t.at + 4
    BY <1>4 DEF BetweenRoles
  <2>2. LastOne \in Entry /\ (LastOne.marker \in RoleMarker => LastOne.dir \in Role)
    BY <1>1, <2>1, TodayTypes DEF LastIn, IndexInv, EntryDirs, LastOne
  <2>3. PICK q \in 0 .. 4 * Len(RoleOrder) + 4 : q = RankOf(LastOne)
    BY <2>2, RankBounds DEF RankOf, Entry
  <2>4. t.at \in Nat /\ i \in Nat /\ t.at + 1 <= i
    BY <1>1, <1>5, Places DEF Task
  <2>5. q < 4 * t.at + 4
    BY <2>1, <2>3
  <2>6. 4 * t.at + 4 <= 4 * i
    BY <2>4
  <2>7. q \in Int
    OBVIOUS
  <2>8. q < 4 * i
    <3>1. PICK a \in Nat : a = t.at
      BY <2>4
    <3>2. q < 4 * a + 4 /\ 4 * a + 4 <= 4 * i
      BY <2>5, <2>6, <3>1
    <3> QED BY <2>4, <2>7, <3>2
  <2> QED BY <1>6, <2>1, <2>3, <2>8 DEF LastIn
<1>8. PICK s : s = ops'["daemon"] /\ s # <<>>
  BY <1>5 DEF Finishing, RoleOpening, Left
<1>9. Logged(u, s, <<>>)
  <2>1. CASE Head(s) = Mark(Global, "DeploymentFinish")
    <3>1. Before(u, "DeploymentFinish")
      BY <1>7 DEF Before
    <3>2. Knows(u, "daemon", Mark(Global, "DeploymentFinish"))
      BY <3>1, DaemonKnows
    <3> QED BY <1>8, <2>1, <3>2 DEF Logged
  <2>2. CASE HasRole(u) /\ Head(s) = Rotating(RoleOrder[i]) /\ RoleOrder[i] = Current(u)
    <3>1. RoleOrder[i] \in Role
      BY <2>2, Roles
    <3>2. Ready(u, RoleOrder[i])
      BY <1>7, <3>1, LogAssumption DEF Ready, BetweenRoles
    <3>3. Knows(u, "daemon", Rotating(RoleOrder[i]))
      BY <3>2, DaemonKnows, OneOf
    <3> QED BY <1>8, <2>2, <3>3 DEF Logged
  <2> QED BY <1>5, <1>6, <1>8, <2>1, <2>2
<1> QED BY <1>1, <1>2, <1>3, <1>5, <1>6, <1>8, <1>9, GoesOnAs

LEMMA SpawnLogged ==
  ASSUME TypeInv, LogInv, NEW t \in task, Abort(t) \/ StartRender(t)
  PROVE  LogInv'
<1> DEFINE r == Current(t)
<1>1. task = {t} /\ Logged(t, ops["daemon"], ops["render"])
  BY TheTask
<1>2. /\ UNCHANGED <<latest, index, logs, files, task, last_id, crashed>>
      /\ ops["daemon"] # <<>> /\ Head(ops["daemon"]).op = "spawn" /\ ops["render"] = <<>>
  BY DEF Abort, StartRender, logVars, taskVars, At
<1>3. LastIs(t, r, "RoleStart")
  BY <1>1, <1>2 DEF Logged, Knows
<1>4. Before(t, "RoleFinish")
  BY <1>3 DEF Before, LastIs, LastIn
<1>5. Knows(t, "daemon", Mark(r, "RoleFinish"))
  BY <1>4, DaemonKnows
<1>6. PICK s : s = ops'["daemon"]
  OBVIOUS
<1>7. PICK x : x = ops'["render"]
  OBVIOUS
<1>8. s # <<>> /\ Head(s) = Mark(r, "RoleFinish")
      /\ (x = <<>> \/ (x # <<>> /\ Head(x) = Do("latest")))
  <2>1. CASE Abort(t)
    BY <1>6, <1>7, <2>1, AbortTypes DEF RoleDropping, Left
  <2>2. CASE StartRender(t)
    BY <1>6, <1>7, <2>2, StartRenderTypes DEF Left
  <2> QED BY <2>1, <2>2
<1>9. Knows(t, "render", Do("latest"))
  BY <1>3, OpKinds DEF Knows
<1>10. Logged(t, s, x)
  BY <1>5, <1>8, <1>9 DEF Logged
<1> QED BY <1>1, <1>2, <1>6, <1>7, <1>10, GoesOnAs

\* The renderer goes on, or a command of it fails.
LEMMA RendererLogged ==
  ASSUME TypeInv, LogInv, NEW t \in task,
         \/ RendersTemplates \/ Pitches(t) \/ Splits(t) \/ Flushes(t) \/ Cleans(t)
         \/ Conditions(t) \/ CommandFails(t)
  PROVE  LogInv'
<1> DEFINE r == Current(t)
<1>1. task = {t} /\ t \in Task /\ Logged(t, ops["daemon"], ops["render"])
  BY TheTask
<1>2. /\ UNCHANGED <<latest, index, logs, files, task, last_id, crashed>>
      /\ ops["render"] # <<>>
      /\ Head(ops["render"]).op \in {"templates", "pitch", "split", "flush", "clean", "condition"}
  BY DEF RendersTemplates, Pitches, Splits, Flushes, Cleans, Conditions, CommandFails,
         logVars, taskVars, At
<1>3. /\ HasRole(t) /\ RenderAt(ops["render"], r, Len(Secs(t))) /\ Len(Secs(t)) \in Nat
      /\ ops \in [Writer -> Seq(Op)] /\ ops["render"] \in Seq(Op) /\ "render" \in Writer
  BY <1>2, RenderPlace DEF Writer
<1>4. Knows(t, "render", Head(ops["render"])) /\ files["render"][Index] = Today
  BY <1>1, <1>2 DEF Logged, Knows
<1>5. PICK s : s = ops["daemon"]
  OBVIOUS
<1>6. ASSUME NEW x, x # <<>>, Knows(t, "render", Head(x)), ops'["render"] = x,
             ops'["daemon"] = ops["daemon"]
      PROVE  LogInv'
  <2>1. Logged(t, s, x)
    BY <1>6 DEF Logged
  <2> QED BY <1>1, <1>2, <1>5, <1>6, <2>1, GoesOnAs
<1>7. CASE Continue("render", <<>>)
  <2>1. ops' = [ops EXCEPT !["render"] = Tail(ops["render"])]
    BY <1>2, <1>3, <1>7, Continuing
  <2>2. PICK x : x = Tail(ops["render"])
    OBVIOUS
  <2>3. x # <<>> /\ Knows(t, "render", Head(x))
    BY <1>1, <1>2, <1>3, <1>4, <2>2, RenderAfter
  <2>4. ops'["render"] = x /\ ops'["daemon"] = ops["daemon"]
    BY <1>3, <2>1, <2>2 DEF Writer
  <2> QED BY <1>6, <2>3, <2>4
<1>8. CASE UNCHANGED ops
  <2>1. PICK x : x = ops["render"]
    OBVIOUS
  <2> QED BY <1>2, <1>4, <1>6, <1>8, <2>1
<1>9. CASE Splits(t)
  <2>1. LastIs(t, r, "ActionStart")
    <3>1. Head(ops["render"]).op = "split"
      BY <1>9 DEF Splits, At
    <3> QED BY <1>4, <3>1 DEF Knows
  <2>2. PICK x : x = ops'["render"]
    OBVIOUS
  <2>3. PICK i : \/ Cleaning(x, r, Len(Secs(t)))
                 \/ Left(x, {FlushOf(i)}, ToSplit(i + 1, r))
    BY <1>9, <2>2, SplitTypes
  <2>4. x # <<>> /\ Head(x) \in {Do("clean"), FlushOf(i)}
    BY <2>3 DEF Cleaning, Left
  <2>5. Head(x).op \in {"clean", "flush"}
    BY <2>4, OpKinds
  <2>6. Knows(t, "render", Head(x))
    BY <1>4, <2>1, <2>5 DEF Knows
  <2>7. ops'["daemon"] = ops["daemon"]
    <3>1. \E y : Continue("render", y)
      BY <1>9 DEF Splits
    <3>2. \E y : ops' = [ops EXCEPT !["render"] = y]
      BY <3>1 DEF Continue
    <3> QED BY <1>3, <3>2 DEF Writer
  <2> QED BY <1>6, <2>2, <2>4, <2>6, <2>7
<1>10. CASE CommandFails(t)
  <2>1. LastIs(t, r, "ActionStart")
    <3>1. Head(ops["render"]).op \in {"pitch", "split", "flush", "clean", "condition"}
      BY <1>10 DEF CommandFails, At
    <3> QED BY <1>4, <3>1 DEF Knows
  <2>2. PICK x : x = ops'["render"]
    OBVIOUS
  <2>3. x # <<>> /\ Head(x) = Mark(r, "ActionFinish")
    BY <1>10, <2>2, CommandFailsTypes DEF Fails, Left
  <2>4. Knows(t, "render", Mark(r, "ActionFinish"))
    BY <1>4, <2>1, RenderKnows
  <2>5. ops'["daemon"] = ops["daemon"]
    BY <1>3, <1>10 DEF CommandFails
  <2> QED BY <1>6, <2>2, <2>3, <2>4, <2>5
<1> QED BY <1>7, <1>8, <1>9, <1>10
        DEF RendersTemplates, Pitches, Flushes, Cleans, Conditions

\* The renderer ends, whatever it has got to.
LEMMA RenderEndLogged ==
  ASSUME TypeInv, LogInv, NEW t \in task, Exits(t) \/ RenderDies(t)
  PROVE  LogInv'
<1> DEFINE r == Current(t)
<1>1. task = {t} /\ t \in Task /\ Logged(t, ops["daemon"], ops["render"])
  BY TheTask
<1>2. UNCHANGED <<latest, index, logs, files, task, last_id, crashed>> /\ ops["render"] # <<>>
  BY DEF Exits, RenderDies, logVars, taskVars, At
<1>3. /\ HasRole(t) /\ RenderAt(ops["render"], r, Len(Secs(t))) /\ Len(Secs(t)) \in Nat
      /\ Left(ops["daemon"], {Mark(r, "RoleFinish")}, ToRoles) /\ r \in Role
      /\ ops \in [Writer -> Seq(Op)] /\ ops["render"] \in Seq(Op) /\ "render" \in Writer
  BY <1>2, RenderPlace DEF Writer
<1>4. Knows(t, "render", Head(ops["render"]))
  BY <1>1, <1>2 DEF Logged
<1>5. PICK s : s = ops["daemon"]
  OBVIOUS
<1>6. Logged(t, s, <<>>)
  BY <1>1, <1>2, <1>3, <1>4, <1>5, RenderEnds
<1>7. ops'["render"] = <<>> /\ ops'["daemon"] = s
  <2>1. CASE RenderDies(t)
    BY <1>5, <2>1, RenderDiesTypes
  <2>2. CASE Exits(t)
    <3>1. Exiting(ops["render"])
      BY <1>2, <1>3, <2>2, RenderPlaceOf DEF Exits, At
    <3>2. ops' = [ops EXCEPT !["render"] = <<>>]
      BY <1>2, <1>3, <2>2, <3>1, Continuing DEF Exits, Exiting, Left
    <3> QED BY <1>3, <1>5, <3>2 DEF Writer
  <2> QED BY <2>1, <2>2
<1> QED BY <1>1, <1>2, <1>6, <1>7, GoesOnAs

LEMMA BackupLogged ==
  ASSUME TypeInv, LogInv, NEW t \in task, Saves(t) \/ BackupAction
  PROVE  LogInv'
<1>1. task = {t} /\ t \in Task /\ Logged(t, ops["daemon"], ops["render"]) /\ ControlOf(t)
      /\ ops \in [Writer -> Seq(Op)]
  BY TheTask
<1>2. UNCHANGED <<latest, index, logs, files, task, last_id, crashed>>
  BY DEF Saves, BackupAction, BacksUp, Copies, Links, Removes, Prunes, logVars, taskVars
<1>3. CASE Saves(t)
  <2>1. ops["daemon"] # <<>> /\ ops["render"] = <<>> /\ Head(ops["daemon"]).op = "save"
        /\ Continue("daemon", <<>>) /\ "daemon" \in Writer
    BY <1>3 DEF Saves, At, Writer
  <2>2. ops' = [ops EXCEPT !["daemon"] = Tail(ops["daemon"])]
    BY <1>1, <2>1, Continuing
  <2>3. PICK s : s = Tail(ops["daemon"])
    OBVIOUS
  <2>4. Knows(t, "daemon", Head(ops["daemon"]))
    BY <1>1, <2>1 DEF Logged
  <2>5. Logged(t, s, <<>>)
    BY <1>1, <2>1, <2>3, <2>4, DaemonAfter DEF ControlOf
  <2>6. ops'["daemon"] = s /\ ops'["render"] = <<>>
    BY <1>1, <2>1, <2>2, <2>3 DEF Writer
  <2> QED BY <1>1, <1>2, <2>5, <2>6, GoesOnAs
<1>4. CASE BackupAction
  <2>1. LastIn(t, Over)
    BY <1>1, <1>4, BackupPlace DEF Logged, Knows
  <2>2. PICK s : s = ops'["daemon"]
    OBVIOUS
  <2>3. ops'["render"] = <<>> /\ (s = <<>> \/ BackingUp(s))
    BY <1>4, <2>2, BackupTypesStep
  <2>4. BackingUp(s) => s # <<>> /\ Head(s).op \in {"backup", "copy", "snapshot", "untmp", "prune"}
    BY OpKinds DEF BackingUp, Linking, Left
  <2>5. Logged(t, s, <<>>)
    BY <2>1, <2>3, <2>4, DaemonKnows DEF Logged
  <2> QED BY <1>1, <1>2, <2>2, <2>3, <2>5, GoesOnAs
<1> QED BY <1>3, <1>4

LEMMA CrashLogged ==
  ASSUME TypeInv, LogInv, Crash
  PROVE  LogInv'
<1>1. PICK t \in task : crashed' = crashed \cup {t.id}
  BY DEF Crash
<1>2. task = {t} /\ IndexInv
  BY TheTask
<1>3. UNCHANGED <<index, logs, last_id>> /\ task' = {}
  BY DEF Crash, logVars
<1>4. IndexInv'
  BY <1>1, <1>2, <1>3, IndexKept
<1> QED BY <1>3, <1>4 DEF LogInv

LEMMA LogKept == TypeInv /\ LogInv /\ [Next]_vars => LogInv'
<1> SUFFICES ASSUME TypeInv, LogInv, [Next]_vars PROVE LogInv'
  OBVIOUS
<1>1. CASE \E h \in Hash : StartTask(h)
  BY <1>1, StartTaskLogged
<1>2. CASE ApplyNext
  <2>1. PICK t \in task : \/ EndTask(t) \/ NextRole(t) \/ Abort(t) \/ StartRender(t)
                          \/ \E w \in Writer : LogAction(w, t)
                          \/ RendersTemplates \/ Pitches(t) \/ Splits(t) \/ Flushes(t) \/ Cleans(t)
                          \/ Saves(t) \/ BackupAction
                          \/ Conditions(t) \/ CommandFails(t) \/ Exits(t) \/ RenderDies(t)
    BY <1>2 DEF ApplyNext, LogAction, BackupAction
  <2>2. CASE EndTask(t) \/ NextRole(t) \/ Abort(t) \/ StartRender(t)
    BY <2>2, EndTaskLogged, NextRoleLogged, SpawnLogged
  <2>3. CASE \E w \in Writer : LogAction(w, t)
    BY <2>3, LogActionLogged
  <2>4. CASE RendersTemplates \/ Pitches(t) \/ Splits(t) \/ Flushes(t) \/ Cleans(t)
             \/ Conditions(t) \/ CommandFails(t)
    BY <2>4, RendererLogged
  <2>5. CASE Exits(t) \/ RenderDies(t)
    BY <2>5, RenderEndLogged
  <2>6. CASE Saves(t) \/ BackupAction
    BY <2>6, BackupLogged
  <2> QED BY <2>1, <2>2, <2>3, <2>4, <2>5, <2>6
<1>3. CASE Crash
  BY <1>3, CrashLogged
<1>4. CASE Tick \/ UNCHANGED vars
  <2>1. UNCHANGED <<latest, index, logs, files, ops, task, last_id, crashed>>
    BY <1>4 DEF Tick, vars, logVars, deployVars
  <2>2. IndexInv'
    BY <2>1, IndexStays DEF LogInv
  <2>3. ASSUME NEW t \in task PROVE LogInv'
    <3>1. task = {t} /\ Logged(t, ops["daemon"], ops["render"])
      BY TheTask
    <3>2. PICK s : s = ops["daemon"]
      OBVIOUS
    <3>3. PICK x : x = ops["render"]
      OBVIOUS
    <3> QED BY <2>1, <3>1, <3>2, <3>3, GoesOnAs
  <2>4. task = {} => LogInv'
    BY <2>1, <2>2 DEF LogInv
  <2> QED BY <2>3, <2>4
<1> QED BY <1>1, <1>2, <1>3, <1>4 DEF Next

LEMMA InitLogged == Init => LogInv
<1> SUFFICES ASSUME Init PROVE LogInv
  OBVIOUS
<1>1. /\ \A s \in Segment : DOMAIN index[s] = {}
      /\ \A d \in LogDir : \A s \in Segment : DOMAIN logs[d][s] = {}
  BY DEF Init, LogInit
<1>2. task = {} /\ last_id = 0
  BY DEF Init
<1>3. EntryIds /\ EntryDirs /\ OneIndex /\ Sorted /\ Nested /\ RowsHaveEntries
  BY <1>1 DEF EntryIds, EntryDirs, OneIndex, Sorted, Nested, RowsHaveEntries
<1>4. Closed
  BY <1>2 DEF Closed
<1> QED BY <1>2, <1>3, <1>4 DEF LogInv, IndexInv

LEMMA LogHolds == Spec => []LogInv
BY InitLogged, LogKept, TypesHold, PTL DEF Spec

-----------------------------------------------------------------------------
(* What the index says.                                                    *)

\* Entries of a deployment are told apart by their ranks.
LEMMA SameRank ==
  ASSUME TypeInv, IndexInv, NEW s \in Segment, NEW i \in DOMAIN index[s], NEW j \in DOMAIN index[s],
         index[s][i].id = index[s][j].id
  PROVE  /\ i \in Nat /\ j \in Nat
         /\ RankOf(index[s][i]) \in 0 .. 4 * Len(RoleOrder) + 4
         /\ i < j => RankOf(index[s][i]) < RankOf(index[s][j])
<1>1. index[s] \in Seq(Entry) /\ i \in Nat /\ j \in Nat
  BY DEF TypeInv, LogTypes
<1>2. index[s][i] \in Entry /\ index[s][i].id \in Nat
  <2>1. index[s][i] \in Entry
    BY <1>1
  <2> QED BY <2>1, LogAssumption DEF Entry
<1>3. RankOf(index[s][i]) \in 0 .. 4 * Len(RoleOrder) + 4
  BY <1>2, RankBounds DEF RankOf, Entry, IndexInv, EntryDirs
<1>4. i < j => Precedes(index[s][i], index[s][j])
  BY DEF IndexInv, Sorted
<1> QED BY <1>1, <1>2, <1>3, <1>4 DEF Precedes

LEMMA PointersTrue ==
  ASSUME TypeInv, IndexInv
  PROVE  PointersAreTrue
<1> SUFFICES ASSUME NEW s \in Segment, NEW i \in DOMAIN index[s],
                    NEW x \in Segment, NEW j \in DOMAIN logs[index[s][i].dir][x],
                    logs[index[s][i].dir][x][j]
                      = [id |-> index[s][i].id, marker |-> index[s][i].marker]
             PROVE  x = index[s][i].segment /\ j = index[s][i].pos + 1
  BY DEF PointersAreTrue
<1> DEFINE e == index[s][i]
<1>1. e \in Entry /\ e.dir \in LogDir
  <2>1. index[s] \in Seq(Entry)
    BY DEF TypeInv, LogTypes
  <2>2. e \in Entry
    BY <2>1
  <2> QED BY <2>2 DEF Entry
<1>2. PICK y \in Segment : \E k \in DOMAIN index[y] : index[y][k] = EntryOf(e.dir, x, j)
  BY <1>1 DEF IndexInv, RowsHaveEntries
<1>3. PICK k \in DOMAIN index[y] : index[y][k] = EntryOf(e.dir, x, j)
  BY <1>2
<1>4. /\ index[y][k].id = e.id /\ index[y][k].marker = e.marker /\ index[y][k].dir = e.dir
      /\ index[y][k].segment = x /\ index[y][k].pos = j - 1
  BY <1>3 DEF EntryOf
<1>5. y = s
  BY <1>4 DEF IndexInv, OneIndex
<1>6. RankOf(index[y][k]) = RankOf(e)
  BY <1>4 DEF RankOf
<1>7. k = i
  <2>1. /\ i \in Nat /\ k \in Nat /\ RankOf(e) \in 0 .. 4 * Len(RoleOrder) + 4
        /\ i < k => RankOf(e) < RankOf(index[s][k])
    BY <1>4, <1>5, SameRank
  <2>2. k < i => RankOf(index[s][k]) < RankOf(e)
    BY <1>4, <1>5, SameRank
  <2>3. PICK q \in Int : q = RankOf(e)
    BY <2>1
  <2> QED BY <1>5, <1>6, <2>1, <2>2, <2>3
<1>8. j \in Nat
  <2>1. PICK rows \in Seq(Row) : rows = logs[e.dir][x]
    BY <1>1 DEF TypeInv, LogTypes
  <2>2. j \in DOMAIN rows
    BY <2>1
  <2> QED BY <2>2
<1> QED BY <1>4, <1>5, <1>7, <1>8

LEMMA IndexWellFormed ==
  ASSUME TypeInv, IndexInv
  PROVE  IndexIsWellFormed
<1> SUFFICES ASSUME NEW id \in 1 .. last_id
             PROVE  \E s \in Segment :
                      LET entries == {i \in DOMAIN index[s] : index[s][i].id = id}
                          over    == id \notin crashed /\ \A t \in task : t.id # id
                      IN  /\ \A x \in Segment \ {s} : \A i \in DOMAIN index[x] : index[x][i].id # id
                          /\ \A i \in entries :
                               (\A j \in entries : i <= j) => index[s][i].marker = "DeploymentStart"
                          /\ \A i, j \in entries :
                               i < j /\ (\A k \in entries : k <= i \/ k >= j)
                                 => Follows(index[s][i], index[s][j])
                          /\ over => \E i \in entries :
                                       /\ \A j \in entries : j <= i
                                       /\ index[s][i].marker \in {"DeploymentFinish", "DeploymentError"}
  BY DEF IndexIsWellFormed
<1> DEFINE over == id \notin crashed /\ \A t \in task : t.id # id
<1>1. PICK s \in Segment : \/ \E i \in DOMAIN index[s] : index[s][i].id = id
                           \/ \A x \in Segment : \A i \in DOMAIN index[x] : index[x][i].id # id
  BY DEF TypeInv, LogTypes
<1> DEFINE entries == {i \in DOMAIN index[s] : index[s][i].id = id}
<1>2. \A x \in Segment \ {s} : \A i \in DOMAIN index[x] : index[x][i].id # id
  BY <1>1 DEF IndexInv, OneIndex
<1>3. ASSUME NEW i \in entries, i > 1, index[s][i - 1].id = index[s][i].id
      PROVE  i - 1 \in entries
  <2>1. index[s] \in Seq(Entry)
    BY DEF TypeInv, LogTypes
  <2> QED BY <1>3, <2>1
<1>4. \A i \in entries : i \in Nat
  BY DEF TypeInv, LogTypes
<1>5. ASSUME NEW i \in entries, \A j \in entries : i <= j
      PROVE  index[s][i].marker = "DeploymentStart"
  <2>1. CASE i > 1 /\ index[s][i - 1].id = index[s][i].id
    <3>1. i <= i - 1
      BY <1>3, <1>5, <2>1
    <3> QED BY <1>4, <3>1
  <2> QED BY <2>1 DEF IndexInv, Nested
<1>6. ASSUME NEW i \in entries, NEW j \in entries, i < j, \A k \in entries : k <= i \/ k >= j
      PROVE  Follows(index[s][i], index[s][j])
  <2>1. CASE index[s][j].marker = "DeploymentStart"
    <3>1. RankOf(index[s][j]) = 0
      BY <2>1, Ranks DEF RankOf
    <3>2. RankOf(index[s][i]) \in 0 .. 4 * Len(RoleOrder) + 4 /\ RankOf(index[s][i]) < RankOf(index[s][j])
      BY <1>6, SameRank
    <3> QED BY <3>1, <3>2
  <2>2. CASE j > 1 /\ index[s][j - 1].id = index[s][j].id /\ Follows(index[s][j - 1], index[s][j])
    <3>1. j - 1 \in entries
      BY <1>3, <2>2
    <3>2. j - 1 <= i \/ j - 1 >= j
      BY <1>6, <3>1
    <3>3. i = j - 1
      BY <1>4, <1>6, <3>2
    <3> QED BY <2>2, <3>3
  <2> QED BY <2>1, <2>2 DEF IndexInv, Nested
<1>7. ASSUME over
      PROVE  \E i \in entries : /\ \A j \in entries : j <= i
                                /\ index[s][i].marker \in {"DeploymentFinish", "DeploymentError"}
  <2>1. PICK x \in Segment : \E i \in DOMAIN index[x] : index[x][i].id = id /\ index[x][i].marker \in Over
    BY <1>7 DEF IndexInv, Closed
  <2>2. PICK i \in DOMAIN index[x] : index[x][i].id = id /\ index[x][i].marker \in Over
    BY <2>1
  <2>3. x = s
    BY <1>2, <2>2
  <2>4. i \in entries
    BY <2>2, <2>3
  <2>5. RankOf(index[s][i]) = 4 * Len(RoleOrder) + 4
    BY <2>2, <2>3, Ranks DEF RankOf
  <2>6. ASSUME NEW j \in entries PROVE j <= i
    <3>1. RankOf(index[s][j]) \in 0 .. 4 * Len(RoleOrder) + 4
      BY <2>4, SameRank
    <3>2. i < j => RankOf(index[s][i]) < RankOf(index[s][j])
      BY <2>4, SameRank
    <3>3. PICK q \in Nat : q = 4 * Len(RoleOrder) + 4
      BY Places
    <3>4. ~(i < j)
      BY <2>5, <3>1, <3>2, <3>3
    <3> QED BY <1>4, <2>4, <3>4
  <2> QED BY <2>2, <2>3, <2>4, <2>6 DEF Over
<1> QED BY <1>2, <1>5, <1>6, <1>7

\* An entry of the index leads to its row, whichever process has written it,
\* whatever was rotated in between and whoever died between an entry and its row:
\* Pointer is taken from the open file before the row is written (global_index_entry,
\* role_index_entry and changes_index_entry in indexed_log/src/lib.rs).
THEOREM DeploymentPointers == Spec => []PointersAreTrue
<1>1. TypeInv /\ LogInv => PointersAreTrue
  BY PointersTrue DEF LogInv
<1> QED BY <1>1, TypesHold, LogHolds, PTL

\* All entries of a deployment are in the index of one day; actions nest in roles,
\* and roles in the deployment, which is closed unless it is under way or the daemon
\* has died, for the orders in which Rust drops the logs on each early return
\* (apply_schedule in apply.rs, render_role in render/main.rs).
THEOREM DeploymentIndex == Spec => []IndexIsWellFormed
<1>1. TypeInv /\ LogInv => IndexIsWellFormed
  BY IndexWellFormed DEF LogInv
<1> QED BY <1>1, TypesHold, LogHolds, PTL
=============================================================================
