--------------------------- MODULE DeploymentLog ---------------------------
(***************************************************************************)
(* The deployment log on the disk (indexed_log).  Each directory has       *)
(* segments and a link, `latest`, to one of them.  The index has a segment *)
(* for each day; its entries point to rows in the other logs, which are    *)
(* rotated when they are large.  The daemon and the verwalter_render that  *)
(* it has started write to the same segments, one after the other.         *)
(*                                                                         *)
(* A tick of the clock is a day.  A segment is named for the time it was   *)
(* started at, a position is a number of rows, and the rows that nothing   *)
(* points to are left out.                                                 *)
(***************************************************************************)
EXTENDS Naturals, Sequences

CONSTANTS
  Role,                   \* a role has a log of its own
  Index, Global, Changes, \* the other directories
  Id,                     \* deployments
  MaxTime,                \* bound of the clock
  MaxRows                 \* MAX_ROLE_LOG

ASSUME LogAssumption ==
  /\ MaxTime \in Nat /\ MaxRows \in Nat
  /\ Role \cap {Index, Global, Changes} = {}
  /\ Global \notin {Index, Changes} /\ Index # Changes
  /\ Id \subseteq Nat

LogDir  == Role \cup {Global, Changes}
Dir     == LogDir \cup {Index}
Segment == 0 .. MaxTime
Writer  == {"daemon", "render"}

Marker == {"DeploymentStart", "DeploymentChanges", "RoleStart", "ActionStart",
           "ActionFinish", "RoleFinish", "DeploymentFinish", "DeploymentError"}

\* IndexEntry, with its Pointer.
Entry == [id : Id, marker : Marker, dir : LogDir, segment : Segment, pos : Nat]
Row   == [id : Id, marker : Marker]

VARIABLES
  now,
  latest,     \* [Dir -> {} or {Segment}]: where the link leads
  leftovers,  \* SUBSET Dir: where a link `latest.tmp` exists
  index,      \* [Segment -> Seq(Entry)]
  logs,       \* [LogDir -> [Segment -> Seq(Row)]]
  files       \* [Writer -> [Dir -> Segment]]: what each writer has open

logVars == <<now, latest, leftovers, index, logs, files>>

\* A new installation, or one that was last used a day ago.
LogInit ==
  /\ now \in Segment
  /\ latest = [d \in Dir |-> IF now = 0 THEN {} ELSE {now - 1}]
  /\ leftovers = {}
  /\ index = [s \in Segment |-> <<>>]
  /\ logs = [d \in LogDir |-> [s \in Segment |-> <<>>]]
  /\ files = [w \in Writer |-> [d \in Dir |-> 0]]

-----------------------------------------------------------------------------
(* raceless_symlink: nothing is done when the link is right; otherwise a   *)
(* temporary link is made and renamed.                                     *)

IsLinked(d, s) == latest[d] = {s}

\* Mutant: the temporary link of an earlier life is not removed.
symlink_stuck(d) ==
  /\ d \notin leftovers
  /\ leftovers' = leftovers \cup {d}

\* A temporary link that is already there is removed, but only when there is a
\* `latest` as well: without one, AlreadyExists makes the loop go on for ever.
symlink(d) ==
  /\ latest[d] # {} \/ d \notin leftovers
  /\ leftovers' = leftovers \cup {d}

rename(d, s) ==
  /\ latest' = [latest EXCEPT ![d] = {s}]
  /\ leftovers' = leftovers \ {d}

-----------------------------------------------------------------------------
(* Opening and writing.                                                    *)

Open(w, d, s) == files' = [files EXCEPT ![w][d] = s]

\* check_log goes on with the latest segment.
GoesOn(d, do_rotate, s) ==
  /\ IsLinked(d, s)
  /\ ~do_rotate \/ Len(logs[d][s]) < MaxRows

\* Mutant: the entry names the segment by the date.
index_entry_dated(w, id, d, marker) ==
  LET s == files[w][Index]
      e == [id |-> id, marker |-> marker, dir |-> d, segment |-> now,
            pos |-> Len(logs[d][files[w][d]])]
  IN  index' = [index EXCEPT ![s] = Append(@, e)]

\* global_index_entry, role_index_entry and changes_index_entry: the entry
\* points to the present end of the log, where its row will be.
index_entry(w, id, d, marker) ==
  LET s == files[w][Index]
      e == [id |-> id, marker |-> marker, dir |-> d, segment |-> files[w][d],
            pos |-> Len(logs[d][files[w][d]])]
  IN  index' = [index EXCEPT ![s] = Append(@, e)]

log_row(w, id, d, marker) ==
  LET row == [id |-> id, marker |-> marker]
  IN  logs' = [logs EXCEPT ![d][files[w][d]] = Append(@, row)]

-----------------------------------------------------------------------------

LogTypeOK ==
  /\ now \in Segment
  /\ \A d \in Dir : latest[d] = {} \/ \E s \in Segment : IsLinked(d, s)
  /\ leftovers \subseteq Dir
  /\ index \in [Segment -> Seq(Entry)]
  /\ logs \in [LogDir -> [Segment -> Seq(Row)]]
  /\ files \in [Writer -> [Dir -> Segment]]

\* An entry leads to its row: if the row has been written at all, it is where
\* the pointer says, whichever process has written it, whatever was rotated
\* and whoever died between an entry and its row.
PointersAreTrue ==
  \A s \in Segment : \A i \in DOMAIN index[s] :
    LET e   == index[s][i]
        row == [id |-> e.id, marker |-> e.marker]
    IN  \A t \in Segment : \A j \in DOMAIN logs[e.dir][t] :
          logs[e.dir][t][j] = row => t = e.segment /\ j = e.pos + 1
=============================================================================
