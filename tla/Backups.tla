------------------------------ MODULE Backups ------------------------------
(***************************************************************************)
(* The copies of schedules that apply.rs keeps: schedule.json, which is    *)
(* replaced by each task, and snapshots of it, one for each period of each *)
(* kind (hourly, daily, weekly).  A snapshot is a hard link to backup.tmp: *)
(* it is the same file until backup.tmp is removed.                        *)
(***************************************************************************)
EXTENDS Naturals, Sequences, FiniteSets

CONSTANTS
  KindOrder,     \* the kinds of snapshots, in the order of the code
  Period,        \* [kinds -> ticks]
  MaxSnapshots   \* HOURLY_SNAPSHOTS, DAILY_SNAPSHOTS, WEEKLY_SNAPSHOTS

Kind == {KindOrder[i] : i \in DOMAIN KindOrder}

ASSUME BackupsAssumption ==
  /\ KindOrder \in Seq(Kind) /\ KindOrder # <<>>
  /\ Period \in [Kind -> Nat \ {0}]

VARIABLES
  saved,      \* {} or {Hash}: schedule.json
  snapshots,  \* [Kind -> SUBSET [name, holds]]: the schedule, or 0 if cut short
  tmp,        \* {} or {Hash or 0}: backup.tmp
  shared,     \* SUBSET [kind, name]: the snapshots that are links to backup.tmp
  listed      \* [Kind -> SUBSET names]: the lists in memory

backupVars == <<saved, snapshots, tmp, shared, listed>>

Names(k) == {s.name : s \in snapshots[k]}
NoLists  == [k \in Kind |-> {}]
PeriodAt(k, time) == time \div Period[k]

\* There is no snapshot yet, or the last one is of another period.
need(k, time) ==
  LET last == {n \in Names(k) : \A m \in Names(k) : m <= n}
  IN  last # {PeriodAt(k, time)}

\* Every link to backup.tmp shows what is written to it.
SharedHold(h) ==
  [k \in Kind |-> {IF [kind |-> k, name |-> s.name] \in shared
                   THEN [s EXCEPT !.holds = h] ELSE s : s \in snapshots[k]}]

\* File::create truncates a backup.tmp that a previous life has left, and what
\* it is linked to.  The names are those of the present time.
create_tmp(time) ==
  /\ listed' = [k \in Kind |-> Names(k) \cup
                  (IF need(k, time) THEN {PeriodAt(k, time)} ELSE {})]
  /\ tmp' = {0} /\ snapshots' = SharedHold(0)
  /\ UNCHANGED <<saved, shared>>

copy ==
  /\ tmp' = saved
  /\ \E h \in saved : snapshots' = SharedHold(h)
  /\ UNCHANGED <<saved, shared, listed>>

hard_link(k, n) ==
  /\ \E h \in tmp : snapshots' = [snapshots EXCEPT ![k] = @ \cup {[name |-> n, holds |-> h]}]
  /\ shared' = shared \cup {[kind |-> k, name |-> n]}
  /\ UNCHANGED <<saved, tmp, listed>>

remove_tmp ==
  /\ tmp' = {} /\ shared' = {}
  /\ UNCHANGED <<saved, snapshots, listed>>

\* The oldest ones of the list, which has the new snapshot although it may have
\* failed.
drained(k) ==
  {n \in listed[k] : Cardinality({m \in listed[k] : m > n}) >= MaxSnapshots[k]}

remove_snapshots(k, names) ==
  /\ snapshots' = [snapshots EXCEPT ![k] = {s \in @ : s.name \notin names}]
  /\ shared' = {l \in shared : l.kind # k \/ l.name \notin names}
  /\ UNCHANGED <<saved, tmp, listed>>

-----------------------------------------------------------------------------

\* A snapshot is neither changed nor removed, but as one of the oldest: unless
\* it is still a link to a backup.tmp that a fault has left.
KeepsSnapshots(fault) ==
  \A k \in Kind : \A s \in snapshots[k] :
    \/ s \in snapshots'[k]
    \/ /\ s.name \notin {x.name : x \in snapshots'[k]}
       /\ Cardinality({n \in listed[k] : n > s.name}) >= MaxSnapshots[k]
    \/ fault /\ [kind |-> k, name |-> s.name] \in shared
=============================================================================
