----------------------------- MODULE RoleFiles -----------------------------
(***************************************************************************)
(* What verwalter_render does to the files of a role, for a .render.yaml   *)
(* with the commands                                                       *)
(*    - !SplitText: one rendered text is split into a file per section,    *)
(*    - !Condition: when the directory has changed, a service reloads it.  *)
(* A section is written to a temporary file, which is renamed when the     *)
(* next section begins or the text ends; what is buffered reaches the file *)
(* only after that, when its writer is dropped.                            *)
(***************************************************************************)
EXTENDS Naturals, Sequences

CONSTANTS
  Hash,       \* schedules
  Name,       \* names of sections
  Sections    \* [Hash -> [roles of the node -> Seq([name, version])]]: the text

ASSUME SectionsAssumption ==
  /\ Hash # {}
  /\ \A h \in Hash : \A r \in DOMAIN Sections[h] :
       Sections[h][r] \in Seq([name : Name, version : Nat])

Version == {sec.version : sec \in UNION {UNION
             {{Sections[h][r][i] : i \in DOMAIN Sections[h][r]}
                 : r \in DOMAIN Sections[h]} : h \in Hash}}

\* A file is absent, cut short (0), or has the text of a section.
Content == {{}, {0}} \cup {{v} : v \in Version}
Dirs    == [Name -> Content]

VARIABLES
  dir,      \* [Role -> Dirs]: the files of each role
  loaded,   \* [Role -> Dirs]: what its service has loaded
  pitched   \* Dirs: what Condition::pitch has seen, in memory

roleVars == <<dir, loaded, pitched>>

Empty == [n \in Name |-> {}]

\* The files that the text of the role makes, the last section of a name.
Wanted(h, r) ==
  [n \in Name |->
     {Sections[h][r][i].version :
        i \in {j \in DOMAIN Sections[h][r] :
                 /\ Sections[h][r][j].name = n
                 /\ \A k \in DOMAIN Sections[h][r] :
                      Sections[h][r][k].name = n => k <= j}}]

\* The names that SplitText has visited.
visited(h, r) == {Sections[h][r][i].name : i \in DOMAIN Sections[h][r]}

Stale(h, r) == {n \in Name : dir[r][n] # {}} \ visited(h, r)

\* Condition::pitch takes the hash of the directory before the first command.
pitch(r) == pitched' = dir[r] /\ UNCHANGED <<dir, loaded>>

\* The temporary file is renamed, before its text has been flushed.
commit_file(r, n) ==
  /\ dir' = [dir EXCEPT ![r][n] = {0}]
  /\ UNCHANGED <<loaded, pitched>>

\* The writer is dropped.
Flush(r, sec) ==
  /\ dir' = [dir EXCEPT ![r][sec.name] = {sec.version}]
  /\ UNCHANGED <<loaded, pitched>>

remove_file(r, n) ==
  /\ dir' = [dir EXCEPT ![r][n] = {}]
  /\ UNCHANGED <<loaded, pitched>>

\* Condition::execute compares the hashes and runs its commands, or does not.
Condition(r) ==
  /\ loaded' = IF dir[r] # pitched THEN [loaded EXCEPT ![r] = dir[r]] ELSE loaded
  /\ UNCHANGED <<dir, pitched>>
=============================================================================
