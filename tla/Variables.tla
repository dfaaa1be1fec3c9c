----------------------------- MODULE Variables -----------------------------
(***************************************************************************)
(* The variables of a role (query/compat.rs): render_roles merges those of *)
(* the role on the node, of the node, of the role and of the schedule.     *)
(*                                                                         *)
(* The merge is itertools' kmerge, a binary heap of iterators ordered by   *)
(* their next key.  A variable is a mapping of fields or a scalar; of a    *)
(* value, the number of the layer that it comes from is all that is known. *)
(***************************************************************************)
EXTENDS Naturals, Sequences, SequencesExt

CONSTANTS Keys,    \* names of variables: numbers, in their order
          Fields,  \* names in mappings: numbers from 1, in their order
          Node,    \* "node"
          Own      \* "role" and "timestamp"

\* From the most specific to the most general: node_role_vars, node_vars,
\* role_vars and vars.
Layer == 1 .. 4

\* What comes from render_roles itself.
Inserted == 5

Scalar == {0}

\* What a layer may have for a variable.
Shape == {Scalar} \cup (SUBSET Fields \ {{}})

VARIABLES
  layers,   \* [Layer -> [the keys it has -> Shape]]
  cur_vars  \* empty, or [the keys -> their values]

vars == <<layers, cur_vars>>

-----------------------------------------------------------------------------
(* kmerge: an iterator is what it comes from and the keys it has left.     *)

Less(a, b) == Head(a.left) < Head(b.left)

\* The child to compare with: the right one if it is less.
Child(heap, i) ==
  IF 2 * i + 1 <= Len(heap) /\ Less(heap[2 * i + 1], heap[2 * i]) THEN 2 * i + 1 ELSE 2 * i

RECURSIVE SiftDown(_, _)
SiftDown(heap, i) ==
  LET c == Child(heap, i) IN
  IF 2 * i <= Len(heap) /\ Less(heap[c], heap[i])
  THEN SiftDown([heap EXCEPT ![i] = heap[c], ![c] = heap[i]], c)
  ELSE heap

RECURSIVE Heapify(_, _)
Heapify(heap, i) == IF i = 0 THEN heap ELSE Heapify(SiftDown(heap, i), i - 1)

\* swap_remove
RemoveTop(heap) == Front([heap EXCEPT ![1] = Last(heap)])

Advance(heap) ==
  IF Len(heap[1].left) > 1 THEN [heap EXCEPT ![1].left = Tail(@)] ELSE RemoveTop(heap)

\* What the iterators give: <<key, from>>, in the order of the keys.
RECURSIVE Drain(_)
Drain(heap) ==
  IF heap = <<>> THEN <<>>
  ELSE <<<<Head(heap[1].left), heap[1].from>>>> \o Drain(SiftDown(Advance(heap), 1))

Sorted(keys) == SetToSortSeq(keys, <)

\* "iters" is a sequence of [from, keys]; the empty ones have no head.
kmerge(iters) ==
  LET heap == SelectSeq([i \in DOMAIN iters |->
                           [from |-> iters[i].from, left |-> Sorted(iters[i].keys)]],
                        LAMBDA it : it.left # <<>>)
  IN Drain(Heapify(heap, Len(heap) \div 2))

\* Where the values of one key come from, in the order they are met.
Group(merged, key) ==
  LET of == SelectSeq(merged, LAMBDA item : item[1] = key)
  IN [i \in DOMAIN of |-> of[i][2]]

-----------------------------------------------------------------------------
(* merge_vars and render_roles.                                            *)

\* A first value that is no mapping replaces the following ones; after a
\* mapping only mappings count.
Coalesce(group, key) ==
  IF layers[group[1]][key] = Scalar THEN <<group[1]>>
  ELSE SelectSeq(group, LAMBDA l : layers[l][key] # Scalar)

\* Each field is from the first mapping in which the second merge finds it.
MergeFields(from, key) ==
  LET merged == kmerge([i \in DOMAIN from |-> [from |-> from[i], keys |-> layers[from[i]][key]]])
  IN [f \in UNION {layers[from[i]][key] : i \in DOMAIN from} |-> Head(Group(merged, f))]

\* A scalar is its layer, and a mapping has the layer of each of its fields.
Value(from, key) ==
  IF layers[from[1]][key] = Scalar THEN from[1] ELSE MergeFields(from, key)

merge_vars ==
  LET merged == kmerge([l \in Layer |-> [from |-> l, keys |-> DOMAIN layers[l]]])
  IN [k \in UNION {DOMAIN layers[l] : l \in Layer} |->
        Value(Coalesce(Group(merged, k), k), k)]

Init ==
  /\ layers \in [Layer -> UNION {[keys -> Shape] : keys \in SUBSET Keys}]
  /\ cur_vars = <<>>

render_roles ==
  /\ cur_vars = <<>>
  /\ cur_vars' = [k \in DOMAIN merge_vars \cup Own \cup {Node} |->
                    IF k \in Own \/ k \notin DOMAIN merge_vars THEN Inserted ELSE merge_vars[k]]
  /\ UNCHANGED layers

Next == render_roles \/ (cur_vars # <<>> /\ UNCHANGED vars)

Spec == Init /\ [][Next]_vars

-----------------------------------------------------------------------------

Having(key) == {l \in Layer : key \in DOMAIN layers[l]}

First(ls) == CHOOSE l \in ls : \A m \in ls : l <= m

\* What is given more specifically overrides what is given more generally: a
\* variable that is a scalar in each layer that has it, and each field of one
\* that is a mapping in each of them, is that of the most specific layer.
MostSpecificWins ==
  cur_vars # <<>> => \A k \in Keys \ Own : Having(k) # {} =>
    /\ (\A l \in Having(k) : layers[l][k] = Scalar) => cur_vars[k] = First(Having(k))
    /\ (\A l \in Having(k) : layers[l][k] # Scalar)
         => \A f \in DOMAIN cur_vars[k] :
              cur_vars[k][f] = First({l \in Having(k) : f \in layers[l][k]})
=============================================================================
