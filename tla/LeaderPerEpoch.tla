--------------------------- MODULE LeaderPerEpoch ---------------------------
(***************************************************************************)
(* What the election promises to the rest of the daemon: an epoch gets its *)
(* leader once.  The nodes that lose their memory void the promise for the *)
(* epochs they have taken part in, and only for those.                     *)
(***************************************************************************)
EXTENDS Integers

CONSTANTS Node, MaxEpoch

VARIABLES
  led,        \* the <<node, epoch>> pairs of the leaders there have been
  forgotten   \* the highest epoch that some node has forgotten

Init == led = {} /\ forgotten = 0

Lead(n, e) ==
  /\ \A p \in Node : <<p, e>> \in led /\ e > forgotten => p = n
  /\ led' = led \cup {<<n, e>>}
  /\ UNCHANGED forgotten

Forget(e) ==
  /\ e > forgotten
  /\ forgotten' = e
  /\ UNCHANGED led

Next == \E e \in 1 .. MaxEpoch : (\E n \in Node : Lead(n, e)) \/ Forget(e)

Spec == Init /\ [][Next]_<<led, forgotten>>
=============================================================================
