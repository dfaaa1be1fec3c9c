------------------------------ MODULE Frontend ------------------------------
(***************************************************************************)
(* The websockets of the frontend (frontend/incoming.rs, dispatcher.rs,    *)
(* channel.rs): browsers subscribe to the status of the node and are sent  *)
(* an answer whenever the shared state calls `trigger`.                    *)
(*                                                                         *)
(* The frames of the browsers, the triggers, the election and the fetcher  *)
(* are handled by one event loop, one at a time.  The scheduler and the    *)
(* apply thread write to the shared state whenever they like, also between *)
(* two reads of an answer that is being put together.                      *)
(*                                                                         *)
(* The status is what the fields of a query read, each under a lock of its *)
(* own (frontend/status.rs).  A field is the number of the write that has  *)
(* last changed it.                                                        *)
(***************************************************************************)
EXTENDS Naturals, Functions

CONSTANTS
  Conn,      \* websocket connections
  Id,        \* the ids that browsers give to their requests
  MaxWrites  \* bound: how often the status changes

ASSUME FrontendAssumption == MaxWrites \in Nat

Field == {"election", "errors", "fetch", "owned", "schedule"}

\* The fields that no thread writes to.
LoopField == {"election", "fetch"}

Answers == [Field -> 0 .. MaxWrites]

\* An answer that is being put together: the fields read so far.
Partial == UNION {[read -> 0 .. MaxWrites] : read \in SUBSET Field}

Option(S) == {{}} \cup {{x} : x \in S}

VARIABLES
  status,       \* [Field -> the write that has changed it last]
  writes,       \* how many writes there have been
  triggered,    \* a Subscription::Status is in the channel
  connections,  \* the connections that have a Token
  ids,          \* [Conn -> the ids subscribed on the connection]
  index,        \* the connections that a trigger looks at
  todo,         \* the <<connection, id>> that this trigger has yet to answer
  answer,       \* Option of the answer that is being put together
  shown         \* [Conn -> [Id -> Option of the last answer sent]]

stateVars == <<status, writes>>
connVars  == <<connections, ids, index>>
loopVars  == <<todo, answer>>
vars      == <<stateVars, triggered, connVars, loopVars, shown>>

Nothing == [i \in Id |-> {}]

Init ==
  /\ status = [f \in Field |-> 0]
  /\ writes = 0
  /\ triggered = FALSE
  /\ connections = {} /\ index = {}
  /\ ids = [c \in Conn |-> {}]
  /\ todo = {} /\ answer = {}
  /\ shown = [c \in Conn |-> Nothing]

\* The event loop is between two tasks.
Idle == todo = {} /\ answer = {}

-----------------------------------------------------------------------------
(* Writers of the shared state.                                            *)

Write(fields) ==
  /\ writes < MaxWrites
  /\ writes' = writes + 1
  /\ status' = [f \in Field |-> IF f \in fields THEN writes + 1 ELSE status[f]]

\* Mutant: the writes of the threads wait for the next poll of the election.
TriggerNot == UNCHANGED triggered

trigger == triggered' = TRUE

\* Mutant: a poll that has changed nothing triggers nothing.
update_election_quiet ==
  /\ Idle
  /\ Write({"election", "owned", "errors"}) \/ Write({"election"})
  /\ triggered' = TRUE
  /\ UNCHANGED <<connVars, loopVars, shown>>

\* Every poll of the election ends with update_election, and a node that has
\* stopped to lead owns no schedule and has no errors of the scheduler.
update_election ==
  /\ Idle
  /\ \/ Write({"election", "owned", "errors"}) \/ Write({"election"}) \/ UNCHANGED stateVars
  /\ triggered' = TRUE
  /\ UNCHANGED <<connVars, loopVars, shown>>

set_schedule_by_follower ==
  /\ Idle
  /\ Write({"schedule"})
  /\ triggered' = TRUE
  /\ UNCHANGED <<connVars, loopVars, shown>>

\* The public state of the fetcher is a cell without a trigger.
set_fetch_state ==
  /\ Idle
  /\ Write({"fetch"})
  /\ UNCHANGED <<triggered, connVars, loopVars, shown>>

\* The writes of the scheduler and of the apply thread, under the lock with
\* their trigger.
set_schedule_by_leader ==
  /\ Write({"owned", "schedule"})
  /\ trigger
  /\ UNCHANGED <<connVars, loopVars, shown>>

set_error ==
  /\ Write({"errors"})
  /\ trigger
  /\ UNCHANGED <<connVars, loopVars, shown>>

-----------------------------------------------------------------------------
(* Frames of the browsers.                                                 *)

connected(c) ==
  /\ Idle
  /\ c \notin connections
  /\ connections' = connections \cup {c}
  /\ UNCHANGED <<stateVars, triggered, ids, index, loopVars, shown>>

\* What the event loop alone writes does not change until the answer is sent,
\* and is read at once.
Begin(c, i) == [conn |-> c, id |-> i, seen |-> Restrict(status, LoopField)]

\* A Start frame with a subscription, which may reuse an id, is answered once
\* right away.
subscribe(c, i) ==
  /\ Idle
  /\ c \in connections
  /\ ids' = [ids EXCEPT ![c] = @ \cup {i}]
  /\ index' = index \cup {c}
  /\ answer' = {Begin(c, i)}
  /\ UNCHANGED <<stateVars, triggered, connections, todo, shown>>

\* A Start frame with a query is answered and forgotten.
query(c, i) ==
  /\ Idle
  /\ c \in connections
  /\ answer' = {Begin(c, i)}
  /\ UNCHANGED <<stateVars, triggered, connVars, todo, shown>>

\* Mutant: the connection is unsubscribed with the first of its ids.
UnsubscribedAny(c, i) == i \in ids[c]

\* Connection::unsubscribe_id returns the subscription with its last id.
Unsubscribed(c, i) == ids[c] = {i}

\* A Stop frame.
unsubscribe_id(c, i) ==
  /\ Idle
  /\ c \in connections
  /\ ids' = [ids EXCEPT ![c] = @ \ {i}]
  /\ index' = IF Unsubscribed(c, i) THEN index \ {c} ELSE index
  /\ shown' = [shown EXCEPT ![c][i] = {}]
  /\ UNCHANGED <<stateVars, triggered, connections, loopVars>>

Deindexed(c) == index \ {c}

\* The connection ends: its Token is dropped, and with it the ids.
drop(c) ==
  /\ Idle
  /\ c \in connections
  /\ connections' = connections \ {c}
  /\ index' = Deindexed(c)
  /\ ids' = [ids EXCEPT ![c] = {}]
  /\ shown' = [shown EXCEPT ![c] = Nothing]
  /\ UNCHANGED <<stateVars, triggered, loopVars>>

-----------------------------------------------------------------------------
(* Receiver::start and Incoming::trigger.                                  *)

Subscribers == {t \in index \X Id : t[2] \in ids[t[1]]}

\* The triggers in the channel are taken out of it, and make one.
Receive ==
  /\ Idle
  /\ triggered
  /\ triggered' = FALSE
  /\ todo' = Subscribers
  /\ UNCHANGED <<stateVars, connVars, answer, shown>>

NextAnswer ==
  /\ answer = {}
  /\ \E t \in todo : answer' = {Begin(t[1], t[2])} /\ todo' = todo \ {t}
  /\ UNCHANGED <<stateVars, triggered, connVars, shown>>

\* The executor resolves a field of the query.
ReadField(a, f) ==
  /\ f \in Field \ DOMAIN a.seen
  /\ answer' = {[a EXCEPT !.seen = [g \in DOMAIN a.seen \cup {f} |->
                                      IF g = f THEN status[f] ELSE a.seen[g]]]}
  /\ UNCHANGED <<stateVars, triggered, connVars, todo, shown>>

Send(a) ==
  /\ DOMAIN a.seen = Field
  /\ shown' = [shown EXCEPT ![a.conn][a.id] = IF a.id \in ids[a.conn] THEN {a.seen} ELSE {}]
  /\ answer' = {}
  /\ UNCHANGED <<stateVars, triggered, connVars, todo>>

ws_response == \E a \in answer : Send(a) \/ \E f \in Field : ReadField(a, f)

-----------------------------------------------------------------------------

Writers ==
  \/ update_election \/ set_schedule_by_follower \/ set_fetch_state
  \/ set_schedule_by_leader \/ set_error

Frames ==
  \E c \in Conn :
    \/ connected(c) \/ drop(c)
    \/ \E i \in Id : subscribe(c, i) \/ query(c, i) \/ unsubscribe_id(c, i)

Next == Writers \/ Frames \/ Receive \/ NextAnswer \/ ws_response

\* The event loop finishes what it has begun and gets to every task that is
\* ready; the election is polled again and again.
Fairness ==
  /\ WF_vars(NextAnswer) /\ WF_vars(ws_response)
  /\ SF_vars(Receive) /\ SF_vars(update_election)

Spec == Init /\ [][Next]_vars /\ Fairness

-----------------------------------------------------------------------------
(* Properties.                                                             *)

TypeOK ==
  /\ status \in Answers
  /\ writes \in 0 .. MaxWrites
  /\ triggered \in BOOLEAN
  /\ connections \subseteq Conn /\ index \subseteq Conn
  /\ ids \in [Conn -> SUBSET Id]
  /\ todo \subseteq Conn \X Id
  /\ answer \in Option([conn : Conn, id : Id, seen : Partial])
  /\ shown \in [Conn -> [Id -> Option(Answers)]]

\* The index of the server and the ids of the connections agree: a trigger
\* reaches every connection that has a subscription, none of the others, and
\* none that has ended.
IndexIsExact == index = {c \in connections : ids[c] # {}}

Shows(c, i, f) == \E a \in shown[c][i] : a[f] = status[f]

\* The answer to <<c, i>> that is under way will have the field as it is.
Coming(c, i, f) ==
  \E a \in answer :
    /\ a.conn = c /\ a.id = i
    /\ f \in DOMAIN a.seen => a.seen[f] = status[f]

\* No change is lost between the threads: what a browser has been sent is what
\* it would be told now, or there is a trigger in the channel or an answer on
\* the way that will say so.  An answer with fields of different moments is
\* never the last.  (The fetch state has no trigger.)
NoChangeIsLost ==
  \A c \in connections : \A i \in ids[c], f \in Field \ {"fetch"} :
    \/ triggered
    \/ <<c, i>> \in todo
    \/ Coming(c, i, f)
    \/ Shows(c, i, f)

\* A browser that stays subscribed is shown the status in the end, the fields
\* without a trigger included: the election polls for them.
SubscribersCatchUp ==
  \A c \in Conn, i \in Id :
    <>[](i \in ids[c]) => <>[](shown[c][i] = {status})
=============================================================================
