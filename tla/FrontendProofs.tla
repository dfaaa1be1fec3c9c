--------------------------- MODULE FrontendProofs ---------------------------
(***************************************************************************)
(* Proofs about Frontend, for any connections, ids and number of writes:   *)
(* its types, that the index of the server is exact, and that no change of *)
(* the status is lost.                                                     *)
(***************************************************************************)
EXTENDS Frontend, TLAPS

-----------------------------------------------------------------------------
(* Types.                                                                  *)

\* The parts of the type invariant.
StatusTypes ==
  /\ status \in Answers /\ writes \in 0 .. MaxWrites /\ triggered \in BOOLEAN

ConnTypes ==
  /\ connections \subseteq Conn /\ index \subseteq Conn
  /\ ids \in [Conn -> SUBSET Id]

Request == [conn : Conn, id : Id, seen : Partial]

LoopTypes == todo \subseteq Conn \X Id /\ answer \in Option(Request)

ShownTypes == shown \in [Conn -> [Id -> Option(Answers)]]

LEMMA Types == TypeOK <=> StatusTypes /\ ConnTypes /\ LoopTypes /\ ShownTypes
BY DEF TypeOK, StatusTypes, ConnTypes, LoopTypes, ShownTypes, Request

LEMMA NewTypes == TypeOK' <=> (StatusTypes /\ ConnTypes /\ LoopTypes /\ ShownTypes)'
BY DEF TypeOK, StatusTypes, ConnTypes, LoopTypes, ShownTypes, Request

LEMMA WriteTypes ==
  ASSUME StatusTypes, NEW fields, Write(fields)
  PROVE  status' \in Answers /\ writes' \in 0 .. MaxWrites
<1>1. writes + 1 \in 0 .. MaxWrites
  BY FrontendAssumption DEF StatusTypes, Write
<1> QED BY <1>1 DEF StatusTypes, Write, Answers

\* What an answer begins with, and what a field is added to, are partial.
LEMMA BeginTypes ==
  ASSUME StatusTypes, NEW c \in Conn, NEW i \in Id
  PROVE  {Begin(c, i)} \in Option(Request)
<1>1. LoopField \in SUBSET Field
  BY DEF LoopField, Field
<1>2. Restrict(status, LoopField) \in [LoopField -> 0 .. MaxWrites]
  BY <1>1 DEF StatusTypes, Answers, Restrict
<1>3. Restrict(status, LoopField) \in Partial
  BY <1>1, <1>2 DEF Partial
<1> QED BY <1>3 DEF Begin, Request, Option

LEMMA PartialFields ==
  ASSUME NEW s \in Partial
  PROVE  DOMAIN s \subseteq Field /\ s \in [DOMAIN s -> 0 .. MaxWrites]
BY DEF Partial

LEMMA OptionValue ==
  ASSUME NEW S, NEW o \in Option(S), NEW x \in o
  PROVE  x \in S /\ o = {x}
BY DEF Option

LEMMA InitTypes == Init => TypeOK
<1> SUFFICES ASSUME Init PROVE TypeOK
  OBVIOUS
<1>1. StatusTypes
  <2>1. 0 \in 0 .. MaxWrites
    BY FrontendAssumption
  <2>2. [f \in Field |-> 0] \in Answers
    BY <2>1 DEF Answers
  <2> QED BY <2>1, <2>2 DEF Init, StatusTypes
<1>2. ConnTypes /\ LoopTypes
  BY DEF Init, ConnTypes, LoopTypes, Option
<1>3. ShownTypes
  BY DEF Init, ShownTypes, Nothing, Option
<1> QED BY <1>1, <1>2, <1>3, Types

LEMMA NextTypes == TypeOK /\ [Next]_vars => TypeOK'
<1> SUFFICES ASSUME TypeOK, [Next]_vars PROVE TypeOK'
  OBVIOUS
<1> USE Types, NewTypes
<1>1. CASE Writers
  <2>1. StatusTypes'
    BY <1>1, WriteTypes
       DEF Writers, update_election, set_schedule_by_follower, set_fetch_state,
           set_schedule_by_leader, set_error, trigger, StatusTypes, stateVars
  <2>2. UNCHANGED <<connVars, loopVars, shown>>
    BY <1>1 DEF Writers, update_election, set_schedule_by_follower, set_fetch_state,
                set_schedule_by_leader, set_error
  <2> QED BY <2>1, <2>2 DEF connVars, loopVars, ConnTypes, LoopTypes, ShownTypes
<1>2. CASE Frames
  <2>1. PICK c \in Conn :
          \/ connected(c) \/ drop(c)
          \/ \E i \in Id : subscribe(c, i) \/ query(c, i) \/ unsubscribe_id(c, i)
    BY <1>2 DEF Frames
  <2>2. StatusTypes'
    BY <2>1 DEF connected, drop, subscribe, query, unsubscribe_id, stateVars, StatusTypes
  <2>3. ConnTypes'
    BY <2>1 DEF connected, drop, subscribe, query, unsubscribe_id, connVars, ConnTypes,
                Deindexed
  <2>4. LoopTypes'
    BY <2>1, BeginTypes DEF connected, drop, subscribe, query, unsubscribe_id, loopVars, LoopTypes
  <2>5. ShownTypes'
    <3>1. {} \in Option(Answers) /\ Nothing \in [Id -> Option(Answers)]
      BY DEF Option, Nothing
    <3>2. CASE drop(c)
      BY <3>1, <3>2 DEF drop, ShownTypes
    <3>3. ASSUME NEW i \in Id, unsubscribe_id(c, i) PROVE ShownTypes'
      BY <3>1, <3>3 DEF unsubscribe_id, ShownTypes
    <3>4. CASE UNCHANGED shown
      BY <3>4 DEF ShownTypes
    <3> QED BY <2>1, <3>2, <3>3, <3>4 DEF connected, subscribe, query
  <2> QED BY <2>2, <2>3, <2>4, <2>5
<1>3. CASE Receive
  BY <1>3 DEF Receive, Subscribers, StatusTypes, ConnTypes, LoopTypes, ShownTypes,
              stateVars, connVars
<1>4. CASE NextAnswer
  <2>1. PICK t \in todo : answer' = {Begin(t[1], t[2])} /\ todo' = todo \ {t}
    BY <1>4 DEF NextAnswer
  <2>2. t[1] \in Conn /\ t[2] \in Id
    BY <2>1 DEF LoopTypes
  <2>3. LoopTypes'
    BY <2>1, <2>2, BeginTypes DEF LoopTypes
  <2> QED BY <1>4, <2>3
          DEF NextAnswer, StatusTypes, ConnTypes, ShownTypes, stateVars, connVars
<1>5. ASSUME NEW a \in answer, NEW f \in Field, ReadField(a, f)
      PROVE  TypeOK'
  <2>1. a \in Request
    BY OptionValue DEF LoopTypes
  <2> DEFINE read == DOMAIN a.seen \cup {f}
             seen == [g \in read |-> IF g = f THEN status[f] ELSE a.seen[g]]
  <2>2. seen \in [read -> 0 .. MaxWrites] /\ read \subseteq Field
    BY <2>1, PartialFields DEF Request, StatusTypes, Answers
  <2>3. seen \in Partial
    BY <2>2 DEF Partial
  <2>4. answer' = {[a EXCEPT !.seen = seen]}
    BY <1>5 DEF ReadField
  <2>5. LoopTypes'
    BY <1>5, <2>1, <2>3, <2>4 DEF ReadField, LoopTypes, Option, Request
  <2> QED BY <1>5, <2>5
          DEF ReadField, StatusTypes, ConnTypes, ShownTypes, stateVars, connVars
<1>6. ASSUME NEW a \in answer, Send(a)
      PROVE  TypeOK'
  <2>1. a \in Request
    BY OptionValue DEF LoopTypes
  <2>2. a.seen \in Answers
    BY <1>6, <2>1, PartialFields DEF Send, Request, Answers
  <2>3. ShownTypes'
    BY <1>6, <2>1, <2>2 DEF Send, ShownTypes, Option, Request
  <2>4. LoopTypes'
    BY <1>6 DEF Send, LoopTypes, Option
  <2> QED BY <1>6, <2>3, <2>4 DEF Send, StatusTypes, ConnTypes, stateVars, connVars
<1>7. CASE UNCHANGED vars
  BY <1>7 DEF vars, stateVars, connVars, loopVars, StatusTypes, ConnTypes, LoopTypes, ShownTypes
<1> QED BY <1>1, <1>2, <1>3, <1>4, <1>5, <1>6, <1>7 DEF Next, ws_response

\* Every variable keeps its type.
THEOREM FrontendTypes == Spec => []TypeOK
BY InitTypes, NextTypes, PTL DEF Spec

-----------------------------------------------------------------------------
(* The index.                                                              *)

\* A connection that has ended has left no ids for the next one.
NoIdsAreLeft == \A c \in Conn \ connections : ids[c] = {}

IndexInv == TypeOK /\ IndexIsExact /\ NoIdsAreLeft

LEMMA InitIndex == Init => IndexInv
BY InitTypes DEF Init, IndexInv, IndexIsExact, NoIdsAreLeft

LEMMA NextIndex == IndexInv /\ [Next]_vars => IndexInv'
<1> SUFFICES ASSUME IndexInv, [Next]_vars PROVE IndexIsExact' /\ NoIdsAreLeft'
  BY NextTypes DEF IndexInv
<1>0. ConnTypes /\ IndexIsExact /\ NoIdsAreLeft
  BY Types DEF IndexInv
<1>1. ASSUME NEW c \in Conn, connected(c) PROVE IndexIsExact' /\ NoIdsAreLeft'
  BY <1>0, <1>1 DEF connected, IndexIsExact, NoIdsAreLeft, ConnTypes
<1>2. ASSUME NEW c \in Conn, drop(c) PROVE IndexIsExact' /\ NoIdsAreLeft'
  BY <1>0, <1>2 DEF drop, Deindexed, IndexIsExact, NoIdsAreLeft, ConnTypes
<1>3. ASSUME NEW c \in Conn, NEW i \in Id, subscribe(c, i)
      PROVE  IndexIsExact' /\ NoIdsAreLeft'
  BY <1>0, <1>3 DEF subscribe, IndexIsExact, NoIdsAreLeft, ConnTypes
<1>4. ASSUME NEW c \in Conn, NEW i \in Id, unsubscribe_id(c, i)
      PROVE  IndexIsExact' /\ NoIdsAreLeft'
  BY <1>0, <1>4 DEF unsubscribe_id, Unsubscribed, IndexIsExact, NoIdsAreLeft, ConnTypes
<1>5. ASSUME UNCHANGED connVars PROVE IndexIsExact' /\ NoIdsAreLeft'
  BY <1>0, <1>5 DEF connVars, IndexIsExact, NoIdsAreLeft
<1>6. CASE Writers
  BY <1>5, <1>6 DEF Writers, update_election, set_schedule_by_follower, set_fetch_state,
                    set_schedule_by_leader, set_error
<1>7. ASSUME NEW c \in Conn, NEW i \in Id, query(c, i) PROVE IndexIsExact' /\ NoIdsAreLeft'
  BY <1>5, <1>7 DEF query
<1>8. CASE Receive \/ NextAnswer \/ ws_response \/ UNCHANGED vars
  BY <1>5, <1>8 DEF Receive, NextAnswer, ws_response, Send, ReadField, vars
<1> QED BY <1>1, <1>2, <1>3, <1>4, <1>6, <1>7, <1>8 DEF Next, Frames

\* The index of the server has exactly the connections with a subscription.
THEOREM IndexAgrees == Spec => []IndexIsExact
<1>1. IndexInv => IndexIsExact
  BY DEF IndexInv
<1> QED BY InitIndex, NextIndex, <1>1, PTL DEF Spec

-----------------------------------------------------------------------------
(* No change is lost.                                                      *)

\* What is still to come for a field of a subscription, or has come.
Accounted(c, i, f) == triggered \/ <<c, i>> \in todo \/ Coming(c, i, f) \/ Shows(c, i, f)

\* A field that has changed since it was read has left a trigger, which stays
\* in the channel until the answer is sent.
StaleIsTriggered ==
  \A a \in answer : \A f \in DOMAIN a.seen \ {"fetch"} :
    triggered \/ a.seen[f] = status[f]

FeedInv == IndexInv /\ StaleIsTriggered /\ NoChangeIsLost

LEMMA BeginSeen ==
  ASSUME NEW c, NEW i, NEW f \in DOMAIN Begin(c, i).seen
  PROVE  Begin(c, i).seen[f] = status[f]
<1>1. Begin(c, i).seen = Restrict(status, LoopField)
  BY DEF Begin
<1> QED BY <1>1 DEF Restrict

LEMMA NextStale == FeedInv /\ [Next]_vars => StaleIsTriggered'
<1> SUFFICES ASSUME FeedInv, [Next]_vars,
                    NEW a \in answer', NEW f \in DOMAIN a.seen \ {"fetch"}
             PROVE  (triggered \/ a.seen[f] = status[f])'
  BY DEF StaleIsTriggered
<1>0. LoopTypes
  BY Types DEF FeedInv, IndexInv
<1>1. a \in answer => triggered \/ a.seen[f] = status[f]
  BY DEF FeedInv, StaleIsTriggered
<1>2. CASE Writers
  <2>1. triggered' = TRUE \/ answer' = {}
    BY <1>2 DEF Writers, update_election, set_schedule_by_follower, set_fetch_state,
                set_schedule_by_leader, set_error, trigger, Idle, loopVars
  <2> QED BY <2>1
<1>3. ASSUME NEW c, NEW i, answer' = {Begin(c, i)}, UNCHANGED status
      PROVE  a.seen[f] = status'[f]
  BY <1>3, BeginSeen
<1>4. ASSUME NEW c \in Conn, NEW i \in Id, subscribe(c, i) \/ query(c, i)
      PROVE  a.seen[f] = status'[f]
  BY <1>3, <1>4 DEF subscribe, query, stateVars
<1>5. CASE NextAnswer
  BY <1>3, <1>5 DEF NextAnswer, stateVars
<1>6. ASSUME NEW b \in answer, NEW g \in Field, ReadField(b, g)
      PROVE  (triggered \/ a.seen[f] = status[f])'
  <2>1. b \in Request /\ answer = {b}
    BY <1>0, OptionValue DEF LoopTypes
  <2>2. /\ DOMAIN a.seen = DOMAIN b.seen \cup {g}
        /\ a.seen[f] = IF f = g THEN status[f] ELSE b.seen[f]
        /\ UNCHANGED <<triggered, status>>
    BY <1>6, <2>1 DEF ReadField, Request, stateVars
  <2>3. f # g => triggered \/ b.seen[f] = status[f]
    BY <2>2 DEF FeedInv, StaleIsTriggered
  <2> QED BY <2>2, <2>3
<1>7. CASE Receive
  BY <1>7 DEF Receive, Idle
<1>8. ASSUME NEW b \in answer, Send(b) PROVE FALSE
  BY <1>8 DEF Send
<1>9. ASSUME UNCHANGED <<stateVars, triggered, loopVars>>
      PROVE  (triggered \/ a.seen[f] = status[f])'
  BY <1>1, <1>9 DEF stateVars, loopVars
<1>10. ASSUME NEW c \in Conn,
              connected(c) \/ drop(c) \/ \E i \in Id : unsubscribe_id(c, i)
       PROVE  (triggered \/ a.seen[f] = status[f])'
  BY <1>9, <1>10 DEF connected, drop, unsubscribe_id
<1>11. CASE UNCHANGED vars
  BY <1>9, <1>11 DEF vars
<1> QED BY <1>2, <1>4, <1>5, <1>6, <1>7, <1>8, <1>10, <1>11 DEF Next, Frames, ws_response

LEMMA InitFeed == Init => FeedInv
<1> SUFFICES ASSUME Init PROVE StaleIsTriggered /\ NoChangeIsLost
  BY InitIndex DEF FeedInv
<1> QED BY DEF Init, StaleIsTriggered, NoChangeIsLost

LEMMA NextFeed == FeedInv /\ [Next]_vars => FeedInv'
<1> SUFFICES ASSUME FeedInv, [Next]_vars,
                    NEW c \in connections', NEW i \in ids'[c], NEW f \in Field \ {"fetch"}
             PROVE  Accounted(c, i, f)'
  BY NextIndex, NextStale DEF FeedInv, NoChangeIsLost, Accounted
<1>0. TypeOK /\ IndexIsExact /\ NoIdsAreLeft /\ ConnTypes /\ LoopTypes /\ ShownTypes
  BY Types DEF FeedInv, IndexInv
<1>1. c \in connections /\ i \in ids[c] => Accounted(c, i, f)
  BY DEF FeedInv, NoChangeIsLost, Accounted
<1>2. CASE Writers
  <2>1. triggered' = TRUE \/ set_fetch_state
    BY <1>2 DEF Writers, update_election, set_schedule_by_follower,
                set_schedule_by_leader, set_error, trigger
  <2>2. CASE set_fetch_state
    <3>1. /\ UNCHANGED <<triggered, connections, ids, todo, answer, shown>>
          /\ status'[f] = status[f]
      BY <2>2 DEF set_fetch_state, Write, connVars, loopVars
    <3> QED BY <1>1, <3>1 DEF Accounted, Coming, Shows
  <2> QED BY <2>1, <2>2 DEF Accounted
<1>3. ASSUME NEW d \in Conn, connected(d) PROVE Accounted(c, i, f)'
  <2>1. c \in connections /\ i \in ids[c]
    BY <1>0, <1>3 DEF connected, NoIdsAreLeft
  <2> QED BY <1>1, <1>3, <2>1 DEF connected, Accounted, Coming, Shows, stateVars, loopVars
<1>4. ASSUME NEW d \in Conn, drop(d) PROVE Accounted(c, i, f)'
  <2>1. c # d /\ c \in Conn /\ c \in connections /\ i \in ids[c]
    BY <1>0, <1>4 DEF drop, ConnTypes
  <2>2. shown'[c] = shown[c]
    BY <1>0, <1>4, <2>1 DEF drop, ShownTypes
  <2> QED BY <1>1, <1>4, <2>1, <2>2 DEF drop, Accounted, Coming, Shows, stateVars, loopVars
<1>5. ASSUME NEW d \in Conn, NEW j \in Id, unsubscribe_id(d, j) PROVE Accounted(c, i, f)'
  <2>1. c \in Conn /\ c \in connections /\ i \in ids[c] /\ (c = d => i # j)
    BY <1>0, <1>5 DEF unsubscribe_id, ConnTypes
  <2>2. shown'[c][i] = shown[c][i]
    BY <1>0, <1>5, <2>1 DEF unsubscribe_id, ShownTypes, ConnTypes
  <2> QED BY <1>1, <1>5, <2>1, <2>2
          DEF unsubscribe_id, Accounted, Coming, Shows, stateVars, loopVars
\* An answer that begins is to have every field as it is.
<1>6. ASSUME NEW d, NEW j, answer' = {Begin(d, j)}, UNCHANGED status
      PROVE  Coming(d, j, f)'
  BY <1>6, BeginSeen DEF Coming, Begin
<1>7. ASSUME NEW d \in Conn, NEW j \in Id, subscribe(d, j) \/ query(d, j)
      PROVE  Accounted(c, i, f)'
  <2>1. Coming(d, j, f)'
    BY <1>6, <1>7 DEF subscribe, query, stateVars
  <2>2. CASE c = d /\ i = j
    BY <2>1, <2>2 DEF Accounted
  <2>3. CASE ~(c = d /\ i = j)
    <3>1. c \in Conn /\ c \in connections /\ i \in ids[c]
      BY <1>0, <1>7, <2>3 DEF subscribe, query, connVars, ConnTypes
    <3>2. answer = {}
      BY <1>7 DEF subscribe, query, Idle
    <3> QED BY <1>1, <1>7, <3>1, <3>2
            DEF subscribe, query, Accounted, Coming, Shows, stateVars
  <2> QED BY <2>2, <2>3
<1>8. CASE Receive
  <2>1. c \in Conn /\ c \in connections /\ i \in ids[c] /\ i \in Id
    BY <1>0, <1>8 DEF Receive, connVars, ConnTypes
  <2>2. c \in index
    BY <1>0, <2>1 DEF IndexIsExact
  <2> QED BY <1>8, <2>1, <2>2 DEF Receive, Subscribers, Accounted
<1>9. CASE NextAnswer
  <2>1. PICK t \in todo : answer' = {Begin(t[1], t[2])} /\ todo' = todo \ {t}
    BY <1>9 DEF NextAnswer
  <2>2. Coming(t[1], t[2], f)'
    BY <1>6, <1>9, <2>1 DEF NextAnswer, stateVars
  <2>3. c \in connections /\ i \in ids[c] /\ answer = {}
    BY <1>9 DEF NextAnswer, connVars
  <2>4. <<c, i>> = t => t[1] = c /\ t[2] = i
    OBVIOUS
  <2> QED BY <1>1, <1>9, <2>1, <2>2, <2>3, <2>4
          DEF NextAnswer, Accounted, Coming, Shows, stateVars
<1>10. ASSUME NEW a \in answer, NEW g \in Field, ReadField(a, g)
       PROVE  Accounted(c, i, f)'
  <2>1. a \in Request /\ answer = {a}
    BY <1>0, OptionValue DEF LoopTypes
  <2>2. c \in connections /\ i \in ids[c]
    BY <1>10 DEF ReadField, connVars
  <2>3. ASSUME Coming(c, i, f) PROVE Coming(c, i, f)'
    BY <1>10, <2>1, <2>3 DEF ReadField, Coming, Request, stateVars
  <2> QED BY <1>1, <1>10, <2>2, <2>3 DEF ReadField, Accounted, Shows, stateVars
<1>11. ASSUME NEW a \in answer, Send(a) PROVE Accounted(c, i, f)'
  <2>1. a \in Request /\ answer = {a}
    BY <1>0, OptionValue DEF LoopTypes
  <2>2. c \in Conn /\ c \in connections /\ i \in ids[c] /\ i \in Id
    BY <1>0, <1>11 DEF Send, connVars, ConnTypes
  <2>3. CASE c = a.conn /\ i = a.id
    <3>1. shown'[c][i] = {a.seen}
      BY <1>0, <1>11, <2>2, <2>3 DEF Send, ShownTypes
    <3>2. triggered \/ a.seen[f] = status[f]
      BY <1>11 DEF Send, FeedInv, StaleIsTriggered
    <3> QED BY <1>11, <3>1, <3>2 DEF Send, Accounted, Shows, stateVars
  <2>4. CASE ~(c = a.conn /\ i = a.id)
    <3>1. shown'[c][i] = shown[c][i]
      BY <1>0, <1>11, <2>1, <2>2, <2>4 DEF Send, ShownTypes, Request
    <3>2. ~Coming(c, i, f)
      BY <2>1, <2>4 DEF Coming
    <3> QED BY <1>1, <1>11, <2>2, <3>1, <3>2 DEF Send, Accounted, Shows, stateVars
  <2> QED BY <2>3, <2>4
<1>12. CASE UNCHANGED vars
  BY <1>1, <1>12 DEF vars, stateVars, connVars, loopVars, Accounted, Coming, Shows
<1> QED BY <1>2, <1>3, <1>4, <1>5, <1>7, <1>8, <1>9, <1>10, <1>11, <1>12
        DEF Next, Frames, ws_response

\* No change is lost between the threads and the event loop.
THEOREM ChangesAreNotLost == Spec => []NoChangeIsLost
<1>1. FeedInv => NoChangeIsLost
  BY DEF FeedInv
<1> QED BY InitFeed, NextFeed, <1>1, PTL DEF Spec
=============================================================================
