--------------------------- MODULE ToolClientProofs ---------------------------
(***************************************************************************)
(* What one ToolClient promises to any number of callers, for any tools    *)
(* and over every transport.                                               *)
(***************************************************************************)
EXTENDS ToolClient, TLAPS

(***************************************************************************)
(* The mutex: whoever holds it sends something, and nobody else does.      *)
(***************************************************************************)
HolderSends ==
  /\ lock = NoCaller => op = "none" /\ phase = "none" /\ mail = NoMail
  /\ lock # NoCaller => op \in Operations
  /\ phase = "wait" => op # "note"

(***************************************************************************)
(* Nothing but the handshake is sent before it is complete.                *)
(***************************************************************************)
HandshakeKept ==
  /\ initialized => handshake = "complete"
  /\ op = "note" => handshake # "none"
  /\ op \in {"list", "call"} => handshake = "complete"
  /\ WelcomeFirst

(***************************************************************************)
(* No id is used twice: what is older than the request in flight has a     *)
(* smaller one, and the answer to that one comes while it is awaited.      *)
(***************************************************************************)
IdsFresh ==
  /\ \A m \in wire : m.id <= seq
  /\ \A i \in pending \cup abandoned : i <= seq
  /\ lock # NoCaller => seq \notin abandoned
  /\ op = "note" => seq \notin pending
  /\ \A m \in wire :
       m.id = seq /\ lock # NoCaller /\ op # "note" =>
         phase = "wait" /\ m.by = lock /\ m.op = op

(***************************************************************************)
(* The channel of the request in flight has an answer only after its       *)
(* entry was taken from the map.                                           *)
(***************************************************************************)
AnswerTaken == mail # NoMail => phase = "wait" /\ seq \notin pending

(***************************************************************************)
(* Whoever looks a tool up again has had a list since it began.            *)
(***************************************************************************)
ListsSeen ==
  /\ \A c \in Callers : began[c] <= lists
  /\ \A c \in Callers : stage[c] = "relookup" => began[c] < lists
  /\ NotFoundIsFresh

IInv ==
  /\ ToolTypeOK /\ HolderSends /\ HandshakeKept /\ IdsFresh
  /\ PendingOwned /\ AnswerTaken /\ AnswerIsOwn /\ ListsSeen

-----------------------------------------------------------------------------
(* Types *)

\* A message goes out as one of the holder's.
LEMMA ReachesTyped ==
  ASSUME ToolTypeOK, HolderSends, phase = "post", Reaches
  PROVE  wire' \subseteq Messages
  <1>1. [id |-> seq, by |-> lock, op |-> op] \in Messages
    BY DEF ToolTypeOK, HolderSends, Messages
  <1> QED
    BY <1>1 DEF ToolTypeOK, Reaches

\* The end of a section keeps the types of what it changes.
LEMMA ReleaseTyped ==
  ASSUME ToolTypeOK, NEW s \in Outcomes \cup Sections, Release(lock, s)
  PROVE  /\ stage' \in [Callers -> {"idle"} \cup Sections \cup Outcomes]
         /\ lock' \in Callers \cup {NoCaller} /\ op' \in Operations \cup {"none"}
         /\ phase' \in {"none", "connect", "endpoint", "post", "wait"}
         /\ mail' \in Messages \cup {NoMail}
         /\ seq' \in Nat /\ kind' \in Kinds
         /\ goal' \in [Callers -> {"call", "prepare", "list"}]
         /\ want' \in [Callers -> Tools] /\ began' \in [Callers -> Nat]
  BY DEF ToolTypeOK, Release

\* Turning to a message keeps the types of what it changes.
LEMMA TurnTyped ==
  ASSUME ToolTypeOK, NEW o \in Operations, Turn(o)
  PROVE  /\ op' \in Operations /\ seq' \in Nat /\ mail' \in Messages \cup {NoMail}
         /\ phase' \in {"post", "connect"}
  BY DEF ToolTypeOK, Turn, NextSeq

\* A reply keeps the types.
LEMMA ReplyTyped ==
  ASSUME ToolTypeOK, HolderSends, Reply, UNCHANGED linkVars, pending' \subseteq Nat
  PROVE  ToolTypeOK'
  <1> USE DEF clientVars, callVars, linkVars, entryVars
  <1>1. CASE End("failed") /\ UNCHANGED clientVars
    BY <1>1, ReleaseTyped DEF ToolTypeOK, End, Outcomes
  <1>2. CASE /\ op = "init"
             /\ handshake' = IF handshake = "none" THEN "welcomed" ELSE handshake
             /\ Turn("note")
             /\ UNCHANGED <<kind, lock, callVars, initialized, tools, lists, abandoned>>
    BY <1>2, TurnTyped DEF ToolTypeOK, Operations
  <1>3. CASE /\ op = "list" /\ tools' \in SUBSET Tools /\ lists' = lists + 1
             /\ End(IF goal[lock] = "list" THEN "show" ELSE "relookup")
             /\ UNCHANGED <<initialized, handshake>>
    <2>1. (IF goal[lock] = "list" THEN "show" ELSE "relookup") \in Outcomes \cup Sections
      BY DEF Sections
    <2> QED
      BY <1>3, <2>1, ReleaseTyped DEF ToolTypeOK, End
  <1>4. CASE op = "call" /\ End("answered") /\ UNCHANGED clientVars
    BY <1>4, ReleaseTyped DEF ToolTypeOK, End, Outcomes
  <1> QED
    BY <1>1, <1>2, <1>3, <1>4 DEF Reply, Result

\* Every step keeps the types.
LEMMA TypedStep ==
  ASSUME ToolTypeOK, HolderSends, [ToolNext]_toolVars
  PROVE  ToolTypeOK'
  <1> USE DEF clientVars, callVars, linkVars, entryVars
  <1>1. ASSUME NEW c \in Callers, Begin(c) PROVE ToolTypeOK'
    BY <1>1 DEF ToolTypeOK, Begin, Sections
  <1>2. ASSUME NEW c \in Callers, Lookup(c) PROVE ToolTypeOK'
    BY <1>2 DEF ToolTypeOK, Lookup, AfterMiss, AfterHit, Sections, Outcomes
  <1>3. ASSUME NEW c \in Callers, Show(c) \/ DropWaiting(c) PROVE ToolTypeOK'
    BY <1>3 DEF ToolTypeOK, Show, DropWaiting, Outcomes
  <1>4. ASSUME NEW c \in Callers, Lock(c) PROVE ToolTypeOK'
    <2>1. FirstOp(c) \in Operations
      BY DEF FirstOp, Request, Operations
    <2> QED
      BY <1>4, <2>1, TurnTyped DEF ToolTypeOK, Lock
  <1>5. CASE Reuse \/ Open \/ EndpointKnown
    BY <1>5 DEF ToolTypeOK, Reuse, Open, EndpointKnown, Connected, Insert
  <1>6. CASE OpenFails \/ EndpointTimeout \/ Timeout
    BY <1>6, ReleaseTyped
    DEF ToolTypeOK, OpenFails, EndpointTimeout, Timeout, DropEntry, End, Outcomes
  <1>7. CASE Sent
    BY <1>7, ReachesTyped DEF ToolTypeOK, Sent
  <1>8. CASE NoteSent
    <2>1. Request(lock) \in Operations
      BY DEF Request, Operations
    <2> QED
      BY <1>8, <2>1, TurnTyped DEF ToolTypeOK, NoteSent
  <1>9. CASE SendFails
    <2>1. wire' \subseteq Messages
      BY <1>9, ReachesTyped DEF SendFails, ToolTypeOK
    <2> QED
      BY <1>9, <2>1, ReleaseTyped DEF ToolTypeOK, SendFails, End, Outcomes
  <1>10. CASE PostAnswered
    BY <1>10, ReplyTyped DEF ToolTypeOK, PostAnswered
  <1>11. CASE Receive
    BY <1>11, ReplyTyped DEF ToolTypeOK, Receive
  <1>12. CASE Answer
    BY <1>12 DEF ToolTypeOK, Answer, DeliverToEntry
  <1>13. CASE EndpointEvent \/ Disconnect
    BY <1>13 DEF ToolTypeOK, EndpointEvent, Disconnect
  <1>14. CASE DropHolder
    <2>1. wire' \subseteq Messages
      BY <1>14, ReachesTyped DEF DropHolder, ToolTypeOK
    <2> QED
      BY <1>14, <2>1, ReleaseTyped DEF ToolTypeOK, DropHolder, Outcomes
  <1>15. CASE UNCHANGED toolVars
    BY <1>15 DEF ToolTypeOK, toolVars
  <1> QED
    BY <1>1, <1>2, <1>3, <1>4, <1>5, <1>6, <1>7, <1>8, <1>9, <1>10, <1>11, <1>12, <1>13,
       <1>14, <1>15 DEF ToolNext

-----------------------------------------------------------------------------
(* The mutex and the handshake *)

\* After a reply the holder turns to the notification, or holds the mutex no more.
LEMMA AfterReply ==
  ASSUME ToolTypeOK, Reply
  PROVE  \/ lock' = NoCaller /\ op' = "none" /\ phase' = "none" /\ mail' = NoMail
         \/ /\ op = "init" /\ op' = "note" /\ phase' \in {"post", "connect"}
            /\ lock' = lock /\ seq' = seq /\ mail' = NoMail /\ initialized' = initialized
            /\ handshake' = IF handshake = "none" THEN "welcomed" ELSE handshake
  BY DEF Reply, Result, End, Release, Turn, NextSeq, callVars

LEMMA HolderStep ==
  ASSUME ToolTypeOK, HolderSends, [ToolNext]_toolVars
  PROVE  HolderSends'
  <1> USE DEF clientVars, callVars, linkVars, entryVars
  <1>1. ASSUME NEW c \in Callers, Begin(c) \/ Lookup(c) \/ Show(c) \/ DropWaiting(c)
        PROVE  HolderSends'
    BY <1>1 DEF HolderSends, Begin, Lookup, Show, DropWaiting
  <1>2. ASSUME NEW c \in Callers, Lock(c) PROVE HolderSends'
    BY <1>2, NoCallerDistinct DEF HolderSends, Lock, Turn, FirstOp, Request, Operations
  <1>3. CASE Reuse \/ Open \/ EndpointKnown \/ Sent \/ EndpointEvent \/ Disconnect
    BY <1>3
    DEF HolderSends, Reuse, Open, EndpointKnown, Connected, Sent, EndpointEvent, Disconnect
  <1>4. CASE OpenFails \/ EndpointTimeout \/ SendFails \/ Timeout \/ DropHolder
    BY <1>4 DEF HolderSends, OpenFails, EndpointTimeout, SendFails, Timeout, DropHolder,
                End, Release
  <1>5. CASE NoteSent
    BY <1>5 DEF HolderSends, NoteSent, Turn, Request, Operations
  <1>6. CASE PostAnswered \/ Receive
    BY <1>6, AfterReply DEF HolderSends, PostAnswered, Receive, Operations
  <1>7. CASE Answer
    BY <1>7 DEF HolderSends, Answer, DeliverToEntry
  <1>8. CASE UNCHANGED toolVars
    BY <1>8 DEF HolderSends, toolVars
  <1> QED
    BY <1>1, <1>2, <1>3, <1>4, <1>5, <1>6, <1>7, <1>8 DEF ToolNext

\* The handshake only goes on, and is complete before anything else is sent.
LEMMA HandshakeStep ==
  ASSUME ToolTypeOK, HolderSends, HandshakeKept, [ToolNext]_toolVars
  PROVE  HandshakeKept'
  <1> USE DEF clientVars, callVars, linkVars, entryVars, HandshakeKept, WelcomeFirst
  <1>1. ASSUME NEW c \in Callers, Begin(c) \/ Lookup(c) \/ Show(c) \/ DropWaiting(c)
        PROVE  HandshakeKept'
    BY <1>1 DEF Begin, Lookup, Show, DropWaiting
  <1>2. ASSUME NEW c \in Callers, Lock(c) PROVE HandshakeKept'
    BY <1>2 DEF Lock, Turn, FirstOp, Request
  <1>3. CASE Reuse \/ Open \/ EndpointKnown \/ EndpointEvent \/ Disconnect
    BY <1>3 DEF Reuse, Open, EndpointKnown, Connected, EndpointEvent, Disconnect
  <1>4. CASE OpenFails \/ EndpointTimeout \/ Timeout
    BY <1>4 DEF OpenFails, EndpointTimeout, Timeout, End, Release
  <1>5. CASE Sent
    BY <1>5 DEF Sent, Reaches
  <1>6. CASE SendFails \/ DropHolder
    BY <1>6 DEF SendFails, DropHolder, End, Release, Reaches
  <1>7. CASE NoteSent
    BY <1>7 DEF NoteSent, Turn, Request
  <1>8. CASE PostAnswered \/ Receive
    <2>1. wire' = wire
      BY <1>8 DEF PostAnswered, Receive
    <2>2. CASE UNCHANGED clientVars
      BY <1>8, <2>1, <2>2, AfterReply DEF PostAnswered, Receive
    <2>3. CASE op = "list" /\ UNCHANGED <<initialized, handshake>>
      BY <1>8, <2>1, <2>3, AfterReply DEF PostAnswered, Receive
    <2>4. CASE op = "init"
      <3>1. Reply
        BY <1>8 DEF PostAnswered, Receive
      <3>2. /\ op' \notin {"list", "call"} /\ initialized' = initialized
            /\ handshake = "complete" => handshake' = "complete"
            /\ op' = "note" => handshake' # "none"
        BY <2>4, <3>1 DEF Reply, Result, End, Release, Turn
      <3> QED
        BY <2>1, <3>2
    <2> QED
      BY <1>8, <2>2, <2>3, <2>4 DEF PostAnswered, Receive, Reply, Result
  <1>9. CASE Answer
    BY <1>9 DEF Answer, DeliverToEntry
  <1>10. CASE UNCHANGED toolVars
    BY <1>10 DEF toolVars
  <1> QED
    BY <1>1, <1>2, <1>3, <1>4, <1>5, <1>6, <1>7, <1>8, <1>9, <1>10 DEF ToolNext

-----------------------------------------------------------------------------
(* Ids, entries and answers *)

\* A message that may have gone out is the holder's.
LEMMA ReachesOwn ==
  ASSUME Reaches \/ UNCHANGED wire, NEW m \in wire'
  PROVE  m \in wire \/ (m.id = seq /\ m.by = lock /\ m.op = op /\ op # "note")
  BY DEF Reaches

LEMMA FreshStep ==
  ASSUME ToolTypeOK, HolderSends, IdsFresh, PendingOwned, AnswerTaken, [ToolNext]_toolVars
  PROVE  IdsFresh'
  <1> USE DEF clientVars, callVars, linkVars, entryVars, IdsFresh
  <1>0. /\ seq \in Nat /\ wire \subseteq Messages /\ pending \subseteq Nat
        /\ abandoned \subseteq Nat /\ \A m \in wire : m.id \in Nat
    BY DEF ToolTypeOK, Messages
  <1>1. ASSUME NEW c \in Callers, Begin(c) \/ Lookup(c) \/ Show(c) \/ DropWaiting(c)
        PROVE  IdsFresh'
    BY <1>1 DEF Begin, Lookup, Show, DropWaiting
  <1>2. ASSUME NEW c \in Callers, Lock(c) PROVE IdsFresh'
    <2>1. /\ seq' = seq + 1 /\ op' # "note"
          /\ UNCHANGED <<wire, pending, abandoned>>
      BY <1>2 DEF Lock, Turn, NextSeq, FirstOp, Request
    <2> QED
      BY <1>0, <2>1
  <1>3. CASE Reuse \/ Open \/ EndpointKnown
    <2>1. /\ UNCHANGED <<lock, op, seq, abandoned, wire>> /\ phase # "wait" /\ phase' # "wait"
          /\ pending' = pending \/ (op # "note" /\ pending' = pending \cup {seq})
      BY <1>3 DEF Reuse, Open, EndpointKnown, Connected, Insert
    <2>2. /\ \A i \in pending' : i \in pending \/ i = seq
          /\ op = "note" => pending' = pending
          /\ \A m \in wire : ~(m.id = seq /\ lock # NoCaller /\ op # "note")
      BY <2>1
    <2>3. ASSUME NEW i \in pending' PROVE i <= seq
      <3>1. CASE i \in pending
        BY <3>1
      <3>2. CASE i = seq
        BY <1>0, <3>2
      <3> QED
        BY <2>2, <3>1, <3>2
    <2> QED
      BY <2>1, <2>2, <2>3
  <1>4. CASE OpenFails \/ EndpointTimeout \/ Timeout
    BY <1>0, <1>4 DEF OpenFails, EndpointTimeout, Timeout, DropEntry, End, Release
  <1>5. CASE Sent
    <2>1. /\ UNCHANGED <<lock, op, seq, abandoned, pending>> /\ phase' = "wait"
          /\ phase = "post" /\ op # "note"
      BY <1>5 DEF Sent
    <2>2. lock # NoCaller
      BY <2>1 DEF HolderSends
    <2>3. \A m \in wire' : m \in wire \/ (m.id = seq /\ m.by = lock /\ m.op = op)
      BY <1>5, ReachesOwn DEF Sent
    <2>4. \A m \in wire' : m.id <= seq
      BY <1>0, <2>3
    <2>5. \A m \in wire : m.id # seq
      BY <2>1, <2>2
    <2> QED
      BY <2>1, <2>3, <2>4, <2>5
  <1>6. CASE SendFails \/ DropHolder
    <2>1. /\ seq' = seq /\ lock' = NoCaller /\ op' = "none" /\ pending' \subseteq pending
          /\ abandoned' \subseteq abandoned \cup {seq}
      BY <1>6 DEF SendFails, DropHolder, End, Release
    <2>2. \A m \in wire' : m \in wire \/ m.id = seq
      BY <1>6, ReachesOwn DEF SendFails, DropHolder
    <2>3. \A m \in wire' : m.id <= seq
      BY <1>0, <2>2
    <2> QED
      BY <1>0, <2>1, <2>3
  <1>7. CASE NoteSent
    <2>1. /\ seq' = seq + 1 /\ op' # "note" /\ UNCHANGED <<wire, pending, abandoned>>
      BY <1>7 DEF NoteSent, Turn, NextSeq, Request
    <2> QED
      BY <1>0, <2>1
  <1>8. CASE PostAnswered \/ Receive
    <2>1. /\ wire' = wire /\ seq' = seq /\ abandoned' = abandoned
          /\ pending' \subseteq pending /\ seq \notin pending'
      BY <1>8, NoCallerDistinct
      DEF PostAnswered, Receive, Reply, Result, End, Release, Turn, NextSeq, AnswerTaken
    <2>2. \/ lock' = NoCaller /\ op' = "none"
          \/ lock' = lock /\ op' = "note"
      BY <1>8, AfterReply DEF PostAnswered, Receive
    <2> QED
      BY <1>0, <2>1, <2>2
  <1>9. CASE Answer
    BY <1>9 DEF Answer, DeliverToEntry
  <1>10. CASE EndpointEvent \/ Disconnect
    BY <1>10 DEF EndpointEvent, Disconnect
  <1>11. CASE UNCHANGED toolVars
    BY <1>11 DEF toolVars
  <1> QED
    BY <1>1, <1>2, <1>3, <1>4, <1>5, <1>6, <1>7, <1>8, <1>9, <1>10, <1>11 DEF ToolNext

\* An entry stays only while its request is in flight, or when its caller was dropped.
LEMMA OwnedStep ==
  ASSUME ToolTypeOK, HolderSends, IdsFresh, PendingOwned, AnswerTaken, [ToolNext]_toolVars
  PROVE  PendingOwned'
  <1> USE DEF clientVars, callVars, linkVars, entryVars, PendingOwned
  <1>1. ASSUME NEW c \in Callers, Begin(c) \/ Lookup(c) \/ Show(c) \/ DropWaiting(c)
        PROVE  PendingOwned'
    BY <1>1 DEF Begin, Lookup, Show, DropWaiting
  <1>2. ASSUME NEW c \in Callers, Lock(c) PROVE PendingOwned'
    BY <1>2 DEF Lock
  <1>3. CASE Reuse \/ Open \/ EndpointKnown
    <2>1. lock # NoCaller
      BY <1>3 DEF HolderSends, Reuse, Open, EndpointKnown
    <2>2. /\ UNCHANGED <<lock, op, seq, abandoned>> /\ phase \notin {"post", "wait"}
          /\ \/ pending' = pending
             \/ pending' = pending \cup {seq} /\ phase' = "post"
      BY <1>3 DEF Reuse, Open, EndpointKnown, Connected, Insert
    <2> QED
      BY <2>1, <2>2
  <1>4. CASE OpenFails \/ EndpointTimeout
    BY <1>4 DEF OpenFails, EndpointTimeout, End, Release
  <1>5. CASE SendFails \/ Timeout
    BY <1>5 DEF SendFails, Timeout, DropEntry, End, Release
  <1>6. CASE Sent
    BY <1>6 DEF Sent
  <1>7. CASE NoteSent
    BY <1>7 DEF NoteSent, IdsFresh
  <1>8. CASE PostAnswered \/ Receive
    <2>1. /\ abandoned' = abandoned /\ pending' \subseteq pending /\ seq \notin pending'
      BY <1>8
      DEF PostAnswered, Receive, Reply, Result, End, Release, Turn, NextSeq, AnswerTaken
    <2> QED
      BY <2>1
  <1>9. CASE Answer
    BY <1>9 DEF Answer, DeliverToEntry
  <1>10. CASE EndpointEvent \/ Disconnect
    BY <1>10 DEF EndpointEvent, Disconnect
  <1>11. CASE DropHolder
    BY <1>11 DEF DropHolder, Release
  <1>12. CASE UNCHANGED toolVars
    BY <1>12 DEF toolVars
  <1> QED
    BY <1>1, <1>2, <1>3, <1>4, <1>5, <1>6, <1>7, <1>8, <1>9, <1>10, <1>11, <1>12 DEF ToolNext

\* An answer is put into the channel of the request it answers, once.
LEMMA AnswerStep ==
  ASSUME ToolTypeOK, HolderSends, IdsFresh, PendingOwned, AnswerTaken, AnswerIsOwn,
         [ToolNext]_toolVars
  PROVE  AnswerTaken' /\ AnswerIsOwn'
  <1> USE DEF clientVars, callVars, linkVars, entryVars, AnswerTaken, AnswerIsOwn
  <1>1. ASSUME NEW c \in Callers, Begin(c) \/ Lookup(c) \/ Show(c) \/ DropWaiting(c)
        PROVE  AnswerTaken' /\ AnswerIsOwn'
    BY <1>1 DEF Begin, Lookup, Show, DropWaiting
  <1>2. ASSUME NEW c \in Callers, Lock(c) PROVE AnswerTaken' /\ AnswerIsOwn'
    BY <1>2 DEF Lock, Turn
  <1>3. CASE Reuse \/ Open \/ EndpointKnown \/ Sent
    BY <1>3 DEF Reuse, Open, EndpointKnown, Connected, Sent
  <1>4. CASE OpenFails \/ EndpointTimeout \/ SendFails \/ Timeout \/ DropHolder
    BY <1>4 DEF OpenFails, EndpointTimeout, SendFails, Timeout, DropHolder, End, Release
  <1>5. CASE NoteSent
    BY <1>5 DEF NoteSent, Turn
  <1>6. CASE PostAnswered \/ Receive
    BY <1>6, AfterReply DEF PostAnswered, Receive
  <1>7. CASE Answer
    <2> PICK m \in wire : DeliverToEntry(m)
      BY <1>7 DEF Answer
    <2>1. UNCHANGED <<lock, op, seq, phase>>
      BY <1>7 DEF Answer
    <2>2. CASE m.id \in pending /\ m.id = seq /\ lock # NoCaller
      <3>1. op # "note" /\ seq \notin pending' /\ mail' = m
        BY <2>2 DEF DeliverToEntry, IdsFresh
      <3>2. phase = "wait" /\ m.by = lock /\ m.op = op
        BY <2>2, <3>1 DEF IdsFresh
      <3> QED
        BY <2>1, <2>2, <3>1, <3>2
    <2>3. CASE ~(m.id \in pending /\ m.id = seq /\ lock # NoCaller)
      BY <2>1, <2>3 DEF DeliverToEntry
    <2> QED
      BY <2>2, <2>3
  <1>8. CASE EndpointEvent \/ Disconnect
    BY <1>8 DEF EndpointEvent, Disconnect
  <1>9. CASE UNCHANGED toolVars
    BY <1>9 DEF toolVars
  <1> QED
    BY <1>1, <1>2, <1>3, <1>4, <1>5, <1>6, <1>7, <1>8, <1>9 DEF ToolNext

-----------------------------------------------------------------------------
(* Lookups *)

\* Whoever finds nothing for the second time has had a list in between.
LEMMA ListsStep ==
  ASSUME ToolTypeOK, HolderSends, ListsSeen, [ToolNext]_toolVars
  PROVE  ListsSeen'
  <1> USE DEF clientVars, callVars, linkVars, entryVars, ListsSeen, NotFoundIsFresh
  <1>0. /\ lists \in Nat /\ began \in [Callers -> Nat]
        /\ stage \in [Callers -> {"idle"} \cup Sections \cup Outcomes]
    BY DEF ToolTypeOK
  <1>1. ASSUME NEW c \in Callers, Begin(c) PROVE ListsSeen'
    BY <1>0, <1>1 DEF Begin
  <1>2. ASSUME NEW c \in Callers, Lookup(c) PROVE ListsSeen'
    BY <1>0, <1>2 DEF Lookup, AfterMiss, AfterHit
  <1>3. ASSUME NEW c \in Callers, Show(c) \/ DropWaiting(c) PROVE ListsSeen'
    BY <1>0, <1>3 DEF Show, DropWaiting
  <1>4. ASSUME NEW c \in Callers, Lock(c) PROVE ListsSeen'
    BY <1>4 DEF Lock
  <1>5. CASE Reuse \/ Open \/ EndpointKnown \/ Sent \/ EndpointEvent \/ Disconnect \/ Answer
    BY <1>5 DEF Reuse, Open, EndpointKnown, Connected, Sent, EndpointEvent, Disconnect, Answer
  <1>6. CASE OpenFails \/ EndpointTimeout \/ SendFails \/ Timeout \/ DropHolder
    <2>1. /\ UNCHANGED <<lists, began>>
          /\ \E s \in {"failed", "gone"} : stage' = [stage EXCEPT ![lock] = s]
      BY <1>6 DEF OpenFails, EndpointTimeout, SendFails, Timeout, DropHolder, End, Release
    <2> QED
      BY <1>0, <2>1
  <1>7. CASE NoteSent
    BY <1>7 DEF NoteSent
  <1>8. CASE PostAnswered \/ Receive
    <2>1. Reply
      BY <1>8 DEF PostAnswered, Receive
    <2>2. \/ UNCHANGED <<stage, lists, began>>
          \/ /\ UNCHANGED <<lists, began>>
             /\ \E s \in {"failed", "answered"} : stage' = [stage EXCEPT ![lock] = s]
          \/ /\ lists' = lists + 1 /\ began' = began
             /\ \E s \in {"show", "relookup"} : stage' = [stage EXCEPT ![lock] = s]
      BY <2>1 DEF Reply, Result, End, Release
    <2> QED
      BY <1>0, <2>2
  <1>9. CASE UNCHANGED toolVars
    BY <1>9 DEF toolVars
  <1> QED
    BY <1>1, <1>2, <1>3, <1>4, <1>5, <1>6, <1>7, <1>8, <1>9 DEF ToolNext

-----------------------------------------------------------------------------
\* IInv holds in every behaviour.
LEMMA IInvHolds == ToolSpec => []IInv
  <1>1. ToolInit => IInv
    <2> SUFFICES ASSUME ToolInit PROVE IInv
      OBVIOUS
    <2>1. ToolTypeOK
      BY ToolsExist DEF ToolInit, ToolTypeOK
    <2> QED
      BY <2>1 DEF ToolInit, IInv, HolderSends, HandshakeKept, WelcomeFirst, IdsFresh,
                  PendingOwned, AnswerTaken, AnswerIsOwn, ListsSeen, NotFoundIsFresh
  <1>2. IInv /\ [ToolNext]_toolVars => IInv'
    BY TypedStep, HolderStep, HandshakeStep, FreshStep, OwnedStep, AnswerStep, ListsStep DEF IInv
  <1> QED
    BY <1>1, <1>2, PTL DEF ToolSpec

\* Every variable keeps its type.
THEOREM ToolTypeCorrect == ToolSpec => []ToolTypeOK
  <1>1. IInv => ToolTypeOK
    BY DEF IInv
  <1> QED
    BY <1>1, IInvHolds, PTL

\* No tool is listed or called before the handshake of this client is complete.
THEOREM HandshakeComesFirst == ToolSpec => []WelcomeFirst
  <1>1. IInv => WelcomeFirst
    BY DEF IInv, HandshakeKept
  <1> QED
    BY <1>1, IInvHolds, PTL

\* No caller is given the answer of another request, however late answers come.
THEOREM AnswersAreOwn == ToolSpec => []AnswerIsOwn
  <1>1. IInv => AnswerIsOwn
    BY DEF IInv
  <1> QED
    BY <1>1, IInvHolds, PTL

\* Only callers that were dropped leave entries behind.
THEOREM EntriesAreOwned == ToolSpec => []PendingOwned
  <1>1. IInv => PendingOwned
    BY DEF IInv
  <1> QED
    BY <1>1, IInvHolds, PTL

\* A tool is only said not to be there after a list that came since.
THEOREM MissesAreFresh == ToolSpec => []NotFoundIsFresh
  <1>1. IInv => NotFoundIsFresh
    BY DEF IInv, ListsSeen
  <1> QED
    BY <1>1, IInvHolds, PTL
=============================================================================
