------------------------- MODULE ClientFanoutProofs -------------------------
(***************************************************************************)
(* What the clients of a gateway may rely on, for any number of them, any  *)
(* sizes of the queues and any messages of the child.                      *)
(***************************************************************************)
EXTENDS ClientFanout, TLAPS

\* A request that the child has read has an id.
AskedKnown == \A c \in atChild : asked[c] \in Ids

IType == TypeOK /\ AskedKnown

\* What is sent, or about to be sent, to c is for c.
For(c, m) == m.to \in {c, NoClient}

PrivateInv ==
  Routed =>
    /\ \A c \in Clients : \A k \in DOMAIN received[c] : For(c, received[c][k])
    /\ \A c \in Clients : \A k \in DOMAIN queue[c] : For(c, queue[c][k])
    /\ \A c \in targets : For(c, msg)

(***************************************************************************)
(* An open client has its receiver, so that no send to it fails; the pump  *)
(* knows no client before it has connected.                                *)
(***************************************************************************)
StaysInv ==
  /\ ConnectedStays
  /\ \A c \in Clients : conn[c] = "open" => c \in rx
  /\ \A c \in entered \cup targets \cup dead \cup sending : conn[c] # "new"
  /\ dead \cap rx = {}

-----------------------------------------------------------------------------
(* Queues *)

LEMMA Appended ==
  ASSUME NEW S, NEW q \in Seq(S), NEW m \in S
  PROVE  /\ Append(q, m) \in Seq(S) /\ Len(Append(q, m)) = Len(q) + 1
         /\ Len(q) \in Nat /\ DOMAIN q = 1 .. Len(q)
         /\ DOMAIN Append(q, m) = 1 .. Len(q) + 1
         /\ \A i \in DOMAIN q : Append(q, m)[i] = q[i]
         /\ Append(q, m)[Len(q) + 1] = m
  OBVIOUS

\* Taking the oldest message shifts the others.
LEMMA Shifted ==
  ASSUME NEW S, NEW q \in Seq(S), q # <<>>
  PROVE  /\ Tail(q) \in Seq(S) /\ Len(Tail(q)) = Len(q) - 1
         /\ Head(q) \in S /\ Head(q) = q[1]
         /\ Len(q) \in Nat \ {0} /\ DOMAIN q = 1 .. Len(q)
         /\ DOMAIN Tail(q) = 1 .. Len(q) - 1
         /\ \A i \in DOMAIN Tail(q) : Tail(q)[i] = q[i + 1]
  OBVIOUS

LEMMA Broadcasted ==
  ASSUME TypeOK, NEW m \in Messages, Broadcast(m)
  PROVE  out' \in Seq(Messages) /\ Len(out') <= OutCap
  <1>0. out \in Seq(Messages) /\ Len(out) <= OutCap /\ OutCap \in Nat \ {0} /\ Len(out) \in Nat
    BY CapsPositive DEF TypeOK
  <1>1. CASE Len(out) = OutCap
    <2>1. out # <<>> /\ out' = Append(Tail(out), m)
      BY <1>0, <1>1 DEF Broadcast
    <2>2. Tail(out) \in Seq(Messages) /\ Len(Tail(out)) = Len(out) - 1
      BY <1>0, <2>1, Shifted
    <2>3. Append(Tail(out), m) \in Seq(Messages) /\ Len(Append(Tail(out), m)) = Len(Tail(out)) + 1
      BY <2>2
    <2> QED
      BY <1>0, <1>1, <2>1, <2>2, <2>3
  <1>2. CASE Len(out) # OutCap
    <2>1. out' = Append(out, m)
      BY <1>2 DEF Broadcast
    <2>2. Append(out, m) \in Seq(Messages) /\ Len(Append(out, m)) = Len(out) + 1
      BY <1>0
    <2>3. \A i, j \in Nat : i <= j /\ i # j => i + 1 <= j
      OBVIOUS
    <2> QED
      BY <1>0, <1>2, <2>1, <2>2, <2>3
  <1> QED
    BY <1>1, <1>2

\* Only the queue of one client grows, by one message, and stays within its bound.
LEMMA Enqueued ==
  ASSUME TypeOK, NEW c \in Clients, NEW m \in Messages, Enqueue(c, m)
  PROVE  /\ queue' \in [Clients -> Seq(Messages)]
         /\ \A d \in Clients : Len(queue'[d]) <= Cap
         /\ queue'[c] = Append(queue[c], m)
         /\ \A d \in Clients \ {c} : queue'[d] = queue[d]
  <1>0. queue \in [Clients -> Seq(Messages)] /\ \A d \in Clients : Len(queue[d]) <= Cap
    BY DEF TypeOK
  <1>1. queue' = [queue EXCEPT ![c] = Append(@, m)] /\ Len(queue[c]) < Cap
    BY DEF Enqueue
  <1>2. /\ Append(queue[c], m) \in Seq(Messages) /\ Len(Append(queue[c], m)) = Len(queue[c]) + 1
        /\ Len(queue[c]) \in Nat
    BY <1>0, Appended
  <1>3. Len(queue[c]) + 1 <= Cap
    <2>1. \A i, j \in Nat : i < j => i + 1 <= j
      OBVIOUS
    <2> QED
      BY <1>1, <1>2, <2>1, CapsPositive
  <1>4. \A d \in Clients : queue'[d] = IF d = c THEN Append(queue[c], m) ELSE queue[d]
    BY <1>0, <1>1
  <1>5. \A d \in Clients : queue'[d] \in Seq(Messages) /\ Len(queue'[d]) <= Cap
    BY <1>0, <1>2, <1>3, <1>4
  <1>6. DOMAIN queue' = Clients /\ queue' = [d \in Clients |-> queue'[d]]
    BY <1>0, <1>1
  <1> QED
    BY <1>4, <1>5, <1>6

\* The oldest message of one queue is taken.
LEMMA Dequeued ==
  ASSUME TypeOK, NEW c \in Clients, queue[c] # <<>>, queue' = [queue EXCEPT ![c] = Tail(@)]
  PROVE  /\ queue' \in [Clients -> Seq(Messages)]
         /\ \A d \in Clients : Len(queue'[d]) <= Cap
         /\ Head(queue[c]) \in Messages
         /\ queue'[c] = Tail(queue[c])
         /\ \A d \in Clients \ {c} : queue'[d] = queue[d]
  <1>0. /\ queue \in [Clients -> Seq(Messages)] /\ \A d \in Clients : Len(queue[d]) <= Cap
        /\ queue[c] \in Seq(Messages)
    BY DEF TypeOK
  <1>1. /\ Tail(queue[c]) \in Seq(Messages) /\ Len(Tail(queue[c])) = Len(queue[c]) - 1
        /\ Len(queue[c]) \in Nat /\ Head(queue[c]) \in Messages
    BY <1>0, Shifted
  <1>2. Len(Tail(queue[c])) <= Cap
    BY <1>0, <1>1, CapsPositive
  <1>3. \A d \in Clients : queue'[d] = IF d = c THEN Tail(queue[c]) ELSE queue[d]
    BY <1>0
  <1>4. \A d \in Clients : queue'[d] \in Seq(Messages) /\ Len(queue'[d]) <= Cap
    BY <1>0, <1>1, <1>2, <1>3
  <1>5. queue' = [d \in Clients |-> queue'[d]]
    BY <1>0
  <1> QED
    BY <1>1, <1>3, <1>4, <1>5

\* What the child writes is a message of its type.
LEMMA AnswerTyped ==
  ASSUME IType, NEW c \in atChild
  PROVE  [n |-> emitted + 1, to |-> c,
          id |-> IF Routed THEN Strip(asked[c].text) ELSE asked[c]] \in Messages
  <1>1. asked[c] \in Ids /\ c \in Clients /\ emitted + 1 \in Nat
    BY DEF IType, AskedKnown, TypeOK
  <1>2. Strip(asked[c].text) \in Restored
    BY <1>1 DEF Strip, Restored
  <1> QED
    BY <1>1, <1>2 DEF Messages

LEMMA EndpointTyped == Endpoint \in Messages
  BY DEF Endpoint, Messages

\* The pump goes on with one of the clients that are left.
LEMMA NextTarget ==
  ASSUME NEW S \in SUBSET Clients
  PROVE  OneOf(S) \subseteq S \cup {NoClient} /\ (S # {} => OneOf(S) = S)
  BY DEF OneOf

-----------------------------------------------------------------------------
(* Types *)

LEMMA TypedInit == Init => IType
  BY EndpointTyped, CapsPositive DEF Init, IType, TypeOK, AskedKnown

LEMMA TypedStep == IType /\ [Next]_vars => IType'
  <1> SUFFICES ASSUME IType, [Next]_vars PROVE IType'
    OBVIOUS
  <1> USE DEF IType, AskedKnown, TypeOK, clientVars, queueVars, childVars, pumpVars
  <1>1. ASSUME NEW c \in Clients, Client(c) PROVE IType'
    <2>1. CASE SendEndpoint(c)
      BY <2>1, Enqueued, EndpointTyped DEF SendEndpoint
    <2>2. ASSUME NEW i \in Ids, Request(c, i) PROVE IType'
      BY <2>2 DEF Request
    <2>3. CASE Deliver(c)
      <3>1. Head(queue[c]) \in Messages
        BY <2>3, Dequeued DEF Deliver
      <3>2. received' \in [Clients -> Seq(Messages)]
        BY <2>3, <3>1 DEF Deliver
      <3> QED
        BY <2>3, <3>2, Dequeued DEF Deliver
    <2>4. CASE ReceiverDropped(c)
      <3>1. <<>> \in Seq(Messages) /\ Len(<<>>) <= Cap
        BY CapsPositive
      <3>2. queue' \in [Clients -> Seq(Messages)] /\ \A d \in Clients : Len(queue'[d]) <= Cap
        BY <2>4, <3>1 DEF ReceiverDropped
      <3> QED
        BY <2>4, <3>2 DEF ReceiverDropped
    <2>5. CASE WriteLost(c)
      BY <2>5, Dequeued DEF WriteLost
    <2>6. CASE Connect(c) \/ RequestFails(c) \/ PostToClosed(c) \/ Gone(c) \/ RequestsEnd(c)
                 \/ ReadEnds(c) \/ Leave(c)
      BY <2>6 DEF Connect, RequestFails, PostToClosed, Gone, RequestsEnd, ReadEnds, Leave
    <2> QED
      BY <1>1, <2>1, <2>2, <2>3, <2>4, <2>5, <2>6 DEF Client
  <1>2. ASSUME NEW c \in Clients, Answer(c) PROVE IType'
    <2>1. emitted' = emitted + 1 /\ c \in atChild
      BY <1>2 DEF Answer
    <2>2. out' \in Seq(Messages) /\ Len(out') <= OutCap
      BY <1>2, <2>1, AnswerTyped, Broadcasted DEF Answer
    <2> QED
      BY <1>2, <2>2 DEF Answer
  <1>3. ASSUME NEW to \in {NoClient, Stranger}, Emit(to) PROVE IType'
    <2>1. emitted' = emitted + 1 /\ own < MaxOwn /\ own' = own + 1
      BY <1>3 DEF Emit
    <2>2. [n |-> emitted', to |-> to, id |-> NoClient] \in Messages
      BY <2>1 DEF Messages
    <2>3. out' \in Seq(Messages) /\ Len(out') <= OutCap
      BY <1>3, <2>2, Broadcasted DEF Emit
    <2>4. own' \in 0 .. MaxOwn
      BY <2>1, CapsPositive
    <2> QED
      BY <1>3, <2>3, <2>4 DEF Emit
  <1>4. CASE Receive
    <2>1. /\ out' \in Seq(Messages) /\ Len(out') <= OutCap /\ msg' \in Messages
      BY <1>4, Shifted, CapsPositive DEF Receive
    <2>2. targets' \in SUBSET Clients
      BY <1>4 DEF Receive, Recipients
    <2>3. at' \in targets' \cup {NoClient}
      BY <1>4, <2>2, NextTarget DEF Receive
    <2> QED
      BY <1>4, <2>1, <2>2, <2>3 DEF Receive
  <1>5. CASE Finish
    BY <1>5, EndpointTyped DEF Finish
  <1>6. ASSUME NEW c \in Clients, Send(c) \/ SendFails(c) PROVE IType'
    <2>1. Advance(c)
      BY <1>6 DEF Send, SendFails
    <2>2. targets' \in SUBSET Clients /\ at' \in targets' \cup {NoClient}
      BY <2>1, NextTarget DEF Advance
    <2>3. CASE Send(c)
      BY <2>2, <2>3, Enqueued DEF Send
    <2>4. CASE SendFails(c)
      BY <2>2, <2>4 DEF SendFails
    <2> QED
      BY <1>6, <2>3, <2>4
  <1>7. CASE UNCHANGED vars
    BY <1>7 DEF vars
  <1> QED
    BY <1>1, <1>2, <1>3, <1>4, <1>5, <1>6, <1>7 DEF Next, Pump

(***************************************************************************)
(* Every variable keeps its type, and no queue or channel grows over its   *)
(* capacity: a full client queue makes the pump wait, a full broadcast     *)
(* channel drops its oldest message.                                       *)
(***************************************************************************)
THEOREM TypeCorrect == Spec => []TypeOK
  <1>1. IType => TypeOK
    BY DEF IType
  <1> QED
    BY <1>1, TypedInit, TypedStep, PTL DEF Spec

-----------------------------------------------------------------------------
(* Connected clients *)

LEMMA StaysStep == IType /\ StaysInv /\ [Next]_vars => StaysInv'
  <1> SUFFICES ASSUME IType, StaysInv, [Next]_vars PROVE StaysInv'
    OBVIOUS
  <1>0. /\ conn \in [Clients -> {"new", "open", "gone"}] /\ entered \subseteq Clients
        /\ rx \subseteq Clients /\ targets \subseteq Clients /\ dead \subseteq Clients
        /\ sending \subseteq Clients
    BY DEF IType, TypeOK
  <1> USE <1>0 DEF StaysInv, ConnectedStays, clientVars, queueVars, childVars, pumpVars
  <1>1. ASSUME NEW c \in Clients, Client(c) PROVE StaysInv'
    <2>1. CASE Connect(c)
      BY <2>1 DEF Connect
    <2>2. CASE SendEndpoint(c)
      BY <2>2 DEF SendEndpoint
    <2>3. CASE RequestFails(c) \/ RequestsEnd(c)
      BY <2>3 DEF RequestFails, RequestsEnd
    <2>4. CASE PostToClosed(c)
      BY <2>4 DEF PostToClosed
    <2>5. CASE Gone(c)
      BY <2>5 DEF Gone
    <2>6. CASE ReadEnds(c)
      BY <2>6 DEF ReadEnds
    <2>7. CASE ReceiverDropped(c)
      BY <2>7 DEF ReceiverDropped
    <2>8. CASE Leave(c)
      BY <2>8 DEF Leave
    <2>9. ASSUME NEW i \in Ids, Request(c, i) PROVE StaysInv'
      BY <2>9 DEF Request
    <2>10. CASE Deliver(c) \/ WriteLost(c)
      BY <2>10 DEF Deliver, WriteLost
    <2> QED
      BY <1>1, <2>1, <2>2, <2>3, <2>4, <2>5, <2>6, <2>7, <2>8, <2>9, <2>10 DEF Client
  <1>2. ASSUME NEW c \in Clients, Answer(c) PROVE StaysInv'
    BY <1>2 DEF Answer
  <1>3. ASSUME NEW to \in {NoClient, Stranger}, Emit(to) PROVE StaysInv'
    BY <1>3 DEF Emit
  <1>4. CASE Receive
    <2>1. targets' \subseteq entered
      BY <1>4 DEF Receive, Recipients
    <2> QED
      BY <1>4, <2>1 DEF Receive
  <1>5. CASE Finish
    BY <1>5 DEF Finish
  <1>6. ASSUME NEW c \in Clients, Send(c) PROVE StaysInv'
    BY <1>6 DEF Send, Advance
  <1>7. ASSUME NEW c \in Clients, SendFails(c) PROVE StaysInv'
    <2>1. c \in targets
      BY <1>7, ClientsDistinct DEF SendFails, IType, TypeOK
    <2> QED
      BY <1>7, <2>1 DEF SendFails, Advance
  <1>8. CASE UNCHANGED vars
    BY <1>8 DEF vars
  <1> QED
    BY <1>1, <1>2, <1>3, <1>4, <1>5, <1>6, <1>7, <1>8 DEF Next, Pump

(***************************************************************************)
(* No send of the pump takes a client out of the map that is connected and *)
(* sends: a send fails only when the receiver is gone, and the receiver of *)
(* an open client never is.                                                *)
(***************************************************************************)
THEOREM ClientsStay == Spec => []ConnectedStays
  <1>1. Init => StaysInv
    BY DEF Init, StaysInv, ConnectedStays
  <1>2. StaysInv => ConnectedStays
    BY DEF StaysInv
  <1> QED
    BY <1>1, <1>2, TypedInit, TypedStep, StaysStep, PTL DEF Spec

-----------------------------------------------------------------------------
(* Answers are private *)

LEMMA PrivateStep == IType /\ PrivateInv /\ [Next]_vars => PrivateInv'
  <1> SUFFICES ASSUME IType, PrivateInv, [Next]_vars, Routed' PROVE PrivateInv'
    BY DEF PrivateInv
  <1>0. /\ transport' = transport /\ Routed
        /\ received \in [Clients -> Seq(Messages)] /\ queue \in [Clients -> Seq(Messages)]
        /\ msg \in Messages /\ targets \subseteq Clients /\ TypeOK
    <2>1. transport' = transport
      BY DEF Next, Client, Pump, vars, Connect, SendEndpoint, Request, RequestFails, PostToClosed,
             Gone, RequestsEnd, ReadEnds, Deliver, ReceiverDropped, WriteLost, Leave, Answer, Emit,
             Receive, Send, SendFails, Finish
    <2> QED
      BY <2>1 DEF IType, TypeOK, Routed
  <1>p. /\ \A c \in Clients : \A k \in DOMAIN received[c] : For(c, received[c][k])
        /\ \A c \in Clients : \A k \in DOMAIN queue[c] : For(c, queue[c][k])
        /\ \A c \in targets : For(c, msg)
    BY <1>0 DEF PrivateInv
  <1> USE DEF clientVars, queueVars, childVars, pumpVars
  <1>s. ASSUME UNCHANGED <<received, queue, targets, msg>> PROVE PrivateInv'
    BY <1>0, <1>p, <1>s DEF PrivateInv, For
  <1>1. ASSUME NEW c \in Clients, Client(c) PROVE PrivateInv'
    <2>1. CASE Deliver(c)
      <3>1. /\ queue[c] # <<>> /\ queue' = [queue EXCEPT ![c] = Tail(@)]
            /\ received' = [received EXCEPT ![c] = Append(@, Head(queue[c]))]
            /\ UNCHANGED <<targets, msg>>
        BY <2>1 DEF Deliver
      <3>2. For(c, Head(queue[c])) /\ \A k \in DOMAIN Tail(queue[c]) : For(c, Tail(queue[c])[k])
        BY <1>0, <1>p, <3>1, Shifted
      <3>3. \A k \in DOMAIN received'[c] : For(c, received'[c][k])
        BY <1>0, <1>p, <3>1, <3>2, Dequeued, Appended
      <3> QED
        BY <1>0, <1>p, <3>1, <3>2, <3>3 DEF PrivateInv, For
    <2>2. CASE WriteLost(c)
      <3>1. /\ queue[c] # <<>> /\ queue' = [queue EXCEPT ![c] = Tail(@)]
            /\ UNCHANGED <<received, targets, msg>>
        BY <2>2 DEF WriteLost
      <3>2. \A k \in DOMAIN Tail(queue[c]) : For(c, Tail(queue[c])[k])
        BY <1>0, <1>p, <3>1, Shifted
      <3> QED
        BY <1>0, <1>p, <3>1, <3>2 DEF PrivateInv, For
    <2>3. CASE ReceiverDropped(c)
      BY <1>0, <1>p, <2>3 DEF ReceiverDropped, PrivateInv, For
    <2>4. CASE SendEndpoint(c)
      BY <1>0, <2>4 DEF SendEndpoint, Routed
    <2>5. CASE Connect(c) \/ RequestFails(c) \/ PostToClosed(c) \/ Gone(c) \/ RequestsEnd(c)
                 \/ ReadEnds(c) \/ Leave(c) \/ \E i \in Ids : Request(c, i)
      BY <1>s, <2>5 DEF Connect, RequestFails, PostToClosed, Gone, RequestsEnd, ReadEnds, Leave,
                        Request
    <2> QED
      BY <1>1, <2>1, <2>2, <2>3, <2>4, <2>5 DEF Client
  <1>2. ASSUME NEW c \in Clients, Answer(c) PROVE PrivateInv'
    BY <1>s, <1>2 DEF Answer
  <1>3. ASSUME NEW to \in {NoClient, Stranger}, Emit(to) PROVE PrivateInv'
    BY <1>s, <1>3 DEF Emit
  <1>4. CASE Receive
    <2>1. \A c \in targets' : For(c, msg')
      BY <1>0, <1>4 DEF Receive, Recipients, For
    <2> QED
      BY <1>0, <1>p, <1>4, <2>1 DEF Receive, PrivateInv, For
  <1>5. CASE Finish
    <2>1. For(NoClient, msg') /\ \A c \in Clients : For(c, msg')
      BY <1>5 DEF Finish, Endpoint, For
    <2> QED
      BY <1>0, <1>p, <1>5, <2>1 DEF Finish, PrivateInv, For
  <1>6. ASSUME NEW c \in Clients, Send(c) PROVE PrivateInv'
    <2>1. c \in targets
      BY <1>6, <1>0, ClientsDistinct DEF Send, TypeOK
    <2>2. targets' \subseteq targets /\ UNCHANGED <<received, msg>> /\ Enqueue(c, msg)
      BY <1>6 DEF Send, Advance
    <2>3. queue'[c] = Append(queue[c], msg) /\ \A d \in Clients \ {c} : queue'[d] = queue[d]
      BY <1>0, <2>2, Enqueued
    <2>4. \A k \in DOMAIN queue'[c] : For(c, queue'[c][k])
      BY <1>0, <1>p, <2>1, <2>3, Appended
    <2>5. \A d \in Clients : \A k \in DOMAIN queue'[d] : For(d, queue'[d][k])
      BY <1>p, <2>3, <2>4
    <2> QED
      BY <1>0, <1>p, <2>2, <2>5 DEF PrivateInv, For
  <1>7. ASSUME NEW c \in Clients, SendFails(c) PROVE PrivateInv'
    BY <1>0, <1>p, <1>7 DEF SendFails, Advance, PrivateInv, For
  <1>8. CASE UNCHANGED vars
    BY <1>s, <1>8 DEF vars
  <1> QED
    BY <1>1, <1>2, <1>3, <1>4, <1>5, <1>6, <1>7, <1>8 DEF Next, Pump

\* A property of all members of two sequences is one of the members of their concatenation.
LEMMA Members ==
  ASSUME NEW S, NEW r \in Seq(S), NEW q \in Seq(S), NEW k \in DOMAIN (r \o q)
  PROVE  \/ k \in DOMAIN r /\ (r \o q)[k] = r[k]
         \/ k - Len(r) \in DOMAIN q /\ (r \o q)[k] = q[k - Len(r)]
  OBVIOUS

(***************************************************************************)
(* With WebSocket and gRPC no client is sent the answer to another one's   *)
(* request, nor a message whose id has a prefix that is no client's.       *)
(***************************************************************************)
THEOREM AnswersArePrivate == Spec => []AnswersPrivate
  <1>1. Init => PrivateInv
    BY DEF Init, PrivateInv
  <1>2. IType /\ PrivateInv => AnswersPrivate
    <2> SUFFICES ASSUME IType, PrivateInv, Routed, NEW c \in Clients, NEW k \in DOMAIN Sent(c)
                 PROVE  Sent(c)[k].to \in {c, NoClient}
      BY DEF AnswersPrivate
    <2>1. received[c] \in Seq(Messages) /\ queue[c] \in Seq(Messages)
      BY DEF IType, TypeOK
    <2> DEFINE whole == received[c] \o queue[c]
    <2>2. k \in DOMAIN whole /\ Sent(c)[k] = whole[k]
      BY DEF Sent
    <2>3. \/ k \in DOMAIN received[c] /\ whole[k] = received[c][k]
          \/ k - Len(received[c]) \in DOMAIN queue[c] /\ whole[k] = queue[c][k - Len(received[c])]
      BY <2>1, <2>2, Members
    <2> QED
      BY <2>2, <2>3 DEF PrivateInv, For
  <1> QED
    BY <1>1, <1>2, TypedInit, TypedStep, PrivateStep, PTL DEF Spec

-----------------------------------------------------------------------------
(* Order *)

(***************************************************************************)
(* The numbers of two messages, one written before the other; the endpoint *)
(* event has none.                                                         *)
(***************************************************************************)
Lt(i, j) == i # 0 /\ j # 0 => i < j

Increasing(s) == \A j, k \in DOMAIN s : j < k => Lt(s[j].n, s[k].n)
Before(s, t) == \A j \in DOMAIN s, k \in DOMAIN t : Lt(s[j].n, t[k].n)
UpTo(s, i) == \A k \in DOMAIN s : Lt(s[k].n, i)
After(i, s) == \A k \in DOMAIN s : Lt(i, s[k].n)

(***************************************************************************)
(* Along its way from the child to the client a message is ahead of the    *)
(* ones behind it: received, queued, at the pump, in the channel, not yet  *)
(* written.                                                                *)
(***************************************************************************)
ClientOrdered(c) ==
  /\ Increasing(received[c]) /\ Increasing(queue[c]) /\ Before(received[c], queue[c])
  /\ c \in targets => UpTo(received[c], msg.n) /\ UpTo(queue[c], msg.n)
  /\ Before(received[c], out) /\ Before(queue[c], out)
  /\ UpTo(received[c], emitted + 1) /\ UpTo(queue[c], emitted + 1)

PumpOrdered ==
  Increasing(out) /\ After(msg.n, out) /\ UpTo(out, emitted + 1) /\ Lt(msg.n, emitted + 1)

OrderInv == PumpOrdered /\ \A c \in Clients : ClientOrdered(c)

LEMMA EmptyOrder ==
  ASSUME NEW t
  PROVE  Increasing(<<>>) /\ Before(t, <<>>) /\ Before(<<>>, t) /\ UpTo(<<>>, t) /\ After(t, <<>>)
  BY DEF Increasing, Before, UpTo, After

LEMMA NumberTyped == \A m \in Messages : m.n \in Nat
  BY DEF Messages

\* A message goes to the end of a sequence.
LEMMA AppendOrder ==
  ASSUME NEW q \in Seq(Messages), NEW m \in Messages
  PROVE  /\ Increasing(q) /\ UpTo(q, m.n) => Increasing(Append(q, m))
         /\ \A t : Before(q, t) /\ After(m.n, t) => Before(Append(q, m), t)
         /\ \A t : Before(t, q) /\ UpTo(t, m.n) => Before(t, Append(q, m))
         /\ \A i : UpTo(q, i) /\ Lt(m.n, i) => UpTo(Append(q, m), i)
         /\ \A i : After(i, q) /\ Lt(i, m.n) => After(i, Append(q, m))
  <1> DEFINE a == Append(q, m)
  <1>1. /\ Len(q) \in Nat /\ DOMAIN q = 1 .. Len(q) /\ DOMAIN a = 1 .. Len(q) + 1
        /\ \A k \in DOMAIN q : a[k] = q[k]
        /\ a[Len(q) + 1] = m
    BY Appended
  <1> HIDE DEF a
  <1>2. \A k \in DOMAIN a : (k \in DOMAIN q /\ a[k] = q[k]) \/ (k = Len(q) + 1 /\ a[k] = m)
    BY <1>1
  <1>3. \A j, k \in DOMAIN a : j < k => j \in DOMAIN q
    BY <1>1
  <1>4. Increasing(q) /\ UpTo(q, m.n) => Increasing(a)
    BY <1>2, <1>3 DEF Increasing, UpTo
  <1>5. \A t : Before(q, t) /\ After(m.n, t) => Before(a, t)
    BY <1>2 DEF Before, After
  <1>6. \A t : Before(t, q) /\ UpTo(t, m.n) => Before(t, a)
    BY <1>2 DEF Before, UpTo
  <1>7. \A i : UpTo(q, i) /\ Lt(m.n, i) => UpTo(a, i)
    BY <1>2 DEF UpTo
  <1>8. \A i : After(i, q) /\ Lt(i, m.n) => After(i, a)
    BY <1>2 DEF After
  <1> QED
    BY <1>4, <1>5, <1>6, <1>7, <1>8 DEF a

\* The oldest message leaves a sequence.
LEMMA TailOrder ==
  ASSUME NEW q \in Seq(Messages), q # <<>>
  PROVE  /\ Increasing(q) => Increasing(Tail(q)) /\ After(Head(q).n, Tail(q))
         /\ \A t : Before(q, t) => Before(Tail(q), t) /\ After(Head(q).n, t)
         /\ \A t : Before(t, q) => Before(t, Tail(q)) /\ UpTo(t, Head(q).n)
         /\ \A i : UpTo(q, i) => UpTo(Tail(q), i) /\ Lt(Head(q).n, i)
         /\ \A i : After(i, q) => After(i, Tail(q)) /\ Lt(i, Head(q).n)
  <1> DEFINE a == Tail(q)
  <1>1. /\ Len(q) \in Nat \ {0} /\ DOMAIN q = 1 .. Len(q) /\ DOMAIN a = 1 .. Len(q) - 1
        /\ Head(q) = q[1]
        /\ \A k \in DOMAIN a : a[k] = q[k + 1]
    BY Shifted
  <1> HIDE DEF a
  <1>2. 1 \in DOMAIN q /\ \A k \in DOMAIN a : k + 1 \in DOMAIN q /\ 1 < k + 1
    BY <1>1
  <1>3. \A j, k \in DOMAIN a : j < k => j + 1 < k + 1
    BY <1>1
  <1>4. Increasing(q) => Increasing(a) /\ After(Head(q).n, a)
    BY <1>1, <1>2, <1>3 DEF Increasing, After
  <1>5. \A t : Before(q, t) => Before(a, t) /\ After(Head(q).n, t)
    BY <1>1, <1>2 DEF Before, After
  <1>6. \A t : Before(t, q) => Before(t, a) /\ UpTo(t, Head(q).n)
    BY <1>1, <1>2 DEF Before, UpTo
  <1>7. \A i : UpTo(q, i) => UpTo(a, i) /\ Lt(Head(q).n, i)
    BY <1>1, <1>2 DEF UpTo
  <1>8. \A i : After(i, q) => After(i, a) /\ Lt(i, Head(q).n)
    BY <1>1, <1>2 DEF After
  <1> QED
    BY <1>4, <1>5, <1>6, <1>7, <1>8 DEF a

\* What was written before the newest message was is before the next one too.
LEMMA UpToMore ==
  ASSUME NEW q \in Seq(Messages), NEW i \in Nat, UpTo(q, i + 1)
  PROVE  UpTo(q, i + 1 + 1)
  <1>1. \A k \in DOMAIN q : q[k].n \in Nat
    BY NumberTyped
  <1> QED
    BY <1>1 DEF UpTo, Lt

\* The child writes the next message.
LEMMA WriteOrder ==
  ASSUME IType, OrderInv, NEW m \in Messages, m.n = emitted + 1, Broadcast(m),
         emitted' = emitted + 1, UNCHANGED <<received, queue, targets, msg>>
  PROVE  OrderInv'
  <1>0. /\ out \in Seq(Messages) /\ msg \in Messages /\ emitted \in Nat /\ msg.n \in Nat
        /\ \A c \in Clients : received[c] \in Seq(Messages) /\ queue[c] \in Seq(Messages)
    BY NumberTyped DEF IType, TypeOK
  <1>1. PICK q : (q = out \/ (q = Tail(out) /\ out # <<>>)) /\ out' = Append(q, m)
    <2>1. CASE Len(out) = OutCap
      <3>1. out # <<>> /\ out' = Append(Tail(out), m)
        BY <2>1, CapsPositive DEF Broadcast
      <3> QED
        BY <3>1
    <2>2. CASE Len(out) # OutCap
      <3>1. out' = Append(out, m)
        BY <2>2 DEF Broadcast
      <3> QED
        BY <3>1
    <2> QED
      BY <2>1, <2>2
  <1>2. q \in Seq(Messages)
    BY <1>0, <1>1, Shifted
  <1>3. Increasing(q) /\ After(msg.n, q) /\ UpTo(q, emitted + 1)
    BY <1>0, <1>1, TailOrder DEF OrderInv, PumpOrdered
  <1>4. \A c \in Clients : Before(received[c], q) /\ Before(queue[c], q)
    BY <1>0, <1>1, TailOrder DEF OrderInv, ClientOrdered
  <1>5. Lt(msg.n, emitted + 1) /\ Lt(msg.n, emitted + 1 + 1) /\ Lt(m.n, emitted + 1 + 1)
    BY <1>0 DEF OrderInv, PumpOrdered, Lt
  <1>6. PumpOrdered'
    <2>1. Increasing(out') /\ After(msg.n, out')
      BY <1>1, <1>2, <1>3, <1>5, AppendOrder
    <2>2. UpTo(q, emitted + 1 + 1)
      BY <1>0, <1>2, <1>3, UpToMore
    <2>3. UpTo(out', emitted + 1 + 1)
      BY <1>1, <1>2, <1>5, <2>2, AppendOrder
    <2> QED
      BY <2>1, <2>3, <1>5 DEF PumpOrdered
  <1>7. ASSUME NEW c \in Clients PROVE ClientOrdered(c)'
    <2>1. /\ UpTo(received[c], emitted + 1) /\ UpTo(queue[c], emitted + 1)
          /\ Increasing(received[c]) /\ Increasing(queue[c]) /\ Before(received[c], queue[c])
          /\ c \in targets => UpTo(received[c], msg.n) /\ UpTo(queue[c], msg.n)
      BY DEF OrderInv, ClientOrdered
    <2>2. UpTo(received[c], emitted + 1 + 1) /\ UpTo(queue[c], emitted + 1 + 1)
      BY <1>0, <2>1, UpToMore
    <2>3. Before(received[c], out') /\ Before(queue[c], out')
      BY <1>1, <1>2, <1>4, <2>1, AppendOrder
    <2> QED
      BY <2>1, <2>2, <2>3 DEF ClientOrdered
  <1> QED
    BY <1>6, <1>7 DEF OrderInv

LEMMA OrderStep == IType /\ OrderInv /\ [Next]_vars => OrderInv'
  <1> SUFFICES ASSUME IType, OrderInv, [Next]_vars PROVE OrderInv'
    OBVIOUS
  <1>0. /\ out \in Seq(Messages) /\ msg \in Messages /\ emitted \in Nat /\ TypeOK
        /\ received \in [Clients -> Seq(Messages)] /\ queue \in [Clients -> Seq(Messages)]
        /\ targets \subseteq Clients
    BY DEF IType, TypeOK
  <1> USE DEF clientVars, queueVars, childVars, pumpVars
  <1>s. ASSUME UNCHANGED <<received, queue, targets, msg, out, emitted>> PROVE OrderInv'
    BY <1>s DEF OrderInv, PumpOrdered, ClientOrdered
  <1>c. ASSUME UNCHANGED <<targets, msg, out, emitted>>, NEW c \in Clients, ClientOrdered(c)',
               \A d \in Clients \ {c} : received'[d] = received[d] /\ queue'[d] = queue[d]
        PROVE  OrderInv'
    BY <1>c DEF OrderInv, PumpOrdered, ClientOrdered
  <1>1. ASSUME NEW c \in Clients, Client(c) PROVE OrderInv'
    <2>0. ClientOrdered(c)
      BY DEF OrderInv
    <2>1. CASE Deliver(c)
      <3>1. /\ queue[c] # <<>> /\ queue' = [queue EXCEPT ![c] = Tail(@)]
            /\ received' = [received EXCEPT ![c] = Append(@, Head(queue[c]))]
            /\ UNCHANGED <<targets, msg, out, emitted>>
        BY <2>1 DEF Deliver
      <3>2. /\ queue'[c] = Tail(queue[c]) /\ received'[c] = Append(received[c], Head(queue[c]))
            /\ Head(queue[c]) \in Messages /\ received[c] \in Seq(Messages)
            /\ queue[c] \in Seq(Messages)
        BY <1>0, <3>1, Dequeued
      <3>3. /\ Increasing(queue'[c]) /\ After(Head(queue[c]).n, queue'[c])
            /\ Before(received[c], queue'[c]) /\ UpTo(received[c], Head(queue[c]).n)
            /\ Before(queue'[c], out) /\ After(Head(queue[c]).n, out)
            /\ UpTo(queue'[c], emitted + 1) /\ Lt(Head(queue[c]).n, emitted + 1)
            /\ c \in targets => UpTo(queue'[c], msg.n) /\ Lt(Head(queue[c]).n, msg.n)
        BY <2>0, <3>1, <3>2, TailOrder DEF ClientOrdered
      <3>4. /\ Increasing(received'[c]) /\ Before(received'[c], queue'[c])
            /\ Before(received'[c], out) /\ UpTo(received'[c], emitted + 1)
            /\ c \in targets => UpTo(received'[c], msg.n)
        BY <2>0, <3>2, <3>3, AppendOrder DEF ClientOrdered
      <3>5. ClientOrdered(c)'
        BY <3>1, <3>3, <3>4 DEF ClientOrdered
      <3>6. \A d \in Clients \ {c} : received'[d] = received[d] /\ queue'[d] = queue[d]
        BY <1>0, <3>1
      <3> QED
        BY <1>c, <3>1, <3>5, <3>6
    <2>2. CASE WriteLost(c)
      <3>1. /\ queue[c] # <<>> /\ queue' = [queue EXCEPT ![c] = Tail(@)]
            /\ UNCHANGED <<received, targets, msg, out, emitted>>
        BY <2>2 DEF WriteLost
      <3>2. queue'[c] = Tail(queue[c]) /\ queue[c] \in Seq(Messages)
        BY <1>0, <3>1
      <3>3. ClientOrdered(c)'
        BY <2>0, <3>1, <3>2, TailOrder DEF ClientOrdered
      <3>4. \A d \in Clients \ {c} : received'[d] = received[d] /\ queue'[d] = queue[d]
        BY <1>0, <3>1
      <3> QED
        BY <1>c, <3>1, <3>3, <3>4
    <2>3. CASE ReceiverDropped(c)
      <3>1. queue'[c] = <<>> /\ UNCHANGED <<received, targets, msg, out, emitted>>
        BY <1>0, <2>3 DEF ReceiverDropped
      <3>2. ClientOrdered(c)'
        BY <2>0, <3>1, EmptyOrder DEF ClientOrdered
      <3>3. \A d \in Clients \ {c} : received'[d] = received[d] /\ queue'[d] = queue[d]
        BY <1>0, <2>3 DEF ReceiverDropped
      <3> QED
        BY <1>c, <3>1, <3>2, <3>3
    <2>4. CASE SendEndpoint(c)
      <3>1. Enqueue(c, Endpoint) /\ UNCHANGED <<received, targets, msg, out, emitted>>
        BY <2>4 DEF SendEndpoint
      <3>2. /\ queue'[c] = Append(queue[c], Endpoint) /\ queue[c] \in Seq(Messages)
            /\ \A d \in Clients \ {c} : received'[d] = received[d] /\ queue'[d] = queue[d]
        BY <1>0, <3>1, EndpointTyped, Enqueued
      <3>3. \A i : Lt(i, Endpoint.n) /\ Lt(Endpoint.n, i)
        BY DEF Endpoint, Lt
      <3>4. \A t : UpTo(t, Endpoint.n) /\ After(Endpoint.n, t)
        BY <3>3 DEF UpTo, After
      <3>5. ClientOrdered(c)'
        BY <2>0, <3>1, <3>2, <3>3, <3>4, EndpointTyped, AppendOrder DEF ClientOrdered
      <3> QED
        BY <1>c, <3>1, <3>2, <3>5
    <2>5. CASE Connect(c) \/ RequestFails(c) \/ PostToClosed(c) \/ Gone(c) \/ RequestsEnd(c)
                 \/ ReadEnds(c) \/ Leave(c) \/ \E i \in Ids : Request(c, i)
      BY <1>s, <2>5 DEF Connect, RequestFails, PostToClosed, Gone, RequestsEnd, ReadEnds, Leave,
                        Request
    <2> QED
      BY <1>1, <2>1, <2>2, <2>3, <2>4, <2>5 DEF Client
  <1>2. ASSUME NEW c \in Clients, Answer(c) PROVE OrderInv'
    <2> DEFINE m == [n |-> emitted + 1, to |-> c,
                     id |-> IF Routed THEN Strip(asked[c].text) ELSE asked[c]]
    <2>1. /\ m.n = emitted + 1 /\ Broadcast(m) /\ emitted' = emitted + 1 /\ c \in atChild
          /\ UNCHANGED <<received, queue, targets, msg>>
      BY <1>2 DEF Answer
    <2>2. m \in Messages
      BY <2>1, AnswerTyped
    <2> QED
      BY <2>1, <2>2, WriteOrder
  <1>3. ASSUME NEW to \in {NoClient, Stranger}, Emit(to) PROVE OrderInv'
    <2> DEFINE m == [n |-> emitted + 1, to |-> to, id |-> NoClient]
    <2>1. /\ m.n = emitted + 1 /\ Broadcast(m) /\ emitted' = emitted + 1
          /\ UNCHANGED <<received, queue, targets, msg>>
      BY <1>3 DEF Emit
    <2>2. m \in Messages
      BY <1>0 DEF Messages
    <2> QED
      BY <2>1, <2>2, WriteOrder
  <1>4. CASE Receive
    <2>1. /\ out # <<>> /\ out' = Tail(out) /\ msg' = Head(out) /\ targets' \subseteq Clients
          /\ UNCHANGED <<received, queue, emitted>>
      BY <1>0, <1>4 DEF Receive, Recipients, IType, TypeOK
    <2>2. PumpOrdered'
      BY <1>0, <2>1, TailOrder DEF OrderInv, PumpOrdered
    <2>3. ASSUME NEW c \in Clients PROVE ClientOrdered(c)'
      <3>1. ClientOrdered(c)
        BY DEF OrderInv
      <3>2. /\ Before(received[c], out') /\ Before(queue[c], out')
            /\ UpTo(received[c], msg'.n) /\ UpTo(queue[c], msg'.n)
        BY <1>0, <2>1, <3>1, TailOrder DEF ClientOrdered
      <3> QED
        BY <2>1, <3>1, <3>2 DEF ClientOrdered
    <2> QED
      BY <2>2, <2>3 DEF OrderInv
  <1>5. CASE Finish
    <2>1. msg' = Endpoint /\ UNCHANGED <<received, queue, out, emitted, targets>>
      BY <1>5 DEF Finish
    <2>2. \A i : Lt(i, Endpoint.n) /\ Lt(Endpoint.n, i)
      BY DEF Endpoint, Lt
    <2>3. \A t : UpTo(t, Endpoint.n) /\ After(Endpoint.n, t)
      BY <2>2 DEF UpTo, After
    <2> QED
      BY <2>1, <2>2, <2>3 DEF OrderInv, PumpOrdered, ClientOrdered
  <1>6. ASSUME NEW c \in Clients, Send(c) PROVE OrderInv'
    <2>1. c \in targets /\ ClientOrdered(c)
      BY <1>0, <1>6, ClientsDistinct DEF Send, TypeOK, OrderInv
    <2>2. /\ Enqueue(c, msg) /\ targets' = targets \ {c}
          /\ UNCHANGED <<received, msg, out, emitted>>
      BY <1>6 DEF Send, Advance
    <2>3. /\ queue'[c] = Append(queue[c], msg) /\ queue[c] \in Seq(Messages)
          /\ \A d \in Clients \ {c} : queue'[d] = queue[d]
      BY <1>0, <2>2, Enqueued
    <2>4. After(msg.n, out) /\ Lt(msg.n, emitted + 1) /\ PumpOrdered'
      BY <2>2 DEF OrderInv, PumpOrdered
    <2>5. ClientOrdered(c)'
      BY <1>0, <2>1, <2>2, <2>3, <2>4, AppendOrder DEF ClientOrdered
    <2>6. \A d \in Clients \ {c} : ClientOrdered(d)'
      BY <2>2, <2>3 DEF OrderInv, ClientOrdered
    <2> QED
      BY <2>4, <2>5, <2>6 DEF OrderInv
  <1>7. ASSUME NEW c \in Clients, SendFails(c) PROVE OrderInv'
    BY <1>7 DEF SendFails, Advance, OrderInv, PumpOrdered, ClientOrdered
  <1>8. CASE UNCHANGED vars
    BY <1>s, <1>8 DEF vars
  <1> QED
    BY <1>1, <1>2, <1>3, <1>4, <1>5, <1>6, <1>7, <1>8 DEF Next, Pump

(***************************************************************************)
(* Every client is sent messages in the order in which the child wrote     *)
(* them, none twice, whatever lags, leaves or is removed on the way.       *)
(***************************************************************************)
THEOREM MessagesInOrder == Spec => []InOrder
  <1>1. Init => OrderInv
    <2> SUFFICES ASSUME Init PROVE OrderInv
      OBVIOUS
    <2>1. /\ out = <<>> /\ emitted = 0 /\ msg.n = 0
          /\ \A c \in Clients : received[c] = <<>> /\ queue[c] = <<>>
      BY DEF Init, Endpoint
    <2>2. Lt(msg.n, emitted + 1)
      BY <2>1 DEF Lt
    <2> QED
      BY <2>1, <2>2, EmptyOrder DEF OrderInv, PumpOrdered, ClientOrdered
  <1>2. IType /\ OrderInv => InOrder
    <2> SUFFICES ASSUME IType, OrderInv, NEW c \in Clients, NEW j \in DOMAIN Sent(c),
                        NEW k \in DOMAIN Sent(c), j < k
                 PROVE  Lt(Sent(c)[j].n, Sent(c)[k].n)
      BY DEF InOrder, Lt
    <2> DEFINE r == received[c]
               q == queue[c]
               whole == r \o q
    <2>1. r \in Seq(Messages) /\ q \in Seq(Messages)
      BY DEF IType, TypeOK
    <2>2. Increasing(r) /\ Increasing(q) /\ Before(r, q)
      BY DEF OrderInv, ClientOrdered
    <2>3. Sent(c) = whole
      BY DEF Sent
    <2>4. /\ Len(r) \in Nat /\ DOMAIN r = 1 .. Len(r)
          /\ Len(q) \in Nat /\ DOMAIN q = 1 .. Len(q)
          /\ DOMAIN whole = 1 .. (Len(r) + Len(q))
      BY <2>1
    <2>p. \A i \in DOMAIN whole :
            \/ i \in DOMAIN r /\ whole[i] = r[i]
            \/ i - Len(r) \in DOMAIN q /\ whole[i] = q[i - Len(r)]
      BY <2>1, Members
    <2> HIDE DEF r, q, whole
    <2>5. CASE k \in DOMAIN r
      <3>1. j \in DOMAIN r
        BY <2>3, <2>4, <2>5
      <3> QED
        BY <2>2, <2>3, <2>4, <2>p, <2>5, <3>1 DEF Increasing
    <2>6. CASE k \notin DOMAIN r /\ j \in DOMAIN r
      BY <2>2, <2>3, <2>4, <2>p, <2>6 DEF Before
    <2>7. CASE k \notin DOMAIN r /\ j \notin DOMAIN r
      <3>1. j - Len(r) < k - Len(r)
        BY <2>3, <2>4
      <3> QED
        BY <2>2, <2>3, <2>4, <2>p, <2>7, <3>1 DEF Increasing
    <2> QED
      BY <2>5, <2>6, <2>7
  <1> QED
    BY <1>1, <1>2, TypedInit, TypedStep, OrderStep, PTL DEF Spec

-----------------------------------------------------------------------------
(* Ids come back *)

\* An answer to a client's request has its id, if that survives the prefix.
Known(m) ==
  m.to \in Clients =>
    asked[m.to] # NoClient /\ (Plain(asked[m.to]) => m.id = asked[m.to])

AllKnown(q) == \A k \in DOMAIN q : Known(q[k])

\* ... wherever it is on its way.
KnownInv ==
  /\ AllKnown(out) /\ Known(msg)
  /\ \A c \in Clients : AllKnown(queue[c]) /\ AllKnown(received[c])

\* A queue that gains or loses a message.
LEMMA KnownMore ==
  ASSUME NEW q \in Seq(Messages), AllKnown(q), NEW m \in Messages, Known(m)
  PROVE  AllKnown(Append(q, m))
  BY Appended DEF AllKnown

LEMMA KnownLess ==
  ASSUME NEW q \in Seq(Messages), AllKnown(q), q # <<>>
  PROVE  AllKnown(Tail(q)) /\ Known(Head(q)) /\ Head(q) \in Messages /\ Tail(q) \in Seq(Messages)
  BY Shifted DEF AllKnown

\* The channel stays known, with or without its oldest message.
LEMMA KnownBroadcast ==
  ASSUME TypeOK, KnownInv, NEW m \in Messages, Known(m), Broadcast(m)
  PROVE  AllKnown(out')
  <1>0. out \in Seq(Messages) /\ AllKnown(out) /\ OutCap \in Nat \ {0}
    BY CapsPositive DEF TypeOK, KnownInv
  <1>1. CASE Len(out) = OutCap
    <2>1. out # <<>>
      BY <1>0, <1>1
    <2> QED
      BY <1>0, <1>1, <2>1, KnownLess, KnownMore DEF Broadcast
  <1>2. CASE Len(out) # OutCap
    BY <1>0, <1>2, KnownMore DEF Broadcast
  <1> QED
    BY <1>1, <1>2

\* Ids are chosen once, and every message is made with its client's.
LEMMA KnownStep == IType /\ KnownInv /\ [Next]_vars => KnownInv'
  <1> SUFFICES ASSUME IType, KnownInv, [Next]_vars PROVE KnownInv'
    OBVIOUS
  <1>0. /\ received \in [Clients -> Seq(Messages)] /\ queue \in [Clients -> Seq(Messages)]
        /\ msg \in Messages /\ out \in Seq(Messages) /\ targets \subseteq Clients /\ TypeOK
        /\ asked \in [Clients -> Ids \cup {NoClient}]
    BY DEF IType, TypeOK
  <1>p. /\ AllKnown(out) /\ Known(msg)
        /\ \A c \in Clients : AllKnown(queue[c]) /\ AllKnown(received[c])
    BY DEF KnownInv
  <1>e. Known(Endpoint) /\ Endpoint \in Messages
    BY EndpointTyped, ClientsDistinct DEF Known, Endpoint
  <1> USE DEF clientVars, queueVars, childVars, pumpVars
  \* With the same ids, what was known stays known.
  <1>k. ASSUME asked' = asked
        PROVE  /\ \A m : Known(m)' = Known(m)
               /\ \A q : AllKnown(q)' = AllKnown(q)
    BY <1>k DEF Known, AllKnown
  <1>s. ASSUME UNCHANGED <<received, queue, out, msg, asked>> PROVE KnownInv'
    BY <1>s DEF KnownInv, AllKnown, Known
  \* One queue changes.
  <1>q. ASSUME NEW c \in Clients, UNCHANGED <<asked, out, msg>>,
               AllKnown(queue'[c]), AllKnown(received'[c]),
               \A d \in Clients \ {c} : queue'[d] = queue[d] /\ received'[d] = received[d]
        PROVE  KnownInv'
    <2>1. \A d \in Clients : AllKnown(queue'[d]) /\ AllKnown(received'[d])
      BY <1>p, <1>q
    <2> QED
      BY <1>p, <1>q, <2>1 DEF KnownInv, AllKnown, Known
  <1>1. ASSUME NEW c \in Clients, Client(c) PROVE KnownInv'
    <2>1. CASE Deliver(c)
      <3>1. /\ queue[c] # <<>> /\ queue' = [queue EXCEPT ![c] = Tail(@)]
            /\ received' = [received EXCEPT ![c] = Append(@, Head(queue[c]))]
            /\ UNCHANGED <<asked, out, msg>>
        BY <2>1 DEF Deliver
      <3>2. /\ queue'[c] = Tail(queue[c]) /\ received'[c] = Append(received[c], Head(queue[c]))
            /\ \A d \in Clients \ {c} : queue'[d] = queue[d] /\ received'[d] = received[d]
        BY <1>0, <3>1
      <3>3. AllKnown(queue'[c]) /\ AllKnown(received'[c])
        BY <1>0, <1>p, <3>1, <3>2, KnownLess, KnownMore
      <3> QED
        BY <1>q, <3>1, <3>2, <3>3
    <2>2. CASE WriteLost(c)
      <3>1. /\ queue[c] # <<>> /\ queue'[c] = Tail(queue[c])
            /\ \A d \in Clients \ {c} : queue'[d] = queue[d] /\ received'[d] = received[d]
            /\ UNCHANGED <<received, asked, out, msg>>
        BY <1>0, <2>2 DEF WriteLost
      <3>2. AllKnown(queue'[c]) /\ AllKnown(received'[c])
        BY <1>0, <1>p, <3>1, KnownLess
      <3> QED
        BY <1>q, <3>1, <3>2
    <2>3. CASE ReceiverDropped(c)
      <3>1. /\ queue'[c] = <<>>
            /\ \A d \in Clients \ {c} : queue'[d] = queue[d] /\ received'[d] = received[d]
            /\ UNCHANGED <<received, asked, out, msg>>
        BY <1>0, <2>3 DEF ReceiverDropped
      <3>2. AllKnown(queue'[c]) /\ AllKnown(received'[c])
        BY <1>p, <3>1 DEF AllKnown
      <3> QED
        BY <1>q, <3>1, <3>2
    <2>4. CASE SendEndpoint(c)
      <3>1. Enqueue(c, Endpoint) /\ UNCHANGED <<received, asked, out, msg>>
        BY <2>4 DEF SendEndpoint
      <3>2. queue'[c] = Append(queue[c], Endpoint) /\ \A d \in Clients \ {c} : queue'[d] = queue[d]
        BY <1>0, <1>e, <3>1, Enqueued
      <3>3. AllKnown(queue'[c]) /\ AllKnown(received'[c])
        BY <1>0, <1>p, <1>e, <3>1, <3>2, KnownMore
      <3> QED
        BY <1>q, <3>1, <3>2, <3>3
    <2>5. ASSUME NEW i \in Ids, Request(c, i) PROVE KnownInv'
      <3>1. /\ asked[c] = NoClient /\ \A d \in Clients \ {c} : asked'[d] = asked[d]
            /\ UNCHANGED <<received, queue, out, msg>>
        BY <1>0, <2>5 DEF Request
      <3>2. \A m : Known(m) => Known(m)'
        BY <3>1 DEF Known
      <3>3. \A q : AllKnown(q) => AllKnown(q)'
        BY <3>2 DEF AllKnown
      <3> QED
        BY <1>p, <3>1, <3>2, <3>3 DEF KnownInv
    <2>6. CASE Connect(c) \/ RequestFails(c) \/ PostToClosed(c) \/ Gone(c) \/ RequestsEnd(c)
                 \/ ReadEnds(c) \/ Leave(c)
      BY <1>s, <2>6 DEF Connect, RequestFails, PostToClosed, Gone, RequestsEnd, ReadEnds, Leave
    <2> QED
      BY <1>1, <2>1, <2>2, <2>3, <2>4, <2>5, <2>6 DEF Client
  <1>2. ASSUME NEW c \in Clients, Answer(c) PROVE KnownInv'
    <2> DEFINE m == [n |-> emitted + 1, to |-> c,
                     id |-> IF Routed THEN Strip(asked[c].text) ELSE asked[c]]
    <2>1. c \in atChild /\ Broadcast(m) /\ UNCHANGED <<received, queue, msg, asked>>
      BY <1>2 DEF Answer
    <2>2. m \in Messages /\ asked[c] \in Ids /\ asked[c] # NoClient
      BY <2>1, AnswerTyped, ClientsDistinct DEF IType, AskedKnown
    <2>3. Plain(asked[c]) => Strip(asked[c].text) = asked[c]
      BY <2>2, IdsKnown DEF Plain, Strip
    <2>4. Known(m)
      BY <2>2, <2>3 DEF Known
    <2>5. AllKnown(out')
      BY <1>0, <2>1, <2>2, <2>4, KnownBroadcast
    <2> QED
      BY <1>p, <2>1, <2>5 DEF KnownInv, AllKnown, Known
  <1>3. ASSUME NEW to \in {NoClient, Stranger}, Emit(to) PROVE KnownInv'
    <2> DEFINE m == [n |-> emitted + 1, to |-> to, id |-> NoClient]
    <2>1. Broadcast(m) /\ UNCHANGED <<received, queue, msg, asked>>
      BY <1>3 DEF Emit
    <2>2. m \in Messages /\ Known(m)
      BY <1>0, ClientsDistinct DEF Messages, Known, TypeOK
    <2>5. AllKnown(out')
      BY <1>0, <2>1, <2>2, KnownBroadcast
    <2> QED
      BY <1>p, <2>1, <2>5 DEF KnownInv, AllKnown, Known
  <1>4. CASE Receive
    <2>1. /\ out # <<>> /\ out' = Tail(out) /\ msg' = Head(out)
          /\ UNCHANGED <<received, queue, asked>>
      BY <1>4 DEF Receive
    <2>2. AllKnown(out') /\ Known(msg')
      BY <1>0, <1>p, <2>1, KnownLess
    <2> QED
      BY <1>p, <2>1, <2>2 DEF KnownInv, AllKnown, Known
  <1>5. CASE Finish
    <2>1. msg' = Endpoint /\ UNCHANGED <<received, queue, out, asked>>
      BY <1>5 DEF Finish
    <2> QED
      BY <1>p, <1>e, <2>1 DEF KnownInv, AllKnown, Known
  <1>6. ASSUME NEW c \in Clients, Send(c) PROVE KnownInv'
    <2>1. Enqueue(c, msg) /\ UNCHANGED <<received, asked, out, msg>>
      BY <1>6 DEF Send
    <2>2. queue'[c] = Append(queue[c], msg) /\ \A d \in Clients \ {c} : queue'[d] = queue[d]
      BY <1>0, <2>1, Enqueued
    <2>3. AllKnown(queue'[c]) /\ AllKnown(received'[c])
      BY <1>0, <1>p, <2>1, <2>2, KnownMore
    <2> QED
      BY <1>q, <2>1, <2>2, <2>3
  <1>7. ASSUME NEW c \in Clients, SendFails(c) PROVE KnownInv'
    BY <1>s, <1>7 DEF SendFails
  <1>8. CASE UNCHANGED vars
    BY <1>s, <1>8 DEF vars
  <1> QED
    BY <1>1, <1>2, <1>3, <1>4, <1>5, <1>6, <1>7, <1>8 DEF Next, Pump

(***************************************************************************)
(* An answer reaches its client under the id it asked with, for every kind *)
(* of id that survives the prefix.                                         *)
(***************************************************************************)
THEOREM IdsComeBack == Spec => []IdRestored
  <1>1. Init => KnownInv
    BY ClientsDistinct DEF Init, KnownInv, AllKnown, Known, Endpoint
  <1>2. KnownInv => IdRestored
    BY DEF KnownInv, AllKnown, Known, IdRestored
  <1> QED
    BY <1>1, <1>2, TypedInit, TypedStep, KnownStep, PTL DEF Spec
=============================================================================
