---------------------------- MODULE ClientFanout ----------------------------
(***************************************************************************)
(* How the stdio to SSE, WebSocket and gRPC gateways share one child among *)
(* their clients: the map of client queues, the tasks that fill and empty  *)
(* them, and the pump that takes the child's messages from the broadcast   *)
(* channel and sends each to its clients, one after the other.             *)
(*                                                                         *)
(* WebSocket and gRPC put the client's id in front of a request's id and   *)
(* route the answer by it; SSE sends everything to everybody.  A message   *)
(* of the child is numbered in the order of its stdout.  A client sends    *)
(* one request.  ChildGateway models the child's restarts; here a write to *)
(* it may fail at any time.                                                *)
(***************************************************************************)
EXTENDS Naturals, Sequences, Functions

CONSTANTS
  Clients,       \* connections, each with a fresh id
  Transports,    \* gateways to choose from, out of "sse", "ws" and "grpc"
  Ids,           \* ids of requests: JSON's kind, and the text in the prefixed form
  Numerals,      \* the texts that parse as an i64
  NoClient,      \* a message of the child without a client's id
  Stranger,      \* ... with an id of its own that has a colon in it
  Cap,           \* SESSION_EVENT_BUFFER, WS_CLIENT_BUFFER, GRPC_CLIENT_BUFFER
  OutCap,        \* CHILD_BROADCAST_BUFFER
  MaxOwn         \* bound: messages of the child that answer nobody

ASSUME TransportsKnown == Transports \subseteq {"sse", "ws", "grpc"}
ASSUME IdsKnown == Ids \subseteq [kind : {"str", "num", "other"}, text : STRING]
ASSUME ClientsDistinct ==
  NoClient \notin Clients \cup Ids /\ Stranger \notin Clients /\ NoClient # Stranger
ASSUME CapsPositive == Cap \in Nat \ {0} /\ OutCap \in Nat \ {0} /\ MaxOwn \in Nat

VARIABLES
  transport,   \* the gateway
  conn,        \* conn[c]: "new", "open" or "gone"
  sending,     \* clients whose sending side the gateway still reads
  endpoint,    \* SSE: clients whose endpoint event was queued
  entered,     \* keys of the clients map
  rx,          \* clients whose queue has a receiver
  queue,       \* queue[c]: the client's queue
  received,    \* received[c]: what was written to client c
  asked,       \* asked[c]: the id of c's request, or NoClient
  atChild,     \* clients whose request the child has read and not answered
  emitted,     \* how many messages the child has written
  own,         \* ... of which it wrote so many of itself
  out,         \* the broadcast channel
  msg,         \* the message the pump works on
  targets,     \* the clients it has still to be sent to
  at,          \* the one it is being sent to, or NoClient
  dead         \* clients whose queue turned out closed

clientVars == <<conn, sending, endpoint, asked>>
queueVars == <<rx, queue, received>>
childVars == <<atChild, emitted, own, out>>
pumpVars == <<msg, targets, at, dead>>
vars == <<transport, clientVars, entered, queueVars, childVars, pumpVars>>

Restored == [kind : {"str", "num"}, text : {i.text : i \in Ids}]
Messages ==
  [n : Nat, to : Clients \cup {NoClient, Stranger}, id : Ids \cup Restored \cup {NoClient}]
Endpoint == [n |-> 0, to |-> NoClient, id |-> NoClient]

TypeOK ==
  /\ transport \in Transports
  /\ conn \in [Clients -> {"new", "open", "gone"}]
  /\ sending \subseteq Clients /\ endpoint \subseteq Clients
  /\ entered \subseteq Clients /\ rx \subseteq Clients
  /\ queue \in [Clients -> Seq(Messages)]
  /\ \A c \in Clients : Len(queue[c]) <= Cap
  /\ received \in [Clients -> Seq(Messages)]
  /\ asked \in [Clients -> Ids \cup {NoClient}]
  /\ atChild \subseteq Clients
  /\ emitted \in Nat /\ own \in 0 .. MaxOwn
  /\ out \in Seq(Messages) /\ Len(out) <= OutCap
  /\ msg \in Messages
  /\ targets \subseteq Clients
  /\ at \in targets \cup {NoClient}
  /\ dead \subseteq Clients

Init ==
  /\ transport \in Transports
  /\ conn = [c \in Clients |-> "new"]
  /\ sending = {} /\ endpoint = {} /\ entered = {} /\ rx = {}
  /\ queue = [c \in Clients |-> <<>>]
  /\ received = [c \in Clients |-> <<>>]
  /\ asked = [c \in Clients |-> NoClient]
  /\ atChild = {} /\ emitted = 0 /\ own = 0 /\ out = <<>>
  /\ msg = Endpoint /\ targets = {} /\ at = NoClient /\ dead = {}

Routed == transport # "sse"

-----------------------------------------------------------------------------
(* Clients *)

\* sse_handler, handle_socket, stream: a queue under a fresh id.
Connect(c) ==
  /\ conn[c] = "new"
  /\ conn' = [conn EXCEPT ![c] = "open"]
  /\ sending' = sending \cup {c}
  /\ entered' = entered \cup {c}
  /\ rx' = rx \cup {c}
  /\ UNCHANGED <<transport, endpoint, asked, queue, received, childVars, pumpVars>>

\* Mutant: what does not fit is dropped.
EnqueueOrDrop(c, m) ==
  queue' = [queue EXCEPT ![c] = IF Len(@) < Cap THEN Append(@, m) ELSE @]

\* A send on a bounded channel waits for room.
Enqueue(c, m) ==
  /\ Len(queue[c]) < Cap
  /\ queue' = [queue EXCEPT ![c] = Append(@, m)]

\* SSE: the endpoint event follows, before the response is returned and its stream read.
SendEndpoint(c) ==
  /\ transport = "sse"
  /\ conn[c] = "open" /\ c \notin endpoint
  /\ Enqueue(c, Endpoint)
  /\ endpoint' = endpoint \cup {c}
  /\ UNCHANGED <<transport, conn, sending, asked, entered, rx, received, childVars, pumpVars>>

\* SSE: the session's id came with the endpoint event, and its stream is not closed.
MayPost(c) == Endpoint \in Range(received[c]) /\ c \in entered \cap rx

\* A request is written to the child, under the client's id.
Request(c, i) ==
  /\ asked[c] = NoClient
  /\ c \in sending
  /\ transport = "sse" => MayPost(c)
  /\ asked' = [asked EXCEPT ![c] = i]
  /\ atChild' = atChild \cup {c}
  /\ UNCHANGED <<transport, conn, sending, endpoint, entered, queueVars, emitted, own, out,
                 pumpVars>>

(***************************************************************************)
(* The write fails.  SSE answers 502 and WebSocket ignores it; gRPC stops  *)
(* reading from the client and takes it out of the map.                    *)
(***************************************************************************)
RequestFails(c) ==
  /\ transport = "grpc"
  /\ c \in sending
  /\ sending' = sending \ {c}
  /\ entered' = entered \ {c}
  /\ UNCHANGED <<transport, conn, endpoint, asked, queueVars, childVars, pumpVars>>

\* SSE: a message for a session whose stream is closed is a 503 and removes it.
PostToClosed(c) ==
  /\ transport = "sse"
  /\ Endpoint \in Range(received[c])
  /\ c \in entered \ rx
  /\ entered' = entered \ {c}
  /\ UNCHANGED <<transport, clientVars, queueVars, childVars, pumpVars>>

\* The client leaves; with gRPC also when its stream ends with the last sender.
Gone(c) ==
  /\ conn[c] = "open"
  /\ conn' = [conn EXCEPT ![c] = "gone"]
  /\ UNCHANGED <<transport, sending, endpoint, asked, entered, queueVars, childVars, pumpVars>>

\* gRPC: the client's stream of requests ends, by half-close or with the client.
RequestsEnd(c) ==
  /\ transport = "grpc"
  /\ c \in sending
  /\ sending' = sending \ {c}
  /\ entered' = entered \ {c}
  /\ UNCHANGED <<transport, conn, endpoint, asked, queueVars, childVars, pumpVars>>

\* WebSocket: the task that reads from a client that is gone ends.
ReadEnds(c) ==
  /\ transport = "ws"
  /\ conn[c] = "gone" /\ c \in sending
  /\ sending' = sending \ {c}
  /\ UNCHANGED <<transport, conn, endpoint, asked, entered, queueVars, childVars, pumpVars>>

Listening(c) ==
  /\ conn[c] = "open" /\ c \in rx
  /\ transport = "sse" => c \in endpoint

\* The oldest message of a queue is written to its client.
Deliver(c) ==
  /\ Listening(c)
  /\ queue[c] # <<>>
  /\ received' = [received EXCEPT ![c] = Append(@, Head(queue[c]))]
  /\ queue' = [queue EXCEPT ![c] = Tail(@)]
  /\ UNCHANGED <<transport, clientVars, entered, rx, childVars, pumpVars>>

(***************************************************************************)
(* The receiver of a client that is gone is dropped: by the server with    *)
(* the response's stream, or, WebSocket, by the writing task once a write  *)
(* fails, and so not before there is something to write.                   *)
(***************************************************************************)
ReceiverDropped(c) ==
  /\ conn[c] = "gone" /\ c \in rx
  /\ transport = "ws" => queue[c] # <<>>
  /\ rx' = rx \ {c}
  /\ queue' = [queue EXCEPT ![c] = <<>>]
  /\ UNCHANGED <<transport, clientVars, entered, received, childVars, pumpVars>>

\* WebSocket: a write to a client that is gone may still succeed.
WriteLost(c) ==
  /\ transport = "ws"
  /\ conn[c] = "gone" /\ c \in rx /\ queue[c] # <<>>
  /\ queue' = [queue EXCEPT ![c] = Tail(@)]
  /\ UNCHANGED <<transport, clientVars, entered, rx, received, childVars, pumpVars>>

\* WebSocket: both tasks have ended, the client is taken out.
Leave(c) ==
  /\ transport = "ws"
  /\ c \in entered /\ c \notin sending /\ c \notin rx
  /\ entered' = entered \ {c}
  /\ UNCHANGED <<transport, clientVars, queueVars, childVars, pumpVars>>

-----------------------------------------------------------------------------
(* The child *)

\* Mutant: the channel grows.
BroadcastAll(m) == out' = Append(out, m)

\* A full channel drops its oldest message.
Broadcast(m) == out' = Append(IF Len(out) = OutCap THEN Tail(out) ELSE out, m)

\* Mutant: a text that reads as a number stays a string.
StripKeepsText(t) == [kind |-> "str", text |-> t]

\* strip_prefixed_id: the kind of the id was lost in the prefix and is guessed.
Strip(t) == [kind |-> IF t \in Numerals THEN "num" ELSE "str", text |-> t]

\* An answer carries the id it was asked with, which SSE did not prefix.
Answer(c) ==
  /\ c \in atChild
  /\ atChild' = atChild \ {c}
  /\ emitted' = emitted + 1
  /\ Broadcast([n |-> emitted', to |-> c,
                id |-> IF Routed THEN Strip(asked[c].text) ELSE asked[c]])
  /\ UNCHANGED <<transport, clientVars, entered, queueVars, own, pumpVars>>

\* A notification or a request of the child itself.
Emit(to) ==
  /\ own < MaxOwn
  /\ own' = own + 1
  /\ emitted' = emitted + 1
  /\ Broadcast([n |-> emitted', to |-> to, id |-> NoClient])
  /\ UNCHANGED <<transport, clientVars, entered, queueVars, atChild, pumpVars>>

-----------------------------------------------------------------------------
(* The pump *)

Idle == msg = Endpoint

\* Mutant: an answer whose client left goes to the others.
RecipientsOrAll(m) == IF Routed /\ m.to \in entered THEN {m.to} ELSE entered

(***************************************************************************)
(* Who a message is for, looked up under the map's lock: an id with a      *)
(* prefix that is no client's reaches nobody.                              *)
(***************************************************************************)
Recipients(m) == IF Routed /\ m.to # NoClient THEN entered \cap {m.to} ELSE entered

OneOf(S) == IF S = {} THEN {NoClient} ELSE S

Receive ==
  /\ Idle
  /\ out # <<>>
  /\ out' = Tail(out)
  /\ msg' = Head(out)
  /\ targets' = Recipients(Head(out))
  /\ at' \in OneOf(targets')
  /\ UNCHANGED <<transport, clientVars, entered, queueVars, atChild, emitted, own, dead>>

Advance(c) ==
  /\ targets' = targets \ {c}
  /\ at' \in OneOf(targets')

\* Mutant: the message is sent, and the pump comes back to the client.
SendAgain(c) ==
  /\ at = c
  /\ c \in rx
  /\ Enqueue(c, msg)
  /\ UNCHANGED <<transport, clientVars, entered, rx, received, childVars, pumpVars>>

\* The send waits while the client's queue is full, and everybody else with it.
Send(c) ==
  /\ at = c
  /\ c \in rx
  /\ Enqueue(c, msg)
  /\ Advance(c)
  /\ UNCHANGED <<transport, clientVars, entered, rx, received, childVars, msg, dead>>

\* Mutant: a full queue counts as a closed one.
SendFailsWhenFull(c) ==
  /\ at = c
  /\ c \notin rx \/ Len(queue[c]) = Cap
  /\ dead' = dead \cup {c}
  /\ Advance(c)
  /\ UNCHANGED <<transport, clientVars, entered, queueVars, childVars, msg>>

SendFails(c) ==
  /\ at = c
  /\ c \notin rx
  /\ dead' = dead \cup {c}
  /\ Advance(c)
  /\ UNCHANGED <<transport, clientVars, entered, queueVars, childVars, msg>>

Finish ==
  /\ ~Idle
  /\ at = NoClient
  /\ entered' = entered \ dead
  /\ dead' = {}
  /\ msg' = Endpoint
  /\ UNCHANGED <<transport, clientVars, queueVars, childVars, targets, at>>

-----------------------------------------------------------------------------
Client(c) ==
  \/ Connect(c) \/ SendEndpoint(c) \/ RequestFails(c) \/ PostToClosed(c)
  \/ \E i \in Ids : Request(c, i)
  \/ Gone(c) \/ RequestsEnd(c) \/ ReadEnds(c)
  \/ Deliver(c) \/ ReceiverDropped(c) \/ WriteLost(c) \/ Leave(c)

Pump == Receive \/ Finish \/ \E c \in Clients : Send(c) \/ SendFails(c)

Next ==
  \/ \E c \in Clients : Client(c) \/ Answer(c)
  \/ \E to \in {NoClient, Stranger} : Emit(to)
  \/ Pump

Spec == Init /\ [][Next]_vars

(***************************************************************************)
(* The pump runs, clients that are connected read what is sent to them,    *)
(* and the receiver of one that is gone is dropped when something is to be *)
(* written.  Nobody has to connect, to ask, to answer or to leave.         *)
(***************************************************************************)
FairSpec ==
  /\ Spec
  /\ WF_vars(Pump)
  /\ \A c \in Clients : WF_vars(Deliver(c)) /\ WF_vars(ReceiverDropped(c))

-----------------------------------------------------------------------------
(* Properties *)

Sent(c) == received[c] \o queue[c]

(***************************************************************************)
(* With WebSocket and gRPC the answer to a client's request is sent to no  *)
(* other client, also when its client left while the answer was under way. *)
(***************************************************************************)
AnswersPrivate ==
  Routed =>
    \A c \in Clients : \A k \in DOMAIN Sent(c) : Sent(c)[k].to \in {c, NoClient}

(***************************************************************************)
(* Every client is sent messages in the order in which the child wrote     *)
(* them and each at most once, for all that may be lost on the way.        *)
(***************************************************************************)
InOrder ==
  \A c \in Clients : \A j, k \in DOMAIN Sent(c) :
    j < k /\ Sent(c)[j].n # 0 /\ Sent(c)[k].n # 0 => Sent(c)[j].n < Sent(c)[k].n

(***************************************************************************)
(* A client that is connected and sends is in the map: no slow, failed or  *)
(* late send of the pump ever removes it.                                  *)
(***************************************************************************)
ConnectedStays == \A c \in sending : conn[c] = "open" => c \in entered

\* An id that survives the prefix: an i64, or a string that does not read as one.
Plain(i) == i.kind = IF i.text \in Numerals THEN "num" ELSE "str"

\* A client's answer comes back under the id that it asked with, if that is Plain.
IdRestored ==
  \A c \in Clients : \A k \in DOMAIN received[c] :
    received[c][k].to = c /\ Plain(asked[c]) => received[c][k].id = asked[c]

(***************************************************************************)
(* A WebSocket or gRPC client gets the answer that the pump has taken for  *)
(* it, unless it is gone, whatever the other clients do.                   *)
(***************************************************************************)
AnswerDelivered ==
  \A c \in Clients :
    Routed /\ at = c /\ msg.to = c
      ~> conn[c] = "gone" \/ \E k \in DOMAIN received[c] : received[c][k].to = c
=============================================================================
