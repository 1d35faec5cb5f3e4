----------------------------- MODULE ToolClient -----------------------------
(***************************************************************************)
(* The tool API (tool_api/): callers share one ToolClient.  One mutex      *)
(* guards its state, and is held across every await of a refresh or of a   *)
(* call; a lookup takes it for a moment only.                              *)
(*                                                                         *)
(* Over Streamable HTTP the reply to a POST is the answer.  Over SSE,      *)
(* WebSocket and gRPC a reader task hands each answer to the entry under   *)
(* its id; it ends with its connection, and the next send opens another.   *)
(* The Mcp-Session-Id header, which nothing depends on, and the arguments  *)
(* and schemas themselves are left out.                                    *)
(***************************************************************************)
EXTENDS Integers

CONSTANTS
  Callers,      \* tasks that use the client, one operation each
  NoCaller,
  Tools         \* tool names

ASSUME NoCallerDistinct == NoCaller \notin Callers
ASSUME ToolsExist == Tools # {}

VARIABLES
  kind,         \* the transport
  stage,        \* stage[c]: the section c works on or waits for, or its outcome
  goal,         \* goal[c]: call_by_name, prepare_args or list_with_metadata
  want,         \* want[c]: the tool
  began,        \* history: the number of lists received when c began
  lock,         \* the holder of the state's mutex across an await
  op,           \* the message the holder sends
  phase,        \* the await the holder is in
  seq,          \* request_seq, and the number in the id of the latest request
  initialized,
  tools,        \* tools_by_name
  lists,        \* history: lists received
  handshake,    \* history: how far a handshake has come
  conn,         \* the reader task runs
  endpoint,     \* SSE: the message endpoint is known
  pending,      \* ids with an entry in the pending map
  abandoned,    \* history: ids whose caller was dropped while it had an entry
  wire,         \* requests the server has, and whose answer may still come
  mail          \* the answer in the oneshot channel of the holder

clientVars == <<initialized, tools, lists, handshake>>
callVars == <<stage, goal, want, began>>
linkVars == <<conn, endpoint, wire>>
entryVars == <<pending, abandoned, mail>>
toolVars == <<kind, lock, op, phase, seq, clientVars, callVars, linkVars, entryVars>>

Kinds == {"http", "sse", "ws", "grpc"}
Operations == {"init", "note", "list", "call"}
Outcomes == {"answered", "notFound", "invalid", "failed", "gone"}
Sections == {"lookup", "refresh", "relookup", "call", "show"}
Messages == [id : Nat, by : Callers, op : Operations]
NoMail == [id |-> 0, by |-> NoCaller, op |-> "none"]

ToolTypeOK ==
  /\ kind \in Kinds
  /\ stage \in [Callers -> {"idle"} \cup Sections \cup Outcomes]
  /\ goal \in [Callers -> {"call", "prepare", "list"}]
  /\ want \in [Callers -> Tools]
  /\ began \in [Callers -> Nat]
  /\ lock \in Callers \cup {NoCaller}
  /\ op \in Operations \cup {"none"}
  /\ phase \in {"none", "connect", "endpoint", "post", "wait"}
  /\ seq \in Nat
  /\ initialized \in BOOLEAN
  /\ tools \subseteq Tools
  /\ lists \in Nat
  /\ handshake \in {"none", "welcomed", "complete"}
  /\ conn \in BOOLEAN
  /\ endpoint \in BOOLEAN
  /\ pending \subseteq Nat
  /\ abandoned \subseteq Nat
  /\ wire \subseteq Messages
  /\ mail \in Messages \cup {NoMail}

ToolInit ==
  /\ kind \in Kinds
  /\ stage = [c \in Callers |-> "idle"]
  /\ goal = [c \in Callers |-> "call"]
  /\ want = [c \in Callers |-> CHOOSE t \in Tools : TRUE]
  /\ began = [c \in Callers |-> 0]
  /\ lock = NoCaller /\ op = "none" /\ phase = "none"
  /\ seq = 0 /\ initialized = FALSE /\ tools = {} /\ lists = 0
  /\ handshake = "none"
  /\ conn = FALSE /\ endpoint = FALSE
  /\ pending = {} /\ abandoned = {} /\ wire = {} /\ mail = NoMail

-----------------------------------------------------------------------------
(* Sections of an operation *)

\* call_by_name and ToolHandle, prepare_args, or list_with_metadata is called.
Begin(c) ==
  /\ stage[c] = "idle"
  /\ \E g \in {"call", "prepare", "list"} :
       /\ goal' = [goal EXCEPT ![c] = g]
       /\ stage' = [stage EXCEPT ![c] = IF g = "list" THEN "refresh" ELSE "lookup"]
       /\ want' \in {[want EXCEPT ![c] = t] : t \in Tools}
  /\ began' = [began EXCEPT ![c] = lists]
  /\ UNCHANGED <<kind, lock, op, phase, seq, clientVars, linkVars, entryVars>>

\* Mutant: a miss is final.
AfterMissFinal(s) == "notFound"

\* What a lookup that misses does: refresh once, then give up.
AfterMiss(s) == IF s = "lookup" THEN "refresh" ELSE "notFound"

\* What a lookup that finds the tool does with valid arguments.
AfterHit(c) == IF goal[c] = "call" THEN "call" ELSE "answered"

\* resolve_tool under a moment's lock; then the arguments are completed and validated.
Lookup(c) ==
  /\ stage[c] \in {"lookup", "relookup"}
  /\ lock = NoCaller
  /\ \E next \in IF want[c] \in tools THEN {AfterHit(c), "invalid"} ELSE {AfterMiss(stage[c])} :
       stage' = [stage EXCEPT ![c] = next]
  /\ UNCHANGED <<kind, goal, want, began, lock, op, phase, seq, clientVars, linkVars, entryVars>>

\* The second lock of list_with_metadata.
Show(c) ==
  /\ stage[c] = "show" /\ lock = NoCaller
  /\ stage' = [stage EXCEPT ![c] = "answered"]
  /\ UNCHANGED <<kind, goal, want, began, lock, op, phase, seq, clientVars, linkVars, entryVars>>

\* The request a section is there for.
Request(c) == IF stage[c] = "refresh" THEN "list" ELSE "call"

\* next_request_id; a notification has none.
NextSeq(o) == IF o = "note" THEN seq ELSE seq + 1

\* The holder turns to message o; StreamableHttpTransport has nothing to open.
Turn(o) ==
  /\ op' = o
  /\ seq' = NextSeq(o)
  /\ phase' = IF kind = "http" THEN "post" ELSE "connect"
  /\ mail' = NoMail

\* Mutant: the client counts as initialized once it has sent initialize.
FirstOpSent(c) == IF seq > 0 THEN Request(c) ELSE "init"

\* The first message of a section: ensure_initialized comes first.
FirstOp(c) == IF initialized THEN Request(c) ELSE "init"

\* refresh_tools and call_tool take the mutex.
Lock(c) ==
  /\ stage[c] \in {"refresh", "call"}
  /\ lock = NoCaller
  /\ lock' = c
  /\ Turn(FirstOp(c))
  /\ UNCHANGED <<kind, callVars, clientVars, linkVars, pending, abandoned>>

\* The section of c ends with stage s, and the guard is dropped.
Release(c, s) ==
  /\ lock' = NoCaller /\ op' = "none" /\ phase' = "none" /\ mail' = NoMail
  /\ stage' = [stage EXCEPT ![c] = s]
  /\ UNCHANGED <<kind, goal, want, began, seq>>

\* ... by itself, not because its future is dropped.
End(s) == Release(lock, s) /\ UNCHANGED abandoned

-----------------------------------------------------------------------------
(* Sending *)

\* The entry goes in before the message goes out; a notification has none.
Insert == IF op = "note" THEN pending ELSE pending \cup {seq}

\* Ready to send: over SSE the endpoint must be known first.
Connected ==
  /\ IF kind = "sse"
     THEN phase' = "endpoint" /\ UNCHANGED pending
     ELSE phase' = "post" /\ pending' = Insert
  /\ UNCHANGED <<kind, lock, op, seq, clientVars, callVars, abandoned, mail>>

\* ensure_connected, ensure_stream_started: the reader still runs.
Reuse ==
  /\ phase = "connect" /\ conn
  /\ Connected
  /\ UNCHANGED linkVars

\* ... or a connection is opened; a new event stream forgets the endpoint.
Open ==
  /\ phase = "connect" /\ ~conn
  /\ Connected
  /\ conn' = TRUE /\ endpoint' = FALSE
  /\ UNCHANGED wire

\* ... or that fails.
OpenFails ==
  /\ phase = "connect" /\ ~conn
  /\ End("failed")
  /\ UNCHANGED <<clientVars, linkVars, pending>>

\* wait_for_message_endpoint
EndpointKnown ==
  /\ phase = "endpoint" /\ endpoint
  /\ phase' = "post" /\ pending' = Insert
  /\ UNCHANGED <<kind, lock, op, seq, clientVars, callVars, linkVars, abandoned, mail>>

EndpointTimeout ==
  /\ phase = "endpoint" /\ ~endpoint
  /\ End("failed")
  /\ UNCHANGED <<clientVars, linkVars, pending>>

\* A request the server has received is answered on the connection, if that is up.
Reaches ==
  wire' = IF op = "note" \/ kind = "http" \/ ~conn THEN wire
          ELSE wire \cup {[id |-> seq, by |-> lock, op |-> op]}

\* A request went out, and its answer is awaited.
Sent ==
  /\ phase = "post" /\ op # "note" /\ kind # "http"
  /\ Reaches
  /\ phase' = "wait"
  /\ UNCHANGED <<kind, lock, op, seq, clientVars, callVars, conn, endpoint, entryVars>>

\* The initialized notification went out.
NoteSent ==
  /\ phase = "post" /\ op = "note"
  /\ initialized' = TRUE
  /\ handshake' = IF handshake = "none" THEN "none" ELSE "complete"
  /\ Turn(Request(lock))
  /\ UNCHANGED <<kind, lock, tools, lists, callVars, linkVars, pending, abandoned>>

\* A send fails, before or after the server got the message.
SendFails ==
  /\ phase = "post"
  /\ Reaches \/ UNCHANGED wire
  /\ pending' = pending \ {seq}
  /\ End("failed")
  /\ UNCHANGED <<clientVars, conn, endpoint>>

-----------------------------------------------------------------------------
(* Answers *)

\* A result reaches the holder's section: parse_tools_list_response and replace_tools, ...
Result ==
  \/ /\ op = "init"
     /\ handshake' = IF handshake = "none" THEN "welcomed" ELSE handshake
     /\ Turn("note")
     /\ UNCHANGED <<kind, lock, callVars, initialized, tools, lists, abandoned>>
  \/ /\ op = "list"
     /\ tools' \in SUBSET Tools
     /\ lists' = lists + 1
     /\ End(IF goal[lock] = "list" THEN "show" ELSE "relookup")
     /\ UNCHANGED <<initialized, handshake>>
  \/ /\ op = "call"
     /\ End("answered")
     /\ UNCHANGED clientVars

\* ... or an error or an unusable result.
Reply ==
  \/ Result
  \/ End("failed") /\ UNCHANGED clientVars

\* HTTP, and a POST over SSE that is answered at once.
PostAnswered ==
  /\ phase = "post" /\ op # "note" /\ kind \in {"http", "sse"}
  /\ pending' = pending \ {seq}
  /\ Reply
  /\ UNCHANGED linkVars

\* Mutant: the answer goes to whoever waits.
DeliverToHolder(m) ==
  /\ pending' = pending \ {m.id}
  /\ mail' = IF phase = "wait" THEN m ELSE mail

\* The reader takes the entry; the channel of a dropped caller is closed.
DeliverToEntry(m) ==
  /\ pending' = pending \ {m.id}
  /\ mail' = IF m.id \in pending /\ m.id = seq /\ lock # NoCaller THEN m ELSE mail

\* The reader task gets an answer.
Answer ==
  /\ conn
  /\ \E m \in wire :
       /\ wire' = wire \ {m}
       /\ DeliverToEntry(m)
  /\ UNCHANGED <<kind, lock, op, phase, seq, clientVars, callVars, conn, endpoint, abandoned>>

\* The channel has the answer.
Receive ==
  /\ phase = "wait" /\ mail # NoMail
  /\ Reply
  /\ UNCHANGED <<linkVars, pending>>

\* Mutant: an entry whose request timed out is left in the map.
DropEntryLater == pending' = pending

\* The entry of a request that timed out is removed.
DropEntry == pending' = pending \ {seq}

\* Mutant: a request ends with its connection only.
TimeoutOnClose ==
  /\ phase = "wait" /\ mail = NoMail /\ ~conn
  /\ DropEntry
  /\ End("failed")
  /\ UNCHANGED <<clientVars, linkVars>>

\* request_timeout: an answer that is there is taken first.
Timeout ==
  /\ phase = "wait" /\ mail = NoMail
  /\ DropEntry
  /\ End("failed")
  /\ UNCHANGED <<clientVars, linkVars>>

\* SSE: the endpoint event.
EndpointEvent ==
  /\ kind = "sse" /\ conn /\ ~endpoint
  /\ endpoint' = TRUE
  /\ UNCHANGED <<kind, lock, op, phase, seq, clientVars, callVars, conn, wire, entryVars>>

\* The connection ends, and with it the reader; the entries stay.
Disconnect ==
  /\ conn
  /\ conn' = FALSE /\ wire' = {}
  /\ UNCHANGED <<kind, lock, op, phase, seq, clientVars, callVars, endpoint, entryVars>>

\* The holder's future is dropped at an await: an entry it has stays in the
\* map, and a message it was writing may have gone out.
DropHolder ==
  /\ lock # NoCaller
  /\ abandoned' = IF phase \in {"post", "wait"} /\ seq \in pending
                  THEN abandoned \cup {seq} ELSE abandoned
  /\ (phase = "post" /\ Reaches) \/ UNCHANGED wire
  /\ Release(lock, "gone")
  /\ UNCHANGED <<clientVars, conn, endpoint, pending>>

\* A future that waits for the mutex is dropped.
DropWaiting(c) ==
  /\ stage[c] \in Sections /\ lock # c
  /\ stage' = [stage EXCEPT ![c] = "gone"]
  /\ UNCHANGED <<kind, goal, want, began, lock, op, phase, seq, clientVars, linkVars,
                 entryVars>>

ToolNext ==
  \/ \E c \in Callers : Begin(c) \/ Lookup(c) \/ Show(c) \/ Lock(c) \/ DropWaiting(c)
  \/ Reuse \/ Open \/ OpenFails \/ EndpointKnown \/ EndpointTimeout
  \/ Sent \/ NoteSent \/ SendFails \/ PostAnswered \/ Receive \/ Timeout
  \/ Answer \/ EndpointEvent \/ Disconnect \/ DropHolder

\* Tasks that can run do, and the mutex is fair.  A write ends, and every wait
\* but one has a time-out: nothing bounds the opening of an event stream or of
\* a gRPC stream whose server accepts the connection and then says nothing.
\* request_timeout is assumed to be set, as it is by default.
ToolFairness ==
  /\ \A c \in Callers : SF_toolVars(Lookup(c) \/ Show(c) \/ Lock(c))
  /\ WF_toolVars(kind \in {"http", "ws"} /\ (Open \/ OpenFails))
  /\ WF_toolVars(Reuse \/ EndpointKnown \/ EndpointTimeout)
  /\ WF_toolVars(Sent \/ NoteSent \/ SendFails \/ PostAnswered)
  /\ WF_toolVars(Receive \/ Timeout)

ToolSpec == ToolInit /\ [][ToolNext]_toolVars
FairToolSpec == ToolSpec /\ ToolFairness

-----------------------------------------------------------------------------
(* Properties *)

\* tools/list and tools/call are sent only to a server that has answered an
\* initialize of this client and was told "initialized", whoever came first,
\* and whatever failed or was dropped in between.
WelcomeFirst ==
  /\ phase = "post" /\ op \in {"list", "call"} => handshake = "complete"
  /\ \A m \in wire : m.op \in {"list", "call"} => handshake = "complete"

\* A caller only ever gets the answer to the request it waits for, never the
\* late answer of a request that timed out or whose caller was dropped.
AnswerIsOwn == mail # NoMail => mail.id = seq /\ mail.by = lock /\ mail.op = op

\* The pending map holds the request in flight, and otherwise only entries of
\* callers that were dropped: no outcome of a request leaves its entry behind.
PendingOwned ==
  \A i \in pending :
    i \in abandoned \/ (i = seq /\ lock # NoCaller /\ phase \in {"post", "wait"})

\* "Tool not found" is never said on the strength of a list that was there
\* before the operation began, even when other callers refresh meanwhile.
NotFoundIsFresh ==
  \A c \in Callers : stage[c] = "notFound" => lists > began[c]

\* Every operation ends, or its turn comes to wait for a stream that a silent
\* server never opens.
CallsEnd ==
  \A c \in Callers :
    stage[c] \in Sections ~>
      (stage[c] \in Outcomes \/ (phase = "connect" /\ kind \in {"sse", "grpc"}))
=============================================================================
