---------------------------- MODULE StdioBridge -----------------------------
(***************************************************************************)
(* The bridges from stdio to a remote SSE or Streamable HTTP server        *)
(* (gateways/sse_to_stdio.rs, gateways/streamable_http_to_stdio.rs): the   *)
(* main loop, which takes one request after the other from stdin, the      *)
(* task that reads the server's event stream, and the update loop.         *)
(*                                                                         *)
(* A call that comes before the client's own initialize makes the bridge   *)
(* initialize the server by itself.  Any POST may be lost, answered and    *)
(* the answer lost, refused, or answered without a usable body.  A server  *)
(* issues a session id only for an initialize that carries none, as        *)
(* stateful_post of stdio_to_streamable_http.rs does.  Messages that are   *)
(* only copied to stdout change no state and are left out.                 *)
(***************************************************************************)
EXTENDS RetryBreaker

CONSTANTS
  Requests,     \* requests on stdin, each read once
  NoRequest,
  Sessions,     \* ids the server may issue
  NoSession,
  MaxUpdates    \* bound: updates of the runtime headers

ASSUME NullsDistinct == NoRequest \notin Requests /\ NoSession \notin Sessions
ASSUME MaxUpdatesTyped == MaxUpdates \in Nat

VARIABLES
  kind,         \* which bridge: "sse" or "http"
  pc,           \* the await of the main loop
  current,      \* the request it works on
  method,       \* method[r]: "initialize" or "call", "none" until r is read
  initialized,
  headers,      \* the version of the headers of the current request
  needed,       \* history: the updates answered before it was read
  posts,        \* posts[r]: how often r was posted
  answers,      \* answers[r]: how often the loop printed a response to r
  sent,         \* the session id on the latest POST
  session,      \* HTTP: the session id, shared with the stream task
  endpoint,     \* SSE: the message endpoint is known
  stream,       \* the event stream: "none", "open" or "over"
  streamOf,     \* HTTP: the session id the stream was asked for with
  store,        \* how many updates of the headers the store has seen
  applied,      \* ... and the update loop has answered
  heads,        \* history: session ids that have reached the bridge
  welcomed,     \* history: a result of an initialize has reached it
  notified      \* history: ... and a notification was accepted after it

loopVars == <<kind, pc, current, method, initialized, headers, needed, answers>>
postVars == <<posts, sent, session, heads, welcomed, notified>>
streamVars == <<endpoint, stream, streamOf>>
updateVars == <<store, applied>>
vars == <<retryVars, loopVars, postVars, streamVars, updateVars>>

\* The loop's operations, and its other awaits: stdin and wait_for_message_endpoint.
Operations == {"autoInit", "autoNote", "request", "ownNote"}

TypeOK ==
  /\ RetryTypeOK
  /\ kind \in {"sse", "http"}
  /\ pc \in Operations \cup {"read", "endpoint"}
  /\ current \in Requests \cup {NoRequest}
  /\ pc # "read" => current \in Requests
  /\ method \in [Requests -> {"none", "initialize", "call"}]
  /\ {initialized, welcomed, notified, endpoint} \subseteq BOOLEAN
  /\ posts \in [Requests -> 0 .. MaxRetries + 1]
  /\ answers \in [Requests -> Nat]
  /\ {session, streamOf, sent} \subseteq Sessions \cup {NoSession}
  /\ heads \subseteq Sessions
  /\ stream \in {"none", "open", "over"}
  /\ {store, applied, headers, needed} \subseteq 0 .. MaxUpdates

Init ==
  /\ RetryInit
  /\ kind \in {"sse", "http"}
  /\ pc = "read" /\ current = NoRequest
  /\ method = [r \in Requests |-> "none"]
  /\ initialized = FALSE /\ welcomed = FALSE /\ notified = FALSE
  /\ posts = [r \in Requests |-> 0]
  /\ answers = [r \in Requests |-> 0]
  /\ session = NoSession /\ sent = NoSession /\ heads = {}
  /\ endpoint = FALSE /\ stream = "none" /\ streamOf = NoSession
  /\ store = 0 /\ applied = 0 /\ headers = 0 /\ needed = 0

-----------------------------------------------------------------------------
(* The main loop: a request *)

\* Mutant: the headers are those of the start.
BeginWithFirstHeaders(m) ==
  /\ pc' = IF initialized \/ m = "initialize" THEN "request" ELSE "autoInit"
  /\ UNCHANGED headers

\* The headers are read once for all that is posted for this request.
Begin(m) ==
  /\ pc' = IF initialized \/ m = "initialize" THEN "request" ELSE "autoInit"
  /\ headers' = store

Read(r, m) ==
  /\ pc = "read"
  /\ method[r] = "none"
  /\ method' = [method EXCEPT ![r] = m]
  /\ current' = r
  /\ needed' = applied
  /\ \/ kind = "http" /\ Begin(m)
     \/ kind = "sse" /\ pc' = "endpoint" /\ UNCHANGED headers
  /\ UNCHANGED <<retryVars, kind, initialized, answers, postVars, streamVars, updateVars>>

EndpointFound ==
  /\ pc = "endpoint"
  /\ endpoint
  /\ Begin(method[current])
  /\ UNCHANGED <<retryVars, kind, current, method, initialized, needed, answers, postVars,
                 streamVars, updateVars>>

Respond == answers' = [answers EXCEPT ![current] = @ + 1]

\* Mutant: the wait has no end once the stream is over.
EndpointTimesOutOnStream ==
  /\ pc = "endpoint"
  /\ ~endpoint
  /\ stream # "over"
  /\ pc' = "read"
  /\ Respond
  /\ UNCHANGED <<retryVars, kind, current, method, initialized, headers, needed, postVars,
                 streamVars, updateVars>>

\* ENDPOINT_WAIT_TIMEOUT: the response is an error.
EndpointTimesOut ==
  /\ pc = "endpoint"
  /\ ~endpoint
  /\ pc' = "read"
  /\ Respond
  /\ UNCHANGED <<retryVars, kind, current, method, initialized, headers, needed, postVars,
                 streamVars, updateVars>>

-----------------------------------------------------------------------------
(* The main loop: send_request and send_initialized_notification *)

Call ==
  /\ pc \in Operations
  /\ Start
  /\ UNCHANGED <<loopVars, postVars, streamVars, updateVars>>

Post ==
  /\ Attempt
  /\ sent' = session
  /\ posts' = IF pc = "request" THEN [posts EXCEPT ![current] = @ + 1] ELSE posts
  /\ UNCHANGED <<loopVars, session, heads, welcomed, notified, streamVars, updateVars>>

\* Back-off and cooldown.
Pass ==
  /\ WakeUp \/ Cool
  /\ UNCHANGED <<loopVars, postVars, streamVars, updateVars>>

\* Whether the POST in flight is an initialize, the bridge's or the client's ...
Initializing == pc = "autoInit" \/ (pc = "request" /\ method[current] = "initialize")

\* ... or the notification that follows it.
Noting == pc \in {"autoNote", "ownNote"}

\* The server's answer to a POST may carry a session id.
Issue(s) ==
  /\ kind = "http" /\ Initializing /\ sent = NoSession
  /\ s \notin heads
  /\ heads' = heads \cup {s}

\* Mutant: the id is only taken from an answer that can be used.
HeadArrivesUsable(usable) ==
  \/ UNCHANGED <<session, heads>>
  \/ \E s \in Sessions : Issue(s) /\ session' = IF usable THEN s ELSE session

(***************************************************************************)
(* The head of an answer is looked at before its body and whatever its     *)
(* status: the session id in it is kept, also when the attempt then fails. *)
(***************************************************************************)
HeadArrives(usable) ==
  \/ UNCHANGED <<session, heads>>
  \/ \E s \in Sessions : Issue(s) /\ session' = s

\* Mutant: the request goes on when the bridge could not initialize.
AfterInitAnyway(ok) ==
  /\ pc = "autoInit"
  /\ pc' = IF ok THEN "autoNote" ELSE "request"
  /\ UNCHANGED <<initialized, answers>>

\* An automatic initialize that failed is the response to the request.
AfterInit(ok) ==
  /\ pc = "autoInit"
  /\ \/ ok /\ pc' = "autoNote" /\ UNCHANGED answers
     \/ ~ok /\ pc' = "read" /\ Respond
  /\ UNCHANGED initialized

\* A notification that failed is tried again with the next request.
AfterAutoNote(ok) ==
  /\ pc = "autoNote"
  /\ pc' = "request"
  /\ initialized' = ok
  /\ UNCHANGED answers

\* Mutant: the response is printed before the notification as well.
AfterRequestTwice(ok) ==
  /\ pc = "request"
  /\ pc' = IF method[current] = "initialize" /\ ok /\ ~initialized THEN "ownNote" ELSE "read"
  /\ Respond
  /\ UNCHANGED initialized

AfterRequest(ok) ==
  LET notes == method[current] = "initialize" /\ ok /\ ~initialized
  IN  /\ pc = "request"
      /\ \/ notes /\ pc' = "ownNote" /\ UNCHANGED answers
         \/ ~notes /\ pc' = "read" /\ Respond
      /\ UNCHANGED initialized

AfterOwnNote(ok) ==
  /\ pc = "ownNote"
  /\ pc' = "read"
  /\ initialized' = ok
  /\ Respond

\* The operation has ended; ok: with a result that is not an error.
After(ok) ==
  /\ AfterInit(ok) \/ AfterAutoNote(ok) \/ AfterRequest(ok) \/ AfterOwnNote(ok)
  /\ UNCHANGED <<kind, current, method, headers, needed>>

\* parse_response_payload finds a result, or a notification is accepted.
Result ==
  /\ Succeed
  /\ HeadArrives(TRUE)
  /\ After(TRUE)
  /\ welcomed' = (welcomed \/ Initializing)
  /\ notified' = (notified \/ (Noting /\ welcomed))
  /\ UNCHANGED <<posts, sent, streamVars, updateVars>>

\* An error in the body is an answer: it is neither retried nor counted.
ErrorAnswer ==
  /\ ~Noting
  /\ Succeed
  /\ HeadArrives(TRUE)
  /\ After(FALSE)
  /\ UNCHANGED <<posts, sent, welcomed, notified, streamVars, updateVars>>

\* No answer, an empty body, one that is not JSON, or a bad status without an error in the body.
Failure ==
  /\ \/ FailAndRetry /\ UNCHANGED loopVars
     \/ FailForGood /\ After(FALSE)
  /\ HeadArrives(FALSE)
  /\ UNCHANGED <<posts, sent, welcomed, notified, streamVars, updateVars>>

-----------------------------------------------------------------------------
(* The stream task *)

\* HTTP waits for a session id, and begins again when the stream has ended; SSE reads it once.
StreamOpens ==
  /\ stream = "none"
  /\ kind = "http" => session # NoSession
  /\ stream' = "open"
  /\ streamOf' = session
  /\ UNCHANGED <<retryVars, loopVars, postVars, endpoint, updateVars>>

EndpointEvent ==
  /\ kind = "sse" /\ stream = "open"
  /\ endpoint' = TRUE
  /\ UNCHANGED <<retryVars, loopVars, postVars, stream, streamOf, updateVars>>

\* Also a stream that could not be opened.
StreamEnds ==
  /\ stream = "open"
  /\ stream' = IF kind = "http" THEN "none" ELSE "over"
  /\ UNCHANGED <<retryVars, loopVars, postVars, endpoint, streamOf, updateVars>>

-----------------------------------------------------------------------------
(* The update loop *)

Update ==
  /\ store < MaxUpdates
  /\ store = applied
  /\ store' = store + 1
  /\ UNCHANGED <<retryVars, loopVars, postVars, streamVars, applied>>

UpdateAnswered ==
  /\ applied < store
  /\ applied' = store
  /\ UNCHANGED <<retryVars, loopVars, postVars, streamVars, store>>

-----------------------------------------------------------------------------
Loop ==
  \/ EndpointFound \/ EndpointTimesOut
  \/ Call \/ Post \/ Pass
  \/ Result \/ ErrorAnswer \/ Failure

Next ==
  \/ \E r \in Requests, m \in {"initialize", "call"} : Read(r, m)
  \/ Loop
  \/ StreamOpens \/ EndpointEvent \/ StreamEnds
  \/ Update \/ UpdateAnswered

Spec == Init /\ [][Next]_vars

(***************************************************************************)
(* Every await of the main loop but that for stdin ends by itself: POSTs   *)
(* and the wait for the endpoint have time-outs, the others are sleeps.    *)
(***************************************************************************)
FairSpec == Spec /\ WF_vars(Loop)

-----------------------------------------------------------------------------
(* Properties *)

(***************************************************************************)
(* No call is posted to a server that has not answered an initialize with  *)
(* a result, over failures, retries and requests in any order; and the     *)
(* bridge takes the server for initialized only when it has accepted the   *)
(* notification after that.                                                *)
(***************************************************************************)
HandshakeFirst ==
  /\ \A r \in Requests : method[r] = "call" /\ posts[r] > 0 => welcomed
  /\ initialized => notified

(***************************************************************************)
(* A request has one response once the loop is back at stdin, and none     *)
(* before that: of the paths on which the loop gives up (no endpoint, a    *)
(* failed initialize, a failed request, a failed notification) each prints *)
(* once.                                                                   *)
(***************************************************************************)
OneResponse ==
  \A r \in Requests :
    answers[r] = IF method[r] = "none" \/ (pc # "read" /\ r = current) THEN 0 ELSE 1

(***************************************************************************)
(* The first session id that reaches the bridge, be it with an answer that *)
(* cannot be used, is kept: every later POST carries it, retries included, *)
(* so that none of them asks the server for another session, and the event *)
(* stream is asked for with it.  A session that the server opened for an   *)
(* initialize whose answer was lost is not meant: the bridge never learns  *)
(* of it, and its retry opens another one.                                 *)
(***************************************************************************)
FirstSessionKept ==
  /\ \A s \in heads : session = s /\ (phase = "flight" => sent = s)
  /\ streamOf # NoSession => streamOf \in heads

(***************************************************************************)
(* What is posted for a request carries at least the headers of the        *)
(* updates that were answered before the request was read.                 *)
(***************************************************************************)
HeadersCurrent == phase = "flight" => headers >= needed

(***************************************************************************)
(* Every request that was read gets a response, whatever the server does.  *)
(***************************************************************************)
RequestsAnswered == \A r \in Requests : method[r] # "none" ~> answers[r] > 0
=============================================================================
