------------------------- MODULE StatelessExchange --------------------------
(***************************************************************************)
(* A POST to the stateless Streamable HTTP gateway                         *)
(* (gateways/stdio_to_streamable_http.rs): a child of its own, which is    *)
(* initialized first when the message is no initialize, the message, and   *)
(* the answer with its id.  Exchanges share nothing, so one is modelled.   *)
(* There is no time-out: a child that is silent is waited for.             *)
(*                                                                         *)
(* A line to the child is the message it holds: "auto", the initialize of  *)
(* the gateway, "initialized", its notification, or "payload".  A line     *)
(* from the child is a welcome (the answer to "auto"), an answer to the    *)
(* payload, a request of its own with the payload's id, or anything else.  *)
(***************************************************************************)
EXTENDS Naturals, Sequences, SequencesExt

CONSTANT MaxOwn     \* bound on the lines of the child that answer nothing

VARIABLES
  exchange,    \* the handler's await, or how the exchange ended
  payload,     \* an initialize, another request, or a message without id
  toWrite,     \* the lines that are still to be written
  welcoming,   \* auto_init_id is set
  child,       \* the process
  given,       \* history: the lines written
  unread,      \* lines the child has not read
  spoken,      \* lines of the child that the gateway has not read
  own,         \* lines of the child that answer nothing, so far
  response     \* what the client gets

statelessVars == <<exchange, payload, toWrite, welcoming, child, given, unread, spoken, own,
                   response>>

Payloads == {"initialize", "request", "notification"}

StatelessInit ==
  /\ exchange = "new" /\ payload = "request"
  /\ toWrite = <<>> /\ welcoming = FALSE
  /\ child = "none" /\ given = <<>> /\ unread = <<>> /\ spoken = <<>> /\ own = 0
  /\ response = "none"

-----------------------------------------------------------------------------
(* The handler *)

\* The exchange ends: the child is killed, or dropped, which closes its stdin only.
Close(how, what, kill) ==
  /\ exchange' = how
  /\ response' = what
  /\ child' = IF kill THEN "killed" ELSE child

\* The child is started with the arguments of the moment.
PostStateless ==
  /\ exchange = "new"
  /\ \E p \in Payloads :
       /\ payload' = p
       /\ \/ /\ exchange' = "write" /\ child' = "runs"
             /\ toWrite' = IF p = "request" THEN <<"auto">> ELSE <<"payload">>
             /\ welcoming' = (p = "request")
             /\ UNCHANGED response
          \/ /\ exchange' = "failed" /\ response' = "error"
             /\ UNCHANGED <<child, toWrite, welcoming>>
  /\ UNCHANGED <<given, unread, spoken, own>>

WriteLine ==
  /\ exchange = "write" /\ toWrite # <<>>
  /\ given' = Append(given, Head(toWrite))
  /\ unread' = IF child = "runs" THEN Append(unread, Head(toWrite)) ELSE unread
  /\ toWrite' = Tail(toWrite)
  /\ UNCHANGED <<exchange, payload, welcoming, child, spoken, own, response>>

\* A child that has closed its input: the handler returns and leaves it.
WriteFails ==
  /\ exchange = "write" /\ toWrite # <<>>
  /\ Close("failed", "error", FALSE)
  /\ UNCHANGED <<payload, toWrite, welcoming, given, unread, spoken, own>>

\* All is written: a message without id is not answered, and the child is
\* killed, whether it has read it or not.
Written ==
  /\ exchange = "write" /\ toWrite = <<>>
  /\ IF payload = "notification"
     THEN Close("ended", "no content", TRUE)
     ELSE exchange' = "read" /\ UNCHANGED <<child, response>>
  /\ UNCHANGED <<payload, toWrite, welcoming, given, unread, spoken, own>>

\* Mutant: the request does not wait for its turn.
AfterWelcomeSwapped == <<"payload", "initialized">>

\* What follows the answer to the automatic initialize, be it an error.
AfterWelcome == <<"initialized", "payload">>

\* A line of the child.
ReadOutput ==
  /\ exchange = "read" /\ spoken # <<>>
  /\ spoken' = Tail(spoken)
  /\ LET line == Head(spoken)
     IN \/ /\ line = "welcome" /\ welcoming
           /\ welcoming' = FALSE
           /\ toWrite' = AfterWelcome
           /\ exchange' = "write"
           /\ UNCHANGED <<child, response>>
        \/ /\ line \in {"answer", "same id"}
           /\ Close("ended", line, TRUE)
           /\ UNCHANGED <<toWrite, welcoming>>
        \/ /\ line = "other" \/ (line = "welcome" /\ ~welcoming)
           /\ UNCHANGED <<exchange, toWrite, welcoming, child, response>>
  /\ UNCHANGED <<payload, given, unread, own>>

\* The end of the output, or a line that cannot be read.
OutputEnds ==
  /\ exchange = "read"
  /\ (child = "exited" \/ spoken # <<>>)
  /\ Close("failed", "error", TRUE)
  /\ UNCHANGED <<payload, toWrite, welcoming, given, unread, spoken, own>>

\* The client leaves, and the handler's future is dropped.
ClientLeaves ==
  /\ exchange \in {"write", "read"}
  /\ Close("dropped", "none", FALSE)
  /\ UNCHANGED <<payload, toWrite, welcoming, given, unread, spoken, own>>

-----------------------------------------------------------------------------
(* The child *)

\* What it says to a line, if anything.
Replies(line) ==
  IF line = "auto" THEN {<<>>, <<"welcome">>}
  ELSE IF line = "payload" /\ payload # "notification" THEN {<<>>, <<"answer">>} ELSE {<<>>}

ChildReads ==
  /\ child = "runs" /\ unread # <<>>
  /\ unread' = Tail(unread)
  /\ \E reply \in Replies(Head(unread)) : spoken' = spoken \o reply
  /\ UNCHANGED <<exchange, payload, toWrite, welcoming, child, given, own, response>>

ChildSpeaks ==
  /\ child = "runs" /\ own < MaxOwn
  /\ own' = own + 1
  /\ \E line \in {"same id", "other"} : spoken' = Append(spoken, line)
  /\ UNCHANGED <<exchange, payload, toWrite, welcoming, child, given, unread, response>>

ChildEnds ==
  /\ child = "runs"
  /\ child' = "exited"
  /\ UNCHANGED <<exchange, payload, toWrite, welcoming, given, unread, spoken, own, response>>

StatelessNext ==
  \/ PostStateless \/ WriteLine \/ WriteFails \/ Written \/ ReadOutput \/ OutputEnds
  \/ ClientLeaves \/ ChildReads \/ ChildSpeaks \/ ChildEnds

StatelessSpec == StatelessInit /\ [][StatelessNext]_statelessVars

-----------------------------------------------------------------------------
(* Properties *)

\* The lines an exchange is to write in all.
Script ==
  IF payload = "request" THEN <<"auto", "initialized", "payload">> ELSE <<"payload">>

\* The child is given the handshake and the message once and in this order,
\* and never more than that, though its lines come at any time; an answer comes
\* after all of it, but for a request of the child's own that has the client's
\* id, which is taken for the answer.  A child outlives its exchange only when
\* the client left or a write failed.
ChildServedInOrder ==
  /\ IsPrefix(given, Script)
  /\ response = "answer" => given = Script
  /\ exchange = "ended" => child = "killed"
  /\ exchange = "failed" /\ child = "runs" => toWrite # <<>>
=============================================================================
