---------------------------- MODULE StreamBridge ----------------------------
(***************************************************************************)
(* The bridges from stdio to WebSocket and to gRPC                         *)
(* (gateways/ws_to_stdio.rs, gateways/grpc_to_stdio.rs).  One loop takes   *)
(* lines of stdin and frames of the server in turn; while it waits for a   *)
(* line to be written it reads no frame, so that a server that writes      *)
(* before it reads on can stop both for ever.  The end of stdin ends the   *)
(* program, whatever is still under way.                                   *)
(*                                                                         *)
(* Requests and frames are numbered.  Lines that are no requests, which    *)
(* are printed instead of sent, are left out, and so is the update loop:   *)
(* it stores what it is told, but the connection keeps its first headers.  *)
(***************************************************************************)
EXTENDS Naturals, Sequences

CONSTANTS
  MaxRequests,   \* bounds on the requests on stdin
  MaxFrames,     \* ... and on the frames of the server
  Channel,       \* gRPC: the outbound channel's capacity
  Buffer         \* what the connection holds in each direction

VARIABLES
  transport,     \* "ws" or "grpc"
  bridge,        \* the loop's await, or how the program ended
  asked,         \* requests read from stdin
  inHand,        \* the request that waits to be written
  outbound,      \* gRPC: the outbound channel
  toServer,      \* requests on the connection
  got,           \* history: requests the server has read
  owes,          \* the server has an answer to write before it reads on
  frames,        \* frames the server has written
  toBridge,      \* frames on the connection
  printed        \* history: frames printed

streamVars == <<transport, bridge, asked, inHand, outbound, toServer, got, owes, frames,
                toBridge, printed>>

Upto(n) == [i \in 1 .. n |-> i]
Contents == {"message", "blank", "invalid", "close"}

BridgeInit ==
  /\ transport \in {"ws", "grpc"}
  /\ bridge = "connect"
  /\ asked = 0 /\ inHand = <<>> /\ outbound = <<>>
  /\ toServer = <<>> /\ got = <<>> /\ owes = FALSE
  /\ frames = 0 /\ toBridge = <<>> /\ printed = <<>>

-----------------------------------------------------------------------------
(* The loop *)

ConnectBridge ==
  /\ bridge = "connect"
  /\ bridge' \in {"select", "failed"}
  /\ UNCHANGED <<transport, asked, inHand, outbound, toServer, got, owes, frames, toBridge,
                 printed>>

\* A request on stdin.
ReadRequest ==
  /\ bridge = "select" /\ asked < MaxRequests
  /\ asked' = asked + 1
  /\ inHand' = <<asked'>>
  /\ bridge' = "write"
  /\ UNCHANGED <<transport, outbound, toServer, got, owes, frames, toBridge, printed>>

\* ws_writer.send ends when the connection has taken the message, and
\* outbound_tx.send when the channel has.
WriteRequest ==
  /\ bridge = "write"
  /\ IF transport = "ws"
     THEN /\ Len(toServer) < Buffer
          /\ toServer' = toServer \o inHand
          /\ UNCHANGED outbound
     ELSE /\ Len(outbound) < Channel
          /\ outbound' = outbound \o inHand
          /\ UNCHANGED toServer
  /\ inHand' = <<>>
  /\ bridge' = "select"
  /\ UNCHANGED <<transport, asked, got, owes, frames, toBridge, printed>>

\* The end of stdin.
EndOfInput ==
  /\ bridge = "select"
  /\ bridge' = "done"
  /\ UNCHANGED <<transport, asked, inHand, outbound, toServer, got, owes, frames, toBridge,
                 printed>>

\* stdin cannot be read, a write fails, or the connection breaks.
BridgeFails ==
  /\ bridge \in {"select", "write"}
  /\ bridge' = "failed"
  /\ UNCHANGED <<transport, asked, inHand, outbound, toServer, got, owes, frames, toBridge,
                 printed>>

\* What the loop does with the first frame.
TakeFrame ==
  /\ toBridge # <<>>
  /\ LET frame == Head(toBridge)
     IN /\ toBridge' = Tail(toBridge)
        /\ printed' = IF frame.holds = "message" THEN Append(printed, frame.number) ELSE printed
        /\ bridge' = IF frame.holds \in {"message", "blank"} THEN "select" ELSE "failed"

\* Mutant: the write is given up when a frame arrives first.
ReadFrameAnytime ==
  /\ bridge \in {"select", "write"}
  /\ TakeFrame
  /\ inHand' = <<>>
  /\ UNCHANGED <<transport, asked, outbound, toServer, got, owes, frames>>

\* handle_incoming_frame: a ping or an empty envelope is passed over, a close
\* frame or text that does not parse ends the program.
ReadFrame ==
  /\ bridge = "select"
  /\ TakeFrame
  /\ UNCHANGED <<transport, asked, inHand, outbound, toServer, got, owes, frames>>

-----------------------------------------------------------------------------
(* The connection and the server *)

Running == bridge \in {"select", "write"}

\* The gRPC stream takes from its channel.
Transmit ==
  /\ Running
  /\ outbound # <<>> /\ Len(toServer) < Buffer
  /\ toServer' = Append(toServer, Head(outbound))
  /\ outbound' = Tail(outbound)
  /\ UNCHANGED <<transport, bridge, asked, inHand, got, owes, frames, toBridge, printed>>

ServerReads ==
  /\ toServer # <<>> /\ ~owes
  /\ got' = Append(got, Head(toServer))
  /\ toServer' = Tail(toServer)
  /\ owes' \in BOOLEAN
  /\ UNCHANGED <<transport, bridge, asked, inHand, outbound, frames, toBridge, printed>>

ServerWrites ==
  /\ Running
  /\ frames < MaxFrames /\ Len(toBridge) < Buffer
  /\ frames' = frames + 1
  /\ \E c \in Contents : toBridge' = Append(toBridge, [number |-> frames', holds |-> c])
  /\ owes' \in {owes, FALSE}
  /\ UNCHANGED <<transport, bridge, asked, inHand, outbound, toServer, got, printed>>

BridgeNext ==
  \/ ConnectBridge \/ ReadRequest \/ WriteRequest \/ EndOfInput \/ BridgeFails \/ ReadFrame
  \/ Transmit \/ ServerReads \/ ServerWrites

BridgeSpec == BridgeInit /\ [][BridgeNext]_streamVars

-----------------------------------------------------------------------------
(* Properties *)

\* No request is lost or overtaken on its way to the server, however frames,
\* full buffers and lines fall together, and what is printed is in the server's
\* order.  When the end of stdin ends the program, the server has or will get
\* all requests of the input over WebSocket, and over gRPC all but those that
\* are still in the outbound channel.
BridgeKeepsOrder ==
  /\ got \o toServer \o outbound \o inHand = Upto(asked)
  /\ \A i, j \in DOMAIN printed : i < j => printed[i] < printed[j]
  /\ \A i \in DOMAIN printed, j \in DOMAIN toBridge : printed[i] < toBridge[j].number
  /\ bridge = "done" /\ transport = "ws" => got \o toServer = Upto(asked)
=============================================================================
