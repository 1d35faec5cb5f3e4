---------------------------- MODULE MCSideBySide ----------------------------
(***************************************************************************)
(* The commands and services beside the gateways, and three small parts of *)
(* the gateways, for TLC.  They share no state: what one writes and        *)
(* another reads (the registry, a profile, a launcher) is modelled on both *)
(* sides.  So a behaviour is one of one of them, and the others stay as    *)
(* they are at first: a sum, since a product would only interleave steps   *)
(* that do not meet.                                                       *)
(***************************************************************************)
EXTENDS ToolClient, TokenCache, ServerImport, Artifacts, ConnectCommand, GatewayCommand,
        AdminMetrics, LogWatch, SessionArgs, StatelessExchange, StreamBridge

\* What the child of a connect may be given.
MCArgLists == {<<>>, <<"extra">>, <<"more">>}

\* Headers whose variables would be the same: two that sanitize alike, and one
\* that sanitizes to what another has with its suffix.
MCHeaderNames == <<"X-A", "X-A-1", "X_A">>
MCBase == [h \in {"X-A", "X-A-1", "X_A"} |-> IF h = "X-A-1" THEN <<"X_A", 1>> ELSE <<"X_A">>]

VARIABLE part     \* the component that runs

Parts == {"tools", "tokens", "import", "artifacts", "connect", "gateway", "admin", "logs",
          "args", "stateless", "stream"}

\* One initial state stands for a component that does not run.
SideInit ==
  /\ part \in Parts
  /\ ToolInit /\ (part # "tools" => kind = "http")
  /\ TokenInit /\ (part # "tokens" => files["cache"] = Absent)
  /\ ImportInit
  /\ ArtifactInit
  /\ ConnectInit
  /\ GatewayInit
  /\ AdminInit /\ (part # "admin" => loopbackOnly /\ tokenSet)
  /\ LogInit /\ (part # "logs" => watch.kind = "tail")
  /\ ArgsInit
  /\ StatelessInit
  /\ BridgeInit /\ (part # "stream" => transport = "ws")

\* All but the component that runs stay as they are.
OthersRest ==
  /\ UNCHANGED part
  /\ part # "tools" => UNCHANGED toolVars
  /\ part # "tokens" => UNCHANGED tokenVars
  /\ part # "import" => UNCHANGED importVars
  /\ part # "artifacts" => UNCHANGED artifactVars
  /\ part # "connect" => UNCHANGED connectVars
  /\ part # "gateway" => UNCHANGED gatewayVars
  /\ part # "admin" => UNCHANGED adminVars
  /\ part # "logs" => UNCHANGED logVars
  /\ part # "args" => UNCHANGED argsVars
  /\ part # "stateless" => UNCHANGED statelessVars
  /\ part # "stream" => UNCHANGED streamVars

SideNext ==
  \/ part = "tools" /\ ToolNext /\ OthersRest
  \/ part = "tokens" /\ TokenNext /\ OthersRest
  \/ part = "import" /\ ImportNext /\ OthersRest
  \/ part = "artifacts" /\ ArtifactNext /\ OthersRest
  \/ part = "connect" /\ ConnectNext /\ OthersRest
  \/ part = "gateway" /\ GatewayNext /\ OthersRest
  \/ part = "admin" /\ AdminNext /\ OthersRest
  \/ part = "logs" /\ LogNext /\ OthersRest
  \/ part = "args" /\ ArgsNext /\ OthersRest
  \/ part = "stateless" /\ StatelessNext /\ OthersRest
  \/ part = "stream" /\ BridgeNext /\ OthersRest

sideVars == <<part, toolVars, tokenVars, importVars, artifactVars, connectVars, gatewayVars,
              adminVars, logVars, argsVars, statelessVars, streamVars>>

\* Only the tool client is held to anything; at rest it has no fair step.
SideSpec == SideInit /\ [][SideNext]_sideVars /\ ToolFairness
=============================================================================
