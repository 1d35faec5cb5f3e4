--------------------------- MODULE ConnectCommand ---------------------------
(***************************************************************************)
(* `mcpway connect`: its command line (config.rs), the choice of what to   *)
(* start and the token it asks for (connect.rs), the profile or the        *)
(* wrapper it saves on the way (generator/mod.rs, connect.rs), and what    *)
(* becomes of these when they are run later.                               *)
(*                                                                         *)
(* The bridge that a connect starts is the subject of StdioBridge, the     *)
(* token of TokenCache, the registry of ServerImport.  Retries, logging    *)
(* and the OAuth options that only reach the provider are left out.        *)
(***************************************************************************)
EXTENDS Naturals, Sequences, FiniteSets

CONSTANT ArgLists      \* the arguments that a command line may have for the child

VARIABLES
  command,     \* the command that runs, and how far it is
  profile,     \* the saved connect profile
  wrapper,     \* the saved stdio wrapper
  origin,      \* history: what the command that saved one of them started
  environ      \* the environment variables that are set

connectVars == <<command, profile, wrapper, origin, environ>>

-----------------------------------------------------------------------------
(* Headers, variables and options *)

\* Names are case-sensitive keys of a map, but not as HTTP headers.
Headers == {"Authorization", "authorization", "X-Key"}
IsAuthorization(h) == h \in {"Authorization", "authorization"}

\* header_env_var_name: upper case, every other character an underscore.
VarOf(h) == IF IsAuthorization(h) THEN "AUTHORIZATION" ELSE "X_KEY"

Variables == {"AUTHORIZATION", "X_KEY", "SETTING"}
NoHeaders == [h \in Headers |-> "none"]
Present(headers) == {h \in Headers : headers[h] # "none"}

\* The endpoints that infer_protocol tells apart, and that of an imported server.
Inferred == [http |-> "streamable-http", sse |-> "sse", ws |-> "ws", other |-> "none"]

Plain ==
  [endpoint |-> "none", server |-> "none", cmd |-> FALSE, wrapper |-> FALSE, protocol |-> "none",
   headers |-> NoHeaders, bearer |-> FALSE, oauth |-> {}, save |-> {}, args |-> <<>>,
   env |-> "none"]

\* What a user types, as far as it decides anything: the mode ...
Modes ==
  {[Plain EXCEPT !.endpoint = e, !.server = s, !.cmd = c] :
     e \in {"none", "http", "other"}, s \in {"none", "remote", "stdio", "unknown"}, c \in BOOLEAN}

\* ... and the options; --stdio-arg and --stdio-env go with every mode.
Commands ==
  {[m EXCEPT !.protocol = p, !.headers["authorization"] = h, !.bearer = b, !.oauth = o,
             !.save = s, !.args = a, !.env = v] :
     m \in Modes, p \in {"none", "grpc"}, h \in {"none", "given"}, b \in BOOLEAN,
     o \in {{}, {"login"}, {"issuer", "client"}, {"issuer", "client", "login"},
            {"issuer", "client", "logout"}},
     s \in {{}, {"profile"}, {"wrapper"}}, a \in ArgLists,
     v \in {"none", "template"}}

Started == [what |-> "nothing", at |-> "none", protocol |-> "none", headers |-> NoHeaders,
            args |-> <<>>, env |-> "none"]
NoCommand == [by |-> "none", stage |-> "ended", options |-> Plain, start |-> Started]
NoProfile == [endpoint |-> "none", protocol |-> "none", headers |-> {}]
NoWrapper == [at |-> "none", args |-> <<>>, env |-> "none"]

ConnectInit ==
  /\ command = NoCommand
  /\ profile = NoProfile
  /\ wrapper = NoWrapper
  /\ origin = Started
  /\ environ = {}

-----------------------------------------------------------------------------
(* The command line *)

StdioMode(o) == o.cmd \/ o.wrapper

\* parse_connect_config_from: what it refuses, and clap before it.
Accepts(o) ==
  /\ Cardinality({m \in {1, 2, 3} : \/ m = 1 /\ o.endpoint # "none"
                                    \/ m = 2 /\ o.server # "none"
                                    \/ m = 3 /\ StdioMode(o)}) = 1
  /\ ~(o.cmd /\ o.wrapper)
  /\ StdioMode(o) => o.protocol = "none"
  /\ o.oauth # {} => {"issuer", "client"} \subseteq o.oauth

\* parse_headers: a bearer token is a header under this spelling.
Parsed(o) ==
  [o EXCEPT !.headers["Authorization"] = IF o.bearer THEN "bearer" ELSE @]

\* A command begins, by a user or by a saved file; a refused one is over.
Run(by, o) ==
  command' = [NoCommand EXCEPT !.by = by,
                               !.stage = IF Accepts(o) THEN "run" ELSE "refused",
                               !.options = IF Accepts(o) THEN Parsed(o) ELSE Plain]

Idle == command.stage \in {"ended", "refused"}

\* Bound: the user types one command, and then runs what it has saved.
UserRuns ==
  /\ command.by = "none" /\ origin = Started
  /\ \E o \in Commands : Run("user", o)
  /\ UNCHANGED <<profile, wrapper, origin, environ>>

\* The command goes on to some stage, with s as what it is to start.
Proceed(stage, s) == command' = [command EXCEPT !.stage = stage, !.start = s]

Fail == Proceed("ended", Started)

-----------------------------------------------------------------------------
(* run: what to start *)

Options == command.options

\* run_connect_stdio_mode with --stdio-cmd.
UseCommand ==
  /\ Options.cmd
  /\ Proceed("wrap", [Started EXCEPT !.what = "spawn", !.at = "command", !.args = Options.args,
                                     !.env = Options.env])

\* resolve_env_template_value: "${SETTING}" gives its value, and itself when that is not set.
Resolved(v) == IF v = "template" /\ "SETTING" \in environ THEN "value" ELSE v

\* resolve_from_wrapper_json: --stdio-arg is added and --stdio-env wins.
UseWrapper ==
  /\ Options.wrapper
  /\ wrapper # NoWrapper
  /\ Proceed("wrap",
             [Started EXCEPT !.what = "spawn", !.at = wrapper.at,
                             !.args = wrapper.args \o Options.args,
                             !.env = IF Options.env # "none" THEN Options.env
                                     ELSE Resolved(wrapper.env)])

\* run_server_mode with an imported stdio server.
UseImportedStdio ==
  /\ Options.server = "stdio"
  /\ IF Options.protocol # "none" \/ "profile" \in Options.save
     THEN Fail
     ELSE \E v \in {"none", "template"} :
            Proceed("wrap", [Started EXCEPT !.what = "spawn", !.at = "imported", !.env = v])

\* ... and with a remote one, whose headers give way to those of the command.
UseImportedRemote ==
  /\ Options.server = "remote"
  /\ \E imported \in [Headers -> {"none", "imported"}] :
       Proceed("token",
               [Started EXCEPT !.what = "bridge", !.at = "imported",
                               !.protocol = IF Options.protocol # "none" THEN Options.protocol
                                            ELSE "sse",
                               !.headers = [h \in Headers |->
                                              IF Options.headers[h] # "none"
                                              THEN Options.headers[h] ELSE imported[h]]])

\* An endpoint, over the protocol named or inferred.
ProtocolOf(o) ==
  IF o.protocol # "none" THEN o.protocol
  ELSE IF o.endpoint \in DOMAIN Inferred THEN Inferred[o.endpoint] ELSE "none"

UseEndpoint ==
  /\ Options.endpoint # "none"
  /\ IF ProtocolOf(Options) = "none"
     THEN Fail
     ELSE Proceed("token", [Started EXCEPT !.what = "bridge", !.at = Options.endpoint,
                                           !.protocol = ProtocolOf(Options),
                                           !.headers = Options.headers])

\* --oauth-logout comes before everything else, and starts nothing.
Logout == "logout" \in Options.oauth /\ Fail

\* A file, a name or a command may turn out to be missing or unusable.
Choose ==
  /\ command.stage = "run"
  /\ \/ Logout
     \/ /\ "logout" \notin Options.oauth
        /\ \/ UseCommand \/ UseWrapper \/ UseImportedStdio \/ UseImportedRemote \/ UseEndpoint
           \/ Options.endpoint = "none" /\ Fail
  /\ UNCHANGED <<profile, wrapper, origin, environ>>

-----------------------------------------------------------------------------
(* run_remote_mode *)

\* The header goes in when a login is asked for or no spelling of it is there.
WithToken(headers) ==
  IF "login" \in Options.oauth \/ \A h \in Present(headers) : ~IsAuthorization(h)
  THEN [headers EXCEPT !["Authorization"] = "token"] ELSE headers

Token ==
  /\ command.stage = "token"
  /\ \/ Options.oauth = {} /\ Proceed("save", command.start)
     \/ /\ Options.oauth # {}
        /\ \/ Fail
           \/ Proceed("save", [command.start EXCEPT !.headers = WithToken(@)])
  /\ UNCHANGED <<profile, wrapper, origin, environ>>

\* Mutant: the headers of the command line, as they were before the token.
ProfileUntokened(s) ==
  [endpoint |-> s.at, protocol |-> s.protocol, headers |-> Present(Options.headers)]

\* connect_profile_from_config: names and variables, never values.
ProfileOf(s) == [endpoint |-> s.at, protocol |-> s.protocol, headers |-> Present(s.headers)]

\* save_connect_profile, which may fail, and then the bridge.
SaveAndBridge ==
  /\ command.stage = "save"
  /\ \/ /\ "profile" \notin Options.save
        /\ Proceed("ended", command.start)
        /\ UNCHANGED <<profile, origin>>
     \/ /\ "profile" \in Options.save
        /\ Proceed("ended", command.start)
        /\ profile' = ProfileOf(command.start)
        /\ origin' = command.start
     \/ "profile" \in Options.save /\ Fail /\ UNCHANGED <<profile, origin>>
  /\ UNCHANGED <<wrapper, environ>>

-----------------------------------------------------------------------------
(* run_stdio_mode *)

\* save_stdio_wrapper, which may fail, and then the child.
WrapAndSpawn ==
  /\ command.stage = "wrap"
  /\ \/ /\ "wrapper" \notin Options.save
        /\ Proceed("ended", command.start)
        /\ UNCHANGED <<wrapper, origin>>
     \/ /\ "wrapper" \in Options.save
        /\ Proceed("ended", command.start)
        /\ wrapper' = [at |-> command.start.at, args |-> command.start.args,
                       env |-> command.start.env]
        /\ origin' = command.start
     \/ "wrapper" \in Options.save /\ Fail /\ UNCHANGED <<wrapper, origin>>
  /\ UNCHANGED <<profile, environ>>

-----------------------------------------------------------------------------
(* Later runs *)

\* The variables change between the runs.
SetVariables ==
  /\ Idle /\ origin # Started
  /\ environ' \in {e \in SUBSET Variables : e # environ}
  /\ command' = NoCommand
  /\ UNCHANGED <<profile, wrapper, origin>>

\* The profile's launcher: every variable must be set, or it stops there.
LauncherRuns ==
  /\ Idle /\ profile # NoProfile
  /\ {VarOf(h) : h \in profile.headers} \subseteq environ
  /\ Run("launcher",
         [Plain EXCEPT !.endpoint = profile.endpoint, !.protocol = profile.protocol,
                       !.headers = [h \in Headers |-> IF h \in profile.headers
                                                      THEN VarOf(h) ELSE "none"]])
  /\ UNCHANGED <<profile, wrapper, origin, environ>>

\* connect --stdio-wrapper with the saved file.
WrapperRuns ==
  /\ Idle /\ wrapper # NoWrapper
  /\ \E a \in ArgLists : Run("wrapper", [Plain EXCEPT !.wrapper = TRUE, !.args = a])
  /\ UNCHANGED <<profile, wrapper, origin, environ>>

ConnectNext ==
  \/ UserRuns \/ Choose \/ Token \/ SaveAndBridge \/ WrapAndSpawn
  \/ SetVariables \/ LauncherRuns \/ WrapperRuns

ConnectSpec == ConnectInit /\ [][ConnectNext]_connectVars

-----------------------------------------------------------------------------
(* Properties *)

\* The launcher of a profile is a command line that connect accepts, and it
\* starts the same bridge as the command that saved it: the same endpoint and
\* protocol, and each of its headers, the token's included, from its variable.
LauncherIsAlike ==
  command.by = "launcher" =>
    /\ command.stage # "refused"
    /\ command.start.what = "bridge" =>
         /\ command.start.at = origin.at /\ command.start.protocol = origin.protocol
         /\ command.start.headers = [h \in Headers |-> IF h \in Present(origin.headers)
                                                       THEN VarOf(h) ELSE "none"]

\* A saved wrapper is accepted too, and starts the same command with the same
\* arguments before those of its own run; only an environment value that
\* reads as a template is looked up where the first run passed it on.
WrapperIsAlike ==
  command.by = "wrapper" =>
    /\ command.stage # "refused"
    /\ command.start.what = "spawn" =>
         /\ command.start.at = origin.at
         /\ command.start.args = origin.args \o Options.args
         /\ command.start.env = Resolved(origin.env)

\* What a connect saves runs like the connect that saved it.
SavedRunsAlike == LauncherIsAlike /\ WrapperIsAlike
=============================================================================
