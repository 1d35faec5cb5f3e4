--------------------------- MODULE GatewayCommand ---------------------------
(***************************************************************************)
(* The gateway's command line (config.rs) and dispatch (main.rs), reached  *)
(* by the user or through what `generate` made of a definition: a launcher *)
(* script or a compiled wrapper (generator/definition.rs, normalize.rs,    *)
(* artifacts.rs, wrapper_template.rs).  Both ask for a variable for each   *)
(* environment entry and each header, and pass the values on.              *)
(*                                                                         *)
(* Of a value only the shape is left that decides something.  The gateways *)
(* themselves are the subject of other modules.                            *)
(***************************************************************************)
EXTENDS Naturals, SequencesExt

CONSTANTS
  Keys,         \* names of environment entries
  HeaderNames,  \* the headers that a definition may have, in the order of the map
  Base,         \* Base[h]: sanitize_env_key of h, a name and its numeric suffixes
  ServerNames   \* "mcpway" would give a launcher the name of the bundled binary

ASSUME NamesInOrder ==
  /\ HeaderNames \in Seq(ToSet(HeaderNames))
  /\ \A i, j \in DOMAIN HeaderNames : HeaderNames[i] = HeaderNames[j] => i = j

\* Each base is a sequence.
ASSUME BasesAreNames ==
  \A h \in ToSet(HeaderNames) :
    /\ Len(Base[h]) \in Nat
    /\ Base[h] = [i \in 1 .. Len(Base[h]) |-> Base[h][i]]

VARIABLES
  artifact,     \* what generate made of a definition
  gateway       \* the latest command: who ran it, its options and what came of it

gatewayVars == <<artifact, gateway>>

-----------------------------------------------------------------------------
(* From a definition to a launcher *)

\* A definition file; its entries agree on what is left of them.
Definitions ==
  [valid : BOOLEAN, servers : SUBSET ServerNames, env : SUBSET Keys,
   headers : SUBSET ToSet(HeaderNames)]

NoEntry == [env |-> {}, headers |-> {}]
NoArtifact == [name |-> "none", bundled |-> FALSE, of |-> NoEntry, variable |-> <<>>]

\* The first of base, base_1, base_2, ... that is not in use.
FreeVariable(base, used) ==
  IF base \notin used THEN base
  ELSE Append(base, CHOOSE k \in 1 .. Len(HeaderNames) :
                      /\ Append(base, k) \notin used
                      /\ \A i \in 1 .. k - 1 : Append(base, i) \in used)

\* Mutant: each header has the variable of its name.
VariablesByName(headers) == [h \in headers |-> Base[h]]

\* The variables of some headers, and one for h.
WithVariable(vars, h) ==
  [g \in DOMAIN vars \cup {h} |-> IF g = h THEN FreeVariable(Base[h], Range(vars)) ELSE vars[g]]

\* normalize_definition: each header in turn has the first free variable.
VariablesOf(headers) ==
  LET upTo[n \in 0 .. Len(HeaderNames)] ==
        IF n = 0 THEN <<>>
        ELSE IF HeaderNames[n] \in headers THEN WithVariable(upTo[n - 1], HeaderNames[n])
        ELSE upTo[n - 1]
  IN upTo[Len(HeaderNames)]

\* parse_definition_value: the server asked for, or the only one.
Selected(d, asked) ==
  {s \in d.servers : IF asked = "none" THEN d.servers = {s} ELSE s = asked}

GatewayInit ==
  /\ artifact = NoArtifact
  /\ gateway = [by |-> "none", given |-> <<>>, result |-> "none"]

\* generate: a definition that does not parse, or has no such server, is refused.
GenerateLauncher ==
  /\ artifact = NoArtifact /\ gateway.by = "none"
  /\ \E d \in Definitions, asked \in ServerNames \cup {"none"}, bundled \in BOOLEAN :
       /\ d.valid
       /\ \E s \in Selected(d, asked) :
            artifact' = [name |-> s, bundled |-> bundled,
                         of |-> [env |-> d.env, headers |-> d.headers],
                         variable |-> VariablesOf(d.headers)]
  /\ UNCHANGED gateway

-----------------------------------------------------------------------------
(* The command line *)

Inputs == {"stdio", "sse", "streamable-http"}
OutputKinds == {"stdio", "sse", "ws", "streamable-http", "grpc"}

\* Options: the inputs, each as "--name value" or "--name=value"; the output;
\* --cors at the end or before an option, with "*", with an origin, or as
\* "--cors=origin"; and a number that must be positive.
Given ==
  [input : [Inputs -> {"none", "word", "equals"}], output : OutputKinds \cup {"none"},
   cors : {"none", "bare", "star", "origin", "equals"},
   timeout : {"none", "text", "zero", "good"}]

NothingGiven ==
  [input |-> [i \in Inputs |-> "none"], output |-> "none", cors |-> "none", timeout |-> "none"]

Chosen(a) == {i \in Inputs : a.input[i] # "none"}

\* default_output_transport looks for the bare option only.
DefaultOutput(a) ==
  IF a.input["stdio"] = "word" THEN "sse"
  ELSE IF \E i \in {"sse", "streamable-http"} : a.input[i] = "word" THEN "stdio"
  ELSE "none"

OutputOf(a) == IF a.output # "none" THEN a.output ELSE DefaultOutput(a)

\* parse_cors_flags
Cors(a) ==
  IF a.cors \in {"none", "equals"} THEN "disabled"
  ELSE IF a.cors = "origin" THEN "list" ELSE "all"

\* parse_config_from: the first thing that is wrong, or nothing.
Wrong(a) ==
  IF Chosen(a) = {} THEN "MissingTransport"
  ELSE IF \E i, j \in Chosen(a) : i # j THEN "MultipleTransports"
  ELSE IF OutputOf(a) = "none" THEN "InvalidArg"
  ELSE IF a.timeout \in {"text", "zero"} THEN "InvalidSessionTimeout"
  ELSE "nothing"

Refusal(why) ==
  [what |-> why, output |-> "none", cors |-> "disabled", env |-> <<>>, headers |-> <<>>]

\* run_gateway: a gateway from stdio has any output, a bridge only stdio.
Dispatch(a, env, headers) ==
  IF Wrong(a) # "nothing" THEN Refusal(Wrong(a))
  ELSE IF "stdio" \notin Chosen(a) /\ OutputOf(a) # "stdio" THEN Refusal("unsupported")
  ELSE [what |-> CHOOSE i \in Chosen(a) : TRUE, output |-> OutputOf(a), cors |-> Cors(a),
        env |-> env, headers |-> headers]

UserStarts ==
  /\ gateway.by = "none" /\ artifact = NoArtifact
  /\ \E a \in Given :
       gateway' = [by |-> "user", given |-> a, result |-> Dispatch(a, <<>>, <<>>)]
  /\ UNCHANGED artifact

-----------------------------------------------------------------------------
(* Launchers *)

\* The options a launcher puts before those of its user: --stdio and its command.
Launched(a) == [a EXCEPT !.input["stdio"] = "word"]

\* What a user of a launcher may add.
Extras ==
  {[NothingGiven EXCEPT !.output = o, !.input["sse"] = s, !.timeout = t] :
     o \in {"none", "ws"}, s \in {"none", "word"}, t \in {"none", "zero"}}

\* The variables a launcher asks for: the keys themselves, and those of the headers.
Asked == artifact.of.env \cup Range(artifact.variable)

\* parse_headers ignores a header without a value; a key may have an empty one.
HeadersFrom(vars) ==
  [h \in {g \in artifact.of.headers : vars[artifact.variable[g]] = "set"} |-> artifact.variable[h]]

\* How command line a, with the launcher's additions, runs under variables vars.
Launch(a, vars) ==
  Dispatch(Launched(a), [k \in artifact.of.env |-> vars[k]], HeadersFrom(vars))

\* The file of that name is a launcher that finds itself as the bundled binary.
FindsItself == artifact.name = "mcpway" /\ ~artifact.bundled

\* The script checks that every variable has a value.  When it has the name of
\* the bundled binary, that was copied over it, or it starts itself for ever.
ByScript(a, vars) ==
  IF artifact.name = "mcpway" /\ artifact.bundled THEN Dispatch(a, <<>>, <<>>)
  ELSE IF \E v \in Asked : vars[v] # "set" THEN Refusal("unset")
  ELSE IF FindsItself THEN Refusal("endless")
  ELSE Launch(a, vars)

\* The compiled wrapper only wants every variable to be there.
ByWrapper(a, vars) ==
  IF \E v \in Asked : vars[v] = "unset" THEN Refusal("unset")
  ELSE IF FindsItself THEN ByScript(a, vars)
  ELSE Launch(a, vars)

LauncherStarts ==
  /\ artifact # NoArtifact /\ gateway.by = "none"
  /\ \E a \in Extras, vars \in [Asked -> {"set", "empty", "unset"}] :
       gateway' \in {[by |-> "script", given |-> a, result |-> ByScript(a, vars)],
                    [by |-> "wrapper", given |-> a, result |-> ByWrapper(a, vars)]}
  /\ UNCHANGED artifact

GatewayNext == GenerateLauncher \/ UserStarts \/ LauncherStarts

GatewaySpec == GatewayInit /\ [][GatewayNext]_gatewayVars

-----------------------------------------------------------------------------
(* Properties *)

\* A launcher or wrapper of any definition, with valid options added or none,
\* starts the stdio gateway with the output asked for, or SSE; every
\* environment entry reaches the child, and every header that is passed on has
\* the value of a variable of its own, however alike two names are.  It is
\* refused for a missing variable or a wrong addition only, unless the
\* launcher has the name of the bundled binary.
LauncherRunsAlike ==
  gateway.by \in {"script", "wrapper"} /\ artifact.name # "mcpway" =>
    LET a == Launched(gateway.given)
    IN /\ gateway.result.what \in {"stdio", "unset", Wrong(a)}
       /\ gateway.result.what = "stdio" =>
            /\ gateway.result.output = IF a.output # "none" THEN a.output ELSE "sse"
            /\ DOMAIN gateway.result.env = artifact.of.env
            /\ \A g, h \in DOMAIN gateway.result.headers :
                 gateway.result.headers[g] = gateway.result.headers[h] => g = h
            /\ gateway.by = "script" =>
                 DOMAIN gateway.result.headers = artifact.of.headers
=============================================================================
