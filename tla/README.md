# A TLA+ model of mcpway

mcpway (src/rust) is a Tokio program that bridges MCP servers: it runs a stdio
server as a child process and offers it over SSE, WebSocket, Streamable HTTP,
gRPC or stdio, or connects stdio to a remote server; around that it discovers,
imports, generates and calls servers. This directory models the parts of it
that hold state shared by concurrent tasks or processes, and the commands whose
outcome depends on a chain of decisions; it checks them with TLC on small
instances, and proves every safety property that holds with TLAPS for every
instance.

## The system

| component | state | operations | hard behaviour | what makes it correct |
|---|---|---|---|---|
| `support/session_access_counter.rs` | per session: Active count or Timeout task | inc, dec, timer | increments racing a timer that fires | counts are exact; no timer for a session in use |
| `gateways/stdio_to_streamable_http.rs`, stateful | sessions map, one child each | POST, GET, DELETE, cleanup, restart | handlers dropped at any await, cleanup racing requests, a mutex held over awaits | a session is lost only by DELETE or expiry; idle ones go away; no stray process |
| the same, `Session` | pending map, broadcast channel, notifications | request, routing task, cleanup task | time-outs, reused ids, lag, restarts, torn lines | each answer to one caller; every call ends; every entry is removed |
| the same, stateless | nothing shared | one child per request | the handshake made for the client, output that ends or comes at any time | handshake before the message, the answer taken after both |
| the same, update loop; `runtime/store.rs`, `types.rs` | global arguments, an overlay per session | update all or one, create, restart | the store is read before the sessions mutex is waited for | sessions run what the store has |
| `support/stdio_child.rs` | child slot, stdin, restarting flag | spawn, send, is_alive, restart, shutdown | restart against readers, senders, health requests | stdin is the newest child's; no unowned process |
| `gateways/stdio_to_{sse,ws,grpc,stdio}.rs` | one child, clients map, update loop | update, client connect and message, pump | slow clients, dead clients, id prefixes, restart | updates are applied and answered; answers reach their client |
| `gateways/{sse,streamable_http}_to_stdio.rs` | session id, initialized flag, event reader | main loop, reader, retry | automatic initialize against the client's own, retries | each request answered once, with its id |
| `gateways/{ws,grpc}_to_stdio.rs` | outbound channel | one loop over stdin and frames | a write that waits while frames wait | no request lost or overtaken |
| `transport/reliability.rs`, `pool.rs` | breaker counters, client cache | retry, backoff, warm-up | concurrent failures | bounded delay and attempts |
| `runtime/{admin,prompt}.rs`, `main.rs` | update channel, request counters | admin and prompt updates, metrics | queue full, handler gone, a snapshot while requests go on | each update answered; metrics add up |
| `tool_api/*` | pending maps, initialized, tool list | call, refresh, reconnect | stream end with calls in flight, dropped callers | each call ends with its own answer; initialize precedes use |
| `oauth` | token file | load, refresh, log in, save | several processes, killed while writing | the file stays whole; tokens of one's own profile |
| `discovery` | none; the registry and profiles of an import | discover, import, search | precedence over files edited meanwhile, failures half-way | the best candidate for every name |
| `connect.rs` | saved profile or wrapper | connect, save, run again | spellings, tokens, templates, options that exclude each other | what was saved runs like what saved it |
| `generator` | a directory of artifacts, its metadata | generate, regenerate | overlaps, crashes; names that sanitize alike | metadata names finished files; launchers start what was defined |
| `config.rs`, `main.rs` | none | parse, dispatch | defaults and exclusions | accepted or refused as a whole |
| `support/log_store.rs`, `logs.rs`, `web` | log file, a watcher's offset, log sockets | append, truncate, tail | appends and truncation between the steps of a watcher | no record twice or out of order, but after a size that a tail could not take |

Interaction: the admin server and the prompt send updates over one bounded
channel to the loop of the running gateway, each with a oneshot for its answer;
the loop changes the store and restarts children. A child's reader task
broadcasts each line of its stdout; gateways subscribe. Handlers write to the
child's stdin under a mutex. The session counter calls its owner back through a
closure when a session expires, and the closure starts a task of its own.

The commands around the gateways meet in files: `import` writes the registry
that `connect` reads, `connect --save-profile` and `generate` write launchers
that call `connect` and the gateway again, and every process appends to one log.

`PROJECT.json` lists every component with its status and the hazards of the
code with the properties that cover them.

## Modules

- **SessionAccessCounter**: the counter. `Inc`, `Dec` and `TimerFires` are the
  bodies of `inc`, `dec` and the spawned task; `entry`, `count` and `armed` are
  the map, `due` counts the cleanup tasks that were spawned and have not run.
- **StreamableSessions** (extends it): the stateful handlers and
  `SessionManager`. An exchange `r` walks through the handler's awaits (`pc`),
  `sess[r]` is its session. `live` is the sessions map and `mutex` its lock,
  which creation, deletion, cleanup and restart hold over several awaits.
  `Disconnect` drops a handler at any await, as the HTTP server does.
  `GuardDropped` is the server dropping a response's extensions, where the
  handlers put the guard that decrements.
- **SessionLease**: what a client may rely on, without counters or tasks: a
  session is removed by somebody who holds it or because it was unheld for the
  whole time-out. A cleanup that started then may still take it from a later
  holder (`overdue`); that weakening is what the code implements, and is
  visible in the abstract specification.
- **PendingRequests**: `Session::request`, `start_routing` and the cleanup task
  of one session. JSON ids are a kind and a text. The broadcast channel `out`
  drops its oldest message when it is full; `torn` is an unfinished line left
  on stdin by a dropped sender.
- **ChildGateway**: `StdioChild` with `exit_on_close`, the update loop that the
  four single-child gateways share and `is_alive`, which two of them call.
  `runs` holds the arguments of every process spawned so far; a process is its
  number there. `args`, `current` and `loop` are the locals and position of the
  loop.
- **UpdateService**: what the gateways with one child promise about updates,
  without processes, locks and readers: requests are taken in order, answered
  once, and the answer is true of the child (`working` is the request that a
  restart is under way for, `serving` the settings of the child in place).
- **ClientFanout**: the client maps, queues and pumps of the SSE, WebSocket and
  gRPC gateways, which differ in how a client ends and in whether answers are
  routed (`transport`). `queue` and `rx` are a client's channel and its
  receiver, `entered` the map; `msg`, `targets` and `at` are the position of the
  pump between two sends, `dead` the clients it removes afterwards. The child's
  messages are numbered by `emitted`; the prefix of an id is `to`, its text
  and what `strip_prefixed_id` makes of it are `Strip`.
- **RetryBreaker**: `run_with_retry` and `CircuitBreaker`. `phase` is the await
  of the retry loop, `failures` and `open` are the breaker's fields; `open` tells
  an end of the cooldown that is ahead ("hot") from one that has passed.
- **CircuitBreaker**: the textbook breaker with bounded retries, as a count of
  failures in a row: no sleeps, and none of the two fields whose resets the code
  spreads over three functions.
- **StdioBridge** (extends RetryBreaker): the bridges from stdio to SSE and to Streamable
  HTTP (`kind`). `pc` is the operation of the main loop (automatic initialize,
  its notification, the request, the notification after the client's own
  initialize), each of which runs the retry loop once; `Post` sends, and
  `Result`, `ErrorAnswer` and `Failure` are what `parse_response_payload` makes
  of the answer, with the session id taken from its head before (`HeadArrives`).
  The stream task and the update loop run beside it.
- **ToolClient**: the tool API. `lock` is the holder of the client's mutex, `op`
  the message it sends and `phase` the await it is in; `stage[c]` is the section
  of an operation that caller `c` works on. `pending` are the entries of the
  transport's map, `wire` the requests the server has, `mail` the oneshot
  channel of the holder. `DropHolder` drops a caller's future at any await;
  `Disconnect` ends the connection with its reader task.
- **TokenCache**: `resolve_access_token` of several processes over one cache
  file. `at[p]` is the position of a process, `snap[p]` the store it has loaded,
  `files` the cache and each process's temporary file, absent, torn or whole.
- **ServerImport**: the sources of discovery with their files, `discover`,
  `apply_search`, `import` and the registry. `config` are the files, which the
  user edits while `scan` reads them one by one; `page` is what a discover
  prints.
- **Artifacts**: a directory of generated files. Each job writes the files of its
  `Outline` in place, opening and closing each in steps of their own, and the
  metadata last; `made` is the history the property needs.
- **ConnectCommand**: the options of `connect`, the choice of what to start, the
  token, what is saved, and a later run of it. `command` is the command that
  runs, `origin` what the one that saved started.
- **GatewayCommand**: the options of the gateway and its dispatch, reached by
  the user or through a script or compiled wrapper of a generated artifact.
- **AdminMetrics**: the admin server's authorisation, handlers and counters;
  `ReadNext` is one read of a snapshot.
- **LogWatch**: the log file, its writers, and a watcher, which is `logs tail` or
  the inspector's tailer with the socket of a browser.
- **SessionArgs**: the arguments of the stateful gateway's sessions. An argument
  is the number of the update that set it; `loop` is the position of the update
  loop, `mutex` the sessions mutex.
- **StatelessExchange**: one POST of the stateless gateway and its child.
- **StreamBridge**: the loop of the WebSocket and gRPC bridges, with connections
  of bounded capacity and a server that may owe an answer before it reads on.
- **StreamableSessionsProofs**, **PendingRequestsProofs**,
  **ChildGatewayProofs**, **ClientFanoutProofs**, **StdioBridgeProofs**,
  **ToolClientProofs**, **CommandProofs**, **SideBySideProofs**: the theorems.
  CommandProofs is about the commands (TokenCache, ServerImport, ConnectCommand,
  GatewayCommand), SideBySideProofs about Artifacts, SessionArgs, StatelessExchange,
  StreamBridge, LogWatch and AdminMetrics.
- **MCStreamableSessions**, **MCClientFanout**: symmetry and ids for TLC.
- **MCSideBySide**: the eleven modules from ToolClient to StreamBridge in one
  specification. They share no variable, and where one writes a file that
  another reads, the file is modelled on both sides; so a behaviour runs one of
  them (`part`) and leaves the others as they are. A product would multiply the
  states by interleavings of steps that do not meet, and show nothing more. The
  module also gives the argument lists and header names of the commands.

Definitions whose comment starts with "Mutant" are not part of any
specification. They are plausible errors in one operation; with one of them in
the operation's place TLC violates the property it is listed for in
`PROJECT.json`.

## Runs

| run | bounds | shows |
|---|---|---|
| sessions_safety | 3 exchanges, 2 sessions, symmetric | counts exact, dec never in its error branches, idle sessions have a reaper, no stray process, refinement of SessionLease |
| sessions_liveness | 3 exchanges, 1 session, no disconnects, fair | sessions expire, exchanges end |
| sessions_never_expire | 2 exchanges, 2 sessions, disconnects, fair | violation: a dropped handler keeps its reference for ever |
| sessions_stream_swept | 2 exchanges, 2 sessions, fair | violation: a session is swept under an open event stream |
| pending | 2 calls, 2 ids, limit 1, channel 1, fair | every entry has a remover, one receiver per answer, calls end |
| pending_numeric | the same | violation: numeric ids are stored but never matched |
| child_gateway | 2 updates of any of 3 fields, 2 health requests, channel 1, fair | stdin follows restarts, owned processes, refinement of UpdateService (current arguments follow), every update answered |
| client_fanout | 2 clients that connect and ask once, 1 message of the child itself, client queues of 1, channel of 2, fair | privacy, order, ids, connected clients get the answer taken for them |
| stdio_bridge | 2 requests, 2 session ids, 1 retry, breaker opens after 2 failures, 1 update, fair | handshake before calls, the first session id kept, current headers, refinement of CircuitBreaker, one response each and in the end |
| side_by_side | see below, fair for the tool client | the sixteen properties of the eleven modules beside the gateways' core |
| child_late_eof | 2 updates, no health requests | violation: a replaced child's end of output ends the gateway |
| child_health_race | 2 updates, 2 health requests | violation: a health request takes the new child's stdin |

Why these bounds are enough. Two sessions and three exchanges let one exchange
create, one use and one delete or expire a session while another session is in
the map. Two calls and two ids cover a reused id, an id of the other call and a
full map (limit 1 is reached by one call); a channel of one message makes every
second answer a lag. Two updates give three processes, hence a stale reader of
two generations, a restart after a failed restart, and a full channel. Two
clients are one that stalls, leaves or dies and one that waits for it; a queue
of one message is full after one, and the third message overflows a channel of
two. In StdioBridge two requests with two
attempts each, for up to three operations a request, make the breaker open
within an operation and between two; the second session id is there for an
answer that would bring another one. `MaxOwn` bounds the messages that answer nobody,
`MaxUpdates` the updates of StdioBridge, `MaxCount` stands for `u32::MAX`. These modules have no other
bounds: an exchange, a client, a call, an update and a health request happen
once each, so every counter is bounded by their number. The theorems carry the
safety properties to every number of them.

The bounds of side_by_side:

| module | bounds | why they are enough |
|---|---|---|
| ToolClient | 2 callers with one operation each, 1 tool, any number of disconnects | one holds the mutex, is dropped or times out, and the other meets what it left: a late answer, an entry, half a handshake |
| TokenCache | 2 processes, 2 profiles, 2 tokens, 1 poll | both load before either saves; each may be killed at any step and start from any file |
| ServerImport | 2 programs (one with two scopes, one that never hides), 2 names that share a profile directory, 3 edits and commands | a duplicate within a program and between two, and a second command after an edit |
| Artifacts | 2 commands, 2 versions of the definition | one overlaps with the other or regenerates what it left |
| ConnectCommand | one typed command, then any runs of what it saved; 3 argument lists, one empty | all combinations of the options that decide anything, and two lists whose order shows; the state space closes without another bound |
| GatewayCommand | 1 environment entry, 2 server names (one the bundled binary's), 3 headers, two of which sanitize to one variable and one to its suffix | the suffix of one meets the name of another |
| AdminMetrics | 2 requests | one reads while the other counts, or is abandoned between two counters |
| LogWatch | 2 writers, 3 records, a file limit of 1 line, stream buffer 1, a tail that starts again while it has shown fewer than 4 (`MaxShown`) | truncation, growth past the old offset, a tail that starts again twice and a lagging socket all occur |
| SessionArgs | 2 sessions, 2 updates | a creation and a restart under two updates, each of all or of one |
| StatelessExchange | 2 lines that answer nothing | before the welcome and between it and the answer |
| StreamBridge | 3 requests, 2 frames, buffers and channel of 1 | every buffer is full with one request in hand |

CHECK_DEADLOCK is FALSE for ChildGateway, whose gateway ends, for
ClientFanout, where everybody may have asked, been answered and left, and for
StdioBridge, where all requests may have been answered, and for side_by_side,
whose commands end. The others
run with deadlock checking: sessions can always be updated, and a child can
always be restarted.

### Fairness

Weak fairness stands for a Tokio task that is polled when it can run, a sleep
that ends, a killed process that ends and a response head that is written.
Strong fairness stands for Tokio's mutex, which serves its waiters in order
(`CreateInsert`, `DeleteRemove`, `Sweep`, `RestartBegin`). Nothing is assumed of
clients, of the child's answers or of updates. Two assumptions are the
environment's: a write to a child's stdin ends (the child reads, or is gone),
and killing a child closes the pipe a sender is blocked on. In ClientFanout a
connected client reads what is written to it, and a write to one that is gone
fails in the end; without that the pump waits for ever, which is the code's
behaviour with a client that is connected and does not read. `AnswerDelivered`
starts where the pump has taken the answer: before that the channel may drop it.
It is stated for WebSocket and gRPC; with SSE nobody is addressed, and the
endpoint event of a stream that is not yet read waits behind the pump.
In StdioBridge only the main loop is fair: `HTTP_REQUEST_TIMEOUT` ends each
POST, `ENDPOINT_WAIT_TIMEOUT` the wait for the endpoint, and the rest are
sleeps. Nothing is assumed of the server, the stream task or the update loop.
In ToolClient (`ToolFairness`) the holder's awaits end by their time-outs, and
Tokio's mutex is strongly fair to its waiters; nothing is assumed of answers,
connections and callers. The opening of an event stream or a gRPC stream has no
time-out in the code, so no fairness is given to it there, and `CallsEnd`
excepts exactly that wait. The other ten modules of side_by_side have safety
properties only.

## Proofs

All proofs are checked by tlapm; no statement is taken without proof. The assumptions are
the named ASSUMEs on the constants: exchanges are finitely many, the lock's
holders and the null values are distinct, bounds and limits are numbers, the
programs searched are in `SOURCE_PRIORITY`, and header names are listed without
repetition, each with a sequence as the name it sanitizes to.

- **Counts.** `CountIsHolders` is not inductive: that a created session has no
  holder rests on its id being fresh, and that dec finds an active entry on
  timers sleeping only for expiring entries. `IInv` of
  StreamableSessionsProofs adds `SessionsKnown`, `TimersOfIdle`, `IdsFresh` and
  `TimeoutHasReaper`; `IncCounts` and `DecCounts` state what one operation does
  to the count of one session and are cited by every step that uses it.
- **Refinement.** `HolderMap` and `OverdueSet` are the mapped variables. An
  exchange that moves into or out of the counted part of a handler is a Hold
  or a Release, a counter timer an Expire, the cleanup a Reap; all other steps
  stutter (`LeaseStep`).
- **Stray processes.** `NoStrayChild` needs in addition who holds the mutex
  (`MutexOK`): a restart keeps its session in the map until it is done.
- **Pending requests.** `EntriesOwned` says that an entry's call still listens
  and has its cleanup task unless the send failed; `AnswersOnce` follows each
  answer from the unsent call over the child and the channel to one receiver.
  The limit needs that the set of entries is finite, which the invariant keeps
  by itself, so the set of ids may be infinite.
- **Child gateway.** Between the kill and the store of the new process the slot
  is empty, before the spawn so is stdin, and the loop's copy of the arguments
  is the store's (`SlotEmptied`, `StdinEmptied`, `ArgsCurrent`). From the same
  invariant every step is mapped to UpdateService (`ServiceStep`): Receive is a
  TakeUp, storing the new process a Replace, the end of a restart a Report, and
  whatever empties the slot (the restart or a health request) a ChildGone;
  kills, spawns, exits and readers stutter.
- **Client fan-out.** `ConnectedStays` rests on sends failing only without a
  receiver, which an open client has (`StaysInv`). Privacy follows the message
  over the pump into one queue (`PrivateInv`). Order needs the whole way:
  received, queued, at the pump, in the channel, not yet written; `OrderInv`
  says each part is increasing and before the next, and `AppendOrder` and
  `TailOrder` what putting and taking a message does to it. `KnownInv` says that
  an answer on its way to its client has the id the client asked with, if that
  id survives the prefix. The capacities and the set of ids are arbitrary.
- **Remote bridges.** `BreakerState` relates the breaker's count to the streak
  of failures in each of its three states, and every step of the bridge is a
  step of the retry loop or leaves it alone (`NextRetries`). Hence the
  refinement (`BreakerStep`): an open breaker is a count at the threshold, one whose
  cooldown has passed a count of zero though its fields are reset only by
  the next attempt. `PostState` derives
  from the loop's position how often the request was posted, which bounds it by
  `MaxRetries + 1`. `HandshakeState` says what the loop has learnt at each step
  of the handshake; `SessionState`, that the POST in flight carries the one id
  seen, hence a server has no reason to issue another. What the server opened
  for a POST whose answer was lost is no part of it.
- **Tool client.** `WelcomeFirst` needs that `initialized` implies a complete
  handshake and what each phase knows of it, in spite of holders that are
  dropped between. `AnswerIsOwn` rests on ids being used once: no request on
  the wire has a number above `seq`, and the one with number `seq` is the
  holder's. `MissesAreFresh` follows a caller through its sections with the
  number of lists it has seen.
- **Token cache.** A record under a profile's key was granted for that profile,
  in every store and in every snapshot; a process in its login branch has tokens
  in hand that were issued since it began. Only a whole temporary file is ever
  renamed.
- **Artifacts.** The files a job has made together with those it has still to
  write are its outline, hence all of it when the metadata is opened; no step
  makes a file absent.
- **Session arguments.** A session is behind the store only while the loop has
  it still to restart, or in hand (`LoopReaches`). The arguments read before the
  wait for the mutex stay those of the store, as only the loop writes it
  (`LoopHolds`); a session in creation is up to date or known to be late
  (`CreatedLatest`).
- **Stateless exchange.** `ScriptFollowed` lists what may be written and what is
  left; an answer in flight means that the payload was written (`AnswersFollow`).
- **Streams.** Requests read by the server, on the connection, in the channel and
  in hand are, in this order, those of stdin (`RequestsInOrder`); a handover
  between two of them leaves the whole as it was (`PassedOn`, `HandedOver`).
- **Log.** Either all lines of the file are newer than what was shown (it was
  truncated since the offset was taken), or those after the offset are
  (`Ahead`). The exception is a size that could not be taken, which puts the
  offset at the start of a file that may have been shown; `since` says how much
  had been shown by then, and what has been shown after it is again followed by
  the lines behind the offset (`Fresh`). Only a tail goes back like this
  (`OnlyTailsGoBack`). The socket's records are some of those that were shown.

- **Import.** A user edits files while an import reads them, so the proof is about
  what was read: an import reads each file at most once (`ReadSoFar`), hence has
  at most one server of a name from each file, and the two orders in which
  candidates are dropped (`Precedes` within a program, the priority between
  programs) each have a least one (`CollapsedExists`, `KeptExists`) and no two
  (`CollapsedAlone`, `KeptAlone`). `OneSource` says that an import without conflicts
  found each name in one program. The names, and which programs are searched, are
  arbitrary.
- **Connect.** Only the user's first command can save (`SavedOnce`); what it saved
  is then run by the launcher or as a wrapper, and `LauncherGoes` and
  `WrapperGoes` follow such a run through the choice of what to start
  (`Choosing`), the token and the saved profile, for any argument lists.
- **Gateway command.** The variables of a definition are built header by header
  by a recursive function, which exists because it does up to each number
  (`UpToExists`). A free suffix is found within the number of headers, since
  fewer names than suffixes are in use (`FreeVariableIsFree`); so each header has
  a variable of its own (`VariableOfItsOwn`), and what the launcher asks for and
  passes on has one value for each.
- **Admin metrics.** A total is the number of requests it counts, as a set of
  units (`TotalIsUnits`), so that it grows by one with each count. The
  total and the refusals are ahead of the maps by at least the requests that are
  between the two (`CountsInv`), and a snapshot has read nothing that exceeds what
  it still has to read (`ReadInv`): the order of the reads is what makes
  `MetricsAddUp` true.

Induction is not available as a theorem to cite, since the library states it with
an operator as a parameter. `LeastOf` and `Counting` of CommandProofs and
`Finitely` of SideBySideProofs replace it by a least counterexample, which
`WFMin` of the library gives for the order of the natural numbers.

The type invariants, `PendingBounded` (`LimitKept`) and `ConnectedStays`
(`ClientsStay`) are proved and no longer part of a run. Neither are `BreakerHolds`
(`BreakerIsSound`) and `ChildRunsCurrentArgs` (`ArgumentsApplied`), which the
refinements of CircuitBreaker and of UpdateService say as well.

Liveness (expiry, ends of exchanges and calls, answers to updates, delivery of
answers, responses to requests, ends of tool calls) depends on fairness and is
only model-checked. Every safety property of the passing runs is a theorem.

## What the violations show

Five runs end in a violation, each of a statement the repository makes about
itself: numeric ids are never matched to their caller; a client that leaves
during its request keeps its session alive for ever; an event stream does not
keep its session; a restart can end the gateway or leave the new child without
stdin. `PROJECT.json` quotes the statements and names the lines.

## What the models show beside the runs

Some behaviour is surprising and has no run of its own, mostly because no statement
of the repository denies it. The models have it, and the properties are stated
around it.

- `SessionsRunLatest` excepts sessions that were being created while the global
  arguments changed (restart_all takes the ids before they enter the map), and
  those whose restart failed, which stay in the map without a child. The update is answered
  "Restarted all sessions with new runtime args" all the same.
- `NoStrayChild` excepts abandoned creations: a client that disconnects while
  `create_session` waits for the mutex leaves a process that no session owns.
- `EntryHasRemover` excepts a call whose client left after its send failed and
  before its entry was removed (`Stuck`). Its id is refused as "already in-flight"
  from then on, and it counts towards the session's limit.
- `IdRestored` is about ids that survive the prefix (`Plain`): the string "1" comes
  back from the WebSocket and gRPC gateways as the number 1.
- `FirstSessionKept` is about ids that reach the bridge. When the answer to an
  initialize is lost, its retry opens a second session at the server; the first
  one stays there until the server's own time-out.
- `ShownOnce`: a `logs tail` takes a size that it cannot get for zero
  (`MarkFails`, `LookFails`) and shows the whole file again, the recent lines it
  began with included. The inspector's tailer waits for the next look instead.
- `ChildServedInOrder`: a request of the stateless gateway's child that has the
  client's id is taken for the answer. There is no time-out, and a child whose
  client left is not killed; it ends when it notices the end of its stdin.
- `BridgeKeepsOrder`: over gRPC, requests still in the outbound channel are lost
  when stdin ends. A server that writes before it reads on stops the bridge for
  ever once both directions are full.
- A profile or artifact whose name is "mcpway" makes the launcher find itself as
  the bundled binary, or be overwritten by it (`FindsItself`, `ByScript`);
  `LauncherRunsAlike` leaves that name out.
- `connect` with `--oauth-login` and a header in lower case sends both that one
  and the token's (`WithToken`).
- README.md:101 of the repository shows `connect https://example.com/mcp
  --oauth-login`, which `parse_connect_config_from` refuses without
  `--oauth-issuer` and `--oauth-client-id` (`Accepts`).
- Log records appended between a watcher's read and its seek to the end are never
  shown (`SeekEnd`).

## Abstractions and what is not modelled

- Time is order: a time-out may fire at any moment it is armed.
- Contents of messages, headers and formatting are left out; an id is a kind
  and a text, an argument field is the update that set it.
- A response's way through the server is two steps, head written and done.
- In StreamableSessions a request to the child only takes time; in
  PendingRequests the session is never removed. What a removed session leaves in
  memory (its routing task holds it) is not followed.
- In ClientFanout the child is never restarted, a client connects and asks once,
  and a request without an id, which gets no answer, is left out. A gRPC client
  that ends its requests leaves the map at once, so that answers still under way
  are lost (`RequestsEnd`); no property says otherwise.
- In StdioBridge messages that are only copied to stdout are left out: what
  arrives on the event stream, and lines of stdin that are not requests (which
  the bridges print instead of sending). `OneResponse` therefore counts what the
  main loop prints. A server that answers a POST with an empty 200 and sends the
  result on the stream, as `stdio_to_sse.rs` does, makes the loop retry and then
  print an error, and the client sees the results besides. `FirstSessionKept`
  assumes a server that issues a session id only for an initialize without one,
  as `stateful_post` does; when a server has dropped its session, `initialized`
  stays true and later requests are answered with its error. The length of
  delays and the transport pool are left out.
- `exit` and `stdin` of stdio to stdio: a failed send may end the gateway;
  `shutdown` after the end of stdin is not in ChildGateway.
- In ToolClient a schema is whether the arguments are valid; the session id over
  Streamable HTTP, on which nothing depends, is left out.
- In TokenCache the provider grants or refuses as it likes, and the clock only
  expires tokens. In ServerImport an entry is its shape and whether it is
  enabled; fuzzy search and its scores are left out.
- In Artifacts a file's contents are the version of the definition it was made
  from. In ConnectCommand and GatewayCommand an option is what it decides;
  headers, endpoints and variables are the few that are treated differently.
- In LogWatch a record is one write and the file is never removed; filters only
  hide records. In SessionArgs headers, which restart nothing, and children that
  end by themselves are left out.
- In StreamBridge lines that are no requests, which are printed, and the update
  loop, which stores headers the connection never uses again, are left out.
- Not modelled: the transport pool (its hints reach a debug log line, and a
  second build of a client costs one connection); telemetry, CORS, signals,
  command specs and the version, which keep no protocol state; the inspector's
  pages, theme catalog and admin proxy; lines of the prompt; and the options of
  the subcommands that have no rule among them.
- The HTTP server, Tokio's channels and mutexes and the child process are
  external and modelled from how the code uses them.
