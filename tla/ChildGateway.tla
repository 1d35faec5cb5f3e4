---------------------------- MODULE ChildGateway ----------------------------
(***************************************************************************)
(* The gateways that serve all their clients from one child process        *)
(* (stdio to SSE, WebSocket, gRPC and stdio): support/stdio_child.rs with  *)
(* exit_on_close, the runtime-update loop that restarts the child, and the *)
(* health handlers of the WebSocket and gRPC gateways.                     *)
(*                                                                         *)
(* An update names the fields it sets; a field's value is the update that  *)
(* set it last.  A step is what the code does between two awaits at which  *)
(* another task may run, or, for the reader tasks, between two accesses to *)
(* what they share with the restart.                                       *)
(***************************************************************************)
EXTENDS Naturals, Sequences

CONSTANTS
  Updates,            \* runtime-update requests, from the prompt and the admin server
  Fields,             \* fields of RuntimeArgs
  SpawnFields,        \* the fields a process is spawned with
  Initial,            \* the value a field has from the command line
  Checks,             \* health requests
  UpdateCap,          \* capacity of the update channel
  SendFailureEnds     \* the stdio to stdio gateway returns when a send fails

ASSUME InitialIsNoUpdate == Initial \notin Updates
ASSUME SpawnFieldsAreFields == SpawnFields \subseteq Fields
ASSUME UpdateCapPositive == UpdateCap \in Nat \ {0}
ASSUME SendFailureEndsBoolean == SendFailureEnds \in BOOLEAN

VARIABLES
  runs,        \* runs[g]: the arguments the g-th process was spawned with
  running,     \* the processes that run
  reading,     \* the processes whose reader task has not seen the end of stdout
  slot,        \* StdioChild.child: a process, or NoProc
  stdin,       \* StdioChild.stdin: a process whose stdin it is, or NoProc
  restarting,  \* StdioChild.restarting
  gateway,     \* "up", or why it ended: "stdoutClosed" or "sendFailed"
  store,       \* the global RuntimeArgs
  queue,       \* the update channel
  sets,        \* sets[u]: the fields u sets
  scope,       \* scope[u]: "global" or "session"
  reply,       \* reply[u]: "none", "waiting" or the result
  loop,        \* where the update loop is
  current,     \* the request it works on, or Initial
  args,        \* the arguments it took out of the store
  check        \* check[h]: where health request h is

procVars == <<runs, running, reading>>
childVars == <<slot, stdin, restarting>>
updateVars == <<store, queue, sets, scope, reply, loop, current, args>>
vars == <<procVars, childVars, gateway, updateVars, check>>

NoProc == 0
newest == Len(runs)

Args == [Fields -> Updates \cup {Initial}]
Replies == {"none", "waiting", "restarted", "restartFailed", "updated", "unsupported"}
LoopPCs == {"idle", "kill", "killing", "clearStdin", "spawn", "setStdin", "setChild", "finish"}

TypeOK ==
  /\ runs \in Seq(Args)
  /\ running \subseteq DOMAIN runs /\ reading \subseteq DOMAIN runs
  /\ slot \in DOMAIN runs \cup {NoProc} /\ stdin \in DOMAIN runs \cup {NoProc}
  /\ restarting \in BOOLEAN
  /\ gateway \in {"up", "stdoutClosed", "sendFailed"}
  /\ store \in Args
  /\ queue \in Seq(Updates) /\ Len(queue) <= UpdateCap
  /\ sets \in [Updates -> SUBSET Fields]
  /\ scope \in [Updates -> {"global", "session"}]
  /\ reply \in [Updates -> Replies]
  /\ loop \in LoopPCs
  /\ current \in Updates \cup {Initial}
  /\ args \in Args
  /\ check \in [Checks -> {"new", "clearing", "done"}]

\* run: the first child is up before anything else is started.
Init ==
  /\ runs = <<[f \in Fields |-> Initial]>>
  /\ running = {1} /\ reading = {1}
  /\ slot = 1 /\ stdin = 1 /\ restarting = FALSE
  /\ gateway = "up"
  /\ store = [f \in Fields |-> Initial]
  /\ queue = <<>>
  /\ sets = [u \in Updates |-> {}]
  /\ scope = [u \in Updates |-> "global"]
  /\ reply = [u \in Updates |-> "none"]
  /\ loop = "idle" /\ current = Initial
  /\ args = store
  /\ check = [h \in Checks |-> "new"]

-----------------------------------------------------------------------------
(* The update loop *)

\* Mutant: the sender does not wait for room.
SubmitUnbounded(u, fs, sc) ==
  /\ reply[u] = "none"
  /\ queue' = Append(queue, u)
  /\ sets' = [sets EXCEPT ![u] = fs]
  /\ scope' = [scope EXCEPT ![u] = sc]
  /\ reply' = [reply EXCEPT ![u] = "waiting"]
  /\ UNCHANGED <<procVars, childVars, gateway, store, loop, current, args, check>>

\* The prompt task or an admin handler sends a request, waiting while the channel is full.
Submit(u, fs, sc) ==
  /\ reply[u] = "none"
  /\ Len(queue) < UpdateCap
  /\ queue' = Append(queue, u)
  /\ sets' = [sets EXCEPT ![u] = fs]
  /\ scope' = [scope EXCEPT ![u] = sc]
  /\ reply' = [reply EXCEPT ![u] = "waiting"]
  /\ UNCHANGED <<procVars, childVars, gateway, store, loop, current, args, check>>

Answer(u, r) == reply' = [reply EXCEPT ![u] = r]

Updated(u) == [f \in Fields |-> IF f \in sets[u] THEN u ELSE store[f]]

(***************************************************************************)
(* One request: update_global stores it; one that sets what a process is   *)
(* spawned with begins a restart, anything else is answered at once.       *)
(***************************************************************************)
Receive ==
  /\ loop = "idle"
  /\ queue # <<>>
  /\ queue' = Tail(queue)
  /\ LET u == Head(queue)
     IN \/ /\ scope[u] = "session"
           /\ Answer(u, "unsupported")
           /\ UNCHANGED <<store, loop, current, args, restarting>>
        \/ /\ scope[u] = "global"
           /\ store' = Updated(u)
           /\ sets[u] \cap SpawnFields = {}
           /\ Answer(u, "updated")
           /\ UNCHANGED <<loop, current, args, restarting>>
        \/ /\ scope[u] = "global"
           /\ store' = Updated(u)
           /\ sets[u] \cap SpawnFields # {}
           /\ loop' = "kill" /\ current' = u /\ args' = store'
           /\ restarting' = TRUE
           /\ UNCHANGED reply
  /\ UNCHANGED <<procVars, slot, stdin, gateway, sets, scope, check>>

\* restart locks the child slot and kills what it finds there.
Kill ==
  /\ loop = "kill"
  /\ loop' = IF slot = NoProc THEN "clearStdin" ELSE "killing"
  /\ UNCHANGED <<procVars, childVars, gateway, store, queue, sets, scope, reply, current,
                 args, check>>

\* The killed process was waited for; the slot is emptied and unlocked.
KillDone ==
  /\ loop = "killing"
  /\ running' = running \ {slot}
  /\ slot' = NoProc
  /\ loop' = "clearStdin"
  /\ UNCHANGED <<runs, reading, stdin, restarting, gateway, store, queue, sets,
                 scope, reply, current, args, check>>

\* Mutant: the old child's stdin stays in place until the new one is there.
StdinKept ==
  /\ loop = "clearStdin"
  /\ loop' = "spawn"
  /\ UNCHANGED <<procVars, childVars, gateway, store, queue, sets, scope, reply, current,
                 args, check>>

ClearStdin ==
  /\ loop = "clearStdin"
  /\ stdin' = NoProc
  /\ loop' = "spawn"
  /\ UNCHANGED <<procVars, slot, restarting, gateway, store, queue, sets, scope, reply,
                 current, args, check>>

\* Mutant: the request of a failed restart is put aside unanswered.
SpawnFailsUnanswered ==
  /\ loop = "spawn"
  /\ restarting' = FALSE
  /\ loop' = "idle" /\ current' = Initial
  /\ UNCHANGED <<procVars, slot, stdin, gateway, store, queue, sets, scope, reply, args,
                 check>>

\* Mutant: the result of the restart is not looked at.
SpawnFailsUnnoticed ==
  /\ loop = "spawn"
  /\ restarting' = FALSE
  /\ Answer(current, "restarted")
  /\ loop' = "idle" /\ current' = Initial
  /\ UNCHANGED <<procVars, slot, stdin, gateway, store, queue, sets, scope, args, check>>

SpawnFails ==
  /\ loop = "spawn"
  /\ restarting' = FALSE
  /\ Answer(current, "restartFailed")
  /\ loop' = "idle" /\ current' = Initial
  /\ UNCHANGED <<procVars, slot, stdin, gateway, store, queue, sets, scope, args, check>>

Spawn ==
  /\ loop = "spawn"
  /\ runs' = Append(runs, args)
  /\ running' = running \cup {newest + 1}
  /\ loop' = "setStdin"
  /\ UNCHANGED <<reading, childVars, gateway, store, queue, sets, scope, reply, current,
                 args, check>>

SetStdin ==
  /\ loop = "setStdin"
  /\ stdin' = newest
  /\ loop' = "setChild"
  /\ UNCHANGED <<procVars, slot, restarting, gateway, store, queue, sets, scope, reply,
                 current, args, check>>

\* Mutant: the new process is not stored.
SetChildForgets ==
  /\ loop = "setChild"
  /\ reading' = reading \cup {newest}
  /\ loop' = "finish"
  /\ UNCHANGED <<runs, running, childVars, gateway, store, queue, sets, scope,
                 reply, current, args, check>>

\* The process is stored and its reader task started, which runs from here on.
SetChild ==
  /\ loop = "setChild"
  /\ slot' = newest
  /\ reading' = reading \cup {newest}
  /\ loop' = "finish"
  /\ UNCHANGED <<runs, running, stdin, restarting, gateway, store, queue, sets,
                 scope, reply, current, args, check>>

Finish ==
  /\ loop = "finish"
  /\ restarting' = FALSE
  /\ Answer(current, "restarted")
  /\ loop' = "idle" /\ current' = Initial
  /\ UNCHANGED <<procVars, slot, stdin, gateway, store, queue, sets, scope, args, check>>

-----------------------------------------------------------------------------
(* Processes and their reader tasks *)

ProcExits(g) ==
  /\ g \in running
  /\ running' = running \ {g}
  /\ UNCHANGED <<runs, reading, childVars, gateway, updateVars, check>>

(***************************************************************************)
(* The reader of g sees the end of stdout: at some time after g's end, and *)
(* perhaps long after, for the pipe is shared with whatever g has started. *)
(* Unless a restart is under way just then, it ends the gateway.           *)
(***************************************************************************)
StdoutCloses(g) ==
  /\ g \in reading
  /\ g \notin running
  /\ reading' = reading \ {g}
  /\ gateway' = IF restarting THEN gateway ELSE "stdoutClosed"
  /\ UNCHANGED <<runs, running, childVars, updateVars, check>>

\* stdio to stdio: a message that cannot be written ends the gateway.
SendFails ==
  /\ SendFailureEnds
  /\ stdin \notin running
  /\ gateway' = "sendFailed"
  /\ UNCHANGED <<procVars, childVars, updateVars, check>>

-----------------------------------------------------------------------------
(* is_alive, called by a health request *)

\* Under the slot's lock: an ended process is taken out.
Poll(h) ==
  /\ check[h] = "new"
  /\ loop # "killing"
  /\ IF slot = NoProc \/ slot \in running
     THEN check' = [check EXCEPT ![h] = "done"] /\ UNCHANGED slot
     ELSE check' = [check EXCEPT ![h] = "clearing"] /\ slot' = NoProc
  /\ UNCHANGED <<procVars, stdin, restarting, gateway, updateVars>>

\* Then, under stdin's lock, stdin goes as well, whosever it is by now.
PollClearsStdin(h) ==
  /\ check[h] = "clearing"
  /\ stdin' = NoProc
  /\ check' = [check EXCEPT ![h] = "done"]
  /\ UNCHANGED <<procVars, slot, restarting, gateway, updateVars>>

-----------------------------------------------------------------------------
UpdateLoop ==
  \/ Receive \/ Kill \/ KillDone \/ ClearStdin
  \/ SpawnFails \/ Spawn \/ SetStdin \/ SetChild \/ Finish

\* The gateway's end is the end of everything in it.
Next ==
  /\ gateway = "up"
  /\ \/ \E u \in Updates, fs \in SUBSET Fields, sc \in {"global", "session"} :
          Submit(u, fs, sc)
     \/ UpdateLoop
     \/ \E g \in DOMAIN runs : ProcExits(g) \/ StdoutCloses(g)
     \/ SendFails
     \/ \E h \in Checks : Poll(h) \/ PollClearsStdin(h)

Spec == Init /\ [][Next]_vars

(***************************************************************************)
(* The loop's task runs when it can: a killed process ends, a lock is held *)
(* by nobody for ever, a process is spawned or not.                        *)
(***************************************************************************)
FairSpec == Spec /\ WF_vars(gateway = "up" /\ UpdateLoop)

-----------------------------------------------------------------------------
(* Properties *)

(***************************************************************************)
(* Messages are never written to a replaced child: what stdin holds, if    *)
(* anything, is the newest process's stdin, at every point of a restart,   *)
(* of a failed restart and of a health request racing it.                  *)
(***************************************************************************)
StdinIsNewest == stdin \in {NoProc, newest}

(***************************************************************************)
(* No process runs that nobody can kill any more: it is in the slot, or it *)
(* is the one that the restart under way has just spawned.                 *)
(***************************************************************************)
NoUnownedProcess ==
  \A g \in running : g = slot \/ (g = newest /\ loop \in {"setStdin", "setChild"})

(***************************************************************************)
(* While no restart is under way the child in the slot was spawned with    *)
(* the arguments the store has now, whatever sequence of updates, failed   *)
(* restarts and header changes led there.                                  *)
(***************************************************************************)
ChildRunsCurrentArgs ==
  loop = "idle" /\ slot # NoProc =>
    \A f \in SpawnFields : runs[slot][f] = store[f]

(***************************************************************************)
(* The gateway implements UpdateService: over failed restarts, children    *)
(* that end and health requests that take them out, updates are applied in *)
(* order, each is answered once, and "restarted" is only ever said of a    *)
(* child with the settings of that moment, put in place for that request.  *)
(***************************************************************************)
InWork == IF loop = "idle" THEN {} ELSE {current}
InPlace == loop = "finish"
Serving == IF slot = NoProc THEN {} ELSE {runs[slot]}

Service == INSTANCE UpdateService WITH
  settings <- store, line <- queue, working <- InWork, replaced <- InPlace, serving <- Serving

ImplementsService == Service!ServiceSpec

\* Every request that was submitted is answered unless the gateway ends.
UpdatesAnswered ==
  \A u \in Updates : reply[u] = "waiting" ~> reply[u] # "waiting" \/ gateway # "up"

(***************************************************************************)
(* The gateway ends only when its child has ended, and not over a process  *)
(* that a restart has replaced.                                            *)
(***************************************************************************)
RestartKeepsGateway ==
  [][gateway' = "stdoutClosed" => newest \notin running]_vars

(***************************************************************************)
(* A child that was "Restarted ... with new runtime args" and runs can be  *)
(* written to.                                                             *)
(***************************************************************************)
RestartedChildIsReachable ==
  loop = "idle" /\ slot \in running => stdin = slot
=============================================================================
