---------------------------- MODULE SessionArgs -----------------------------
(***************************************************************************)
(* The runtime arguments of the stateful Streamable HTTP gateway: the      *)
(* store with its overlay for each session (runtime/store.rs, types.rs),   *)
(* the update loop, and who reads the store to start a child with it       *)
(* (gateways/stdio_to_streamable_http.rs).                                 *)
(*                                                                         *)
(* A session's creation and a restart read the store first and wait for    *)
(* the sessions mutex later.  An argument or a variable is the number of   *)
(* the update that set it; headers, which start nothing, are left out.     *)
(* Children that end by themselves are PendingRequests' subject.           *)
(***************************************************************************)
EXTENDS Integers, Sequences

CONSTANTS
  SessionIds,   \* ids, each of one creation
  MaxUpdates    \* bound on the updates

ASSUME HoldersDiffer == SessionIds \cap {"free", "loop"} = {}

VARIABLES
  updates,      \* the updates received so far
  global,       \* RuntimeArgsStore.global
  overlay,      \* overlay[s]: RuntimeArgsStore.sessions, which nothing ever shrinks
  session,      \* session[s]: how far the creation or the removal of s is
  runs,         \* runs[s]: the arguments of its child, or those read to start it
  mutex,        \* the holder of the sessions mutex across an await
  loop,         \* the update loop: its await, the sessions left, the one in hand
  late,         \* history: sessions in creation when the global arguments changed
  failed        \* history: sessions whose last restart failed

argsVars == <<updates, global, overlay, session, runs, mutex, loop, late, failed>>

DefaultArgs == [args |-> <<>>, env |-> 0]
NoProcess == [args |-> <<>>, env |-> -1]
LoopIdle == [stage |-> "idle", todo |-> {}, one |-> "none", args |-> DefaultArgs]

ArgsInit ==
  /\ updates = 0
  /\ global = DefaultArgs
  /\ overlay = [s \in SessionIds |-> DefaultArgs]
  /\ session = [s \in SessionIds |-> "none"]
  /\ runs = [s \in SessionIds |-> NoProcess]
  /\ mutex = "free"
  /\ loop = LoopIdle
  /\ late = {} /\ failed = {}

\* RuntimeArgs::merge: arguments are added, a variable of the overlay wins.
Merge(base, over) ==
  [args |-> base.args \o over.args, env |-> IF over.env # 0 THEN over.env ELSE base.env]

\* get_effective with the session's id.
Effective(s) == Merge(global, overlay[s])

-----------------------------------------------------------------------------
(* Sessions *)

\* create_session reads the arguments ...
ReadArgs(s) ==
  /\ session[s] = "none"
  /\ session' = [session EXCEPT ![s] = "starting"]
  /\ runs' = [runs EXCEPT ![s] = Effective(s)]
  /\ UNCHANGED <<updates, global, overlay, mutex, loop, late, failed>>

\* ... starts the child, if it can ...
StartChild(s) ==
  /\ session[s] = "starting"
  /\ \/ session' = [session EXCEPT ![s] = "started"] /\ UNCHANGED runs
     \/ /\ session' = [session EXCEPT ![s] = "gone"]
        /\ runs' = [runs EXCEPT ![s] = NoProcess]
  /\ UNCHANGED <<updates, global, overlay, mutex, loop, late, failed>>

\* ... and enters the session.
EnterSession(s) ==
  /\ session[s] = "started" /\ mutex = "free"
  /\ session' = [session EXCEPT ![s] = "live"]
  /\ UNCHANGED <<updates, global, overlay, runs, mutex, loop, late, failed>>

\* remove_session, or the cleanup of an expired one; its overlay stays.
RemoveSession(s) ==
  /\ session[s] = "live" /\ mutex = "free"
  /\ session' = [session EXCEPT ![s] = "removed"]
  /\ mutex' = s
  /\ UNCHANGED <<updates, global, overlay, runs, loop, late, failed>>

ShutDown(s) ==
  /\ session[s] = "removed" /\ mutex = s
  /\ session' = [session EXCEPT ![s] = "gone"]
  /\ runs' = [runs EXCEPT ![s] = NoProcess]
  /\ mutex' = "free"
  /\ UNCHANGED <<updates, global, overlay, loop, late, failed>>

-----------------------------------------------------------------------------
(* The update loop *)

\* What an update with the fields F makes of old: it replaces both as a whole.
Changed(old, F) ==
  [args |-> IF "args" \in F THEN <<updates + 1>> ELSE old.args,
   env |-> IF "env" \in F THEN updates + 1 ELSE old.env]

RestartNeeded(F) == F # {}

\* update_global; what follows is answered at once when nothing has to restart.
UpdateAll ==
  /\ loop.stage = "idle" /\ updates < MaxUpdates
  /\ updates' = updates + 1
  /\ \E F \in SUBSET {"args", "env"} :
       /\ global' = Changed(global, F)
       /\ IF RestartNeeded(F)
          THEN /\ loop' = [LoopIdle EXCEPT !.stage = "list"]
               /\ late' = late \cup {s \in SessionIds : session[s] \in {"starting", "started"}}
          ELSE UNCHANGED <<loop, late>>
  /\ UNCHANGED <<overlay, session, runs, mutex, failed>>

\* update_session, for an id that was handed out; the session may be gone.
UpdateOne(s) ==
  /\ loop.stage = "idle" /\ updates < MaxUpdates
  /\ session[s] \in {"live", "removed", "gone"}
  /\ updates' = updates + 1
  /\ \E F \in SUBSET {"args", "env"} :
       /\ overlay' = [overlay EXCEPT ![s] = Changed(@, F)]
       /\ loop' = IF RestartNeeded(F)
                  THEN [LoopIdle EXCEPT !.stage = "next", !.todo = {s}] ELSE loop
  /\ UNCHANGED <<global, session, runs, mutex, late, failed>>

\* restart_all takes the ids under a lock of its own.
ListSessions ==
  /\ loop.stage = "list" /\ mutex = "free"
  /\ loop' = [LoopIdle EXCEPT !.stage = "next",
                              !.todo = {s \in SessionIds : session[s] = "live"}]
  /\ UNCHANGED <<updates, global, overlay, session, runs, mutex, late, failed>>

\* Mutant: the arguments are the global ones, whatever the session has.
ArgsOfAll(s) == global

\* What restart_session reads before it takes the mutex.
ArgsOf(s) == Effective(s)

ReadForRestart ==
  /\ loop.stage = "next"
  /\ \E s \in loop.todo :
       loop' = [loop EXCEPT !.stage = "lock", !.todo = @ \ {s}, !.one = s, !.args = ArgsOf(s)]
  /\ UNCHANGED <<updates, global, overlay, session, runs, mutex, late, failed>>

\* A session that has been removed meanwhile is passed over; a live one loses its child.
KillChild ==
  /\ loop.stage = "lock" /\ mutex = "free"
  /\ IF session[loop.one] = "live"
     THEN /\ mutex' = "loop"
          /\ loop' = [loop EXCEPT !.stage = "respawn"]
          /\ runs' = [runs EXCEPT ![loop.one] = NoProcess]
     ELSE /\ loop' = [loop EXCEPT !.stage = "next"]
          /\ UNCHANGED <<mutex, runs>>
  /\ UNCHANGED <<updates, global, overlay, session, late, failed>>

\* Session::restart ends; restart_all goes on whether the new child started or not.
Respawn ==
  /\ loop.stage = "respawn"
  /\ \/ /\ runs' = [runs EXCEPT ![loop.one] = loop.args]
        /\ failed' = failed \ {loop.one}
     \/ failed' = failed \cup {loop.one} /\ UNCHANGED runs
  /\ late' = late \ {loop.one}
  /\ mutex' = "free"
  /\ loop' = [loop EXCEPT !.stage = "next"]
  /\ UNCHANGED <<updates, global, overlay, session>>

\* The update is answered: "Restarted ..." or, for one session, the failure.
AnswerUpdate ==
  /\ loop.stage = "next" /\ loop.todo = {}
  /\ loop' = LoopIdle
  /\ UNCHANGED <<updates, global, overlay, session, runs, mutex, late, failed>>

ArgsNext ==
  \/ \E s \in SessionIds :
       ReadArgs(s) \/ StartChild(s) \/ EnterSession(s) \/ RemoveSession(s) \/ ShutDown(s) \/ UpdateOne(s)
  \/ UpdateAll \/ ListSessions \/ ReadForRestart \/ KillChild \/ Respawn \/ AnswerUpdate

ArgsSpec == ArgsInit /\ [][ArgsNext]_argsVars

-----------------------------------------------------------------------------
(* Properties *)

\* When an update is answered, every session in the map runs a child with the
\* arguments that the store has for it now.  Two kinds of sessions do not, and
\* the answer to an update of all is the same: those that were being created
\* when the global arguments changed (create_session had read the old ones),
\* and those whose restart failed, which stay in the map without a child.
SessionsRunLatest ==
  loop.stage = "idle" =>
    \A s \in SessionIds :
      session[s] = "live" =>
        IF s \in failed THEN runs[s] = NoProcess
        ELSE s \in late \/ runs[s] = Effective(s)
=============================================================================
