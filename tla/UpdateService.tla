---------------------------- MODULE UpdateService ----------------------------
(***************************************************************************)
(* What a gateway with one child promises about runtime updates, without   *)
(* locks, processes, stdin and readers: requests are taken in the order in *)
(* which they came, each is answered once, and the answer tells what       *)
(* became of the child.  A "restarted" means that a child was put in place *)
(* with the settings that hold at the answer, a "restartFailed" that there *)
(* is none.                                                                *)
(***************************************************************************)
EXTENDS Sequences

CONSTANTS Updates, Fields, SpawnFields, Initial

VARIABLES
  settings,   \* settings[f]: the update that set f last
  line,       \* the requests that wait
  sets,       \* sets[u]: the fields that u sets
  scope,      \* scope[u]: "global" or "session"
  reply,      \* reply[u]: "none", "waiting" or the result
  working,    \* the request that a restart is under way for, if any
  replaced,   \* ... and whether it has put its child in place
  serving     \* the settings of the child in place, if any

serviceVars == <<settings, line, sets, scope, reply, working, replaced, serving>>

ServiceInit ==
  /\ settings = [f \in Fields |-> Initial]
  /\ line = <<>>
  /\ sets = [u \in Updates |-> {}]
  /\ scope = [u \in Updates |-> "global"]
  /\ reply = [u \in Updates |-> "none"]
  /\ working = {} /\ replaced = FALSE
  /\ serving = {settings}

\* A request is made, once.
Ask(u) ==
  /\ reply[u] = "none"
  /\ reply' = [reply EXCEPT ![u] = "waiting"]
  /\ line' = Append(line, u)
  /\ \E fs \in SUBSET Fields : sets' = [sets EXCEPT ![u] = fs]
  /\ \E sc \in {"global", "session"} : scope' = [scope EXCEPT ![u] = sc]
  /\ UNCHANGED <<settings, working, replaced, serving>>

\* The first in line is refused, is stored, or is stored and begins a restart.
TakeUp(u) ==
  /\ working = {} /\ line # <<>> /\ u = Head(line)
  /\ line' = Tail(line)
  /\ IF scope[u] = "session" THEN UNCHANGED settings
     ELSE settings' = [f \in Fields |-> IF f \in sets[u] THEN u ELSE settings[f]]
  /\ \/ /\ scope[u] = "global" /\ sets[u] \cap SpawnFields # {}
        /\ working' = {u}
        /\ UNCHANGED reply
     \/ /\ reply' = [reply EXCEPT ![u] = IF scope[u] = "session" THEN "unsupported" ELSE "updated"]
        /\ scope[u] = "session" \/ sets[u] \cap SpawnFields = {}
        /\ UNCHANGED working
  /\ UNCHANGED <<sets, scope, replaced, serving>>

\* The child is taken out, by a restart or because it has ended.
ChildGone ==
  /\ serving' = {}
  /\ UNCHANGED <<settings, line, sets, scope, reply, working, replaced>>

\* A restart puts one child in place.
Replace ==
  /\ working # {} /\ ~replaced /\ serving = {}
  /\ serving' = {settings}
  /\ replaced' = TRUE
  /\ UNCHANGED <<settings, line, sets, scope, reply, working>>

\* The restart is over, and its request is answered.
Report(u) ==
  /\ u \in working
  /\ replaced \/ serving = {}
  /\ reply' = [reply EXCEPT ![u] = IF replaced THEN "restarted" ELSE "restartFailed"]
  /\ working' = {} /\ replaced' = FALSE
  /\ UNCHANGED <<settings, line, sets, scope, serving>>

ServiceNext ==
  \/ \E u \in Updates : Ask(u) \/ TakeUp(u) \/ Report(u)
  \/ ChildGone \/ Replace

ServiceSpec == ServiceInit /\ [][ServiceNext]_serviceVars
=============================================================================
