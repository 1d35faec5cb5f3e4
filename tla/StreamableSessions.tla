------------------------- MODULE StreamableSessions -------------------------
(***************************************************************************)
(* gateways/stdio_to_streamable_http.rs with --stateful and a session      *)
(* timeout: the HTTP handlers, the SessionManager that owns one child per  *)
(* session, the cleanup tasks and the runtime-update loop, composed with   *)
(* the SessionAccessCounter.                                               *)
(*                                                                         *)
(* Each HTTP exchange is one element of Reqs and runs at most once.  A     *)
(* step is what the code does between two awaits that can be observed.     *)
(* What request/send do with the child is PendingRequests' subject; here   *)
(* they only take time and end.                                            *)
(***************************************************************************)
EXTENDS SessionAccessCounter, FiniteSets

CONSTANTS
  Reqs,          \* HTTP exchanges
  NoSession,     \* the exchange has no session yet
  Free,          \* the sessions mutex is not held
  Sweeper,       \* ... is held by a cleanup task
  Updater,       \* ... is held by the runtime-update loop
  Disconnects    \* may a client go away before its response was handed over?

ASSUME ReqsFinite == IsFiniteSet(Reqs)
ASSUME NoSessionIsNoSession == NoSession \notin Sessions
ASSUME HoldersDistinct ==
  /\ Free \notin Reqs /\ Sweeper \notin Reqs /\ Updater \notin Reqs
  /\ Free # Sweeper /\ Free # Updater /\ Sweeper # Updater
ASSUME DisconnectsBoolean == Disconnects \in BOOLEAN

VARIABLES
  live,        \* keys of SessionManager.sessions
  child,       \* child[s]: the session's process: "none", "up" or "dead"
  mutex,       \* who holds the sessions mutex
  pc,          \* pc[r]: where exchange r is
  op,          \* op[r]: "init", "post", "get" or "delete"
  sess,        \* sess[r]: the session r works on
  streams,     \* GET exchanges whose event stream is open
  todo,        \* sessions the update loop has still to restart
  restarting   \* the session whose child is being restarted

sessionVars == <<live, child, mutex, pc, op, sess, streams, todo, restarting>>
vars == <<counterVars, sessionVars>>

Ops == {"none", "init", "post", "get", "delete"}
PCs == {"new", "insert", "createInc", "inc", "serving", "removing", "shutdown",
        "responding", "dec", "done", "leaked"}

TypeOK ==
  /\ CounterTypeOK
  /\ live \subseteq Sessions
  /\ child \in [Sessions -> {"none", "up", "dead"}]
  /\ mutex \in Reqs \cup {Free, Sweeper, Updater}
  /\ pc \in [Reqs -> PCs]
  /\ op \in [Reqs -> Ops]
  /\ sess \in [Reqs -> Sessions \cup {NoSession}]
  /\ streams \subseteq Reqs
  /\ todo \subseteq Sessions
  /\ restarting \subseteq Sessions

Init ==
  /\ CounterInit
  /\ live = {}
  /\ child = [s \in Sessions |-> "none"]
  /\ mutex = Free
  /\ pc = [r \in Reqs |-> "new"]
  /\ op = [r \in Reqs |-> "none"]
  /\ sess = [r \in Reqs |-> NoSession]
  /\ streams = {}
  /\ todo = {}
  /\ restarting = {}

Goto(r, l) == pc' = [pc EXCEPT ![r] = l]

-----------------------------------------------------------------------------
(* POST initialize without a session header: SessionManager::create_session *)

(***************************************************************************)
(* A fresh uuid, the child is spawned and its output routed.  When the     *)
(* spawn fails the exchange ends with a 500 and leaves nothing behind.     *)
(***************************************************************************)
PostInitialize(r, s) ==
  /\ pc[r] = "new"
  /\ child[s] = "none"
  /\ op' = [op EXCEPT ![r] = "init"]
  /\ \/ /\ child' = [child EXCEPT ![s] = "up"]
        /\ sess' = [sess EXCEPT ![r] = s]
        /\ Goto(r, "insert")
     \/ /\ Goto(r, "done")
        /\ UNCHANGED <<child, sess>>
  /\ UNCHANGED <<counterVars, live, mutex, streams, todo, restarting>>

\* The mutex is taken and kept until the count was made.
CreateInsert(r) ==
  /\ pc[r] = "insert"
  /\ mutex = Free
  /\ mutex' = r
  /\ live' = live \cup {sess[r]}
  /\ Goto(r, "createInc")
  /\ UNCHANGED <<counterVars, child, op, sess, streams, todo, restarting>>

CreateInc(r) ==
  /\ pc[r] = "createInc"
  /\ Inc(sess[r])
  /\ mutex' = Free
  /\ Goto(r, "serving")
  /\ UNCHANGED <<live, child, op, sess, streams, todo, restarting>>

-----------------------------------------------------------------------------
(* POST, GET and DELETE with a session header *)

(***************************************************************************)
(* get_session: locks, looks up and unlocks.  An unknown id is a 400.      *)
(***************************************************************************)
Lookup(r, s, o) ==
  /\ pc[r] = "new"
  /\ mutex = Free
  /\ op' = [op EXCEPT ![r] = o]
  /\ IF s \in live
     THEN sess' = [sess EXCEPT ![r] = s] /\ Goto(r, "inc")
     ELSE UNCHANGED sess /\ Goto(r, "done")
  /\ UNCHANGED <<counterVars, live, child, mutex, streams, todo, restarting>>

\* session_inc, whatever became of the session since the lookup.
SessionInc(r) ==
  /\ pc[r] = "inc"
  /\ Inc(sess[r])
  /\ Goto(r, IF op[r] = "delete" THEN "removing" ELSE "serving")
  /\ UNCHANGED <<live, child, mutex, op, sess, streams, todo, restarting>>

\* Mutant: the answer is returned without its guard.
AnswerWithoutGuard(r) ==
  /\ pc[r] = "serving"
  /\ op[r] \in {"init", "post"}
  /\ Goto(r, "leaked")
  /\ UNCHANGED <<counterVars, live, child, mutex, op, sess, streams, todo, restarting>>

(***************************************************************************)
(* session.request or session.send ends, in whatever way, and the response *)
(* leaves the handler with the guard in its extensions.                    *)
(***************************************************************************)
AnswerPost(r) ==
  /\ pc[r] = "serving"
  /\ op[r] \in {"init", "post"}
  /\ Goto(r, "responding")
  /\ UNCHANGED <<counterVars, live, child, mutex, op, sess, streams, todo, restarting>>

\* The GET handler subscribes and returns an event stream, with its guard.
OpenStream(r) ==
  /\ pc[r] = "serving"
  /\ op[r] = "get"
  /\ streams' = streams \cup {r}
  /\ Goto(r, "responding")
  /\ UNCHANGED <<counterVars, live, child, mutex, op, sess, todo, restarting>>

(***************************************************************************)
(* remove_session: the mutex is held while the child is killed and waited  *)
(* for.  When another exchange or a cleanup task was first, the answer is  *)
(* a 400 that carries no guard: the reference taken above stays.           *)
(***************************************************************************)
DeleteRemove(r) ==
  /\ pc[r] = "removing"
  /\ mutex = Free
  /\ IF sess[r] \in live
     THEN /\ live' = live \ {sess[r]}
          /\ child' = [child EXCEPT ![sess[r]] = "dead"]
          /\ mutex' = r
          /\ Goto(r, "shutdown")
     ELSE /\ Goto(r, "leaked")
          /\ UNCHANGED <<live, child, mutex>>
  /\ UNCHANGED <<counterVars, op, sess, streams, todo, restarting>>

\* The child was waited for, the mutex is released and the 200 carries a guard.
DeleteDone(r) ==
  /\ pc[r] = "shutdown"
  /\ mutex' = Free
  /\ Goto(r, "responding")
  /\ UNCHANGED <<counterVars, live, child, op, sess, streams, todo, restarting>>

(***************************************************************************)
(* The server drops the response's extensions, and with them the guard:    *)
(* its Drop spawns the task that decrements.  The server takes a response  *)
(* apart into head and body and is done with the head, extensions          *)
(* included, once it is written: nothing ties this to the end of the body. *)
(***************************************************************************)
GuardDropped(r) ==
  /\ pc[r] = "responding"
  /\ Goto(r, "dec")
  /\ UNCHANGED <<counterVars, live, child, mutex, op, sess, streams, todo, restarting>>

\* Mutant: both the guard and the handler's end decrement.
DecTwice(r) ==
  /\ pc[r] = "dec"
  /\ \/ Dec(sess[r]) /\ Goto(r, "done")
     \/ Dec(sess[r]) /\ UNCHANGED pc
  /\ UNCHANGED <<live, child, mutex, op, sess, streams, todo, restarting>>

SessionDec(r) ==
  /\ pc[r] = "dec"
  /\ Dec(sess[r])
  /\ Goto(r, "done")
  /\ UNCHANGED <<live, child, mutex, op, sess, streams, todo, restarting>>

\* The client of an event stream goes away.
CloseStream(r) ==
  /\ r \in streams
  /\ streams' = streams \ {r}
  /\ UNCHANGED <<counterVars, live, child, mutex, pc, op, sess, todo, restarting>>

(***************************************************************************)
(* The client goes away while its handler is suspended: the server drops   *)
(* the handler's future at that await.  A mutex guard it held is released; *)
(* the guard that would decrement is only made when the handler returns,   *)
(* so a reference already taken is never given back.                       *)
(***************************************************************************)
Suspended == {"insert", "createInc", "inc", "serving", "removing", "shutdown"}
Counted == {"serving", "removing", "shutdown", "responding", "dec", "leaked"}

Disconnect(r) ==
  /\ Disconnects
  /\ pc[r] \in Suspended
  /\ mutex' = IF mutex = r THEN Free ELSE mutex
  /\ Goto(r, IF pc[r] \in Counted THEN "leaked" ELSE "done")
  /\ UNCHANGED <<counterVars, live, child, op, sess, streams, todo, restarting>>

-----------------------------------------------------------------------------
(* Cleanup tasks *)

\* The sleep of s's timer ends.
Timeout(s) == TimerFires(s) /\ UNCHANGED sessionVars

\* Mutant: the cleanup task of a timer that was aborted runs all the same.
SweepUnprompted(s) ==
  /\ mutex = Free
  /\ due' = [due EXCEPT ![s] = @ - 1]
  /\ UNCHANGED <<entry, count, armed, live, child, mutex, pc, op, sess, streams, todo,
                 restarting>>

(***************************************************************************)
(* The cleanup task takes the mutex and removes the session if it is still *)
(* there, whoever uses it by now; the mutex is held for the shutdown.      *)
(***************************************************************************)
Sweep(s) ==
  /\ due[s] > 0
  /\ mutex = Free
  /\ due' = [due EXCEPT ![s] = @ - 1]
  /\ IF s \in live
     THEN /\ live' = live \ {s}
          /\ child' = [child EXCEPT ![s] = "dead"]
          /\ mutex' = Sweeper
     ELSE UNCHANGED <<live, child, mutex>>
  /\ UNCHANGED <<entry, count, armed, pc, op, sess, streams, todo, restarting>>

SweepDone ==
  /\ mutex = Sweeper
  /\ mutex' = Free
  /\ UNCHANGED <<counterVars, live, child, pc, op, sess, streams, todo, restarting>>

-----------------------------------------------------------------------------
(* The runtime-update loop: one request at a time *)

\* A global update that needs a restart: restart_all snapshots the ids.
UpdateGlobal ==
  /\ todo = {}
  /\ mutex = Free
  /\ todo' = live
  /\ UNCHANGED <<counterVars, live, child, mutex, pc, op, sess, streams, restarting>>

UpdateSession(s) ==
  /\ todo = {}
  /\ todo' = {s}
  /\ UNCHANGED <<counterVars, live, child, mutex, pc, op, sess, streams, restarting>>

\* Mutant: the snapshot's session is restarted without the mutex.
RestartUnlocked(s) ==
  /\ s \in todo
  /\ restarting' = {s}
  /\ child' = [child EXCEPT ![s] = "dead"]
  /\ UNCHANGED <<counterVars, live, mutex, pc, op, sess, streams, todo>>

\* restart_session: a session gone since the snapshot is skipped.
RestartBegin(s) ==
  /\ s \in todo
  /\ mutex = Free
  /\ IF s \in live
     THEN /\ mutex' = Updater
          /\ restarting' = {s}
          /\ child' = [child EXCEPT ![s] = "dead"]
          /\ UNCHANGED todo
     ELSE /\ todo' = todo \ {s}
          /\ UNCHANGED <<mutex, restarting, child>>
  /\ UNCHANGED <<counterVars, live, pc, op, sess, streams>>

\* Mutant: a child that cannot be spawned again ends the task that holds the mutex.
RestartKeepsMutex(s) ==
  /\ s \in restarting
  /\ restarting' = {}
  /\ todo' = todo \ {s}
  /\ child' \in {child, [child EXCEPT ![s] = "up"]}
  /\ mutex' = IF child'[s] = "up" THEN Free ELSE mutex
  /\ UNCHANGED <<counterVars, live, pc, op, sess, streams>>

RestartDone(s) ==
  /\ s \in restarting
  /\ restarting' = {}
  /\ todo' = todo \ {s}
  /\ mutex' = Free
  /\ child' \in {child, [child EXCEPT ![s] = "up"]}
  /\ UNCHANGED <<counterVars, live, pc, op, sess, streams>>

\* A session's process ends by itself; its gateway session stays.
ChildExits(s) ==
  /\ child[s] = "up"
  /\ child' = [child EXCEPT ![s] = "dead"]
  /\ UNCHANGED <<counterVars, live, mutex, pc, op, sess, streams, todo, restarting>>

-----------------------------------------------------------------------------
Exchange(r) ==
  \/ \E s \in Sessions : PostInitialize(r, s)
  \/ \E s \in Sessions, o \in {"post", "get", "delete"} : Lookup(r, s, o)
  \/ CreateInsert(r) \/ CreateInc(r) \/ SessionInc(r)
  \/ AnswerPost(r) \/ OpenStream(r) \/ DeleteRemove(r) \/ DeleteDone(r)
  \/ GuardDropped(r) \/ SessionDec(r) \/ CloseStream(r) \/ Disconnect(r)

Background(s) ==
  \/ Timeout(s) \/ Sweep(s)
  \/ UpdateSession(s) \/ RestartBegin(s) \/ RestartDone(s) \/ ChildExits(s)

Next ==
  \/ \E r \in Reqs : Exchange(r)
  \/ \E s \in Sessions : Background(s)
  \/ SweepDone
  \/ UpdateGlobal

Spec == Init /\ [][Next]_vars

(***************************************************************************)
(* Tasks that can run are run, sleeps end, a child is spawned or not, the  *)
(* server writes a response's head; and a task that waits for the sessions *)
(* mutex gets it however often others take it, since tokio's mutex serves  *)
(* its waiters in order.  No client has to send or close anything.         *)
(***************************************************************************)
Fairness ==
  /\ \A r \in Reqs :
       /\ WF_vars(CreateInc(r) \/ SessionInc(r) \/ AnswerPost(r) \/ OpenStream(r)
                  \/ DeleteDone(r) \/ GuardDropped(r) \/ SessionDec(r))
       /\ SF_vars(CreateInsert(r) \/ DeleteRemove(r))
  /\ \A s \in Sessions :
       /\ WF_vars(Timeout(s))
       /\ WF_vars(RestartDone(s))
       /\ SF_vars(Sweep(s))
       /\ SF_vars(RestartBegin(s))
  /\ WF_vars(SweepDone)

FairSpec == Spec /\ Fairness

-----------------------------------------------------------------------------
(* Properties *)

\* The exchanges whose reference on s was taken and not given back.
Holders(s) == {r \in Reqs : sess[r] = s /\ pc[r] \in Counted}

(***************************************************************************)
(* The count of a session is the number of references outstanding on it,   *)
(* the ones that dropped handlers left behind included, and an entry that  *)
(* expires has none: every increment is paired with at most one decrement, *)
(* whatever the order of handlers, guards, timers and cleanups.            *)
(***************************************************************************)
CountIsHolders ==
  \A s \in Sessions :
    /\ entry[s] = "active" => count[s] = Cardinality(Holders(s)) /\ count[s] > 0
    /\ entry[s] # "active" => Holders(s) = {}

(***************************************************************************)
(* No timer sleeps for a session that is in use, and dec's error branches  *)
(* (no entry, entry already expiring, count zero) are never taken.         *)
(***************************************************************************)
DecFindsActive ==
  /\ \A r \in Reqs : pc[r] = "dec" => entry[sess[r]] = "active" /\ count[sess[r]] > 0
  /\ \A s \in armed : entry[s] = "timeout"

\* The exchange that created s was dropped between the insert and the count.
Uncounted(s) == s \in live /\ entry[s] = "none"

(***************************************************************************)
(* A session that nobody holds is on its way out: its timer sleeps or its  *)
(* cleanup task is spawned, unless its creator has not counted it yet (or  *)
(* never will, Uncounted).  This is what makes the session expire.         *)
(***************************************************************************)
IdleSessionHasReaper ==
  \A s \in live :
    Holders(s) = {} => s \in armed \/ due[s] > 0 \/ Uncounted(s)

(***************************************************************************)
(* Every process that runs belongs to a session in the map or to a         *)
(* creating exchange that will insert it; one whose client went away       *)
(* before the insert is the exception (Abandoned).  A restart that raced a *)
(* removal would leave such a process behind.                              *)
(***************************************************************************)
Abandoned(s) ==
  \E r \in Reqs : op[r] = "init" /\ sess[r] = s /\ pc[r] = "done" /\ entry[s] = "none"

NoStrayChild ==
  \A s \in Sessions :
    child[s] = "up" =>
      s \in live \/ Abandoned(s) \/ \E r \in Reqs : sess[r] = s /\ pc[r] = "insert"

(***************************************************************************)
(* The gateway implements SessionLease: whichever way handlers, guards,    *)
(* timers and cleanups interleave, a session is lost only to a DELETE that *)
(* holds it or to a cleanup that was spawned while nobody held it.         *)
(***************************************************************************)
Lease == INSTANCE SessionLease WITH
  leased  <- live,
  holders <- [s \in Sessions |-> Holders(s)],
  overdue <- {s \in Sessions : due[s] > 0}

ImplementsLease == Lease!LeaseSpec

Swept(s) == s \in live /\ s \notin live' /\ mutex' = Sweeper

\* A cleanup task removes only sessions that nobody holds.
HeldSessionIsNotSwept == [][\A s \in Sessions : Swept(s) => Holders(s) = {}]_vars

\* A cleanup task removes no session that has an open event stream.
OpenStreamKeepsSession ==
  [][\A s \in Sessions : Swept(s) => ~\E r \in streams : sess[r] = s]_vars

\* Every session is removed in the end once its clients stop calling.
SessionExpires == \A s \in Sessions : s \in live ~> s \notin live

\* Every exchange that was accepted ends, so no lock order can wedge it.
ExchangeEnds ==
  \A r \in Reqs : pc[r] # "new" ~> pc[r] \in {"done", "leaked"}
=============================================================================
