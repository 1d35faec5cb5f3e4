--------------------------- MODULE PendingRequests ---------------------------
(***************************************************************************)
(* One session of gateways/stdio_to_streamable_http.rs: Session::request,  *)
(* the routing task of start_routing and the per-request cleanup task,     *)
(* over the session's child and its broadcast channel.                     *)
(*                                                                         *)
(* A call is one execution of Session::request on behalf of a POST.  The   *)
(* client chooses its JSON id: a kind (string or number) and a text.  The  *)
(* pending map is keyed by the text alone, while the routing task looks up *)
(* string ids only.                                                        *)
(***************************************************************************)
EXTENDS Naturals, Sequences, FiniteSets

CONSTANTS
  Calls,         \* executions of Session::request
  Keys,          \* texts of JSON ids
  Kinds,         \* the kinds of ids the clients use, out of "str" and "num"
  NoCall,        \* no call: an absent entry, an answer not received
  MaxPending,    \* SESSION_PENDING_REQUEST_BUFFER
  OutCap         \* CHILD_BROADCAST_BUFFER

ASSUME KindsKnown == Kinds \subseteq {"str", "num"}
ASSUME NoCallIsNoCall == NoCall \notin Calls
ASSUME BoundsPositive == MaxPending \in Nat \ {0} /\ OutCap \in Nat \ {0}

VARIABLES
  pending,    \* pending[k]: the call whose oneshot sender is stored under k
  pc,         \* pc[c]: where call c is
  kind, key,  \* the JSON id of c
  chan,       \* chan[c]: c's oneshot: "none", "open", "answered" or "closed"
  answer,     \* answer[c]: the call whose answer was sent into c's oneshot
  cleaner,    \* calls whose cleanup task still sleeps
  result,     \* result[c]: how c ended
  up,         \* the child runs
  torn,       \* an unfinished line was left on the child's stdin
  atChild,    \* calls the child has read and not answered
  out,        \* answers in the broadcast channel, oldest first
  notified    \* answers the routing task passed on as notifications

mapVars == <<pending, chan, answer>>
callVars == <<pc, kind, key, result, cleaner>>
childVars == <<up, torn, atChild, out>>
vars == <<mapVars, callVars, childVars, notified>>

NotStarted == "new"
Ended == {"done", "gone"}
Results == {"none", "ok", "duplicate", "full", "sendFailed", "cancelled", "timedOut"}

TypeOK ==
  /\ pending \in [Keys -> Calls \cup {NoCall}]
  /\ pc \in [Calls -> {NotStarted, "sending", "waiting", "removing"} \cup Ended]
  /\ kind \in [Calls -> {"str", "num"}]
  /\ key \in [Calls -> Keys]
  /\ chan \in [Calls -> {"none", "open", "answered", "closed"}]
  /\ answer \in [Calls -> Calls \cup {NoCall}]
  /\ cleaner \subseteq Calls
  /\ result \in [Calls -> Results]
  /\ up \in BOOLEAN /\ torn \in BOOLEAN
  /\ atChild \subseteq Calls
  /\ out \in Seq(Calls) /\ Len(out) <= OutCap
  /\ notified \subseteq Calls

Init ==
  /\ pending = [k \in Keys |-> NoCall]
  /\ pc = [c \in Calls |-> NotStarted]
  /\ kind \in [Calls -> Kinds]
  /\ key \in [Calls -> Keys]
  /\ chan = [c \in Calls |-> "none"]
  /\ answer = [c \in Calls |-> NoCall]
  /\ cleaner = {}
  /\ result = [c \in Calls |-> "none"]
  /\ up = TRUE /\ torn = FALSE
  /\ atChild = {} /\ out = <<>>
  /\ notified = {}

Goto(c, l) == pc' = [pc EXCEPT ![c] = l]
Entries == {k \in Keys : pending[k] # NoCall}

(***************************************************************************)
(* pending.remove: whoever's sender is stored there is dropped, and its    *)
(* receiver sees the oneshot closed.                                       *)
(***************************************************************************)
Remove(k) ==
  /\ pending' = [pending EXCEPT ![k] = NoCall]
  /\ chan' = [c \in Calls |-> IF c = pending[k] THEN "closed" ELSE chan[c]]
  /\ UNCHANGED answer

-----------------------------------------------------------------------------
(* Session::request *)

Refuse(c, why) ==
  /\ Goto(c, "done")
  /\ result' = [result EXCEPT ![c] = why]
  /\ UNCHANGED <<mapVars, kind, key, cleaner>>

\* Mutant: the limit is compared with > instead of >=.
RegisterOverLimit(c) ==
  /\ pc[c] = NotStarted
  /\ \/ pending[key[c]] # NoCall /\ Refuse(c, "duplicate")
     \/ /\ pending[key[c]] = NoCall
        /\ pending' = [pending EXCEPT ![key[c]] = c]
        /\ chan' = [chan EXCEPT ![c] = "open"]
        /\ cleaner' = cleaner \cup {c}
        /\ Goto(c, "sending")
        /\ UNCHANGED <<answer, kind, key, result>>
  /\ UNCHANGED <<childVars, notified>>

\* Under the pending lock: refuse, or store the sender and start the cleanup task.
Register(c) ==
  /\ pc[c] = NotStarted
  /\ \/ pending[key[c]] # NoCall /\ Refuse(c, "duplicate")
     \/ /\ pending[key[c]] = NoCall
        /\ Cardinality(Entries) >= MaxPending
        /\ Refuse(c, "full")
     \/ /\ pending[key[c]] = NoCall
        /\ Cardinality(Entries) < MaxPending
        /\ pending' = [pending EXCEPT ![key[c]] = c]
        /\ chan' = [chan EXCEPT ![c] = "open"]
        /\ cleaner' = cleaner \cup {c}
        /\ Goto(c, "sending")
        /\ UNCHANGED <<answer, kind, key, result>>
  /\ UNCHANGED <<childVars, notified>>

(***************************************************************************)
(* child.send writes the line and its newline to stdin.  Behind an         *)
(* unfinished line it only completes that line, which is no JSON message.  *)
(***************************************************************************)
Send(c) ==
  /\ pc[c] = "sending"
  /\ up
  /\ atChild' = IF torn THEN atChild ELSE atChild \cup {c}
  /\ torn' = FALSE
  /\ Goto(c, "waiting")
  /\ UNCHANGED <<mapVars, kind, key, result, cleaner, up, out, notified>>

SendFails(c) ==
  /\ pc[c] = "sending"
  /\ ~up
  /\ cleaner' = cleaner \ {c}
  /\ result' = [result EXCEPT ![c] = "sendFailed"]
  /\ Goto(c, "removing")
  /\ UNCHANGED <<mapVars, kind, key, childVars, notified>>

Answered(c) ==
  /\ pc[c] = "waiting"
  /\ chan[c] = "answered"
  /\ result' = [result EXCEPT ![c] = "ok"]
  /\ cleaner' = cleaner \ {c}
  /\ Goto(c, "done")
  /\ UNCHANGED <<mapVars, kind, key, childVars, notified>>

\* Mutant: a closed oneshot is waited for like an open one.
CancelledWaitsOn(c) ==
  /\ pc[c] = "waiting"
  /\ chan[c] = "closed"
  /\ UNCHANGED vars

Cancelled(c) ==
  /\ pc[c] = "waiting"
  /\ chan[c] = "closed"
  /\ result' = [result EXCEPT ![c] = "cancelled"]
  /\ Goto(c, "removing")
  /\ UNCHANGED <<mapVars, kind, key, cleaner, childVars, notified>>

\* timeout() polls the receiver before the clock.
TimesOut(c) ==
  /\ pc[c] = "waiting"
  /\ chan[c] = "open"
  /\ result' = [result EXCEPT ![c] = "timedOut"]
  /\ Goto(c, "removing")
  /\ UNCHANGED <<mapVars, kind, key, cleaner, childVars, notified>>

\* The error branches remove by id, whichever call the entry belongs to by now.
EndRemoving(c) ==
  /\ pc[c] = "removing"
  /\ Remove(key[c])
  /\ cleaner' = cleaner \ {c}
  /\ Goto(c, "done")
  /\ UNCHANGED <<kind, key, result, childVars, notified>>

\* Mutant: dropping the call aborts its cleanup task.
DisconnectAborts(c) ==
  /\ pc[c] \in {"sending", "waiting", "removing"}
  /\ Goto(c, "gone")
  /\ cleaner' = cleaner \ {c}
  /\ UNCHANGED <<mapVars, kind, key, result, childVars, notified>>

(***************************************************************************)
(* The client goes away: the future is dropped at its await, which may be  *)
(* in the middle of a line.  The cleanup task is detached, not aborted.    *)
(***************************************************************************)
Disconnect(c) ==
  /\ pc[c] \in {"sending", "waiting", "removing"}
  /\ Goto(c, "gone")
  /\ torn' \in IF pc[c] = "sending" /\ up THEN {torn, TRUE} ELSE {torn}
  /\ UNCHANGED <<mapVars, kind, key, result, cleaner, up, atChild, out, notified>>

\* The cleanup task: sleep, then remove by id.
CleanupFires(c) ==
  /\ c \in cleaner
  /\ cleaner' = cleaner \ {c}
  /\ Remove(key[c])
  /\ UNCHANGED <<pc, kind, key, result, childVars, notified>>

-----------------------------------------------------------------------------
(* The child and the routing task *)

\* Mutant: the channel grows.
BroadcastUnbounded(c) == out' = Append(out, c)

\* A full channel drops its oldest message: the slow receiver sees Lagged.
Broadcast(c) == out' = Append(IF Len(out) = OutCap THEN Tail(out) ELSE out, c)

ChildAnswers(c) ==
  /\ c \in atChild
  /\ atChild' = atChild \ {c}
  /\ Broadcast(c)
  /\ UNCHANGED <<mapVars, callVars, up, torn, notified>>

\* Mutant: a resolved answer is passed on as well: the loop does not continue.
RouteAlsoNotifies ==
  /\ out # <<>>
  /\ out' = Tail(out)
  /\ notified' = notified \cup {Head(out)}
  /\ LET a == Head(out)
         c == pending[key[a]]
     IN IF kind[a] = "str" /\ c # NoCall
        THEN /\ pending' = [pending EXCEPT ![key[a]] = NoCall]
             /\ chan' = [chan EXCEPT ![c] = "answered"]
             /\ answer' = [answer EXCEPT ![c] = a]
        ELSE UNCHANGED mapVars
  /\ UNCHANGED <<callVars, up, torn, atChild>>

(***************************************************************************)
(* The routing task takes the oldest message.  A string id that is pending *)
(* resolves the call stored there, if that still listens; everything else  *)
(* goes to the event streams.                                              *)
(***************************************************************************)
Route ==
  /\ out # <<>>
  /\ out' = Tail(out)
  /\ LET a == Head(out)
         c == pending[key[a]]
     IN IF kind[a] = "str" /\ c # NoCall
        THEN /\ pending' = [pending EXCEPT ![key[a]] = NoCall]
             /\ chan' = [chan EXCEPT ![c] = "answered"]
             /\ answer' = [answer EXCEPT ![c] = a]
             /\ UNCHANGED notified
        ELSE /\ notified' = notified \cup {a}
             /\ UNCHANGED mapVars
  /\ UNCHANGED <<callVars, up, torn, atChild>>

ChildExits ==
  /\ up
  /\ up' = FALSE
  /\ atChild' = {}
  /\ UNCHANGED <<mapVars, callVars, torn, out, notified>>

\* A runtime update replaces the process, whether it ran or not, and its stdin.
Restart ==
  /\ up' = TRUE
  /\ torn' = FALSE
  /\ atChild' = {}
  /\ UNCHANGED <<mapVars, callVars, out, notified>>

-----------------------------------------------------------------------------
Next ==
  \/ \E c \in Calls :
       \/ Register(c) \/ Send(c) \/ SendFails(c)
       \/ Answered(c) \/ Cancelled(c) \/ TimesOut(c) \/ EndRemoving(c)
       \/ Disconnect(c) \/ CleanupFires(c) \/ ChildAnswers(c)
  \/ Route \/ ChildExits \/ Restart

Spec == Init /\ [][Next]_vars

(***************************************************************************)
(* Tasks run, sleeps end, and a write to stdin ends: the child reads or is *)
(* gone.  Nobody has to answer, to connect or to restart the child.        *)
(***************************************************************************)
Fairness ==
  /\ \A c \in Calls :
       /\ WF_vars(Send(c) \/ SendFails(c))
       /\ WF_vars(Answered(c) \/ Cancelled(c) \/ TimesOut(c))
       /\ WF_vars(EndRemoving(c))
       /\ WF_vars(CleanupFires(c))
  /\ WF_vars(Route)

FairSpec == Spec /\ Fairness

-----------------------------------------------------------------------------
(* Properties *)

\* No more entries than the session may have in flight, abandoned ones included.
PendingBounded == Cardinality(Entries) <= MaxPending

\* The send failed and the client left before the entry was removed.
Stuck(c) == pc[c] = "gone" /\ result[c] = "sendFailed"

(***************************************************************************)
(* Every entry has somebody left to remove it: its call's cleanup task or  *)
(* its call itself, whichever calls reuse ids, time out or lose their      *)
(* client.  (A Stuck call is the exception the code has.)                  *)
(***************************************************************************)
EntryHasRemover ==
  \A k \in Keys :
    LET c == pending[k]
    IN c # NoCall => key[c] = k /\ (c \in cleaner \/ pc[c] = "removing" \/ Stuck(c))

(***************************************************************************)
(* An answer of the child reaches at most one call, and is not passed on   *)
(* to the event streams as well, however ids are reused.                   *)
(***************************************************************************)
AnswersNotShared ==
  \A c \in Calls :
    answer[c] # NoCall =>
      /\ answer[c] \notin notified
      /\ \A d \in Calls \ {c} : answer[d] # answer[c]

\* Every call ends even if its answer was lost: by lag, a torn line or a restart.
CallEnds == \A c \in Calls : pc[c] = "sending" ~> pc[c] \in Ended

\* No entry outlives its call for ever: its id can be used again.
EntryGoes ==
  \A c \in Calls : pending[key[c]] = c ~> pending[key[c]] # c \/ Stuck(c)

(***************************************************************************)
(* What the in-flight test asserts of each response: the answer to a call  *)
(* in flight goes to that call, not to the event streams.                  *)
(***************************************************************************)
AnswerReachesCaller ==
  [][\A c \in Calls : c \in notified' \ notified => pending[key[c]] # c]_vars
=============================================================================
