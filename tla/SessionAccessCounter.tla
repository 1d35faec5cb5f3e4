------------------------ MODULE SessionAccessCounter ------------------------
(***************************************************************************)
(* support/session_access_counter.rs: reference counts on HTTP sessions.   *)
(*                                                                         *)
(* inc and dec each run under one tokio mutex that is held across no other *)
(* await, so each is one step.  The task that dec spawns when a count      *)
(* reaches zero sleeps for the session timeout and then calls the owner's  *)
(* cleanup closure; that closure only spawns another task, which the owner *)
(* (StreamableSessions) runs later and which nothing can abort.            *)
(***************************************************************************)
EXTENDS Naturals

CONSTANTS
  Sessions   \* session ids

VARIABLES
  entry,     \* entry[s]: the variant stored in the map, or "none" when absent
  count,     \* count[s]: Active's count (0 for the other variants)
  armed,     \* sessions whose Timeout entry owns a task that still sleeps
  due        \* due[s]: cleanup tasks spawned for s that have not run yet

counterVars == <<entry, count, armed, due>>

EntryKinds == {"none", "active", "timeout"}

CounterTypeOK ==
  /\ entry \in [Sessions -> EntryKinds]
  /\ count \in [Sessions -> Nat]
  /\ armed \subseteq Sessions
  /\ due \in [Sessions -> Nat]

CounterInit ==
  /\ entry = [s \in Sessions |-> "none"]
  /\ count = [s \in Sessions |-> 0]
  /\ armed = {}
  /\ due = [s \in Sessions |-> 0]

\* Mutant: the Timeout arm forgets handle.abort().
IncWithoutAbort(s) ==
  /\ entry' = [entry EXCEPT ![s] = "active"]
  /\ count' = [count EXCEPT ![s] = IF entry[s] = "active" THEN @ + 1 ELSE 1]
  /\ UNCHANGED <<armed, due>>

(***************************************************************************)
(* inc: a missing or expiring entry starts again at one; an expiring one   *)
(* has its sleeping task aborted (which is without effect once it fired).  *)
(***************************************************************************)
Inc(s) ==
  /\ entry' = [entry EXCEPT ![s] = "active"]
  /\ count' = [count EXCEPT ![s] = IF entry[s] = "active" THEN @ + 1 ELSE 1]
  /\ armed' = armed \ {s}
  /\ UNCHANGED due

(***************************************************************************)
(* dec: ignored for a missing or expiring entry; a zero count drops the    *)
(* entry; the last reference arms the cleanup timer.                       *)
(***************************************************************************)
DecActive(s) ==
  /\ entry[s] = "active"
  /\ \/ /\ count[s] = 0
        /\ entry' = [entry EXCEPT ![s] = "none"]
        /\ UNCHANGED <<count, armed>>
     \/ /\ count[s] = 1
        /\ entry' = [entry EXCEPT ![s] = "timeout"]
        /\ count' = [count EXCEPT ![s] = 0]
        /\ armed' = armed \cup {s}
     \/ /\ count[s] > 1
        /\ count' = [count EXCEPT ![s] = @ - 1]
        /\ UNCHANGED <<entry, armed>>
  /\ UNCHANGED due

DecIgnored(s) ==
  /\ entry[s] \in {"none", "timeout"}
  /\ UNCHANGED counterVars

\* Mutant: the last reference is dropped and no timer is armed.
DecWithoutTimer(s) ==
  /\ entry' = [entry EXCEPT ![s] = IF count[s] = 1 THEN "timeout" ELSE @]
  /\ count' = [count EXCEPT ![s] = IF @ > 0 THEN @ - 1 ELSE 0]
  /\ UNCHANGED <<armed, due>>

Dec(s) == DecActive(s) \/ DecIgnored(s)

(***************************************************************************)
(* The sleep elapses and the closure spawns the cleanup task.  The entry   *)
(* stays Timeout: nothing removes it.                                      *)
(***************************************************************************)
TimerFires(s) ==
  /\ s \in armed
  /\ armed' = armed \ {s}
  /\ due' = [due EXCEPT ![s] = @ + 1]
  /\ UNCHANGED <<entry, count>>
=============================================================================
