---------------------------- MODULE SessionLease ----------------------------
(***************************************************************************)
(* What the stateful gateway promises about its sessions, without locks,   *)
(* counts, timers or handlers: a session is leased by the exchanges that   *)
(* hold it; it may be taken away by one of them (DELETE), or by a reaper   *)
(* that was called out at a moment when nobody held it.  The reaper does   *)
(* not look again when it arrives.                                         *)
(***************************************************************************)
CONSTANTS Sessions, Reqs

VARIABLES
  leased,    \* sessions that can be looked up
  holders,   \* holders[s]: exchanges with a reference on s
  overdue    \* sessions a reaper was called out for

leaseVars == <<leased, holders, overdue>>

LeaseInit ==
  /\ leased = {}
  /\ holders = [s \in Sessions |-> {}]
  /\ overdue = {}

Open(s) ==
  /\ s \notin leased /\ s \notin overdue
  /\ holders[s] = {}
  /\ leased' = leased \cup {s}
  /\ UNCHANGED <<holders, overdue>>

Hold(s, r) ==
  /\ r \notin holders[s]
  /\ holders' = [holders EXCEPT ![s] = @ \cup {r}]
  /\ UNCHANGED <<leased, overdue>>

Release(s, r) ==
  /\ r \in holders[s]
  /\ holders' = [holders EXCEPT ![s] = @ \ {r}]
  /\ UNCHANGED <<leased, overdue>>

Close(s, r) ==
  /\ s \in leased
  /\ r \in holders[s]
  /\ leased' = leased \ {s}
  /\ UNCHANGED <<holders, overdue>>

\* Only an idle session becomes overdue ...
Expire(s) ==
  /\ holders[s] = {}
  /\ overdue' = overdue \cup {s}
  /\ UNCHANGED <<leased, holders>>

\* ... and only an overdue one is reaped; a second reaper may be under way.
Reap(s) ==
  /\ s \in overdue
  /\ leased' = leased \ {s}
  /\ overdue' \in {overdue, overdue \ {s}}
  /\ UNCHANGED holders

LeaseNext ==
  \E s \in Sessions :
    \/ Open(s) \/ Expire(s) \/ Reap(s)
    \/ \E r \in Reqs : Hold(s, r) \/ Release(s, r) \/ Close(s, r)

LeaseSpec == LeaseInit /\ [][LeaseNext]_leaseVars
=============================================================================
