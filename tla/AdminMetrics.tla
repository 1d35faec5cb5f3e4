---------------------------- MODULE AdminMetrics ----------------------------
(***************************************************************************)
(* The runtime admin server (runtime/admin.rs): what lets a request in,    *)
(* its handler, and the counters that every request leaves.  The counters  *)
(* are atomics and two maps, each under a mutex of its own that is never   *)
(* held across an await; a snapshot for the metrics routes reads them one  *)
(* after another while other requests go on.                               *)
(*                                                                         *)
(* What an update does is the subject of ChildGateway, what a search does  *)
(* of ServerImport.                                                        *)
(***************************************************************************)
EXTENDS Naturals, Sequences, FiniteSetsExt

CONSTANT Visits     \* requests; each is made once

VARIABLES
  loopbackOnly, tokenSet,      \* AdminServerOptions
  visit,       \* visit[r]: [at, route, status]
  atomics,     \* the five counters
  routeRequests, statusCounts, \* the maps
  snapshot     \* snapshot[r]: what r has read, and what it still has to read

adminVars == <<loopbackOnly, tokenSet, visit, atomics, routeRequests, statusCounts, snapshot>>

Routes == {"defaults", "search", "sessions", "metrics"}
Statuses == {200, 400, 401, 403}
Atomics == {"requests", "unauthorized", "forbidden", "updates", "searches"}
Zero(S) == [x \in S |-> 0]
Unread == [todo |-> <<>>, atomics |-> Zero(Atomics), routes |-> Zero(Routes),
           statuses |-> Zero(Statuses)]

AdminInit ==
  /\ loopbackOnly \in BOOLEAN /\ tokenSet \in BOOLEAN
  /\ visit = [r \in Visits |-> [at |-> "new", route |-> "sessions", status |-> 200]]
  /\ atomics = Zero(Atomics)
  /\ routeRequests = Zero(Routes) /\ statusCounts = Zero(Statuses)
  /\ snapshot = [r \in Visits |-> Unread]

At(r, places) == visit[r].at \in places
Move(r, to) == visit' = [visit EXCEPT ![r].at = to]
Answered(r, status) == visit' = [visit EXCEPT ![r].at = "total", ![r].status = status]
Count(counter) == atomics' = [atomics EXCEPT ![counter] = @ + 1]

\* authorize_and_record_admin_request: a request comes in and is let through,
\* or is not from this host, or has not the token.
Enter(r) ==
  /\ At(r, {"new"})
  /\ \E route \in Routes, local, token \in BOOLEAN :
       visit' = [visit EXCEPT ![r] =
                   IF loopbackOnly /\ ~local
                   THEN [at |-> "total", route |-> route, status |-> 403]
                   ELSE IF tokenSet /\ ~token
                   THEN [at |-> "total", route |-> route, status |-> 401]
                   ELSE [at |-> "handler", route |-> route, status |-> 200]]
  /\ UNCHANGED <<loopbackOnly, tokenSet, atomics, routeRequests, statusCounts, snapshot>>

-----------------------------------------------------------------------------
(* The handlers *)

\* A body or a method that does not fit is answered by the router.
Reject(r) ==
  /\ At(r, {"handler"})
  /\ Answered(r, 400)
  /\ UNCHANGED <<loopbackOnly, tokenSet, atomics, routeRequests, statusCounts, snapshot>>

\* update_defaults and update_session count first, then wait for the update;
\* a search counts first, too.
Serve(r) ==
  /\ At(r, {"handler"})
  /\ \/ visit[r].route = "defaults" /\ Count("updates") /\ Move(r, "update")
     \/ /\ visit[r].route = "search" /\ Count("searches")
        /\ \E status \in {200, 400} : Answered(r, status)
     \/ visit[r].route = "sessions" /\ Answered(r, 200) /\ UNCHANGED atomics
  /\ UNCHANGED <<loopbackOnly, tokenSet, routeRequests, statusCounts, snapshot>>

\* The update loop answered, or it is gone: 200 both times.
Updated(r) ==
  /\ At(r, {"update"})
  /\ Answered(r, 200)
  /\ UNCHANGED <<loopbackOnly, tokenSet, atomics, routeRequests, statusCounts, snapshot>>

\* Mutant: the totals are read before the maps.
SnapshotTotalsFirst == <<"requests", "refused", "routes", "statuses">>

\* The order in which snapshot reads; the atomics that are left are read with the refusals.
SnapshotOrder == <<"routes", "statuses", "requests", "refused">>

\* runtime_metrics_json and runtime_metrics_prometheus.
Snapshot(r) ==
  /\ At(r, {"handler"}) /\ visit[r].route = "metrics"
  /\ Move(r, "read")
  /\ snapshot' = [snapshot EXCEPT ![r].todo = SnapshotOrder]
  /\ UNCHANGED <<loopbackOnly, tokenSet, atomics, routeRequests, statusCounts>>

ReadNext(r) ==
  /\ At(r, {"read"}) /\ snapshot[r].todo # <<>>
  /\ LET what == Head(snapshot[r].todo)
         read(S) == [a \in Atomics |-> IF a \in S THEN atomics[a] ELSE snapshot[r].atomics[a]]
     IN snapshot' =
          [snapshot EXCEPT
             ![r].todo = Tail(@),
             ![r].routes = IF what = "routes" THEN routeRequests ELSE @,
             ![r].statuses = IF what = "statuses" THEN statusCounts ELSE @,
             ![r].atomics = IF what = "requests" THEN read({"requests"})
                            ELSE IF what = "refused" THEN read(Atomics \ {"requests"}) ELSE @]
  /\ UNCHANGED <<loopbackOnly, tokenSet, visit, atomics, routeRequests, statusCounts>>

ShowMetrics(r) ==
  /\ At(r, {"read"}) /\ snapshot[r].todo = <<>>
  /\ Answered(r, 200)
  /\ UNCHANGED <<loopbackOnly, tokenSet, atomics, routeRequests, statusCounts, snapshot>>

-----------------------------------------------------------------------------
(* record_request, after the answer is known and before it is sent *)

RecordTotal(r) ==
  /\ At(r, {"total"})
  /\ Count("requests")
  /\ Move(r, IF visit[r].status \in {401, 403} THEN "refusal" ELSE "route")
  /\ UNCHANGED <<loopbackOnly, tokenSet, routeRequests, statusCounts, snapshot>>

RecordRefusal(r) ==
  /\ At(r, {"refusal"})
  /\ Count(IF visit[r].status = 401 THEN "unauthorized" ELSE "forbidden")
  /\ Move(r, "route")
  /\ UNCHANGED <<loopbackOnly, tokenSet, routeRequests, statusCounts, snapshot>>

RecordRoute(r) ==
  /\ At(r, {"route"})
  /\ routeRequests' = [routeRequests EXCEPT ![visit[r].route] = @ + 1]
  /\ Move(r, "status")
  /\ UNCHANGED <<loopbackOnly, tokenSet, atomics, statusCounts, snapshot>>

RecordStatus(r) ==
  /\ At(r, {"status"})
  /\ statusCounts' = [statusCounts EXCEPT ![visit[r].status] = @ + 1]
  /\ Move(r, "sent")
  /\ UNCHANGED <<loopbackOnly, tokenSet, atomics, routeRequests, snapshot>>

\* The client leaves while its request waits: for the update, or for a mutex.
Leave(r) ==
  /\ At(r, {"update", "read", "route", "status"})
  /\ Move(r, "left")
  /\ UNCHANGED <<loopbackOnly, tokenSet, atomics, routeRequests, statusCounts, snapshot>>

AdminNext ==
  \E r \in Visits :
    \/ Enter(r) \/ Reject(r) \/ Serve(r) \/ Updated(r)
    \/ Snapshot(r) \/ ReadNext(r) \/ ShowMetrics(r)
    \/ RecordTotal(r) \/ RecordRefusal(r) \/ RecordRoute(r) \/ RecordStatus(r) \/ Leave(r)

AdminSpec == AdminInit /\ [][AdminNext]_adminVars

-----------------------------------------------------------------------------
(* Properties *)

Total(f) == MapThenSumSet(LAMBDA x : f[x], DOMAIN f)

\* Metrics that are shown add up, though nothing holds the counters together
\* while they are read and requests end or are abandoned meanwhile: there are
\* at least as many requests as the maps have, and the refusals have theirs.
MetricsAddUp ==
  \A r \in Visits :
    visit[r].route = "metrics" /\ snapshot[r].todo = <<>> =>
      LET s == snapshot[r]
      IN /\ s.atomics["requests"] >= Total(s.routes)
         /\ s.atomics["requests"] >= Total(s.statuses)
         /\ s.atomics["unauthorized"] >= s.statuses[401]
         /\ s.atomics["forbidden"] >= s.statuses[403]
=============================================================================
