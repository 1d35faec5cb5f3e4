------------------------- MODULE ChildGatewayProofs -------------------------
(***************************************************************************)
(* What ChildGateway promises for any number of updates and processes.     *)
(***************************************************************************)
EXTENDS ChildGateway, TLAPS

(***************************************************************************)
(* The invariant that the loop keeps: between taking the old process and   *)
(* storing the new one, the slot is empty; before the spawn, so is stdin;  *)
(* and what the loop read from the store is still what the store has.      *)
(***************************************************************************)
SlotEmptied ==
  loop \in {"clearStdin", "spawn", "setStdin", "setChild"} => slot = NoProc

StdinEmptied == loop = "spawn" => stdin = NoProc

KillHasSlot == loop = "killing" => slot # NoProc

ArgsCurrent ==
  /\ loop # "idle" => args = store /\ current \in Updates
  /\ loop \in {"setStdin", "setChild"} => runs[newest] = args
  /\ loop = "finish" => slot \in {NoProc, newest} /\ runs[newest] = args

IInv ==
  /\ TypeOK
  /\ runs # <<>>
  /\ SlotEmptied
  /\ StdinEmptied
  /\ KillHasSlot
  /\ ArgsCurrent
  /\ StdinIsNewest
  /\ NoUnownedProcess
  /\ ChildRunsCurrentArgs

-----------------------------------------------------------------------------
\* What appending to a sequence (of processes, of requests) yields.
LEMMA Appended ==
  ASSUME NEW S, NEW q \in Seq(S), NEW e \in S
  PROVE  /\ Append(q, e) \in Seq(S)
         /\ Len(Append(q, e)) = Len(q) + 1
         /\ DOMAIN q = 1 .. Len(q)
         /\ DOMAIN Append(q, e) = 1 .. Len(q) + 1
         /\ Len(q) \in Nat
         /\ \A i \in 1 .. Len(q) : Append(q, e)[i] = q[i]
         /\ Append(q, e)[Len(q) + 1] = e
  OBVIOUS

\* The arguments after an update are arguments, and agree outside what it sets.
LEMMA UpdatedStore ==
  ASSUME TypeOK, NEW u \in Updates
  PROVE  /\ Updated(u) \in Args
         /\ \A f \in Fields \ sets[u] : Updated(u)[f] = store[f]
  BY DEF TypeOK, Updated, Args

\* The first request of the queue is a request, and the rest is a shorter queue.
LEMMA QueueHead ==
  ASSUME TypeOK, queue # <<>>
  PROVE  /\ Head(queue) \in Updates
         /\ Tail(queue) \in Seq(Updates)
         /\ Len(Tail(queue)) <= UpdateCap
  BY UpdateCapPositive DEF TypeOK

-----------------------------------------------------------------------------
\* The gateway begins with its first child in place, spawned with what the store has.
LEMMA InitHolds == Init => IInv
  <1> SUFFICES ASSUME Init PROVE IInv
    OBVIOUS
  <1>0. store \in Args
    BY DEF Init, Args
  <1>1. /\ runs = <<store>>
        /\ Len(runs) = 1 /\ DOMAIN runs = {1} /\ runs \in Seq(Args) /\ runs[1] = store
    BY <1>0 DEF Init
  <1>2. TypeOK
    <2>1. sets \in [Updates -> SUBSET Fields] /\ scope \in [Updates -> {"global", "session"}]
      BY DEF Init
    <2>2. reply \in [Updates -> Replies] /\ check \in [Checks -> {"new", "clearing", "done"}]
      BY DEF Init, Replies
    <2>3. queue \in Seq(Updates) /\ Len(queue) <= UpdateCap
      BY UpdateCapPositive DEF Init
    <2>4. running \subseteq DOMAIN runs /\ reading \subseteq DOMAIN runs
      BY <1>1 DEF Init
    <2>5. /\ slot \in DOMAIN runs \cup {NoProc} /\ stdin \in DOMAIN runs \cup {NoProc}
          /\ restarting \in BOOLEAN
          /\ gateway \in {"up", "stdoutClosed", "sendFailed"}
          /\ loop \in LoopPCs /\ current \in Updates \cup {Initial}
      BY <1>1 DEF Init, LoopPCs
    <2>6. args \in Args /\ runs \in Seq(Args)
      BY <1>0, <1>1 DEF Init
    <2> QED
      BY <1>0, <2>1, <2>2, <2>3, <2>4, <2>5, <2>6 DEF TypeOK
  <1>3. ChildRunsCurrentArgs
    BY <1>1 DEF Init, ChildRunsCurrentArgs
  <1>4. SlotEmptied /\ StdinEmptied /\ KillHasSlot /\ ArgsCurrent
    BY <1>1 DEF Init, SlotEmptied, StdinEmptied, KillHasSlot, ArgsCurrent
  <1>5. StdinIsNewest /\ NoUnownedProcess
    BY <1>1 DEF Init, StdinIsNewest, NoUnownedProcess, newest
  <1> QED
    BY <1>1, <1>2, <1>3, <1>4, <1>5 DEF IInv

\* Every step of the loop, of a process, of a reader and of a health request keeps IInv.
LEMMA StepHolds == IInv /\ [Next]_vars => IInv'
  <1> SUFFICES ASSUME IInv, [Next]_vars PROVE IInv'
    OBVIOUS
  <1>0. /\ TypeOK /\ runs # <<>> /\ SlotEmptied /\ StdinEmptied /\ KillHasSlot
        /\ ArgsCurrent /\ StdinIsNewest /\ NoUnownedProcess /\ ChildRunsCurrentArgs
    BY DEF IInv
  <1>n. /\ newest \in Nat \ {0} /\ DOMAIN runs = 1 .. newest /\ newest = Len(runs)
    BY <1>0 DEF TypeOK, newest
  <1> USE DEF NoProc
  <1>1. ASSUME NEW u \in Updates, NEW fs \in SUBSET Fields,
               NEW sc \in {"global", "session"}, Submit(u, fs, sc)
        PROVE  IInv'
    <2>0. Append(queue, u) \in Seq(Updates) /\ Len(Append(queue, u)) <= UpdateCap
      BY <1>0, <1>1, UpdateCapPositive, Appended DEF TypeOK, Submit
    <2>1. TypeOK'
      BY <1>0, <1>1, <2>0 DEF TypeOK, Submit, procVars, childVars, Replies
    <2> QED
      BY <1>0, <1>1, <2>1 DEF IInv, Submit, procVars, childVars, SlotEmptied, StdinEmptied,
         KillHasSlot, ArgsCurrent, StdinIsNewest, NoUnownedProcess, ChildRunsCurrentArgs, newest
  <1>2. CASE Receive
    <2> DEFINE u == Head(queue)
    <2>1. /\ u \in Updates /\ Tail(queue) \in Seq(Updates) /\ Len(Tail(queue)) <= UpdateCap
      BY <1>0, <1>2, QueueHead DEF Receive
    <2>2. /\ Updated(u) \in Args
          /\ \A f \in Fields \ sets[u] : Updated(u)[f] = store[f]
      BY <1>0, <2>1, UpdatedStore
    <2> HIDE DEF u
    <2>3. /\ loop = "idle" /\ queue' = Tail(queue)
          /\ UNCHANGED <<procVars, slot, stdin, gateway, sets, scope, check>>
      BY <1>2 DEF Receive
    <2>4. \/ /\ Answer(u, "unsupported")
             /\ UNCHANGED <<store, loop, current, args, restarting>>
          \/ /\ store' = Updated(u)
             /\ sets[u] \cap SpawnFields = {}
             /\ Answer(u, "updated")
             /\ UNCHANGED <<loop, current, args, restarting>>
          \/ /\ store' = Updated(u)
             /\ loop' = "kill" /\ current' = u /\ args' = store'
             /\ restarting' = TRUE
             /\ UNCHANGED reply
      BY <1>2 DEF Receive, u
    <2>5. TypeOK'
      BY <1>0, <2>1, <2>2, <2>3, <2>4
      DEF TypeOK, Answer, Replies, LoopPCs, procVars
    <2>6. ChildRunsCurrentArgs'
      BY <1>0, <2>2, <2>3, <2>4, SpawnFieldsAreFields DEF ChildRunsCurrentArgs, procVars
    <2>7. ArgsCurrent' /\ SlotEmptied' /\ StdinEmptied' /\ KillHasSlot'
      BY <1>0, <2>1, <2>3, <2>4
      DEF ArgsCurrent, SlotEmptied, StdinEmptied, KillHasSlot, procVars
    <2>8. StdinIsNewest' /\ NoUnownedProcess'
      BY <1>0, <2>3, <2>4 DEF StdinIsNewest, NoUnownedProcess, newest, procVars
    <2> QED
      BY <1>0, <2>3, <2>5, <2>6, <2>7, <2>8 DEF IInv, procVars
  <1>3. CASE Kill
    <2>1. TypeOK'
      BY <1>0, <1>3 DEF TypeOK, Kill, procVars, childVars, LoopPCs
    <2> QED
      BY <1>0, <1>n, <1>3, <2>1 DEF IInv, Kill, procVars, childVars, SlotEmptied, StdinEmptied,
         KillHasSlot, ArgsCurrent, StdinIsNewest, NoUnownedProcess, ChildRunsCurrentArgs, newest
  <1>4. CASE KillDone
    <2>1. TypeOK'
      BY <1>0, <1>4 DEF TypeOK, KillDone, LoopPCs
    <2>2. NoUnownedProcess'
      BY <1>0, <1>4 DEF NoUnownedProcess, KillDone
    <2> QED
      BY <1>0, <1>4, <2>1, <2>2 DEF IInv, KillDone, SlotEmptied, StdinEmptied,
         KillHasSlot, ArgsCurrent, StdinIsNewest, ChildRunsCurrentArgs, newest
  <1>5. CASE ClearStdin
    <2>1. TypeOK'
      BY <1>0, <1>5 DEF TypeOK, ClearStdin, procVars, LoopPCs
    <2> QED
      BY <1>0, <1>5, <2>1 DEF IInv, ClearStdin, procVars, SlotEmptied, StdinEmptied,
         KillHasSlot, ArgsCurrent, StdinIsNewest, NoUnownedProcess, ChildRunsCurrentArgs, newest
  <1>6. CASE SpawnFails
    <2>1. TypeOK'
      BY <1>0, <1>6 DEF TypeOK, SpawnFails, Answer, procVars, Replies, LoopPCs
    <2> QED
      BY <1>0, <1>6, <2>1 DEF IInv, SpawnFails, procVars, SlotEmptied, StdinEmptied,
         KillHasSlot, ArgsCurrent, StdinIsNewest, NoUnownedProcess, ChildRunsCurrentArgs, newest
  <1>7. CASE Spawn
    <2>1. /\ runs' \in Seq(Args) /\ Len(runs') = newest + 1
          /\ DOMAIN runs' = 1 .. newest + 1
          /\ runs'[newest + 1] = args
      BY <1>0, <1>n, <1>7, Appended DEF Spawn, TypeOK
    <2>2. TypeOK'
      BY <1>0, <1>n, <1>7, <2>1 DEF TypeOK, Spawn, childVars, LoopPCs
    <2>3. slot = NoProc /\ stdin = NoProc /\ running = {}
      BY <1>0, <1>n, <1>7 DEF Spawn, SlotEmptied, StdinEmptied, NoUnownedProcess, TypeOK
    <2>4. newest' = newest + 1 /\ running' = {newest'}
      BY <1>7, <2>1, <2>3 DEF Spawn, newest
    <2>5. NoUnownedProcess' /\ StdinIsNewest' /\ SlotEmptied'
      BY <1>7, <2>3, <2>4 DEF Spawn, childVars, NoUnownedProcess, StdinIsNewest, SlotEmptied
    <2>6. ArgsCurrent'
      BY <1>0, <1>7, <2>1, <2>4 DEF Spawn, ArgsCurrent
    <2>7. StdinEmptied' /\ KillHasSlot' /\ ChildRunsCurrentArgs'
      BY <1>7 DEF Spawn, StdinEmptied, KillHasSlot, ChildRunsCurrentArgs
    <2>8. (runs # <<>>)'
      BY <2>1, <1>n
    <2> QED
      BY <2>2, <2>5, <2>6, <2>7, <2>8 DEF IInv
  <1>8. CASE SetStdin
    <2>1. TypeOK'
      BY <1>0, <1>n, <1>8 DEF TypeOK, SetStdin, procVars, LoopPCs
    <2> QED
      BY <1>0, <1>8, <2>1 DEF IInv, SetStdin, procVars, SlotEmptied, StdinEmptied,
         KillHasSlot, ArgsCurrent, StdinIsNewest, NoUnownedProcess, ChildRunsCurrentArgs, newest
  <1>9. CASE SetChild
    <2>1. TypeOK'
      BY <1>0, <1>n, <1>9 DEF TypeOK, SetChild, LoopPCs
    <2>2. NoUnownedProcess'
      BY <1>0, <1>n, <1>9 DEF NoUnownedProcess, SetChild, SlotEmptied, newest, TypeOK
    <2> QED
      BY <1>0, <1>9, <2>1, <2>2 DEF IInv, SetChild, SlotEmptied, StdinEmptied,
         KillHasSlot, ArgsCurrent, StdinIsNewest, ChildRunsCurrentArgs, newest
  <1>10. CASE Finish
    <2>1. TypeOK'
      BY <1>0, <1>10 DEF TypeOK, Finish, Answer, procVars, Replies, LoopPCs
    <2> QED
      BY <1>0, <1>10, <2>1 DEF IInv, Finish, procVars, SlotEmptied, StdinEmptied,
         KillHasSlot, ArgsCurrent, StdinIsNewest, NoUnownedProcess, ChildRunsCurrentArgs, newest
  <1>11. ASSUME NEW g \in DOMAIN runs, ProcExits(g) \/ StdoutCloses(g) PROVE IInv'
    <2>1. TypeOK'
      BY <1>0, <1>11 DEF TypeOK, ProcExits, StdoutCloses, childVars, updateVars
    <2> QED
      BY <1>0, <1>11, <2>1 DEF IInv, ProcExits, StdoutCloses, childVars, updateVars,
         SlotEmptied, StdinEmptied,
         KillHasSlot, ArgsCurrent, StdinIsNewest, NoUnownedProcess, ChildRunsCurrentArgs, newest
  <1>12. CASE SendFails
    <2>1. TypeOK'
      BY <1>0, <1>12 DEF TypeOK, SendFails, procVars, childVars, updateVars
    <2> QED
      BY <1>0, <1>12, <2>1 DEF IInv, SendFails, procVars, childVars, updateVars,
         SlotEmptied, StdinEmptied,
         KillHasSlot, ArgsCurrent, StdinIsNewest, NoUnownedProcess, ChildRunsCurrentArgs, newest
  <1>13. ASSUME NEW h \in Checks, Poll(h) PROVE IInv'
    <2>1. TypeOK'
      BY <1>0, <1>13 DEF TypeOK, Poll, procVars, updateVars
    <2>2. NoUnownedProcess'
      BY <1>0, <1>13 DEF NoUnownedProcess, Poll, procVars, updateVars, newest
    <2> QED
      BY <1>0, <1>13, <2>1, <2>2 DEF IInv, Poll, procVars, updateVars,
         SlotEmptied, StdinEmptied,
         KillHasSlot, ArgsCurrent, StdinIsNewest, ChildRunsCurrentArgs, newest
  <1>14. ASSUME NEW h \in Checks, PollClearsStdin(h) PROVE IInv'
    <2>1. TypeOK'
      BY <1>0, <1>14 DEF TypeOK, PollClearsStdin, procVars, updateVars
    <2> QED
      BY <1>0, <1>14, <2>1 DEF IInv, PollClearsStdin, procVars, updateVars,
         SlotEmptied, StdinEmptied,
         KillHasSlot, ArgsCurrent, StdinIsNewest, NoUnownedProcess, ChildRunsCurrentArgs, newest
  <1>15. CASE UNCHANGED vars
    BY <1>0, <1>15 DEF vars, procVars, childVars, updateVars, IInv, TypeOK, SlotEmptied,
       StdinEmptied, KillHasSlot, ArgsCurrent, StdinIsNewest, NoUnownedProcess,
       ChildRunsCurrentArgs, newest
  <1> QED
    BY <1>1, <1>2, <1>3, <1>4, <1>5, <1>6, <1>7, <1>8, <1>9, <1>10, <1>11, <1>12, <1>13,
       <1>14, <1>15 DEF Next, UpdateLoop

\* IInv holds in every behaviour.
LEMMA IInvHolds == Spec => []IInv
  BY InitHolds, StepHolds, PTL DEF Spec

-----------------------------------------------------------------------------
\* Every variable keeps its type; the update channel never exceeds its capacity.
THEOREM TypeCorrect == Spec => []TypeOK
  <1>1. IInv => TypeOK
    BY DEF IInv
  <1> QED
    BY <1>1, IInvHolds, PTL

\* No message is ever written to a child that a restart has replaced.
THEOREM StdinFollowsRestart == Spec => []StdinIsNewest
  <1>1. IInv => StdinIsNewest
    BY DEF IInv
  <1> QED
    BY <1>1, IInvHolds, PTL

\* No restart, failed restart or health request leaves a process without an owner.
THEOREM ProcessesAreOwned == Spec => []NoUnownedProcess
  <1>1. IInv => NoUnownedProcess
    BY DEF IInv
  <1> QED
    BY <1>1, IInvHolds, PTL

\* Between restarts the child runs with the arguments that the store has.
THEOREM ArgumentsApplied == Spec => []ChildRunsCurrentArgs
  <1>1. IInv => ChildRunsCurrentArgs
    BY DEF IInv
  <1> QED
    BY <1>1, IInvHolds, PTL

-----------------------------------------------------------------------------
(* The update service *)

\* The child in place stays the same where the slot does and processes are only added.
LEMMA SameServing ==
  ASSUME TypeOK, slot' = slot, runs' = runs \/ runs' = Append(runs, args)
  PROVE  Serving' = Serving
  <1>1. slot # NoProc => slot \in 1 .. Len(runs)
    BY DEF TypeOK
  <1>2. slot # NoProc => runs'[slot] = runs[slot]
    BY <1>1, Appended DEF TypeOK
  <1> QED
    BY <1>2 DEF Serving

\* Nothing of the update service changes.
LEMMA NothingServed ==
  ASSUME UNCHANGED <<store, queue, sets, scope, reply>>,
         InWork' = InWork, InPlace' = InPlace, Serving' = Serving
  PROVE  [Service!ServiceNext]_(Service!serviceVars)
  BY DEF Service!serviceVars

\* The child in place is gone.
LEMMA ChildTaken ==
  ASSUME slot' = NoProc, UNCHANGED <<store, queue, sets, scope, reply, InWork, InPlace>>
  PROVE  [Service!ServiceNext]_(Service!serviceVars)
  BY DEF Service!ServiceNext, Service!ChildGone, Serving

\* Each step of the gateway is a step of the update service, or none there.
LEMMA ServiceStep ==
  ASSUME IInv, [Next]_vars
  PROVE  [Service!ServiceNext]_(Service!serviceVars)
  <1> DEFINE Served == [Service!ServiceNext]_(Service!serviceVars)
  <1> SUFFICES Served
    OBVIOUS
  <1>0. TypeOK /\ SlotEmptied /\ ArgsCurrent
    BY DEF IInv
  <1>1. ASSUME NEW u \in Updates, NEW fs \in SUBSET Fields, NEW sc \in {"global", "session"},
               Submit(u, fs, sc)
        PROVE  Served
    <2>1. UNCHANGED <<InWork, InPlace, Serving>>
      BY <1>0, <1>1, SameServing DEF Submit, procVars, childVars, InWork, InPlace
    <2>2. Service!Ask(u)
      BY <1>1, <2>1 DEF Submit, Service!Ask
    <2> QED
      BY <2>2 DEF Service!ServiceNext
  <1>2. CASE Receive
    <2>1. PICK u \in Updates : u = Head(queue)
      BY <1>0, <1>2, QueueHead DEF Receive
    <2>2. UNCHANGED <<InPlace, Serving, sets, scope>>
      BY <1>0, <1>2, SameServing DEF Receive, procVars, InPlace
    <2>3. InWork = {} /\ queue # <<>> /\ queue' = Tail(queue)
      BY <1>2 DEF Receive, InWork
    <2>4. CASE scope[u] = "session"
      <3>1. store' = store /\ InWork' = {} /\ reply' = [reply EXCEPT ![u] = "unsupported"]
        BY <1>2, <2>1, <2>4 DEF Receive, Answer, InWork
      <3> QED
        BY <2>1, <2>2, <2>3, <2>4, <3>1 DEF Service!ServiceNext, Service!TakeUp
    <2>5. CASE scope[u] = "global"
      <3>1. store' = [f \in Fields |-> IF f \in sets[u] THEN u ELSE store[f]]
        BY <1>2, <2>1, <2>5 DEF Receive, Updated
      <3>2. CASE sets[u] \cap SpawnFields = {}
        <4>1. InWork' = {} /\ reply' = [reply EXCEPT ![u] = "updated"]
          BY <1>2, <2>1, <2>5, <3>2 DEF Receive, Answer, InWork
        <4> QED
          BY <2>1, <2>2, <2>3, <2>5, <3>1, <3>2, <4>1 DEF Service!ServiceNext, Service!TakeUp
      <3>3. CASE sets[u] \cap SpawnFields # {}
        <4>1. InWork' = {u} /\ reply' = reply
          BY <1>2, <2>1, <2>5, <3>3 DEF Receive, InWork
        <4> QED
          BY <2>1, <2>2, <2>3, <2>5, <3>1, <3>3, <4>1 DEF Service!ServiceNext, Service!TakeUp
      <3> QED
        BY <3>2, <3>3
    <2> QED
      BY <1>0, <2>4, <2>5 DEF TypeOK
  <1>3. CASE Kill \/ ClearStdin \/ Spawn \/ SetStdin
    <2>1. Serving' = Serving
      BY <1>0, <1>3, SameServing DEF Kill, ClearStdin, Spawn, SetStdin, procVars, childVars
    <2>2. UNCHANGED <<store, queue, sets, scope, reply, InWork, InPlace>>
      BY <1>3 DEF Kill, ClearStdin, Spawn, SetStdin, InWork, InPlace
    <2> QED
      BY <2>1, <2>2, NothingServed
  <1>4. CASE KillDone
    BY <1>4, ChildTaken DEF KillDone, InWork, InPlace
  <1>5. CASE SpawnFails \/ Finish
    <2>1. current \in Updates /\ InWork = {current} /\ InWork' = {} /\ ~InPlace'
      BY <1>0, <1>5 DEF ArgsCurrent, SpawnFails, Finish, InWork, InPlace
    <2>2. Serving' = Serving
      BY <1>0, <1>5, SameServing DEF SpawnFails, Finish, procVars
    <2>3. InPlace \/ Serving = {}
      BY <1>0, <1>5 DEF SlotEmptied, SpawnFails, Finish, InPlace, Serving
    <2>4. reply' = [reply EXCEPT ![current] = IF InPlace THEN "restarted" ELSE "restartFailed"]
      BY <1>5 DEF SpawnFails, Finish, Answer, InPlace
    <2>5. Service!Report(current)
      BY <1>5, <2>1, <2>2, <2>3, <2>4 DEF SpawnFails, Finish, Service!Report
    <2> QED
      BY <2>1, <2>5 DEF Service!ServiceNext
  <1>6. CASE SetChild
    <2>1. Serving = {} /\ InWork # {} /\ InWork' = InWork /\ ~InPlace /\ InPlace'
      BY <1>0, <1>6 DEF SlotEmptied, SetChild, Serving, InWork, InPlace
    <2>2. slot' = newest /\ newest # NoProc /\ runs' = runs /\ runs[newest] = store
      <3>1. slot' = Len(runs) /\ runs' = runs /\ runs[Len(runs)] = store
        BY <1>0, <1>6 DEF ArgsCurrent, SetChild, newest
      <3>2. Len(runs) # 0
        BY <1>0 DEF IInv, TypeOK
      <3> QED
        BY <3>1, <3>2 DEF NoProc, newest
    <2>3. Serving' = {store}
      BY <2>2 DEF Serving, NoProc
    <2> QED
      BY <1>6, <2>1, <2>3 DEF SetChild, Service!ServiceNext, Service!Replace
  <1>7. CASE (\E g \in DOMAIN runs : ProcExits(g) \/ StdoutCloses(g)) \/ SendFails
    <2>1. Serving' = Serving
      BY <1>0, <1>7, SameServing DEF ProcExits, StdoutCloses, SendFails, procVars, childVars
    <2> QED
      BY <1>7, <2>1, NothingServed
      DEF ProcExits, StdoutCloses, SendFails, updateVars, InWork, InPlace
  <1>8. ASSUME NEW h \in Checks, Poll(h) \/ PollClearsStdin(h) PROVE Served
    <2>1. UNCHANGED <<store, queue, sets, scope, reply, InWork, InPlace>> /\ runs' = runs
      BY <1>8 DEF Poll, PollClearsStdin, procVars, updateVars, InWork, InPlace
    <2>2. slot' \in {slot, NoProc}
      BY <1>8 DEF Poll, PollClearsStdin
    <2> QED
      BY <1>0, <2>1, <2>2, SameServing, NothingServed, ChildTaken
  <1>9. CASE UNCHANGED vars
    <2>1. Serving' = Serving
      BY <1>0, <1>9, SameServing DEF vars, procVars, childVars
    <2> QED
      BY <1>9, <2>1, NothingServed DEF vars, updateVars, InWork, InPlace
  <1> HIDE DEF Served
  <1> QED
    BY <1>1, <1>2, <1>3, <1>4, <1>5, <1>6, <1>7, <1>8, <1>9 DEF Next, UpdateLoop

\* For any updates, health requests and ends of children, updates are applied in
\* order and answered once, and what the answer says of the child is true: the
\* gateway implements UpdateService.
THEOREM GatewayImplementsService == Spec => ImplementsService
  <1>1. Init => Service!ServiceInit
    BY DEF Init, Service!ServiceInit, InWork, InPlace, Serving, NoProc
  <1> QED
    BY <1>1, ServiceStep, IInvHolds, PTL DEF Spec, ImplementsService, Service!ServiceSpec
=============================================================================
