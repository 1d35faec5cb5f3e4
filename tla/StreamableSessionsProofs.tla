---------------------- MODULE StreamableSessionsProofs ----------------------
(***************************************************************************)
(* Proofs about StreamableSessions for every set of sessions and every     *)
(* finite set of exchanges.                                                *)
(***************************************************************************)
EXTENDS StreamableSessions, FiniteSetTheorems, TLAPS

\* The exchange has been given a session.
HasSession == {"insert", "createInc", "inc"} \cup Counted

SessionsKnown == \A r \in Reqs : pc[r] \in HasSession => sess[r] \in Sessions

TimersOfIdle == \A s \in armed : entry[s] = "timeout"

(***************************************************************************)
(* An id is unused until its process is spawned, and private to its        *)
(* creator until it is inserted.                                           *)
(***************************************************************************)
Untouched(s) == s \notin live /\ entry[s] = "none" /\ due[s] = 0

IdsFresh ==
  /\ \A s \in Sessions :
       child[s] = "none" => Untouched(s) /\ \A r \in Reqs : sess[r] # s
  /\ \A r \in Reqs :
       pc[r] = "insert" =>
         Untouched(sess[r]) /\ \A q \in Reqs : q # r => sess[q] # sess[r]

TimeoutHasReaper ==
  \A s \in live : entry[s] = "timeout" => s \in armed \/ due[s] > 0

IInv ==
  /\ TypeOK
  /\ SessionsKnown
  /\ CountIsHolders
  /\ TimersOfIdle
  /\ IdsFresh
  /\ TimeoutHasReaper

-----------------------------------------------------------------------------
(* Type correctness *)

Typed == TypeOK /\ SessionsKnown

\* Every step keeps the types, and gives an exchange past its start a session.
LEMMA TypedStep == Typed /\ [Next]_vars => Typed'
<1> USE DEF Typed, TypeOK, CounterTypeOK, EntryKinds, Ops, PCs,
            SessionsKnown, HasSession, Counted
<1> SUFFICES ASSUME Typed, [Next]_vars PROVE Typed'
  OBVIOUS
<1>1. ASSUME NEW r \in Reqs, Exchange(r) PROVE Typed'
  <2>1. ASSUME NEW s \in Sessions, PostInitialize(r, s) PROVE Typed'
    BY <2>1 DEF PostInitialize, Goto, counterVars
  <2>2. ASSUME NEW s \in Sessions, NEW o \in {"post", "get", "delete"}, Lookup(r, s, o)
        PROVE Typed'
    BY <2>2 DEF Lookup, Goto, counterVars
  <2>3. CASE CreateInsert(r)
    BY <2>3 DEF CreateInsert, Goto, counterVars
  <2>4. CASE CreateInc(r)
    BY <2>4 DEF CreateInc, Goto, Inc
  <2>5. CASE SessionInc(r)
    BY <2>5 DEF SessionInc, Goto, Inc
  <2>6. CASE AnswerPost(r) \/ OpenStream(r) \/ GuardDropped(r) \/ CloseStream(r)
    BY <2>6 DEF AnswerPost, OpenStream, GuardDropped, CloseStream, Goto, counterVars
  <2>7. CASE DeleteRemove(r) \/ DeleteDone(r)
    BY <2>7 DEF DeleteRemove, DeleteDone, Goto, counterVars
  <2>8. CASE SessionDec(r)
    BY <2>8 DEF SessionDec, Dec, DecActive, DecIgnored, Goto, counterVars
  <2>9. CASE Disconnect(r)
    BY <2>9 DEF Disconnect, Goto, counterVars
  <2> QED
    BY <1>1, <2>1, <2>2, <2>3, <2>4, <2>5, <2>6, <2>7, <2>8, <2>9 DEF Exchange
<1>2. ASSUME NEW s \in Sessions, Background(s) PROVE Typed'
  <2>1. CASE Timeout(s)
    BY <2>1 DEF Timeout, TimerFires, sessionVars
  <2>2. CASE Sweep(s)
    BY <2>2 DEF Sweep
  <2>3. CASE UpdateSession(s) \/ RestartBegin(s) \/ RestartDone(s) \/ ChildExits(s)
    BY <2>3 DEF UpdateSession, RestartBegin, RestartDone, ChildExits, counterVars
  <2> QED
    BY <1>2, <2>1, <2>2, <2>3 DEF Background
<1>3. CASE SweepDone \/ UpdateGlobal
  BY <1>3 DEF SweepDone, UpdateGlobal, counterVars
<1>4. CASE UNCHANGED vars
  BY <1>4 DEF vars, counterVars, sessionVars
<1> QED
  BY <1>1, <1>2, <1>3, <1>4 DEF Next

\* Every variable keeps its type: no count goes below zero, no step mixes up ids.
THEOREM TypeCorrect == Spec => []TypeOK
<1>1. Init => Typed
  BY DEF Init, CounterInit, Typed, TypeOK, CounterTypeOK, EntryKinds, Ops, PCs,
         SessionsKnown, HasSession, Counted
<1>2. Typed => TypeOK
  BY DEF Typed
<1> QED
  BY <1>1, <1>2, TypedStep, PTL DEF Spec

-----------------------------------------------------------------------------
(* How a step changes the holders of a session *)

\* A session has finitely many holders.
LEMMA HoldersFinite ==
  ASSUME NEW s
  PROVE  /\ IsFiniteSet(Holders(s))
         /\ Cardinality(Holders(s)) \in Nat
         /\ Cardinality(Holders(s)) = 0 <=> Holders(s) = {}
<1>1. Holders(s) \subseteq Reqs
  BY DEF Holders
<1>2. IsFiniteSet(Holders(s))
  BY <1>1, ReqsFinite, FS_Subset
<1> QED
  BY <1>2, FS_CardinalityType, FS_EmptySet

\* An exchange that moves from one place to another touches at most its own session.
LEMMA HoldersMove ==
  ASSUME TypeOK, NEW r \in Reqs, NEW l, Goto(r, l), sess' = sess, NEW s \in Sessions
  PROVE  Holders(s)' = IF sess[r] = s
                       THEN IF l \in Counted THEN Holders(s) \cup {r} ELSE Holders(s) \ {r}
                       ELSE Holders(s)
BY DEF TypeOK, Goto, Holders

\* A move within the counted places, or outside them, changes no session's holders.
LEMMA HoldersSame ==
  ASSUME TypeOK, NEW r \in Reqs, NEW l, Goto(r, l), sess' = sess,
         l \in Counted <=> pc[r] \in Counted, NEW s \in Sessions
  PROVE  Holders(s)' = Holders(s)
BY HoldersMove DEF Holders

-----------------------------------------------------------------------------
(* The steps that count *)

\* inc by an exchange that becomes a holder keeps the count exact.
LEMMA IncCounts ==
  ASSUME Typed, CountIsHolders, NEW r \in Reqs, NEW l \in Counted,
         pc[r] \notin Counted, sess[r] \in Sessions,
         Inc(sess[r]), Goto(r, l), sess' = sess
  PROVE  CountIsHolders'
<1> SUFFICES ASSUME NEW s \in Sessions
             PROVE  /\ entry'[s] = "active" => count'[s] = Cardinality(Holders(s)') /\ count'[s] > 0
                    /\ entry'[s] # "active" => Holders(s)' = {}
  BY DEF CountIsHolders
<1>1. CASE sess[r] = s
  <2>1. Holders(s)' = Holders(s) \cup {r} /\ r \notin Holders(s)
    BY <1>1, HoldersMove DEF Typed, Holders
  <2>2. Cardinality(Holders(s)') = Cardinality(Holders(s)) + 1
    BY <2>1, HoldersFinite, FS_AddElement
  <2>3. entry'[s] = "active" /\ count'[s] = IF entry[s] = "active" THEN count[s] + 1 ELSE 1
    BY <1>1 DEF Inc, Typed, TypeOK, CounterTypeOK
  <2> QED
    BY <2>2, <2>3, HoldersFinite DEF CountIsHolders, Typed, TypeOK, CounterTypeOK
<1>2. CASE sess[r] # s
  <2>1. Holders(s)' = Holders(s)
    BY <1>2, HoldersMove DEF Typed
  <2>2. entry'[s] = entry[s] /\ count'[s] = count[s]
    BY <1>2 DEF Inc, Typed, TypeOK, CounterTypeOK
  <2> QED
    BY <2>1, <2>2 DEF CountIsHolders
<1> QED
  BY <1>1, <1>2

\* dec by a holder that stops being one keeps the count exact.
LEMMA DecCounts ==
  ASSUME Typed, CountIsHolders, NEW r \in Reqs, SessionDec(r)
  PROVE  CountIsHolders' /\ DecActive(sess[r]) /\ count[sess[r]] > 0
<1>1. sess[r] \in Sessions /\ r \in Holders(sess[r])
  BY DEF SessionDec, Typed, SessionsKnown, HasSession, Counted, Holders
<1>2. entry[sess[r]] = "active" /\ count[sess[r]] > 0
  BY <1>1 DEF CountIsHolders
<1>3. DecActive(sess[r])
  BY <1>2 DEF SessionDec, Dec, DecIgnored
<1>4. ASSUME NEW s \in Sessions
      PROVE  /\ entry'[s] = "active" => count'[s] = Cardinality(Holders(s)') /\ count'[s] > 0
             /\ entry'[s] # "active" => Holders(s)' = {}
  <2>1. CASE sess[r] = s
    <3>1. Holders(s)' = Holders(s) \ {r}
      BY <2>1, HoldersMove DEF Typed, SessionDec, Counted
    <3>2. Cardinality(Holders(s)') = count[s] - 1
      <4>1. count[s] = Cardinality(Holders(s)) /\ r \in Holders(s)
        BY <1>1, <1>2, <2>1 DEF CountIsHolders
      <4>2. Cardinality(Holders(s) \ {r}) = Cardinality(Holders(s)) - 1
        BY <4>1, HoldersFinite, FS_RemoveElement, Zenon
      <4> QED
        BY <3>1, <4>1, <4>2, Zenon
    <3>3. IsFiniteSet(Holders(s)')
      BY <3>1, HoldersFinite, FS_RemoveElement
    <3>4. Cardinality(Holders(s)') = 0 => Holders(s)' = {}
      BY <3>3, FS_EmptySet
    <3>5. IF count[s] = 1 THEN entry'[s] = "timeout"
                          ELSE entry'[s] = "active" /\ count'[s] = count[s] - 1
      BY <1>2, <1>3, <2>1 DEF DecActive, Typed, TypeOK, CounterTypeOK
    <3> QED
      BY <1>2, <2>1, <3>2, <3>4, <3>5 DEF Typed, TypeOK, CounterTypeOK
  <2>2. CASE sess[r] # s
    <3>1. Holders(s)' = Holders(s)
      BY <2>2, HoldersMove DEF Typed, SessionDec
    <3>2. entry'[s] = entry[s] /\ count'[s] = count[s]
      BY <1>3, <2>2 DEF DecActive, Typed, TypeOK, CounterTypeOK
    <3> QED
      BY <3>1, <3>2 DEF CountIsHolders
  <2> QED
    BY <2>1, <2>2
<1> QED
  BY <1>2, <1>3, <1>4 DEF CountIsHolders

-----------------------------------------------------------------------------
(* The inductive invariant *)

\* A step that changes neither counts nor holders keeps the two together.
LEMMA CountsKept ==
  ASSUME Typed, CountIsHolders,
         \A s \in Sessions : Holders(s)' = Holders(s),
         \A s \in Sessions : entry'[s] = entry[s] /\ count'[s] = count[s]
  PROVE  CountIsHolders'
BY DEF CountIsHolders

\* Every step of every exchange, timer and cleanup keeps the counts exact.
LEMMA CountStep == IInv /\ [Next]_vars => CountIsHolders'
<1> SUFFICES ASSUME IInv, [Next]_vars PROVE CountIsHolders'
  OBVIOUS
<1>t. Typed /\ TypeOK /\ CountIsHolders
  BY DEF IInv, Typed
<1> USE DEF Counted
<1>1. ASSUME NEW r \in Reqs, Exchange(r) PROVE CountIsHolders'
  <2>1. ASSUME NEW s \in Sessions, PostInitialize(r, s) PROVE CountIsHolders'
    <3>1. \A z \in Sessions : Holders(z)' = Holders(z)
      BY <1>t, <2>1 DEF PostInitialize, Goto, Holders, TypeOK
    <3> QED
      BY <1>t, <2>1, <3>1, CountsKept DEF PostInitialize, counterVars
  <2>2. ASSUME NEW s \in Sessions, NEW o \in {"post", "get", "delete"}, Lookup(r, s, o)
        PROVE CountIsHolders'
    <3>1. \A z \in Sessions : Holders(z)' = Holders(z)
      BY <1>t, <2>2 DEF Lookup, Goto, Holders, TypeOK
    <3> QED
      BY <1>t, <2>2, <3>1, CountsKept DEF Lookup, counterVars
  <2>3. CASE CreateInc(r) \/ SessionInc(r)
    <3>1. PICK l \in Counted : Goto(r, l)
      BY <2>3 DEF CreateInc, SessionInc
    <3>2. sess[r] \in Sessions /\ pc[r] \notin Counted
      BY <1>t, <2>3 DEF CreateInc, SessionInc, Typed, SessionsKnown, HasSession
    <3>3. Inc(sess[r]) /\ sess' = sess
      BY <2>3 DEF CreateInc, SessionInc
    <3> QED
      BY <1>t, <3>1, <3>2, <3>3, IncCounts
  <2>4. CASE SessionDec(r)
    BY <1>t, <2>4, DecCounts
  <2>5. CASE CloseStream(r)
    <3>1. \A z \in Sessions : Holders(z)' = Holders(z)
      BY <2>5 DEF CloseStream, Holders
    <3> QED
      BY <1>t, <2>5, <3>1, CountsKept DEF CloseStream, counterVars
  <2>6. CASE \/ CreateInsert(r) \/ AnswerPost(r) \/ OpenStream(r) \/ DeleteRemove(r)
             \/ DeleteDone(r) \/ GuardDropped(r) \/ Disconnect(r)
    <3>1. /\ sess' = sess
          /\ UNCHANGED counterVars
          /\ \E l : Goto(r, l) /\ (l \in Counted <=> pc[r] \in Counted)
      BY <2>6 DEF CreateInsert, AnswerPost, OpenStream, DeleteRemove, DeleteDone,
                  GuardDropped, Disconnect, Suspended
    <3>2. \A z \in Sessions : Holders(z)' = Holders(z)
      BY <1>t, <3>1, HoldersSame
    <3> QED
      BY <1>t, <3>1, <3>2, CountsKept DEF counterVars
  <2> QED
    BY <1>1, <2>1, <2>2, <2>3, <2>4, <2>5, <2>6 DEF Exchange
<1>2. CASE \/ \E s \in Sessions : Background(s)
           \/ SweepDone \/ UpdateGlobal \/ UNCHANGED vars
  <2>1. pc' = pc /\ sess' = sess /\ entry' = entry /\ count' = count
    BY <1>2 DEF Background, Timeout, TimerFires, Sweep, UpdateSession, RestartBegin,
                RestartDone, ChildExits, SweepDone, UpdateGlobal, vars, counterVars,
                sessionVars
  <2>2. \A z \in Sessions : Holders(z)' = Holders(z)
    BY <2>1 DEF Holders
  <2> QED
    BY <1>t, <2>1, <2>2, CountsKept
<1> QED
  BY <1>1, <1>2 DEF Next

\* Ids stay unused until spawned, and private until inserted.
LEMMA IdsStep == IInv /\ [Next]_vars => IdsFresh'
<1> SUFFICES ASSUME IInv, [Next]_vars PROVE IdsFresh'
  OBVIOUS
<1> USE DEF IInv, TypeOK, CounterTypeOK, IdsFresh, Untouched
<1>s. \A r \in Reqs : pc[r] \in HasSession => sess[r] \in Sessions
  BY DEF SessionsKnown
<1>1. ASSUME NEW r \in Reqs, Exchange(r) PROVE IdsFresh'
  <2>1. ASSUME NEW s \in Sessions, PostInitialize(r, s) PROVE IdsFresh'
    BY <2>1 DEF PostInitialize, Goto, counterVars
  <2>2. ASSUME NEW s \in Sessions, NEW o \in {"post", "get", "delete"}, Lookup(r, s, o)
        PROVE IdsFresh'
    BY <2>2 DEF Lookup, Goto, counterVars
  <2>3. CASE CreateInsert(r)
    BY <1>s, <2>3 DEF CreateInsert, Goto, counterVars, HasSession
  <2>4. CASE CreateInc(r) \/ SessionInc(r)
    BY <1>s, <2>4 DEF CreateInc, SessionInc, Inc, Goto, HasSession
  <2>5. CASE SessionDec(r)
    <3>1. sess[r] \in Sessions /\ DecActive(sess[r])
      BY <1>s, <2>5, DecCounts DEF SessionDec, HasSession, Counted, Typed
    <3>2. entry[sess[r]] = "active"
      BY <3>1 DEF DecActive
    <3>3. \A s \in Sessions : entry'[s] # entry[s] => s = sess[r]
      BY <3>1 DEF DecActive
    <3>4. /\ pc' = [pc EXCEPT ![r] = "done"] /\ sess' = sess
          /\ live' = live /\ child' = child /\ due' = due
      BY <2>5, <3>1 DEF SessionDec, Goto, DecActive
    <3>5. \A q \in Reqs : pc'[q] = "insert" => pc[q] = "insert" /\ sess[q] \in Sessions
      BY <1>s, <3>4 DEF HasSession
    <3> QED
      BY <3>2, <3>3, <3>4, <3>5
  <2>6. CASE DeleteRemove(r)
    BY <1>s, <2>6 DEF DeleteRemove, Goto, counterVars, HasSession, Counted
  <2>7. CASE \/ AnswerPost(r) \/ OpenStream(r) \/ DeleteDone(r)
             \/ GuardDropped(r) \/ CloseStream(r) \/ Disconnect(r)
    BY <2>7 DEF AnswerPost, OpenStream, DeleteDone, GuardDropped, CloseStream,
                Disconnect, Goto, counterVars
  <2> QED
    BY <1>1, <2>1, <2>2, <2>3, <2>4, <2>5, <2>6, <2>7 DEF Exchange
<1>2. ASSUME NEW s \in Sessions, Background(s) PROVE IdsFresh'
  <2>1. CASE Timeout(s)
    BY <2>1 DEF Timeout, TimerFires, sessionVars, TimersOfIdle
  <2>2. CASE Sweep(s)
    BY <2>2 DEF Sweep
  <2>3. CASE UpdateSession(s) \/ RestartBegin(s) \/ ChildExits(s)
    BY <2>3 DEF UpdateSession, RestartBegin, ChildExits, counterVars
  <2>4. CASE RestartDone(s)
    BY <2>4 DEF RestartDone, counterVars
  <2> QED
    BY <1>2, <2>1, <2>2, <2>3, <2>4 DEF Background
<1>3. CASE SweepDone \/ UpdateGlobal \/ UNCHANGED vars
  BY <1>3 DEF SweepDone, UpdateGlobal, vars, counterVars, sessionVars
<1> QED
  BY <1>1, <1>2, <1>3 DEF Next

\* Timers sleep only for expiring entries, and a live expiring entry is not forgotten.
LEMMA ReaperStep == IInv /\ [Next]_vars => TimersOfIdle' /\ TimeoutHasReaper'
<1> SUFFICES ASSUME IInv, [Next]_vars PROVE TimersOfIdle' /\ TimeoutHasReaper'
  OBVIOUS
<1> USE DEF IInv, TypeOK, CounterTypeOK, TimersOfIdle, TimeoutHasReaper
<1>s. \A r \in Reqs : pc[r] \in HasSession => sess[r] \in Sessions
  BY DEF SessionsKnown
<1>1. ASSUME NEW r \in Reqs, Exchange(r) PROVE TimersOfIdle' /\ TimeoutHasReaper'
  <2>1. ASSUME NEW s \in Sessions, PostInitialize(r, s)
        PROVE TimersOfIdle' /\ TimeoutHasReaper'
    BY <2>1 DEF PostInitialize, counterVars
  <2>2. ASSUME NEW s \in Sessions, NEW o \in {"post", "get", "delete"}, Lookup(r, s, o)
        PROVE TimersOfIdle' /\ TimeoutHasReaper'
    BY <2>2 DEF Lookup, counterVars
  <2>3. CASE CreateInsert(r)
    BY <2>3 DEF CreateInsert, counterVars, IdsFresh, Untouched
  <2>4. CASE CreateInc(r) \/ SessionInc(r)
    BY <1>s, <2>4 DEF CreateInc, SessionInc, Inc, HasSession
  <2>5. CASE SessionDec(r)
    <3>1. DecActive(sess[r]) /\ sess[r] \in Sessions
      BY <1>s, <2>5, DecCounts DEF SessionDec, HasSession, Counted, Typed
    <3> QED
      BY <2>5, <3>1 DEF SessionDec, DecActive
  <2>6. CASE \/ AnswerPost(r) \/ OpenStream(r) \/ DeleteRemove(r) \/ DeleteDone(r)
             \/ GuardDropped(r) \/ CloseStream(r) \/ Disconnect(r)
    BY <2>6 DEF AnswerPost, OpenStream, DeleteRemove, DeleteDone, GuardDropped,
                CloseStream, Disconnect, counterVars
  <2> QED
    BY <1>1, <2>1, <2>2, <2>3, <2>4, <2>5, <2>6 DEF Exchange
<1>2. ASSUME NEW s \in Sessions, Background(s)
      PROVE TimersOfIdle' /\ TimeoutHasReaper'
  <2>1. CASE Timeout(s)
    BY <2>1 DEF Timeout, TimerFires, sessionVars
  <2>2. CASE Sweep(s)
    BY <2>2 DEF Sweep
  <2>3. CASE UpdateSession(s) \/ RestartBegin(s) \/ RestartDone(s) \/ ChildExits(s)
    BY <2>3 DEF UpdateSession, RestartBegin, RestartDone, ChildExits, counterVars
  <2> QED
    BY <1>2, <2>1, <2>2, <2>3 DEF Background
<1>3. CASE SweepDone \/ UpdateGlobal \/ UNCHANGED vars
  BY <1>3 DEF SweepDone, UpdateGlobal, vars, counterVars, sessionVars
<1> QED
  BY <1>1, <1>2, <1>3 DEF Next

\* The inductive invariant holds in every behaviour.
LEMMA IInvHolds == Spec => []IInv
<1>1. Init => IInv
  <2> SUFFICES ASSUME Init PROVE IInv
    OBVIOUS
  <2> USE DEF Init, CounterInit
  <2>1. TypeOK /\ SessionsKnown
    BY DEF TypeOK, CounterTypeOK, EntryKinds, Ops, PCs, SessionsKnown, HasSession, Counted
  <2>2. \A s \in Sessions : Holders(s) = {}
    BY NoSessionIsNoSession DEF Holders
  <2>3. CountIsHolders
    BY <2>2 DEF CountIsHolders
  <2>4. IdsFresh
    BY NoSessionIsNoSession DEF IdsFresh, Untouched
  <2> QED
    BY <2>1, <2>3, <2>4 DEF IInv, TimersOfIdle, TimeoutHasReaper
<1>2. IInv /\ [Next]_vars => IInv'
  BY TypedStep, CountStep, IdsStep, ReaperStep DEF IInv, Typed
<1> QED
  BY <1>1, <1>2, PTL DEF Spec

-----------------------------------------------------------------------------
(* What follows from it *)

\* The access count of every session is the number of references outstanding on it.
THEOREM CountsAreExact == Spec => []CountIsHolders
<1>1. IInv => CountIsHolders
  BY DEF IInv
<1> QED
  BY <1>1, IInvHolds, PTL

\* dec always finds an active entry: its three error branches are dead code here.
THEOREM DecNeverIgnored == Spec => []DecFindsActive
<1>1. IInv => DecFindsActive
  <2> SUFFICES ASSUME IInv PROVE DecFindsActive
    OBVIOUS
  <2>1. ASSUME NEW r \in Reqs, pc[r] = "dec"
        PROVE  entry[sess[r]] = "active" /\ count[sess[r]] > 0
    <3>1. sess[r] \in Sessions /\ r \in Holders(sess[r])
      BY <2>1 DEF IInv, SessionsKnown, HasSession, Counted, Holders
    <3> QED
      BY <3>1 DEF IInv, CountIsHolders
  <2> QED
    BY <2>1 DEF IInv, TimersOfIdle, DecFindsActive
<1> QED
  BY <1>1, IInvHolds, PTL

\* A live session that nobody holds has its timer asleep or its cleanup task spawned,
\* unless it was never counted.
THEOREM IdleSessionsAreReaped == Spec => []IdleSessionHasReaper
<1>1. IInv => IdleSessionHasReaper
  <2> SUFFICES ASSUME IInv, NEW s \in live, Holders(s) = {}
               PROVE  s \in armed \/ due[s] > 0 \/ Uncounted(s)
    BY DEF IdleSessionHasReaper
  <2>1. s \in Sessions /\ entry[s] \in EntryKinds
    BY DEF IInv, TypeOK, CounterTypeOK
  <2>2. entry[s] # "active"
    BY <2>1, HoldersFinite DEF IInv, CountIsHolders
  <2> QED
    BY <2>1, <2>2 DEF IInv, TimeoutHasReaper, Uncounted, EntryKinds
<1> QED
  BY <1>1, IInvHolds, PTL

-----------------------------------------------------------------------------
(* The gateway implements SessionLease *)

HolderMap == [s \in Sessions |-> Holders(s)]
OverdueSet == {s \in Sessions : due[s] > 0}

\* An exchange that starts to count takes a hold on its session and changes nothing else.
LEMMA MoveHolds ==
  ASSUME TypeOK, NEW r \in Reqs, NEW l, Goto(r, l), sess' = sess,
         sess[r] \in Sessions, pc[r] \notin Counted, l \in Counted
  PROVE  /\ r \notin HolderMap[sess[r]]
         /\ HolderMap' = [HolderMap EXCEPT ![sess[r]] = @ \cup {r}]
<1>1. \A s \in Sessions :
        Holders(s)' = IF s = sess[r] THEN Holders(s) \cup {r} ELSE Holders(s)
  BY HoldersMove
<1>2. r \notin Holders(sess[r])
  BY DEF Holders
<1> QED
  BY <1>1, <1>2 DEF HolderMap

\* An exchange that leaves the counted part is removed from its session's holders.
LEMMA MoveReleases ==
  ASSUME TypeOK, NEW r \in Reqs, NEW l, Goto(r, l), sess' = sess,
         sess[r] \in Sessions, pc[r] \in Counted, l \notin Counted
  PROVE  /\ r \in HolderMap[sess[r]]
         /\ HolderMap' = [HolderMap EXCEPT ![sess[r]] = @ \ {r}]
<1>1. \A s \in Sessions :
        Holders(s)' = IF s = sess[r] THEN Holders(s) \ {r} ELSE Holders(s)
  BY HoldersMove
<1>2. r \in Holders(sess[r])
  BY DEF Holders
<1> QED
  BY <1>1, <1>2 DEF HolderMap

\* An exchange that stays counted, or uncounted, changes nobody's holders.
LEMMA MoveKeeps ==
  ASSUME TypeOK, NEW r \in Reqs, NEW l, Goto(r, l), sess' = sess,
         l \in Counted <=> pc[r] \in Counted
  PROVE  HolderMap' = HolderMap
BY HoldersSame DEF HolderMap

\* Every step is a step of SessionLease or leaves its state as it is.
LEMMA LeaseStep ==
  IInv /\ [Next]_vars => [Lease!LeaseNext]_(Lease!leaseVars)
<1> SUFFICES ASSUME IInv, [Next]_vars
             PROVE  [Lease!LeaseNext]_<<live, HolderMap, OverdueSet>>
  BY DEF Lease!leaseVars, HolderMap, OverdueSet
<1> DEFINE Stutters == live' = live /\ HolderMap' = HolderMap /\ OverdueSet' = OverdueSet
<1>t. Typed /\ TypeOK /\ CountIsHolders
  BY DEF IInv, Typed
<1>s. \A r \in Reqs : pc[r] \in HasSession => sess[r] \in Sessions
  BY DEF IInv, SessionsKnown
<1>0. Stutters => [Lease!LeaseNext]_<<live, HolderMap, OverdueSet>>
  OBVIOUS
<1>1. ASSUME NEW r \in Reqs, Exchange(r)
      PROVE  [Lease!LeaseNext]_<<live, HolderMap, OverdueSet>>
  <2>1. ASSUME NEW s \in Sessions, PostInitialize(r, s)
        PROVE  [Lease!LeaseNext]_<<live, HolderMap, OverdueSet>>
    <3>1. \A z \in Sessions : Holders(z)' = Holders(z)
      BY <1>t, <2>1 DEF PostInitialize, Goto, Holders, TypeOK, Counted
    <3>2. Stutters
      BY <2>1, <3>1 DEF PostInitialize, counterVars, HolderMap, OverdueSet
    <3> QED
      BY <1>0, <3>2
  <2>2. ASSUME NEW s \in Sessions, NEW o \in {"post", "get", "delete"}, Lookup(r, s, o)
        PROVE  [Lease!LeaseNext]_<<live, HolderMap, OverdueSet>>
    <3>1. \A z \in Sessions : Holders(z)' = Holders(z)
      BY <1>t, <2>2 DEF Lookup, Goto, Holders, TypeOK, Counted
    <3>2. Stutters
      BY <2>2, <3>1 DEF Lookup, counterVars, HolderMap, OverdueSet
    <3> QED
      BY <1>0, <3>2
  <2>3. CASE CreateInsert(r)
    <3>1. sess[r] \in Sessions /\ Untouched(sess[r])
      BY <1>s, <2>3 DEF CreateInsert, HasSession, IInv, IdsFresh
    <3>2. HolderMap' = HolderMap /\ OverdueSet' = OverdueSet
      BY <1>t, <2>3, MoveKeeps DEF CreateInsert, Counted, counterVars, OverdueSet
    <3>3. Holders(sess[r]) = {}
      BY <1>t, <3>1 DEF CountIsHolders, Untouched
    <3>4. Lease!Open(sess[r])
      BY <2>3, <3>1, <3>2, <3>3 DEF Lease!Open, CreateInsert, Untouched, HolderMap, OverdueSet
    <3> QED
      BY <3>1, <3>4 DEF Lease!LeaseNext
  <2>4. CASE CreateInc(r) \/ SessionInc(r)
    <3>1. PICK l \in Counted : Goto(r, l)
      BY <2>4 DEF CreateInc, SessionInc, Counted
    <3>2. sess[r] \in Sessions /\ pc[r] \notin Counted /\ sess' = sess
      BY <1>s, <2>4 DEF CreateInc, SessionInc, HasSession, Counted
    <3>3. live' = live /\ OverdueSet' = OverdueSet
      BY <2>4 DEF CreateInc, SessionInc, Inc, OverdueSet
    <3>4. Lease!Hold(sess[r], r)
      BY <1>t, <3>1, <3>2, <3>3, MoveHolds DEF Lease!Hold, HolderMap, OverdueSet
    <3> QED
      BY <3>2, <3>4 DEF Lease!LeaseNext
  <2>5. CASE SessionDec(r)
    <3>1. sess[r] \in Sessions /\ pc[r] \in Counted /\ "done" \notin Counted
      BY <1>s, <2>5 DEF SessionDec, HasSession, Counted
    <3>2. live' = live /\ OverdueSet' = OverdueSet
      BY <2>5 DEF SessionDec, Dec, DecActive, DecIgnored, counterVars, OverdueSet
    <3>3. Lease!Release(sess[r], r)
      BY <1>t, <2>5, <3>1, <3>2, MoveReleases
         DEF SessionDec, Lease!Release, HolderMap, OverdueSet
    <3> QED
      BY <3>1, <3>3 DEF Lease!LeaseNext
  <2>6. CASE DeleteRemove(r)
    <3>1. sess[r] \in Sessions /\ r \in HolderMap[sess[r]]
      BY <1>s, <2>6 DEF DeleteRemove, HasSession, Counted, HolderMap, Holders
    <3>2. HolderMap' = HolderMap /\ OverdueSet' = OverdueSet
      BY <1>t, <2>6, MoveKeeps DEF DeleteRemove, Counted, counterVars, OverdueSet
    <3>3. CASE sess[r] \in live
      <4>1. Lease!Close(sess[r], r)
        BY <2>6, <3>1, <3>2, <3>3 DEF DeleteRemove, Lease!Close, HolderMap, OverdueSet
      <4> QED
        BY <3>1, <4>1 DEF Lease!LeaseNext
    <3>4. CASE sess[r] \notin live
      BY <1>0, <2>6, <3>2, <3>4 DEF DeleteRemove
    <3> QED
      BY <3>3, <3>4
  <2>7. CASE CloseStream(r)
    BY <1>0, <2>7 DEF CloseStream, counterVars, HolderMap, OverdueSet, Holders
  <2>8. CASE \/ AnswerPost(r) \/ OpenStream(r) \/ DeleteDone(r)
             \/ GuardDropped(r) \/ Disconnect(r)
    <3>1. /\ sess' = sess /\ live' = live /\ OverdueSet' = OverdueSet
          /\ \E l : Goto(r, l) /\ (l \in Counted <=> pc[r] \in Counted)
      BY <2>8 DEF AnswerPost, OpenStream, DeleteDone, GuardDropped, Disconnect,
                  Suspended, Counted, counterVars, OverdueSet
    <3> QED
      BY <1>t, <1>0, <3>1, MoveKeeps
  <2> QED
    BY <1>1, <2>1, <2>2, <2>3, <2>4, <2>5, <2>6, <2>7, <2>8 DEF Exchange
<1>2. ASSUME NEW s \in Sessions, Background(s)
      PROVE  [Lease!LeaseNext]_<<live, HolderMap, OverdueSet>>
  <2>h. HolderMap' = HolderMap
    <3>1. pc' = pc /\ sess' = sess
      BY <1>2 DEF Background, Timeout, TimerFires, Sweep, UpdateSession, RestartBegin,
                  RestartDone, ChildExits, sessionVars
    <3> QED
      BY <3>1 DEF HolderMap, Holders
  <2>1. CASE Timeout(s)
    <3>1. HolderMap[s] = {}
      BY <1>t, <2>1 DEF Timeout, TimerFires, IInv, TimersOfIdle, CountIsHolders, HolderMap
    <3>2. OverdueSet' = OverdueSet \cup {s}
      BY <1>t, <2>1 DEF Timeout, TimerFires, TypeOK, CounterTypeOK, OverdueSet
    <3>3. Lease!Expire(s)
      BY <2>h, <2>1, <3>1, <3>2 DEF Timeout, sessionVars, Lease!Expire, HolderMap, OverdueSet
    <3> QED
      BY <3>3 DEF Lease!LeaseNext
  <2>2. CASE Sweep(s)
    <3>1. s \in OverdueSet /\ OverdueSet' \in {OverdueSet, OverdueSet \ {s}}
      BY <1>t, <2>2 DEF Sweep, TypeOK, CounterTypeOK, OverdueSet
    <3>2. live' = live \ {s}
      BY <2>2 DEF Sweep
    <3>3. Lease!Reap(s)
      BY <2>h, <3>1, <3>2 DEF Lease!Reap, HolderMap, OverdueSet
    <3> QED
      BY <3>3 DEF Lease!LeaseNext
  <2>3. CASE UpdateSession(s) \/ RestartBegin(s) \/ RestartDone(s) \/ ChildExits(s)
    BY <1>0, <2>h, <2>3 DEF UpdateSession, RestartBegin, RestartDone, ChildExits,
                            counterVars, OverdueSet
  <2> QED
    BY <1>2, <2>1, <2>2, <2>3 DEF Background
<1>3. CASE SweepDone \/ UpdateGlobal \/ UNCHANGED vars
  BY <1>0, <1>3 DEF SweepDone, UpdateGlobal, vars, counterVars, sessionVars,
                    HolderMap, Holders, OverdueSet
<1> QED
  BY <1>1, <1>2, <1>3 DEF Next

\* Every behaviour of the gateway is a behaviour of SessionLease.
THEOREM GatewayImplementsLease == Spec => ImplementsLease
<1>1. Init => Lease!LeaseInit
  BY NoSessionIsNoSession DEF Init, CounterInit, Lease!LeaseInit, Holders
<1> QED
  BY <1>1, LeaseStep, IInvHolds, PTL DEF Spec, ImplementsLease, Lease!LeaseSpec

-----------------------------------------------------------------------------
(* No process is left behind *)

\* Who is inside a critical section of the sessions mutex holds it.
MutexOK ==
  /\ \A r \in Reqs : pc[r] \in {"createInc", "shutdown"} => mutex = r
  /\ \A s \in restarting : mutex = Updater /\ s \in live

\* NoStrayChild, with what keeps an abandoned id abandoned.
Forsaken(r, s) ==
  op[r] = "init" /\ pc[r] = "done" /\ entry[s] = "none" /\ \A q \in Reqs : q # r => sess[q] # s

ChildrenOwned ==
  /\ \A r \in Reqs : pc[r] = "insert" => op[r] = "init"
  /\ \A s \in Sessions :
       child[s] = "up" =>
         s \in live \/ \E r \in Reqs : sess[r] = s /\ (pc[r] = "insert" \/ Forsaken(r, s))

\* Who holds the sessions mutex is where it says: removing, creating or restarting.
LEMMA MutexStep == TypeOK /\ MutexOK /\ [Next]_vars => MutexOK'
<1> SUFFICES ASSUME TypeOK, MutexOK, [Next]_vars PROVE MutexOK'
  OBVIOUS
<1> USE HoldersDistinct DEF TypeOK, MutexOK, Goto
<1>1. ASSUME NEW r \in Reqs, Exchange(r) PROVE MutexOK'
  <2>1. CASE CreateInsert(r)
    BY <2>1 DEF CreateInsert
  <2>2. CASE CreateInc(r) \/ DeleteDone(r)
    BY <2>2 DEF CreateInc, DeleteDone
  <2>3. CASE DeleteRemove(r)
    BY <2>3 DEF DeleteRemove
  <2>4. CASE Disconnect(r)
    BY <2>4 DEF Disconnect
  <2>5. CASE \/ \E s \in Sessions : PostInitialize(r, s)
             \/ \E s \in Sessions, o \in {"post", "get", "delete"} : Lookup(r, s, o)
             \/ SessionInc(r) \/ AnswerPost(r) \/ OpenStream(r)
             \/ GuardDropped(r) \/ SessionDec(r) \/ CloseStream(r)
    BY <2>5 DEF PostInitialize, Lookup, SessionInc, AnswerPost, OpenStream,
                GuardDropped, SessionDec, CloseStream
  <2> QED
    BY <1>1, <2>1, <2>2, <2>3, <2>4, <2>5 DEF Exchange
<1>2. ASSUME NEW s \in Sessions, Background(s) PROVE MutexOK'
  BY <1>2 DEF Background, Timeout, Sweep, UpdateSession, RestartBegin, RestartDone,
              ChildExits, sessionVars
<1>3. CASE SweepDone \/ UpdateGlobal \/ UNCHANGED vars
  BY <1>3 DEF SweepDone, UpdateGlobal, vars, sessionVars
<1> QED
  BY <1>1, <1>2, <1>3 DEF Next

\* Every process stays owned by a session or by an exchange that creates one.
LEMMA OwnedStep == IInv /\ MutexOK /\ ChildrenOwned /\ [Next]_vars => ChildrenOwned'
<1> SUFFICES ASSUME IInv, MutexOK, ChildrenOwned, [Next]_vars PROVE ChildrenOwned'
  OBVIOUS
<1> USE DEF IInv, TypeOK, CounterTypeOK, ChildrenOwned, Forsaken, Goto
<1>s. \A r \in Reqs : pc[r] \in HasSession => sess[r] \in Sessions
  BY DEF SessionsKnown
<1>1. ASSUME NEW r \in Reqs, Exchange(r) PROVE ChildrenOwned'
  <2>1. ASSUME NEW s \in Sessions, PostInitialize(r, s) PROVE ChildrenOwned'
    BY <2>1 DEF PostInitialize, counterVars
  <2>2. ASSUME NEW s \in Sessions, NEW o \in {"post", "get", "delete"}, Lookup(r, s, o)
        PROVE ChildrenOwned'
    BY <2>2 DEF Lookup, counterVars
  <2>3. CASE CreateInsert(r)
    BY <1>s, <2>3 DEF CreateInsert, counterVars, HasSession
  <2>4. CASE CreateInc(r) \/ SessionInc(r)
    BY <1>s, <2>4 DEF CreateInc, SessionInc, Inc, HasSession
  <2>5. CASE SessionDec(r)
    <3>1. sess[r] \in Sessions /\ DecActive(sess[r])
      BY <1>s, <2>5, DecCounts DEF SessionDec, HasSession, Counted, Typed
    <3>2. \A s \in Sessions : entry[s] = "none" => entry'[s] = "none"
      BY <3>1 DEF DecActive
    <3> QED
      BY <2>5, <3>2 DEF SessionDec
  <2>6. CASE DeleteRemove(r) \/ DeleteDone(r)
    BY <1>s, <2>6 DEF DeleteRemove, DeleteDone, counterVars, HasSession, Counted
  <2>7. CASE Disconnect(r)
    BY <2>7 DEF Disconnect, counterVars, IdsFresh, Untouched, Counted
  <2>8. CASE AnswerPost(r) \/ OpenStream(r) \/ GuardDropped(r) \/ CloseStream(r)
    BY <2>8 DEF AnswerPost, OpenStream, GuardDropped, CloseStream, counterVars
  <2> QED
    BY <1>1, <2>1, <2>2, <2>3, <2>4, <2>5, <2>6, <2>7, <2>8 DEF Exchange
<1>2. ASSUME NEW s \in Sessions, Background(s) PROVE ChildrenOwned'
  <2>1. CASE Timeout(s)
    BY <2>1 DEF Timeout, TimerFires, sessionVars
  <2>2. CASE Sweep(s)
    BY <2>2 DEF Sweep
  <2>3. CASE RestartDone(s)
    BY <2>3 DEF RestartDone, counterVars, MutexOK
  <2>4. CASE UpdateSession(s) \/ RestartBegin(s) \/ ChildExits(s)
    BY <2>4 DEF UpdateSession, RestartBegin, ChildExits, counterVars
  <2> QED
    BY <1>2, <2>1, <2>2, <2>3, <2>4 DEF Background
<1>3. CASE SweepDone \/ UpdateGlobal \/ UNCHANGED vars
  BY <1>3 DEF SweepDone, UpdateGlobal, vars, counterVars, sessionVars
<1> QED
  BY <1>1, <1>2, <1>3 DEF Next

\* Every running process belongs to a session in the map, to an exchange about to insert
\* it, or to a client that went away before the insert: a restart never revives the
\* process of a removed session.
THEOREM NoProcessLeftBehind == Spec => []NoStrayChild
<1>1. Init => MutexOK /\ ChildrenOwned
  BY DEF Init, MutexOK, ChildrenOwned
<1>2. IInv /\ MutexOK /\ ChildrenOwned /\ [Next]_vars => MutexOK' /\ ChildrenOwned'
  BY MutexStep, OwnedStep DEF IInv
<1>3. ChildrenOwned => NoStrayChild
  BY DEF ChildrenOwned, Forsaken, NoStrayChild, Abandoned
<1> QED
  BY <1>1, <1>2, <1>3, IInvHolds, PTL DEF Spec
=============================================================================
