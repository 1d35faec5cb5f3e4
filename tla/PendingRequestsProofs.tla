------------------------ MODULE PendingRequestsProofs ------------------------
(***************************************************************************)
(* What one session's pending map promises for any number of calls and     *)
(* ids, any limit and any channel capacity.                                *)
(***************************************************************************)
EXTENDS PendingRequests, FiniteSetTheorems, TLAPS

(***************************************************************************)
(* An entry belongs to a call that still listens, and whose cleanup task   *)
(* sleeps unless the send failed.                                          *)
(***************************************************************************)
Owned(k, c) ==
  /\ key[c] = k
  /\ chan[c] = "open"
  /\ c \in cleaner \/ (pc[c] \in {"removing", "gone"} /\ result[c] = "sendFailed")

EntriesOwned == \A k \in Keys : pending[k] # NoCall => Owned(k, pending[k])

EntriesBounded == IsFiniteSet(Entries) /\ PendingBounded

(***************************************************************************)
(* An answer is in one place at most: not yet at the child, at the child,  *)
(* once in the channel, or delivered.                                      *)
(***************************************************************************)
Undelivered(a) == a \notin notified /\ \A c \in Calls : answer[c] # a

AnswersOnce ==
  /\ \A a \in Calls : pc[a] \in {NotStarted, "sending"} =>
       Undelivered(a) /\ a \notin atChild /\ \A i \in DOMAIN out : out[i] # a
  /\ \A a \in atChild : Undelivered(a) /\ \A i \in DOMAIN out : out[i] # a
  /\ \A i \in DOMAIN out :
       Undelivered(out[i]) /\ \A j \in DOMAIN out : i # j => out[i] # out[j]
  /\ AnswersNotShared

IInv == TypeOK /\ EntriesBounded /\ EntriesOwned /\ AnswersOnce

-----------------------------------------------------------------------------
(* The broadcast channel *)

\* Taking the oldest message shifts the others.
LEMMA Shifted ==
  ASSUME NEW S, NEW q \in Seq(S), q # <<>>
  PROVE  /\ Tail(q) \in Seq(S) /\ Len(Tail(q)) = Len(q) - 1
         /\ Head(q) \in S /\ Head(q) = q[1]
         /\ Len(q) \in Nat \ {0} /\ DOMAIN q = 1 .. Len(q)
         /\ DOMAIN Tail(q) = 1 .. Len(q) - 1
         /\ \A i \in DOMAIN Tail(q) : Tail(q)[i] = q[i + 1]
  OBVIOUS

\* Broadcasting a message keeps the messages that were there, except perhaps the oldest.
LEMMA Broadcasted ==
  ASSUME TypeOK, NEW c \in Calls, Broadcast(c)
  PROVE  /\ out' \in Seq(Calls) /\ Len(out') <= OutCap
         /\ \E d \in {0, 1} :
              \A i \in DOMAIN out' :
                \/ i = Len(out') /\ out'[i] = c
                \/ i # Len(out') /\ i + d \in DOMAIN out /\ out'[i] = out[i + d]
  <1>0. /\ out \in Seq(Calls) /\ Len(out) <= OutCap /\ OutCap \in Nat \ {0}
        /\ Len(out) \in Nat /\ DOMAIN out = 1 .. Len(out)
    BY BoundsPositive DEF TypeOK
  <1>1. CASE Len(out) = OutCap
    <2>1. out # <<>>
      BY <1>0, <1>1
    <2>2. out' = Append(Tail(out), c)
      BY <1>1 DEF Broadcast
    <2>3. /\ Tail(out) \in Seq(Calls) /\ Len(Tail(out)) = Len(out) - 1
          /\ \A i \in 1 .. Len(out) - 1 : Tail(out)[i] = out[i + 1]
      BY <1>0, <2>1, Shifted
    <2>4. /\ out' \in Seq(Calls) /\ Len(out') = Len(out) /\ DOMAIN out' = 1 .. Len(out)
          /\ out'[Len(out)] = c
          /\ \A i \in 1 .. Len(out) - 1 : out'[i] = out[i + 1]
      BY <1>0, <2>1, <2>2, <2>3
    <2>5. \A i \in DOMAIN out' :
            \/ i = Len(out') /\ out'[i] = c
            \/ i # Len(out') /\ i + 1 \in DOMAIN out /\ out'[i] = out[i + 1]
      BY <1>0, <2>4
    <2> QED
      BY <1>0, <2>4, <2>5
  <1>2. CASE Len(out) # OutCap
    <2>1. out' = Append(out, c)
      BY <1>2 DEF Broadcast
    <2>2. /\ out' \in Seq(Calls) /\ Len(out') = Len(out) + 1
          /\ DOMAIN out' = 1 .. Len(out) + 1
          /\ out'[Len(out) + 1] = c
          /\ \A i \in 1 .. Len(out) : out'[i] = out[i]
      BY <1>0, <2>1
    <2>3. \A i \in DOMAIN out' :
            \/ i = Len(out') /\ out'[i] = c
            \/ i # Len(out') /\ i + 0 \in DOMAIN out /\ out'[i] = out[i + 0]
      BY <1>0, <2>2
    <2>4. Len(out') <= OutCap
      <3>1. \A m, n \in Nat : m <= n /\ m # n => m + 1 <= n
        OBVIOUS
      <3>2. Len(out) + 1 <= OutCap
        BY <1>0, <1>2, <3>1
      <3> QED
        BY <2>2, <3>2
    <2>5. \E d \in {0, 1} :
            \A i \in DOMAIN out' :
              \/ i = Len(out') /\ out'[i] = c
              \/ i # Len(out') /\ i + d \in DOMAIN out /\ out'[i] = out[i + d]
      BY <2>3
    <2> QED
      BY <2>2, <2>4, <2>5
  <1> QED
    BY <1>1, <1>2

-----------------------------------------------------------------------------
(* Types *)

\* Removing an entry keeps the types.
LEMMA RemoveTyped ==
  ASSUME TypeOK, NEW k \in Keys, Remove(k)
  PROVE  /\ pending' \in [Keys -> Calls \cup {NoCall}]
         /\ chan' \in [Calls -> {"none", "open", "answered", "closed"}]
         /\ answer' \in [Calls -> Calls \cup {NoCall}]
  BY DEF TypeOK, Remove

\* Every step keeps the types.
LEMMA TypedStep ==
  ASSUME TypeOK, [Next]_vars
  PROVE  TypeOK'
  <1> USE DEF TypeOK, Results, Ended, NotStarted
  <1>1. ASSUME NEW c \in Calls,
               \/ Send(c) \/ SendFails(c) \/ Answered(c) \/ Cancelled(c) \/ TimesOut(c)
        PROVE  TypeOK'
    BY <1>1 DEF Send, SendFails, Answered, Cancelled, TimesOut, Goto, mapVars, childVars
  <1>2. ASSUME NEW c \in Calls, Register(c) PROVE TypeOK'
    <2>1. ASSUME NEW why \in Results, Refuse(c, why), UNCHANGED <<childVars, notified>>
          PROVE  TypeOK'
      BY <2>1 DEF Refuse, Goto, mapVars, childVars
    <2>2. CASE /\ pending' = [pending EXCEPT ![key[c]] = c]
               /\ chan' = [chan EXCEPT ![c] = "open"]
               /\ cleaner' = cleaner \cup {c}
               /\ Goto(c, "sending")
               /\ UNCHANGED <<answer, kind, key, result>>
               /\ UNCHANGED <<childVars, notified>>
      BY <2>2 DEF Goto, childVars
    <2> QED
      BY <1>2, <2>1, <2>2 DEF Register
  <1>3. ASSUME NEW c \in Calls, EndRemoving(c) PROVE TypeOK'
    BY <1>3, RemoveTyped DEF EndRemoving, Goto, childVars
  <1>4. ASSUME NEW c \in Calls, Disconnect(c) PROVE TypeOK'
    BY <1>4 DEF Disconnect, Goto, mapVars
  <1>5. ASSUME NEW c \in Calls, CleanupFires(c) PROVE TypeOK'
    BY <1>5, RemoveTyped DEF CleanupFires, childVars
  <1>6. ASSUME NEW c \in Calls, ChildAnswers(c) PROVE TypeOK'
    BY <1>6, Broadcasted DEF ChildAnswers, mapVars, callVars
  <1>7. CASE Route
    <2>1. /\ Tail(out) \in Seq(Calls) /\ Len(Tail(out)) <= OutCap /\ Head(out) \in Calls
      BY <1>7, Shifted, BoundsPositive DEF Route
    <2> QED
      BY <1>7, <2>1 DEF Route, callVars, mapVars
  <1>8. CASE ChildExits \/ Restart
    BY <1>8 DEF ChildExits, Restart, mapVars, callVars
  <1>9. CASE UNCHANGED vars
    BY <1>9 DEF vars, mapVars, callVars, childVars
  <1> QED
    BY <1>1, <1>2, <1>3, <1>4, <1>5, <1>6, <1>7, <1>8, <1>9 DEF Next

-----------------------------------------------------------------------------
(* The limit *)

\* A map with no entry that was not there before is as small as before.
LEMMA FewerEntries ==
  ASSUME EntriesBounded, Entries' \subseteq Entries, MaxPending \in Nat
  PROVE  EntriesBounded'
  <1>1. /\ IsFiniteSet(Entries') /\ Cardinality(Entries') <= Cardinality(Entries)
        /\ Cardinality(Entries) \in Nat /\ Cardinality(Entries') \in Nat
    BY FS_Subset, FS_CardinalityType DEF EntriesBounded
  <1> QED
    BY <1>1 DEF EntriesBounded, PendingBounded

\* Only Register adds an entry, below the limit.
LEMMA BoundedStep ==
  ASSUME TypeOK, EntriesBounded, [Next]_vars
  PROVE  EntriesBounded'
  <1>0. MaxPending \in Nat
    BY BoundsPositive
  <1>1. ASSUME NEW c \in Calls, Register(c) PROVE EntriesBounded'
    <2>0. key[c] \in Keys
      BY DEF TypeOK
    <2>1. CASE UNCHANGED pending
      <3>1. Entries' = Entries
        BY <2>1 DEF Entries
      <3> QED
        BY <1>0, <3>1, FewerEntries
    <2>2. CASE /\ pending[key[c]] = NoCall
               /\ Cardinality(Entries) < MaxPending
               /\ pending' = [pending EXCEPT ![key[c]] = c]
      <3>1. Entries' = Entries \cup {key[c]} /\ key[c] \notin Entries
        BY <2>0, <2>2, NoCallIsNoCall DEF Entries, TypeOK
      <3>2. IsFiniteSet(Entries') /\ Cardinality(Entries') = Cardinality(Entries) + 1
        BY <3>1, FS_AddElement DEF EntriesBounded
      <3>3. Cardinality(Entries) \in Nat
        BY FS_CardinalityType DEF EntriesBounded
      <3> QED
        BY <1>0, <2>2, <3>2, <3>3 DEF EntriesBounded, PendingBounded
    <2> QED
      BY <1>1, <2>1, <2>2 DEF Register, Refuse, mapVars
  <1>2. ASSUME NEW k \in Keys, Remove(k) PROVE Entries' \subseteq Entries
    BY <1>2 DEF Remove, Entries, TypeOK
  <1>3. ASSUME NEW c \in Calls, EndRemoving(c) \/ CleanupFires(c) PROVE EntriesBounded'
    <2>1. key[c] \in Keys /\ Remove(key[c])
      BY <1>3 DEF TypeOK, EndRemoving, CleanupFires
    <2> QED
      BY <1>0, <1>2, <2>1, FewerEntries
  <1>4. CASE Route
    <2>1. Entries' \subseteq Entries
      BY <1>4 DEF Route, mapVars, Entries, TypeOK
    <2> QED
      BY <1>0, <2>1, FewerEntries
  <1>5. CASE UNCHANGED pending
    <2>1. Entries' = Entries
      BY <1>5 DEF Entries
    <2> QED
      BY <1>0, <2>1, FewerEntries
  <1> QED
    BY <1>1, <1>3, <1>4, <1>5
    DEF Next, Send, SendFails, Answered, Cancelled, TimesOut, Disconnect, ChildAnswers,
        ChildExits, Restart, vars, mapVars

-----------------------------------------------------------------------------
(* Entries and their removers *)

\* Removing one call's id leaves the entries of the others owned.
LEMMA RemoveOwned ==
  ASSUME TypeOK, EntriesOwned, NEW c \in Calls, Remove(key[c]),
         cleaner' = cleaner \ {c}, UNCHANGED <<key, result>>,
         \A d \in Calls \ {c} : pc'[d] = pc[d]
  PROVE  EntriesOwned'
  <1> SUFFICES ASSUME NEW k \in Keys, pending'[k] # NoCall PROVE Owned(k, pending[k])' /\ pending'[k] = pending[k]
    BY DEF EntriesOwned, Owned
  <1>1. k # key[c] /\ pending'[k] = pending[k] /\ pending[k] \in Calls
    BY DEF Remove, TypeOK
  <1>2. Owned(k, pending[k]) /\ key[pending[k]] = k
    BY <1>1 DEF EntriesOwned, Owned
  <1>3. pending[k] # c
    BY <1>1, <1>2
  <1>4. pending[key[c]] # pending[k]
    BY <1>1, <1>2 DEF EntriesOwned, Owned, TypeOK
  <1>5. chan'[pending[k]] = chan[pending[k]]
    BY <1>1, <1>4 DEF Remove, TypeOK
  <1> QED
    BY <1>1, <1>2, <1>3, <1>5 DEF Owned

\* Every entry stays owned, however calls end and whichever call's cleanup removes it.
LEMMA OwnedStep ==
  ASSUME TypeOK, EntriesOwned, [Next]_vars
  PROVE  EntriesOwned'
  <1> USE DEF TypeOK
  <1>1. ASSUME NEW c \in Calls, Register(c) PROVE EntriesOwned'
    <2>1. ASSUME NEW why \in Results, Refuse(c, why) PROVE EntriesOwned'
      BY <1>1, <2>1 DEF Register, Refuse, Goto, mapVars, EntriesOwned, Owned, NotStarted
    <2>2. CASE /\ pending[key[c]] = NoCall
               /\ pending' = [pending EXCEPT ![key[c]] = c]
               /\ chan' = [chan EXCEPT ![c] = "open"]
               /\ cleaner' = cleaner \cup {c}
               /\ Goto(c, "sending")
               /\ UNCHANGED <<answer, kind, key, result>>
      <3>1. ASSUME NEW k \in Keys, pending'[k] # NoCall
            PROVE  \E d \in Calls : pending'[k] = d /\ Owned(k, d)'
        <4>1. CASE k = key[c]
          BY <2>2, <4>1 DEF Owned
        <4>2. CASE k # key[c]
          <5>1. PICK d \in Calls : pending[k] = d /\ pending'[k] = d
            BY <2>2, <3>1, <4>2
          <5>2. Owned(k, d) /\ d # c
            BY <3>1, <4>2, <5>1 DEF EntriesOwned, Owned
          <5>3. Owned(k, d)'
            BY <2>2, <5>2 DEF Owned, Goto
          <5> QED
            BY <5>1, <5>3
        <4> QED
          BY <4>1, <4>2
      <3> QED
        BY <3>1 DEF EntriesOwned, Owned
    <2> QED
      BY <1>1, <2>1, <2>2 DEF Register, Results
  <1>2. ASSUME NEW c \in Calls, Send(c) \/ Cancelled(c) \/ TimesOut(c) PROVE EntriesOwned'
    BY <1>2 DEF Send, Cancelled, TimesOut, Goto, mapVars, EntriesOwned, Owned
  <1>3. ASSUME NEW c \in Calls, SendFails(c) PROVE EntriesOwned'
    BY <1>3 DEF SendFails, Goto, mapVars, EntriesOwned, Owned
  <1>4. ASSUME NEW c \in Calls, Answered(c) PROVE EntriesOwned'
    BY <1>4 DEF Answered, Goto, mapVars, EntriesOwned, Owned
  <1>5. ASSUME NEW c \in Calls, EndRemoving(c) PROVE EntriesOwned'
    BY <1>5, RemoveOwned DEF EndRemoving, Goto
  <1>6. ASSUME NEW c \in Calls, CleanupFires(c) PROVE EntriesOwned'
    BY <1>6, RemoveOwned DEF CleanupFires
  <1>7. ASSUME NEW c \in Calls, Disconnect(c) PROVE EntriesOwned'
    BY <1>7 DEF Disconnect, Goto, mapVars, EntriesOwned, Owned
  <1>8. CASE Route
    <2> DEFINE a == Head(out)
               c == pending[key[a]]
    <2>0. a \in Calls
      BY <1>8, Shifted DEF Route
    <2>1. CASE kind[a] = "str" /\ c # NoCall
      <3>1. /\ pending' = [pending EXCEPT ![key[a]] = NoCall]
            /\ chan' = [chan EXCEPT ![c] = "answered"]
            /\ UNCHANGED callVars
        BY <1>8, <2>1 DEF Route
      <3>2. key[a] \in Keys /\ c \in Calls /\ key[c] = key[a]
        BY <2>0, <2>1 DEF EntriesOwned, Owned
      <3> HIDE DEF c
      <3> QED
        BY <3>1, <3>2 DEF EntriesOwned, Owned, callVars
    <2>2. CASE ~(kind[a] = "str" /\ c # NoCall)
      BY <1>8, <2>2 DEF Route, mapVars, callVars, EntriesOwned, Owned
    <2> QED
      BY <2>1, <2>2
  <1>9. CASE UNCHANGED <<mapVars, callVars>>
    BY <1>9 DEF mapVars, callVars, EntriesOwned, Owned
  <1> QED
    BY <1>1, <1>2, <1>3, <1>4, <1>5, <1>6, <1>7, <1>8, <1>9
    DEF Next, ChildAnswers, ChildExits, Restart, vars

-----------------------------------------------------------------------------
(* Answers *)

\* An answer moves from the child into the channel, from there to one receiver.
LEMMA OnceStep ==
  ASSUME TypeOK, AnswersOnce, [Next]_vars
  PROVE  AnswersOnce'
  <1> USE DEF TypeOK, NotStarted
  <1>1. ASSUME NEW c \in Calls, Send(c) PROVE AnswersOnce'
    BY <1>1 DEF Send, Goto, mapVars, AnswersOnce, Undelivered, AnswersNotShared
  <1>2. ASSUME NEW c \in Calls,
               \/ Register(c) \/ SendFails(c) \/ Answered(c) \/ Cancelled(c) \/ TimesOut(c)
               \/ EndRemoving(c) \/ Disconnect(c) \/ CleanupFires(c)
        PROVE  AnswersOnce'
    <2>1. UNCHANGED <<answer, out, atChild, notified>>
      BY <1>2 DEF Register, Refuse, SendFails, Answered, Cancelled, TimesOut, EndRemoving,
         Disconnect, CleanupFires, Remove, mapVars, childVars
    <2>2. \A a \in Calls : pc'[a] \in {NotStarted, "sending"} => pc[a] \in {NotStarted, "sending"}
      BY <1>2 DEF Register, Refuse, SendFails, Answered, Cancelled, TimesOut, EndRemoving,
         Disconnect, CleanupFires, Goto
    <2> QED
      BY <2>1, <2>2 DEF AnswersOnce, Undelivered, AnswersNotShared
  <1>3. ASSUME NEW c \in Calls, ChildAnswers(c) PROVE AnswersOnce'
    <2>1. /\ c \in atChild /\ atChild' = atChild \ {c} /\ Broadcast(c)
          /\ UNCHANGED <<answer, pc, notified>>
      BY <1>3 DEF ChildAnswers, mapVars, callVars
    <2>2. PICK d \in {0, 1} :
            \A i \in DOMAIN out' :
              \/ i = Len(out') /\ out'[i] = c
              \/ i # Len(out') /\ i + d \in DOMAIN out /\ out'[i] = out[i + d]
      BY <2>1, Broadcasted
    <2>3. out' \in Seq(Calls) /\ DOMAIN out' = 1 .. Len(out') /\ Len(out') \in Nat
      BY <2>1, Broadcasted
    <2>4. \A i \in DOMAIN out : out[i] # c
      BY <2>1 DEF AnswersOnce
    <2>5. \A i, j \in DOMAIN out' : i # j => out'[i] # out'[j]
      BY <2>2, <2>3, <2>4 DEF AnswersOnce
    <2>6. \A i \in DOMAIN out' : out'[i] = c \/ \E j \in DOMAIN out : out'[i] = out[j]
      BY <2>2
    <2> QED
      BY <2>1, <2>5, <2>6 DEF AnswersOnce, Undelivered, AnswersNotShared
  <1>4. CASE Route
    <2> DEFINE a == Head(out)
               c == pending[key[a]]
    <2>1. /\ a \in Calls /\ a = out[1] /\ 1 \in DOMAIN out /\ out' = Tail(out)
          /\ \A i \in DOMAIN out' : i + 1 \in DOMAIN out /\ out'[i] = out[i + 1] /\ i + 1 # 1
          /\ \A i, j \in DOMAIN out' : i # j => i + 1 # j + 1
      BY <1>4, Shifted DEF Route
    <2>2. UNCHANGED <<pc, atChild>>
      BY <1>4 DEF Route, callVars
    <2>3. /\ Undelivered(a)
          /\ \A i \in DOMAIN out' : out'[i] # a
          /\ \A b \in atChild : b # a
          /\ pc[a] \notin {NotStarted, "sending"}
      BY <2>1 DEF AnswersOnce
    <2>4. \A i, j \in DOMAIN out' : i # j => out'[i] # out'[j]
      BY <2>1 DEF AnswersOnce
    <2>5. \A b \in Calls : b # a /\ Undelivered(b) => Undelivered(b)'
      BY <1>4, <2>1 DEF Route, Undelivered, mapVars
    <2>6. AnswersNotShared'
      <3>1. CASE kind[a] = "str" /\ c # NoCall
        <4>1. c \in Calls /\ answer' = [answer EXCEPT ![c] = a] /\ UNCHANGED notified
          BY <1>4, <2>1, <3>1 DEF Route
        <4> HIDE DEF a, c
        <4> QED
          BY <2>1, <2>3, <4>1 DEF AnswersOnce, AnswersNotShared, Undelivered
      <3>2. CASE ~(kind[a] = "str" /\ c # NoCall)
        <4>1. notified' = notified \cup {a} /\ UNCHANGED answer
          BY <1>4, <3>2 DEF Route, mapVars
        <4> HIDE DEF a, c
        <4> QED
          BY <2>1, <2>3, <4>1 DEF AnswersOnce, AnswersNotShared, Undelivered
      <3> QED
        BY <3>1, <3>2
    <2>7. \A i \in DOMAIN out' : out'[i] \in Calls /\ Undelivered(out'[i])
      BY <2>1 DEF AnswersOnce
    <2>8. \A b \in Calls : (\E i \in DOMAIN out' : out'[i] = b) => Undelivered(b)'
      BY <2>3, <2>5, <2>7
    <2>9. \A b \in Calls : b \in atChild \/ pc[b] \in {NotStarted, "sending"} =>
            Undelivered(b)' /\ \A i \in DOMAIN out' : out'[i] # b
      BY <2>1, <2>3, <2>5 DEF AnswersOnce
    <2> HIDE DEF a, c
    <2> QED
      BY <2>2, <2>3, <2>4, <2>6, <2>7, <2>8, <2>9 DEF AnswersOnce, Undelivered
  <1>5. CASE ChildExits \/ Restart
    BY <1>5 DEF ChildExits, Restart, mapVars, callVars, AnswersOnce, Undelivered,
       AnswersNotShared
  <1>6. CASE UNCHANGED vars
    BY <1>6 DEF vars, mapVars, callVars, childVars, AnswersOnce, Undelivered,
       AnswersNotShared
  <1> QED
    BY <1>1, <1>2, <1>3, <1>4, <1>5, <1>6 DEF Next

-----------------------------------------------------------------------------
\* IInv holds in every behaviour.
LEMMA IInvHolds == Spec => []IInv
  <1>1. Init => IInv
    <2> SUFFICES ASSUME Init PROVE IInv
      OBVIOUS
    <2>1. TypeOK
      <3>1. out \in Seq(Calls) /\ Len(out) <= OutCap
        BY BoundsPositive DEF Init
      <3>2. kind \in [Calls -> {"str", "num"}]
        BY KindsKnown DEF Init
      <3> QED
        BY <3>1, <3>2 DEF Init, TypeOK, NotStarted, Results
    <2>2. EntriesBounded
      <3>1. Entries = {}
        BY DEF Init, Entries
      <3> QED
        BY <3>1, FS_EmptySet, BoundsPositive DEF EntriesBounded, PendingBounded
    <2>3. EntriesOwned
      BY DEF Init, EntriesOwned
    <2>4. AnswersOnce
      BY NoCallIsNoCall DEF Init, AnswersOnce, Undelivered, AnswersNotShared
    <2> QED
      BY <2>1, <2>2, <2>3, <2>4 DEF IInv
  <1>2. IInv /\ [Next]_vars => IInv'
    BY TypedStep, BoundedStep, OwnedStep, OnceStep DEF IInv
  <1> QED
    BY <1>1, <1>2, PTL DEF Spec

\* Every variable keeps its type; the channel never exceeds its capacity.
THEOREM TypeCorrect == Spec => []TypeOK
  <1>1. IInv => TypeOK
    BY DEF IInv
  <1> QED
    BY <1>1, IInvHolds, PTL

\* A session never has more calls in flight than its limit.
THEOREM LimitKept == Spec => []PendingBounded
  <1>1. IInv => PendingBounded
    BY DEF IInv, EntriesBounded
  <1> QED
    BY <1>1, IInvHolds, PTL

\* No entry is left that nobody will remove, but for a failed send whose client left.
THEOREM EntriesAreRemoved == Spec => []EntryHasRemover
  <1>1. IInv => EntryHasRemover
    BY DEF IInv, EntriesOwned, Owned, EntryHasRemover, Stuck
  <1> QED
    BY <1>1, IInvHolds, PTL

\* No answer resolves two calls, nor a call and an event stream.
THEOREM AnswersGoToOne == Spec => []AnswersNotShared
  <1>1. IInv => AnswersNotShared
    BY DEF IInv, AnswersOnce
  <1> QED
    BY <1>1, IInvHolds, PTL
=============================================================================
