------------------------- MODULE StdioBridgeProofs --------------------------
(***************************************************************************)
(* What StdioBridge promises for any number of requests, session ids,      *)
(* retries and updates, and any threshold of the breaker.                  *)
(***************************************************************************)
EXTENDS StdioBridge, TLAPS

(***************************************************************************)
(* The breaker: as long as it is closed its count is the streak; it opens  *)
(* with the streak at the threshold, and no attempt begins until it is     *)
(* closed again.                                                           *)
(***************************************************************************)
BreakerState ==
  Threshold # 0 =>
    /\ open = "no" => streak = failures /\ failures < Threshold
    /\ open = "hot" => streak = Threshold /\ phase # "flight"
    /\ open = "cooled" => streak = 0 /\ phase # "flight"

(***************************************************************************)
(* How often the current request was posted follows from where the loop    *)
(* and its retries are.                                                    *)
(***************************************************************************)
Posted ==
  CASE phase = "idle" -> 0
    [] phase = "waiting" -> attempt
    [] OTHER -> attempt + 1

PostState ==
  /\ phase # "idle" => pc \in Operations
  /\ phase = "sleeping" => attempt < MaxRetries
  /\ pc \in {"endpoint", "autoInit", "autoNote"} => posts[current] = 0
  /\ pc = "request" => posts[current] = Posted
  /\ pc # "read" => method[current] # "none"
  /\ \A r \in Requests : method[r] = "none" => posts[r] = 0

\* What the loop has learnt of the server when it gets to a step of the handshake.
HandshakeState ==
  /\ notified => welcomed
  /\ Noting => welcomed
  /\ pc = "request" /\ method[current] = "call" => welcomed

\* The id of the POST in flight is the bridge's, and that is the one id seen.
SessionState ==
  /\ heads = IF session = NoSession THEN {} ELSE {session}
  /\ phase = "flight" => sent = session

HeaderState ==
  /\ applied <= store
  /\ pc # "read" => needed <= store
  /\ pc \in Operations => needed <= headers

IInv ==
  /\ TypeOK
  /\ BreakerState
  /\ PostState
  /\ HandshakeState
  /\ HandshakeFirst
  /\ OneResponse
  /\ SessionState
  /\ FirstSessionKept
  /\ HeaderState

-----------------------------------------------------------------------------
(* What each kind of step does *)

\* The steps of the retry loop, whoever takes them.
RetryStep ==
  \/ Start \/ Attempt \/ Cool \/ Succeed \/ FailAndRetry \/ FailForGood \/ WakeUp
  \/ UNCHANGED retryVars

LEMMA NextRetries ==
  ASSUME [Next]_vars
  PROVE  RetryStep
  BY DEF Next, Loop, vars, RetryStep, Read, EndpointFound, EndpointTimesOut, Call, Post, Pass,
         Result, ErrorAnswer, Failure, StreamOpens, EndpointEvent, StreamEnds, Update,
         UpdateAnswered

\* The retry loop keeps to its types and, by the count of its breaker, to the threshold.
LEMMA RetryKeepsBreaker ==
  ASSUME RetryTypeOK, BreakerState, RetryStep
  PROVE  BreakerState'
<1> USE ThresholdTyped DEF RetryTypeOK, BreakerState
<1>1. CASE Start
  BY <1>1 DEF Start
<1>2. CASE Attempt
  BY <1>2 DEF Attempt
<1>3. CASE Cool
  BY <1>3 DEF Cool
<1>4. CASE Succeed
  BY <1>4 DEF Succeed
<1>5. CASE FailAndRetry
  BY <1>5 DEF FailAndRetry, RecordFailure, Reached, Increment
<1>6. CASE FailForGood
  BY <1>6 DEF FailForGood, RecordFailure, Reached, Increment
<1>7. CASE WakeUp
  BY <1>7 DEF WakeUp
<1>8. CASE UNCHANGED retryVars
  BY <1>8 DEF retryVars
<1> QED
  BY <1>1, <1>2, <1>3, <1>4, <1>5, <1>6, <1>7, <1>8 DEF RetryStep

LEMMA RetryKeepsTypes ==
  ASSUME RetryTypeOK, RetryStep, phase = "sleeping" => attempt < MaxRetries
  PROVE  RetryTypeOK'
<1> USE RetryPolicyTyped, ThresholdTyped DEF RetryTypeOK
<1>1. CASE Start \/ Attempt \/ Cool \/ Succeed \/ WakeUp
  BY <1>1 DEF Start, Attempt, Cool, Succeed, WakeUp
<1>2. CASE FailAndRetry \/ FailForGood
  BY <1>2 DEF FailAndRetry, FailForGood, RecordFailure, Reached, Increment
<1>3. CASE UNCHANGED retryVars
  BY <1>3 DEF retryVars
<1> QED
  BY <1>1, <1>2, <1>3 DEF RetryStep

\* Where the loop can be after an operation, by how the operation ended.
LEMMA AfterCases ==
  ASSUME TypeOK, NEW ok \in BOOLEAN, After(ok)
  PROVE  /\ UNCHANGED <<kind, current, method, headers, needed>>
         /\ pc \in Operations
         /\ current \in Requests
         /\ \/ pc' = "autoNote" /\ pc = "autoInit" /\ ok /\ UNCHANGED <<initialized, answers>>
            \/ pc' = "request" /\ pc = "autoNote" /\ initialized' = ok /\ UNCHANGED answers
            \/ /\ pc' = "ownNote" /\ pc = "request" /\ method[current] = "initialize" /\ ok
               /\ UNCHANGED <<initialized, answers>>
            \/ /\ pc' = "read" /\ Respond
               /\ initialized' = initialized \/ (pc = "ownNote" /\ initialized' = ok)
  BY DEF TypeOK, Operations, After, AfterInit, AfterAutoNote, AfterRequest, AfterOwnNote

-----------------------------------------------------------------------------
(* Types, and how often a request is posted *)

LEMMA TypesAndPosts ==
  ASSUME TypeOK, PostState, [Next]_vars
  PROVE  TypeOK' /\ PostState'
<1> USE NullsDistinct, RetryPolicyTyped, MaxUpdatesTyped
<1>1. RetryTypeOK'
  BY NextRetries, RetryKeepsTypes DEF TypeOK, PostState
<1>2. ASSUME NEW r \in Requests, NEW m \in {"initialize", "call"}, Read(r, m)
      PROVE  TypeOK' /\ PostState'
  BY <1>1, <1>2 DEF Read, Begin, TypeOK, PostState, Posted, Operations, retryVars, postVars,
                    streamVars, updateVars, RetryTypeOK
<1>3. CASE EndpointFound
  BY <1>1, <1>3 DEF EndpointFound, Begin, TypeOK, PostState, Posted, Operations, retryVars,
                    postVars, streamVars, updateVars, RetryTypeOK
<1>4. CASE EndpointTimesOut
  BY <1>1, <1>4 DEF EndpointTimesOut, Respond, TypeOK, PostState, Posted, Operations, retryVars,
                    postVars, streamVars, updateVars, RetryTypeOK
<1>5. CASE Call
  BY <1>1, <1>5 DEF Call, Start, TypeOK, PostState, Posted, Operations, loopVars, postVars,
                    streamVars, updateVars, RetryTypeOK
<1>6. CASE Post
  <2>1. posts' \in [Requests -> 0 .. MaxRetries + 1]
    BY <1>6 DEF Post, Attempt, TypeOK, PostState, Posted, RetryTypeOK
  <2>2. TypeOK'
    BY <1>1, <1>6, <2>1 DEF Post, Attempt, TypeOK, loopVars, streamVars, updateVars
  <2>3. PostState'
    BY <1>6 DEF Post, Attempt, TypeOK, PostState, Posted, Operations, loopVars, RetryTypeOK
  <2> QED
    BY <2>2, <2>3
<1>7. CASE Pass
  BY <1>1, <1>7 DEF Pass, WakeUp, Cool, TypeOK, PostState, Posted, Operations, loopVars,
                    postVars, streamVars, updateVars, RetryTypeOK
<1>8. ASSUME NEW ok \in BOOLEAN, After(ok), phase = "flight", phase' = "idle",
             {welcomed', notified'} \subseteq BOOLEAN, UNCHANGED <<posts, sent, streamVars, updateVars>>,
             session' \in Sessions \cup {NoSession}, heads' \subseteq Sessions
      PROVE  TypeOK' /\ PostState'
  <2>1. TypeOK'
    BY <1>1, <1>8, AfterCases DEF TypeOK, Respond, Operations, streamVars, updateVars
  <2>2. PostState'
    BY <1>8, AfterCases DEF TypeOK, PostState, Posted, Operations
  <2> QED
    BY <2>1, <2>2
<1>9. ASSUME NEW usable, HeadArrives(usable)
      PROVE  session' \in Sessions \cup {NoSession} /\ heads' \subseteq Sessions
  BY <1>9 DEF HeadArrives, Issue, TypeOK
<1>10. CASE Result
  <2>1. {welcomed', notified'} \subseteq BOOLEAN
    BY <1>10, Zenon DEF Result, TypeOK
  <2> QED
    BY <1>8, <1>9, <1>10, <2>1 DEF Result, Succeed
<1>11. CASE ErrorAnswer
  BY <1>8, <1>9, <1>11 DEF ErrorAnswer, Succeed, TypeOK
<1>12. CASE Failure
  <2>1. CASE FailForGood /\ After(FALSE)
    BY <1>8, <1>9, <1>12, <2>1 DEF Failure, FailForGood, TypeOK
  <2>2. CASE FailAndRetry /\ UNCHANGED loopVars
    BY <1>1, <1>9, <1>12, <2>2 DEF Failure, FailAndRetry, RetriesLeft, TypeOK, PostState, Posted,
                                   Operations, loopVars, streamVars, updateVars, RetryTypeOK
  <2> QED
    BY <1>12, <2>1, <2>2 DEF Failure
<1>13. CASE StreamOpens \/ EndpointEvent \/ StreamEnds
  BY <1>1, <1>13 DEF StreamOpens, EndpointEvent, StreamEnds, TypeOK, PostState, Posted,
                     Operations, retryVars, loopVars, postVars, updateVars
<1>14. CASE Update \/ UpdateAnswered
  BY <1>1, <1>14 DEF Update, UpdateAnswered, TypeOK, PostState, Posted, Operations, retryVars,
                     loopVars, postVars, streamVars
<1>15. CASE UNCHANGED vars
  BY <1>1, <1>15 DEF vars, TypeOK, PostState, Posted, Operations, retryVars, loopVars, postVars,
                     streamVars, updateVars
<1> QED
  BY <1>2, <1>3, <1>4, <1>5, <1>6, <1>7, <1>10, <1>11, <1>12, <1>13, <1>14, <1>15
  DEF Next, Loop

-----------------------------------------------------------------------------
(* The handshake *)

\* What the end of an operation means for the handshake.
LEMMA AfterKeepsHandshake ==
  ASSUME TypeOK, PostState, HandshakeState, HandshakeFirst, NEW ok \in BOOLEAN, After(ok),
         UNCHANGED posts,
         welcomed' = (welcomed \/ (ok /\ Initializing)),
         notified' = (notified \/ (ok /\ Noting /\ welcomed))
  PROVE  HandshakeState' /\ HandshakeFirst'
<1>1. welcomed => welcomed'
  OBVIOUS
<1>2. HandshakeState'
  BY <1>1, AfterCases DEF TypeOK, HandshakeState, Noting, Initializing
<1>3. \A r \in Requests : (method[r] = "call" /\ posts[r] > 0 => welcomed)'
  BY <1>1, AfterCases DEF HandshakeFirst
<1>4. initialized' => notified'
  BY AfterCases DEF HandshakeFirst, HandshakeState, Noting
<1> QED
  BY <1>2, <1>3, <1>4 DEF HandshakeFirst

LEMMA HandshakeStep ==
  ASSUME TypeOK, PostState, HandshakeState, HandshakeFirst, [Next]_vars
  PROVE  HandshakeState' /\ HandshakeFirst'
<1>1. ASSUME NEW r \in Requests, NEW m \in {"initialize", "call"}, Read(r, m)
      PROVE  HandshakeState' /\ HandshakeFirst'
  BY <1>1 DEF Read, Begin, TypeOK, PostState, HandshakeState, HandshakeFirst, Noting, postVars
<1>2. CASE EndpointFound
  BY <1>2 DEF EndpointFound, Begin, TypeOK, HandshakeState, HandshakeFirst, Noting, postVars
<1>3. CASE EndpointTimesOut
  BY <1>3 DEF EndpointTimesOut, TypeOK, HandshakeState, HandshakeFirst, Noting, postVars
<1>4. CASE Call \/ Pass
  BY <1>4 DEF Call, Pass, HandshakeState, HandshakeFirst, Noting, loopVars, postVars
<1>5. CASE Post
  BY <1>5 DEF Post, TypeOK, HandshakeState, HandshakeFirst, Noting, loopVars
<1>6. CASE Result
  BY <1>6, AfterKeepsHandshake DEF Result
<1>7. CASE ErrorAnswer
  BY <1>7, AfterKeepsHandshake DEF ErrorAnswer, TypeOK
<1>8. CASE Failure
  <2>1. CASE FailForGood /\ After(FALSE)
    BY <1>8, <2>1, AfterKeepsHandshake DEF Failure, TypeOK
  <2>2. CASE UNCHANGED loopVars
    BY <1>8, <2>2 DEF Failure, HandshakeState, HandshakeFirst, Noting, loopVars
  <2> QED
    BY <1>8, <2>1, <2>2 DEF Failure
<1>9. CASE \/ StreamOpens \/ EndpointEvent \/ StreamEnds \/ Update \/ UpdateAnswered
           \/ UNCHANGED vars
  BY <1>9 DEF StreamOpens, EndpointEvent, StreamEnds, Update, UpdateAnswered, vars,
              HandshakeState, HandshakeFirst, Noting, loopVars, postVars
<1> QED
  BY <1>1, <1>2, <1>3, <1>4, <1>5, <1>6, <1>7, <1>8, <1>9 DEF Next, Loop

-----------------------------------------------------------------------------
(* The responses *)

LEMMA ResponseStep ==
  ASSUME TypeOK, PostState, OneResponse, [Next]_vars
  PROVE  OneResponse'
<1>1. ASSUME NEW r \in Requests, NEW m \in {"initialize", "call"}, Read(r, m)
      PROVE  OneResponse'
  BY <1>1 DEF Read, Begin, TypeOK, OneResponse
<1>2. CASE EndpointFound
  BY <1>2 DEF EndpointFound, Begin, OneResponse
<1>3. CASE EndpointTimesOut
  BY <1>3 DEF EndpointTimesOut, Respond, TypeOK, PostState, OneResponse
<1>4. ASSUME NEW ok \in BOOLEAN, After(ok)
      PROVE  OneResponse'
  BY <1>4, AfterCases DEF Respond, TypeOK, PostState, OneResponse, Operations
<1>5. CASE Result \/ ErrorAnswer
  BY <1>4, <1>5 DEF Result, ErrorAnswer
<1>6. CASE Failure
  BY <1>4, <1>6 DEF Failure, loopVars, OneResponse
<1>7. CASE \/ Call \/ Post \/ Pass \/ StreamOpens \/ EndpointEvent \/ StreamEnds
           \/ Update \/ UpdateAnswered \/ UNCHANGED vars
  BY <1>7 DEF Call, Post, Pass, StreamOpens, EndpointEvent, StreamEnds, Update,
              UpdateAnswered, vars, loopVars, OneResponse
<1> QED
  BY <1>1, <1>2, <1>3, <1>5, <1>6, <1>7 DEF Next, Loop

-----------------------------------------------------------------------------
(* The session, and the headers *)

LEMMA SessionStep ==
  ASSUME TypeOK, SessionState, FirstSessionKept, [Next]_vars
  PROVE  SessionState' /\ FirstSessionKept'
<1> USE NullsDistinct DEF SessionState, FirstSessionKept
<1>1. CASE Post
  BY <1>1 DEF Post, streamVars
<1>2. ASSUME NEW usable, HeadArrives(usable), phase = "flight", phase' # "flight",
             UNCHANGED streamVars
      PROVE  SessionState' /\ FirstSessionKept'
  BY <1>2 DEF HeadArrives, Issue, TypeOK, streamVars
<1>3. CASE Result \/ ErrorAnswer
  BY <1>2, <1>3 DEF Result, ErrorAnswer, Succeed
<1>4. CASE Failure
  BY <1>2, <1>4 DEF Failure, FailAndRetry, FailForGood
<1>5. CASE StreamOpens
  BY <1>5 DEF StreamOpens, TypeOK, postVars, retryVars
<1>6. CASE Call \/ Pass
  BY <1>6 DEF Call, Pass, Start, WakeUp, Cool, postVars, streamVars
<1>7. ASSUME UNCHANGED <<phase, postVars, streamOf>>
      PROVE  SessionState' /\ FirstSessionKept'
  BY <1>7 DEF postVars
<1>8. CASE \/ \E r \in Requests, m \in {"initialize", "call"} : Read(r, m)
           \/ EndpointFound \/ EndpointTimesOut \/ EndpointEvent \/ StreamEnds
           \/ Update \/ UpdateAnswered \/ UNCHANGED vars
  BY <1>7, <1>8 DEF Read, EndpointFound, EndpointTimesOut, EndpointEvent, StreamEnds, Update,
                    UpdateAnswered, vars, retryVars, streamVars
<1> QED
  BY <1>1, <1>3, <1>4, <1>5, <1>6, <1>8 DEF Next, Loop

LEMMA HeaderStep ==
  ASSUME TypeOK, HeaderState, [Next]_vars
  PROVE  HeaderState'
<1> USE MaxUpdatesTyped DEF HeaderState, TypeOK, Operations
<1>1. ASSUME NEW r \in Requests, NEW m \in {"initialize", "call"}, Read(r, m)
      PROVE  HeaderState'
  BY <1>1 DEF Read, Begin, updateVars
<1>2. CASE EndpointFound \/ EndpointTimesOut
  BY <1>2 DEF EndpointFound, EndpointTimesOut, Begin, updateVars
<1>3. ASSUME NEW ok \in BOOLEAN, After(ok), UNCHANGED updateVars
      PROVE  HeaderState'
  BY <1>3, AfterCases DEF updateVars
<1>4. CASE Result \/ ErrorAnswer
  BY <1>3, <1>4 DEF Result, ErrorAnswer
<1>5. CASE Failure
  BY <1>3, <1>5 DEF Failure, loopVars, updateVars
<1>6. CASE Update \/ UpdateAnswered
  BY <1>6 DEF Update, UpdateAnswered, loopVars
<1>7. CASE \/ Call \/ Post \/ Pass \/ StreamOpens \/ EndpointEvent \/ StreamEnds
           \/ UNCHANGED vars
  BY <1>7 DEF Call, Post, Pass, StreamOpens, EndpointEvent, StreamEnds, vars, loopVars,
              updateVars
<1> QED
  BY <1>1, <1>2, <1>4, <1>5, <1>6, <1>7 DEF Next, Loop

-----------------------------------------------------------------------------
(* The theorems *)

LEMMA InitIInv == Init => IInv
<1> SUFFICES ASSUME Init PROVE IInv
  OBVIOUS
<1> USE NullsDistinct, RetryPolicyTyped, ThresholdTyped, MaxUpdatesTyped DEF Init, RetryInit
<1>1. TypeOK
  <2>1. RetryTypeOK
    BY DEF RetryTypeOK
  <2>2. {initialized, welcomed, notified, endpoint} \subseteq BOOLEAN
    BY Zenon
  <2> QED
    BY <2>1, <2>2 DEF TypeOK
<1>2. BreakerState
  BY DEF BreakerState
<1>3. PostState
  BY DEF PostState
<1>4. HandshakeState /\ HandshakeFirst
  BY DEF HandshakeState, HandshakeFirst, Noting
<1>5. OneResponse
  BY DEF OneResponse
<1>6. SessionState /\ FirstSessionKept
  BY DEF SessionState, FirstSessionKept
<1>7. HeaderState
  BY DEF HeaderState, Operations
<1> QED
  BY <1>1, <1>2, <1>3, <1>4, <1>5, <1>6, <1>7 DEF IInv

LEMMA NextIInv == IInv /\ [Next]_vars => IInv'
<1> SUFFICES ASSUME IInv, [Next]_vars PROVE IInv'
  OBVIOUS
<1>1. TypeOK' /\ PostState'
  BY TypesAndPosts DEF IInv
<1>2. BreakerState'
  BY NextRetries, RetryKeepsBreaker DEF IInv, TypeOK
<1>3. HandshakeState' /\ HandshakeFirst'
  BY HandshakeStep DEF IInv
<1>4. OneResponse'
  BY ResponseStep DEF IInv
<1>5. SessionState' /\ FirstSessionKept'
  BY SessionStep DEF IInv
<1>6. HeaderState'
  BY HeaderStep DEF IInv
<1> QED
  BY <1>1, <1>2, <1>3, <1>4, <1>5, <1>6 DEF IInv

LEMMA Inductive == Spec => []IInv
  BY InitIInv, NextIInv, PTL DEF Spec

\* Every variable keeps its type; a request is posted at most once per attempt.
THEOREM TypeCorrect == Spec => []TypeOK
<1>1. IInv => TypeOK
  BY DEF IInv
<1> QED
  BY <1>1, Inductive, PTL

(***************************************************************************)
(* For every threshold and every number of retries, no POST begins after   *)
(* Threshold failures in a row until the cooldown has passed.              *)
(***************************************************************************)
THEOREM BreakerIsSound == Spec => []BreakerHolds
<1>1. IInv => BreakerHolds
  BY ThresholdTyped DEF IInv, TypeOK, RetryTypeOK, BreakerState, BreakerHolds
<1> QED
  BY <1>1, Inductive, PTL

\* A call is posted only to a server that has answered an initialize.
THEOREM CallsAfterHandshake == Spec => []HandshakeFirst
<1>1. IInv => HandshakeFirst
  BY DEF IInv
<1> QED
  BY <1>1, Inductive, PTL

\* Every request has exactly one response when the loop is done with it.
THEOREM ResponsesOnce == Spec => []OneResponse
<1>1. IInv => OneResponse
  BY DEF IInv
<1> QED
  BY <1>1, Inductive, PTL

\* The bridge keeps the first session id that reaches it: every later POST and
\* the event stream go out with it.  It says nothing of a session the server
\* opened for an initialize whose answer was lost.
THEOREM OneSession == Spec => []FirstSessionKept
<1>1. IInv => FirstSessionKept
  BY DEF IInv
<1> QED
  BY <1>1, Inductive, PTL

\* A POST carries the headers of all updates answered before its request was read.
THEOREM HeadersFollowUpdates == Spec => []HeadersCurrent
<1>1. IInv => HeadersCurrent
  BY MaxUpdatesTyped DEF IInv, TypeOK, PostState, HeaderState, HeadersCurrent
<1> QED
  BY <1>1, Inductive, PTL

-----------------------------------------------------------------------------
(* The breaker of the abstract specification *)

\* Without a threshold the breaker never opens.
NeverOpen == Threshold = 0 => open = "no"

LEMMA StaysClosed ==
  ASSUME NeverOpen, RetryStep
  PROVE  NeverOpen'
  BY DEF NeverOpen, RetryStep, retryVars, Start, Attempt, Cool, Succeed, FailAndRetry, FailForGood,
         WakeUp, RecordFailure, Reached

\* Each step of the retry loop is one of the abstract breaker, or none there.
LEMMA BreakerStep ==
  ASSUME RetryTypeOK, BreakerState, NeverOpen, RetryStep
  PROVE  [Breaker!BreakerNext]_(Breaker!breakerVars)
<1> USE RetryPolicyTyped, ThresholdTyped DEF RetryTypeOK, BreakerState, NeverOpen, InTrial, InRow, Tries
<1>1. CASE Start \/ WakeUp
  <2>1. UNCHANGED <<InTrial, InRow, Tries>>
    BY <1>1 DEF Start, WakeUp
  <2> QED
    BY <2>1 DEF Breaker!breakerVars
<1>2. CASE Attempt
  <2>1. ~InTrial /\ InTrial' /\ ~Breaker!Tripped /\ Tries <= MaxRetries
    BY <1>2 DEF Attempt, Breaker!Tripped
  <2>2. Tries' = Tries + 1 /\ InRow' = InRow
    BY <1>2 DEF Attempt
  <2> QED
    BY <2>1, <2>2 DEF Breaker!BreakerNext, Breaker!Try
<1>3. CASE Cool
  <2>1. Breaker!Tripped /\ InRow' = 0 /\ UNCHANGED <<InTrial, Tries>>
    BY <1>3 DEF Cool, Breaker!Tripped
  <2> QED
    BY <2>1 DEF Breaker!BreakerNext, Breaker!CoolsDown
<1>4. CASE Succeed
  <2>1. InTrial /\ ~InTrial' /\ InRow' = 0 /\ Tries' = 0
    BY <1>4 DEF Succeed
  <2> QED
    BY <2>1 DEF Breaker!BreakerNext, Breaker!Succeeds
<1>5. CASE FailAndRetry \/ FailForGood
  <2>1. InTrial /\ ~InTrial'
    BY <1>5 DEF FailAndRetry, FailForGood
  <2>2. InRow' = IF InRow < MaxCount THEN InRow + 1 ELSE InRow
    BY <1>5 DEF FailAndRetry, FailForGood, RecordFailure, Reached, Increment
  <2>3. Tries' = IF Tries <= MaxRetries THEN Tries ELSE 0
    BY <1>5 DEF FailAndRetry, FailForGood, RetriesLeft
  <2> QED
    BY <2>1, <2>2, <2>3 DEF Breaker!BreakerNext, Breaker!Fails
<1>6. CASE UNCHANGED retryVars
  <2>1. UNCHANGED <<InTrial, InRow, Tries>>
    BY <1>6 DEF retryVars
  <2> QED
    BY <2>1 DEF Breaker!breakerVars
<1> QED
  BY <1>1, <1>2, <1>3, <1>4, <1>5, <1>6 DEF RetryStep

\* For any threshold and number of retries, the breaker opens after exactly that
\* many failures in a row, over all operations of the bridge, and an operation
\* fails only after all its retries: the bridge implements CircuitBreaker.
THEOREM BridgeImplementsBreaker == Spec => ImplementsBreaker
<1>1. Init => Breaker!BreakerInit /\ NeverOpen
  BY DEF Init, RetryInit, Breaker!BreakerInit, InTrial, InRow, Tries, NeverOpen
<1>2. NeverOpen /\ [Next]_vars => NeverOpen'
  BY NextRetries, StaysClosed
<1>3. IInv /\ NeverOpen /\ [Next]_vars => [Breaker!BreakerNext]_(Breaker!breakerVars)
  BY NextRetries, BreakerStep DEF IInv, TypeOK
<1> QED
  BY <1>1, <1>2, <1>3, Inductive, PTL DEF Spec, ImplementsBreaker, Breaker!BreakerSpec
=============================================================================
