---------------------------- MODULE RetryBreaker ----------------------------
(***************************************************************************)
(* transport/reliability.rs: run_with_retry and the circuit breaker.       *)
(*                                                                         *)
(* One loop of attempts at a time; the breaker outlives it and is shared   *)
(* by all operations of its owner, which extends this module, starts the   *)
(* loop and decides how an attempt ends.  Only the order of sleeps and     *)
(* attempts is modelled, not how long a sleep lasts.                       *)
(***************************************************************************)
EXTENDS Naturals

CONSTANTS
  MaxRetries,   \* RetryPolicy.max_retries
  Threshold,    \* CircuitBreakerPolicy.failure_threshold, 0 for no breaker
  MaxCount      \* u32::MAX, where consecutive_failures saturates

ASSUME RetryPolicyTyped == MaxRetries \in Nat
ASSUME ThresholdTyped == Threshold \in Nat /\ MaxCount \in Nat \ {0} /\ Threshold <= MaxCount

VARIABLES
  phase,      \* "idle", or the await of the loop: "waiting", "flight", "sleeping"
  attempt,    \* the loop's index
  failures,   \* consecutive_failures
  open,       \* open_until: "no", "hot" (in the future) or "cooled" (past)
  streak      \* history: failed attempts since a success or a cooldown

retryVars == <<phase, attempt, failures, open, streak>>

RetryTypeOK ==
  /\ phase \in {"idle", "waiting", "flight", "sleeping"}
  /\ attempt \in 0 .. MaxRetries
  /\ failures \in 0 .. MaxCount
  /\ open \in {"no", "hot", "cooled"}
  /\ streak \in 0 .. MaxCount

RetryInit ==
  /\ phase = "idle" /\ attempt = 0
  /\ failures = 0 /\ open = "no" /\ streak = 0

\* saturating_add(1)
Increment(i) == IF i < MaxCount THEN i + 1 ELSE MaxCount

Start ==
  /\ phase = "idle"
  /\ phase' = "waiting"
  /\ attempt' = 0
  /\ UNCHANGED <<failures, open, streak>>

\* wait_if_open, then the operation begins.
Attempt ==
  /\ phase = "waiting"
  /\ open # "hot"
  /\ phase' = "flight"
  /\ open' = "no"
  /\ failures' = IF open = "no" THEN failures ELSE 0
  /\ UNCHANGED <<attempt, streak>>

\* The cooldown ends, waited for or not.
Cool ==
  /\ open = "hot"
  /\ open' = "cooled"
  /\ streak' = 0
  /\ UNCHANGED <<phase, attempt, failures>>

\* Mutant: failures before a success still count.
SucceedKeepsCount ==
  /\ phase = "flight"
  /\ phase' = "idle"
  /\ open' = "no" /\ streak' = 0
  /\ UNCHANGED <<attempt, failures>>

Succeed ==
  /\ phase = "flight"
  /\ phase' = "idle"
  /\ failures' = 0 /\ open' = "no" /\ streak' = 0
  /\ UNCHANGED attempt

Reached(count) == Threshold # 0 /\ count >= Threshold

\* record_failure: the breaker opens with its count at zero again.
RecordFailure ==
  LET count == Increment(failures)
  IN  /\ failures' = IF Reached(count) THEN 0 ELSE count
      /\ open' = IF Reached(count) THEN "hot" ELSE open
      /\ streak' = Increment(streak)

\* Mutant: one retry too many.
RetriesLeftOrEqual == attempt <= MaxRetries

RetriesLeft == attempt < MaxRetries

\* An attempt fails, and there is another one ...
FailAndRetry ==
  /\ phase = "flight"
  /\ RetriesLeft
  /\ RecordFailure
  /\ phase' = "sleeping"
  /\ UNCHANGED attempt

\* ... or its error is the result.
FailForGood ==
  /\ phase = "flight"
  /\ ~RetriesLeft
  /\ RecordFailure
  /\ phase' = "idle"
  /\ UNCHANGED attempt

\* The back-off has passed.
WakeUp ==
  /\ phase = "sleeping"
  /\ phase' = "waiting"
  /\ attempt' = attempt + 1
  /\ UNCHANGED <<failures, open, streak>>

-----------------------------------------------------------------------------
(* Properties *)

(***************************************************************************)
(* The breaker holds: after Threshold failures in a row, spread over one   *)
(* operation or several, no attempt is made before a cooldown has passed.  *)
(* The count is kept in two places that reset it, and starts again at zero *)
(* when the breaker opens, not when it closes.                             *)
(***************************************************************************)
BreakerHolds ==
  Threshold # 0 => streak <= Threshold /\ (phase = "flight" => streak < Threshold)

(***************************************************************************)
(* The retry loop implements CircuitBreaker: the breaker opens after       *)
(* exactly Threshold failures in a row, though its two fields are reset in *)
(* three places and an ended cooldown is noticed only at the next attempt; *)
(* an operation fails only when all of its retries have.                   *)
(***************************************************************************)
InTrial == phase = "flight"
InRow == CASE open = "no" -> failures [] open = "hot" -> Threshold [] OTHER -> 0
Tries == CASE phase = "idle" -> 0 [] phase = "waiting" -> attempt [] OTHER -> attempt + 1

Breaker == INSTANCE CircuitBreaker WITH
  Retries <- MaxRetries, Limit <- MaxCount,
  inTrial <- InTrial, inRow <- InRow, tries <- Tries

ImplementsBreaker == Breaker!BreakerSpec
=============================================================================
