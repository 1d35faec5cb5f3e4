--------------------------- MODULE CircuitBreaker ---------------------------
(***************************************************************************)
(* What a retried operation over a circuit breaker promises, without       *)
(* sleeps, indices and the fields of the breaker: trials one at a time, an *)
(* operation given up only after all of its retries, and after Threshold   *)
(* failures in a row, neither fewer nor more, no trial before a cooldown.  *)
(***************************************************************************)
EXTENDS Naturals

CONSTANTS
  Threshold,   \* failures in a row that trip the breaker, 0 for none
  Retries,     \* trials of an operation after its first
  Limit        \* where the count of failures stops

VARIABLES
  inTrial,     \* a trial is under way
  inRow,       \* failures since a success or a cooldown
  tries        \* trials of the operation under way, 0 between two

breakerVars == <<inTrial, inRow, tries>>

Tripped == Threshold # 0 /\ inRow = Threshold

BreakerInit == inTrial = FALSE /\ inRow = 0 /\ tries = 0

Try ==
  /\ ~inTrial /\ ~Tripped /\ tries <= Retries
  /\ inTrial' = TRUE
  /\ tries' = tries + 1
  /\ UNCHANGED inRow

Succeeds ==
  /\ inTrial
  /\ inTrial' = FALSE /\ inRow' = 0 /\ tries' = 0

\* The operation goes on, or has used all its retries.
Fails ==
  /\ inTrial
  /\ inTrial' = FALSE
  /\ inRow' = IF inRow < Limit THEN inRow + 1 ELSE inRow
  /\ tries' = IF tries <= Retries THEN tries ELSE 0

CoolsDown ==
  /\ Tripped
  /\ inRow' = 0
  /\ UNCHANGED <<inTrial, tries>>

BreakerNext == Try \/ Succeeds \/ Fails \/ CoolsDown

BreakerSpec == BreakerInit /\ [][BreakerNext]_breakerVars
=============================================================================
