\* Two requests, two session ids, one retry, a breaker that opens after two failures.
CONSTANTS
  Requests = {r1, r2}
  NoRequest = noRequest
  Sessions = {s1, s2}
  NoSession = noSession
  MaxRetries = 1
  Threshold = 2
  MaxCount = 3
  MaxUpdates = 1
SPECIFICATION FairSpec
INVARIANTS
  HandshakeFirst
  OneResponse
  FirstSessionKept
  HeadersCurrent
PROPERTIES
  ImplementsBreaker
  RequestsAnswered
\* All requests have been answered, and all updates made.
CHECK_DEADLOCK FALSE
