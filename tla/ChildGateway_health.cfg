SPECIFICATION FairSpec
CONSTANTS
  Updates = {u1, u2}
  Fields = {"cli", "env", "headers"}
  SpawnFields = {"cli", "env"}
  Initial = Initial
  Checks = {h1, h2}
  UpdateCap = 1
  SendFailureEnds = FALSE
INVARIANT
  RestartedChildIsReachable
CHECK_DEADLOCK FALSE
