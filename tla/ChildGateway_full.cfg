SPECIFICATION FairSpec
CONSTANTS
  Updates = {u1, u2}
  Fields = {"cli", "env", "headers"}
  SpawnFields = {"cli", "env"}
  Initial = Initial
  Checks = {h1, h2}
  UpdateCap = 1
  SendFailureEnds = TRUE
INVARIANTS
  StdinIsNewest
  NoUnownedProcess
PROPERTIES
  ImplementsService
  UpdatesAnswered
CHECK_DEADLOCK FALSE
