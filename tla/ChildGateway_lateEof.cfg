SPECIFICATION FairSpec
CONSTANTS
  Updates = {u1, u2}
  Fields = {"cli", "env", "headers"}
  SpawnFields = {"cli", "env"}
  Initial = Initial
  Checks = {}
  UpdateCap = 1
  SendFailureEnds = FALSE
PROPERTY
  RestartKeepsGateway
CHECK_DEADLOCK FALSE
