SPECIFICATION FairSpec
CONSTANTS
  Clients = {c1, c2}
  Transports = {"sse", "ws", "grpc"}
  Ids <- MCIds
  Numerals = {"1"}
  NoClient = NoClient
  Stranger = Stranger
  Cap = 1
  OutCap = 2
  MaxOwn = 1
INVARIANTS
  AnswersPrivate
  InOrder
  IdRestored
PROPERTY
  AnswerDelivered
CHECK_DEADLOCK FALSE
