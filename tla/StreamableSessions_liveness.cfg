SPECIFICATION FairSpec
CONSTANTS
  Sessions = {s1}
  Reqs = {r1, r2, r3}
  NoSession = NoSession
  Free = Free
  Sweeper = Sweeper
  Updater = Updater
  Disconnects = FALSE
PROPERTIES
  SessionExpires
  ExchangeEnds
