SPECIFICATION FairSpec
CONSTANTS
  Sessions = {s1, s2}
  Reqs = {r1, r2}
  NoSession = NoSession
  Free = Free
  Sweeper = Sweeper
  Updater = Updater
  Disconnects = TRUE
PROPERTY OpenStreamKeepsSession
