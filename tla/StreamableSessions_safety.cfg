SPECIFICATION Spec
CONSTANTS
  Sessions = {s1, s2}
  Reqs = {r1, r2, r3}
  NoSession = NoSession
  Free = Free
  Sweeper = Sweeper
  Updater = Updater
  Disconnects = TRUE
SYMMETRY Symmetry
INVARIANTS
  CountIsHolders
  DecFindsActive
  IdleSessionHasReaper
  NoStrayChild
PROPERTY
  ImplementsLease
