SPECIFICATION FairSpec
CONSTANTS
  Calls = {c1, c2}
  Keys = {k1, k2}
  Kinds = {"str", "num"}
  NoCall = NoCall
  MaxPending = 1
  OutCap = 1
INVARIANTS
  EntryHasRemover
  AnswersNotShared
PROPERTIES
  CallEnds
