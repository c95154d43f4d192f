CONSTANTS
  Threads = {t1, t2}
  Locks <- AllLocks
  Rank <- ServerRank
  NoOne = NoOne
  Nothing = Nothing
SPECIFICATION Spec
INVARIANTS QueueOutsideSharedLocks
SYMMETRY Symmetry
