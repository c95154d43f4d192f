CONSTANTS
  Threads = {t1, t2}
  Locks <- AllLocks
  Rank <- ServerRank
  NoOne = NoOne
  Nothing = Nothing
SPECIFICATION Spec
INVARIANTS NeverDeadlocked RelayNeverWaitsForStore
PROPERTIES DisciplineSpec
SYMMETRY Symmetry
