SPECIFICATION FairSpec
CONSTANTS
  Conns = {c1, c2}
  Files = {profile, chars, stats}
  Image = {v1, v2}
  Oversized = {v2}
  NoConn = NoConn
  NoImage = NoImage
INVARIANTS
  StoreInv
PROPERTIES
  AtomicSpec
  RecoveryCompletes
