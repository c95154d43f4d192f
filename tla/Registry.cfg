SPECIFICATION FairSpec
CONSTANTS
  Conns = {k1, k2, k3}
  Handles = {h1, h2}
  Senders = {s1, s2}
  None = None
CHECK_DEADLOCK FALSE
INVARIANTS
  RegistryInv
  RightRecipient
PROPERTIES
  StoppedIsClosed
