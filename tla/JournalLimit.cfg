SPECIFICATION FairSpec
CONSTANTS
  Conns = {c1, c2}
  Files = {profile, chars}
  Image = {v1, v2}
  Oversized = {v2}
  NoConn = NoConn
  NoImage = NoImage
PROPERTIES
  EveryJournalRetires
