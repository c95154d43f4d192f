SPECIFICATION FairSpec
CONSTANTS
  Users = {u1, u2}
  Conns = {c1, c2}
  RoomNames = {r1, r2}
  TeamSize = 1
  MaxMatches = 2
  NoUser = NoUser
  NoConn = NoConn
INVARIANTS
  Membership
  NoLeftovers
  OneRewardPerMatch
  RewardInv
  ClaimIsBacked
PROPERTIES
  OnlyOwnClaimReleased
  ClaimSettles
  RewardFairSpec
