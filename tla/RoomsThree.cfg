SPECIFICATION PlayersSpec
CONSTANTS
  Users = {u1, u2, u3, u4}
  Conns = {c1, c2, c3, c4}
  RoomNames = {r1}
  TeamSize = 2
  MaxMatches = 1
  NoUser = NoUser
  NoConn = NoConn
  Trio = {c1, c2, c3}
  Acting = {c1, c2}
SYMMETRY UserSymmetry
INVARIANTS
  MembersHaveSessions
  ClaimCoversMembers
PROPERTIES
  RosterOnlyShrinks
  OnlyFallenLose
