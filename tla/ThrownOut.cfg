SPECIFICATION CrowdedSpec
CONSTANTS
  Users = {u1, u2, u3}
  Conns = {c1, c2, c3}
  RoomNames = {r1, r2}
  TeamSize = 2
  MaxMatches = 2
  MaxDeaths = 1
  NoUser = NoUser
  NoConn = NoConn
SYMMETRY Symmetry
INVARIANTS
  NobodyIsThrownOut
CHECK_DEADLOCK FALSE
