SPECIFICATION SeatedSpec
CONSTANTS
  Users = {u1, u2}
  Conns = {c1, c2}
  RoomNames = {r1}
  TeamSize = 2
  MaxMatches = 1
  MaxDeaths = 1
  NoUser = NoUser
  NoConn = NoConn
SYMMETRY Symmetry
INVARIANTS ServerStaysUp
CHECK_DEADLOCK FALSE
