SPECIFICATION Spec
CONSTANTS
  Users = {u1, u2}
  Conns = {c1, c2}
  RoomNames = {r1}
  TeamSize = 1
  MaxMatches = 1
  NoUser = NoUser
  NoConn = NoConn
INVARIANT BarrierNeverStuck
