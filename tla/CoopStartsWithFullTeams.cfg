SPECIFICATION Spec
CONSTANTS
  Users = {u1, u2, u3}
  Conns = {c1, c2, c3}
  RoomNames = {r1}
  TeamSize = 2
  MaxMatches = 1
  NoUser = NoUser
  NoConn = NoConn
PROPERTY CoopStartsWithFullTeams
