SPECIFICATION Spec
CONSTANTS
  Users = {u1, u2, u3}
  Characters = {0, 1}
  NoList = NoList
  MaxBusy = 2
SYMMETRY Symmetry
INVARIANT MembersSeeTheRoom
