SPECIFICATION Spec
SYMMETRY Symmetry
CONSTANTS
  Users = {u1, u2}
  PlaceCount = 2
  Puts = {s1, s2}
  Finals = {f1}
INVARIANTS
  AckedVoteStands
  PickIsBest
