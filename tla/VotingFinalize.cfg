SPECIFICATION Spec
SYMMETRY Symmetry
CONSTANTS
  Users = {u1, u2}
  PlaceCount = 2
  Puts = {s1}
  Finals = {f1, f2}
INVARIANTS
  StoredPairWasPicked
