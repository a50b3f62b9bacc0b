SPECIFICATION Spec
CONSTANTS
  Users = {ann, bob, cyd}
  Owner = ann
  InviteIds = {i1}
  MaxUses = {1, 2}
  Slots = {s1, s2}
  ForeignKeys = FALSE
INVARIANTS
  UsesAreAdmissions
PROPERTIES
  NobodyJoinsAfterDeletion
