SPECIFICATION Spec
CONSTANTS
  Budgets = {low, high}
  Cuisines = {thai}
  Null = Null
  Absent = Absent
  NoRow = NoRow
  Slots = {s1, s2}
INVARIANT
  AckedColumnsStand
