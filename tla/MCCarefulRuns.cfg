SPECIFICATION CarefulSpec
CHECK_DEADLOCK FALSE
SYMMETRY Symmetry
CONSTANTS
  Overrides = {cheap}
  Counters <- MCCounters
  GroupBar = GroupBar
  NoOverride = NoOverride
  Empty = Empty
  Unscored = Unscored
  MAX_REPLAN_ITERATIONS = 2
  Runs = {r1, r2}
  Tasks = {t1, t2}
  NoRun = NoRun
  NoThread = NoThread
  MaxResumes = 2
  MaxCrashes = 1
  MaxFaults = 1
INVARIANTS
  OneDriverPerRun
  DecisionFindsGate
PROPERTY
  ImplementsLifecycle
