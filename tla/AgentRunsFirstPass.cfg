SPECIFICATION FairSpec
CHECK_DEADLOCK FALSE
CONSTANTS
  Overrides = {cheap, dear}
  Resetting = {cheap}
  Counters <- MCCounters
  GroupBar = GroupBar
  NoOverride = NoOverride
  Empty = Empty
  Unscored = Unscored
  MAX_REPLAN_ITERATIONS = 1
  Runs = {r1}
  Tasks = {t1}
  NoRun = NoRun
  NoThread = NoThread
  MaxResumes = 1
  MaxCrashes = 0
  MaxFaults = 0
PROPERTY FirstPassHonoursOverrides
