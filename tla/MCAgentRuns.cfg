SPECIFICATION FairSpec
CHECK_DEADLOCK FALSE
CONSTANTS
  Overrides = {cheap, dear}
  Resetting = {cheap}
  Counters <- MCCounters
  GroupBar = GroupBar
  NoOverride = NoOverride
  Empty = Empty
  Unscored = Unscored
  MAX_REPLAN_ITERATIONS = 1
  Runs = {r1}
  Tasks = {t1, t2}
  NoRun = NoRun
  NoThread = NoThread
  MaxResumes = 2
  MaxCrashes = 1
  MaxFaults = 1
INVARIANTS
  TypeOK
  PublishedWasApproved
  RejectionsHonoured
  ReplanBounded
  RunningIsDriven
  SucceededWasApproved
PROPERTIES
  ClosesOnlyAtEnd
  RunsSettle
  ImplementsRows
