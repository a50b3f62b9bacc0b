SPECIFICATION Spec
CHECK_DEADLOCK FALSE
CONSTANTS
  Overrides = {b1500, b1000}
  Counters <- NoCounters
  First = b1500
  Second = b1000
  GroupBar = GroupBar
  NoOverride = NoOverride
  Empty = Empty
  Unscored = Unscored
  MAX_REPLAN_ITERATIONS = 2
  MaxFaults = 2
INVARIANTS
  ProposalsFollowDecisions
  EveryProposalKept
  SucceededShowsApproved
  StepsTracePath
PROPERTY
  DemoEnds
