SPECIFICATION Spec
CONSTANTS
    None = None
    Vibes <- MCVibes
    Overrides <- MCOverrides
    Counters <- MCCounters
    GroupBar = GroupBar
    NoOverride = NoOverride
    Empty = Empty
    Unscored = Unscored
    MAX_REPLAN_ITERATIONS = 2
    N = 2
    Tastes <- MCTastes
    Replies <- MCReplies
    Catalog <- MCCatalog
    TopN = 2
    MaxKicks = 2
CHECK_DEADLOCK FALSE
INVARIANTS NoMemberVetoProposed DietaryRulesAgree ProposalIsBest WarnsOfVeto
    StatedPrevails LosesRaceOnce
PROPERTIES TighterBudgetNeverHelps
