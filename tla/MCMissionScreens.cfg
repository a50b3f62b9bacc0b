SPECIFICATION FairScreens
CONSTANTS
    Sessions <- MCSessions
CHECK_DEADLOCK FALSE
INVARIANTS DecisionShows TallySettles
PROPERTIES PollsEnd RunsCatchUp
