SPECIFICATION FairSpec
CHECK_DEADLOCK FALSE
CONSTANTS
  Accounts = {ann}
  None = None
  Slots = {s1, s2}
  MaxTokens = 3
  MaxSignOuts = 1
  MaxRestarts = 1
INVARIANT
  SessionSurvives
PROPERTIES
  ExpiryIsInvisible
  RequestsSettle
