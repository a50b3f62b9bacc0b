SPECIFICATION Spec
CHECK_DEADLOCK FALSE
CONSTANTS
  Emails = {mail}
  Persons = {ann, bob}
  Names = {n1, n2}
  Ids = {1, 2}
  Slots = {s1, s2}
  None = None
INVARIANTS
  OneAccountPerEmail
  TokensMatchPasswords
PROPERTY
  DeletionIsFinal
