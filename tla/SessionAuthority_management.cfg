SPECIFICATION Spec
CONSTANTS
  alice = alice
  bob = bob
  r1 = r1
  r2 = r2
  Accounts <- TwoAccounts
  Bootstrap = alice
  Requests <- OneRequest
  Policies <- SlidingPolicies
  Kinds <- CookieOnly
  EpochLimit = 3
  MaxSessions = 2
  MaxTokens = 2
  RequestBudget = 1
  MaxClock = 4
INVARIANTS
  OnlyCurrentPassword
  VerificationIsFenced
  NoneOutlivesItsPolicy
PROPERTIES
  CredentialsNeverReturn
CHECK_DEADLOCK FALSE
