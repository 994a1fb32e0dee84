SPECIFICATION Spec
CONSTANTS
  alice = alice
  bob = bob
  Accounts <- OneAccount
  Bootstrap = alice
  r1 = r1
  r2 = r2
  Requests <- TwoRequests
  Policies <- ShortPolicies
  Kinds <- BothKinds
  EpochLimit = 2
  MaxSessions = 3
  MaxTokens = 3
  RequestBudget = 1
  MaxClock = 1
SYMMETRY Symmetry
INVARIANTS
  TypeOK
  OneSuccessor
CHECK_DEADLOCK FALSE
