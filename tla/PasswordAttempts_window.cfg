SPECIFICATION Spec
CONSTANTS
  admin = admin w1 = w1 w2 = w2 near = near provider = provider
  EpochLimit = 1
  Logins <- OneLogin
  Sources <- OneSource
  Scopes = {}
  Workers <- OneWorker
  Budgets <- OneBudget
  FailureLimit = 2
  FailureSeconds = 2
  ClaimSeconds = 2
  SourceLimit = 2
  SourceSeconds = 1
  ScopeLimit = 1
  ScopeSeconds = 1
  MaxRows = 3
  CleanupBatch = 1
INVARIANTS FixedWindow
CHECK_DEADLOCK FALSE
