SPECIFICATION FairSpec
CONSTANTS
  admin = admin w1 = w1 w2 = w2 near = near provider = provider
  EpochLimit = 2
  Logins <- OneLogin
  Sources <- OneSource
  Scopes <- OneScope
  Workers <- TwoWorkers
  Budgets <- LongBudget
  FailureLimit = 2
  FailureSeconds = 2
  ClaimSeconds = 2
  SourceLimit = 1
  SourceSeconds = 1
  ScopeLimit = 1
  ScopeSeconds = 1
  MaxRows = 2
  CleanupBatch = 1
INVARIANTS GuessRate OneVerifier WithinCapacity AdmissionRate
PROPERTIES LateAnswersAreIgnored BlockingEnds
CHECK_DEADLOCK FALSE
