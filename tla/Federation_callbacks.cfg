SPECIFICATION Spec
CONSTANTS
  EpochLimit = 2
  Accounts = {alice}
  Locals = {alice}
  Providers = {idp}
  Jit = {}
  Subjects = {u1}
  Flows = {f1, f2}
  Uses = {"login", "step_up"}
  Linked <- Acquainted
  Changes <- Disable
  VersionLimit = 2
  MaxSessions = 2
  MaxAttempts = 2
  MaxIntents = 0
  AttemptCapacity = 2
  GrantCapacity = 1
  Nobody = nobody
SYMMETRY Interchangeable
INVARIANTS RedeemedOnce FactsAreCurrent
PROPERTY GrantsSpentOnCurrentProof
CHECK_DEADLOCK FALSE
