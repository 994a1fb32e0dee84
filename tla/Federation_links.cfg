SPECIFICATION Spec
CONSTANTS
  EpochLimit = 2
  Accounts = {alice, bob}
  Locals = {bob}
  Providers = {idp}
  Jit = {idp}
  Subjects = {u1, u2}
  Flows = {f1}
  Uses = {"login", "link"}
  Linked <- Strangers
  Changes <- Disable
  VersionLimit = 1
  MaxSessions = 3
  MaxAttempts = 3
  MaxIntents = 1
  AttemptCapacity = 2
  GrantCapacity = 1
  Nobody = nobody
SYMMETRY Interchangeable
INVARIANTS  OneOwner
PROPERTY LinksAreProvenAndFence
CHECK_DEADLOCK FALSE
