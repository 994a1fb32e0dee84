SPECIFICATION Spec
CONSTANTS
  Accounts = {alice}
  Actors = {admin}
  Operations = {o1, o2, o3}
  Values = {v1}
  Providers = {idp}
  Flows = {f1, f2}
  Local = local
  None = none
  MAX_OPERATIONS = 2
  MaxAge = 2
  TokenSeconds = 2
  Skew = 1
  SessionSeconds = 2
  MaxSessions = 3
  MaxSequence = 4
  VersionLimit = 2
  MaxClock = 2
SYMMETRY Interchangeable
INVARIANTS RepeatedCommandsAreAnswered OwnObservation ProfilesAreCurrent
PROPERTY ObservationsOnlyAdvance
CHECK_DEADLOCK FALSE
