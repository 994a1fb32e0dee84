SPECIFICATION Spec
CONSTANTS
  EpochLimit = 3
  Accounts = {alice}
  Bindings = {phone}
  Federated = {phone}
  Targets = {rp}
  Processes = {p1, p2}
  ChallengeSeconds = 1
  AssertionSeconds = 2
  Skew = 0
  Policy <- ShortPolicy
  ChallengeCapacity = 1
  Batch = 1
  VersionLimit = 2
  MaxChallenges = 2
  MaxClock = 2
  None = none
SYMMETRY Interchangeable
INVARIANTS OneSessionPerChallenge AssertionsFollowTheirSession RegistrationsStayDead
PROPERTY IssuedOnWhatWasChallenged
CHECK_DEADLOCK FALSE
