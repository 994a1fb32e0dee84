SPECIFICATION Spec
CONSTANTS
  alice = alice
  Accounts = {alice}
  Sessions = {s1}
  Owner <- OfAlice
  Deployments = {d1, d2}
  Configs = {rp1}
  Keys = {k1, k2}
  Ceremonies = {c1, c2, c3}
  Operations = {o1}
  Purposes = {"register", "remove"}
  MAX_CREDENTIALS = 2
  MAX_CEREMONIES = 2
  MAX_GRANTS = 1
  GenerationLimit = 2
  CounterLimit = 2
  ProviderLimit = 2
  None = none
SYMMETRY Interchangeable
INVARIANTS EnrolledOnce PasskeysOfThisGeneration 
PROPERTIES CountersOnlyGrow ChangedOnStandingProof
CHECK_DEADLOCK FALSE
