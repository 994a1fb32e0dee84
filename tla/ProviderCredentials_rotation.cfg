SPECIFICATION Spec
CONSTANTS
  p1 = p1
  p2 = p2
  k1 = k1
  k2 = k2
  Tenants = 2
  Providers = {p1, p2}
  Founded = {p1}
  TenantOf <- OneEach
  Keys = {k1, k2}
  Rings <- Rotation
  FirstKey = k1
  Servers = {s1, s2}
  ProviderLimit = 1
  Edits = {"update", "enable"}
  MaxCommands = 1
  MaxTests = 1
  None = none
INVARIANTS SecretsStayReadable TestedAsConfigured AnsweredAsSettled
SYMMETRY Symmetric
CHECK_DEADLOCK FALSE
