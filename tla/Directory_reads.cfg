SPECIFICATION Spec
CONSTANTS
  EpochLimit = 2
  MaxDepth = 1
  MaxNodes = 7
  Null = null
  Accounts = {1, 2, 3}
  Founded = {2, 3}
  Login <- TwoLogins
  Administrator = 2
  Permissions <- TwoPermissions
  Parsed <- FewQueries
  Selects <- filter
  Claims <- FewClaims
  Names = {1}
  DepartmentMaxAge = 1
  GroupFactsMaxAge = 1
  ProfileMaxAge = 2
  TokenSeconds = 2
  Skew = 1
  Window = 3
  Policy <- ShortPolicy
  MaxChain = 2
  MaxSessions = 2
  MaxGeneration = 3
  MaxClock = 3
INVARIANTS RevisionsPinTheRelation 
PROPERTY PagesMakeOneList
CHECK_DEADLOCK FALSE
