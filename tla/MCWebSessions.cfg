SPECIFICATION Spec
CONSTANTS
  MaxRequests = 3
  MaxParallel = 2
  MaxRestarts = 1
  Statuses = {200}
  RecentLimit = 1
  AgentsEnabled = TRUE
  HasInternalKey = TRUE
  AllowedDomains = {"lab"}
  AdminGroups = {"boss"}
  Targets = {"/", "/printers"}
  GroupRoleMap <- MCGroupRoleMap
  Claims <- MCClaims
  Visits <- MCVisits
  Longer <- MCLonger
INVARIANTS TypeOK SessionIsEarned LandsWhereAsked SignedOutStaysOut RollupsBalance
PROPERTY RequestsEnd
CHECK_DEADLOCK FALSE
