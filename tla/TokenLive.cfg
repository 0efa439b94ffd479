SPECIFICATION FairSpec
CONSTANTS
  AccessTokenFormat = "opaque"
  Grants = {g1}
  Clients = {c1, c2}
  RefreshClients = {c1, c2}
  Scopes = {offline, profile}
  OfflineAccess = offline
  Requests = {r1, r2}
  CodeLifetime = 1
  AccessLifetime = 1
  RefreshLifetime = 2
  MaxTime = 2
  Absent = Absent
  AtomicStore = FALSE
  MaxInFlight = 2
CHECK_DEADLOCK FALSE
INVARIANT
  TokensWithinGrant
PROPERTIES
  RequestsEnd
  CascadeReaches
