SPECIFICATION Spec
CONSTANTS
  AccessTokenFormat = "jwt"
  Grants = {g1}
  Clients = {c1}
  RefreshClients = {c1}
  Scopes = {offline}
  OfflineAccess = offline
  Requests = {r1, r2, r3}
  CodeLifetime = 1
  AccessLifetime = 1
  RefreshLifetime = 2
  MaxTime = 1
  Absent = Absent
  AtomicStore = TRUE
  MaxInFlight = 2
CHECK_DEADLOCK FALSE
INVARIANTS
  CodeRedeemedOnce
