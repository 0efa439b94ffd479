SPECIFICATION Spec
CONSTANTS
  AccessTokenFormat = "jwt"
  Grants = {g1}
  Clients = {c1}
  RefreshClients = {c1}
  Scopes = {offline, profile}
  OfflineAccess = offline
  Requests = {r1, r2, r3, r4}
  CodeLifetime = 1
  AccessLifetime = 1
  RefreshLifetime = 2
  MaxTime = 2
  Absent = Absent
  AtomicStore = TRUE
  MaxInFlight = 1
CHECK_DEADLOCK FALSE
SYMMETRY RequestSymmetry
INVARIANTS
  CodeRedeemedOnce
  OneUsableRefresh
  ReplayKillsFamily
