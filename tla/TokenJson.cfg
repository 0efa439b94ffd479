SPECIFICATION Spec
CONSTANTS
  AccessTokenFormat = "jwt"
  Grants = {g1}
  Clients = {c1}
  RefreshClients = {c1}
  Scopes = {offline}
  OfflineAccess = offline
  Requests = {r1, r2, r3}
  CodeLifetime = 1
  AccessLifetime = 1
  RefreshLifetime = 2
  MaxTime = 2
  Absent = Absent
  AtomicStore = FALSE
  MaxInFlight = 2
CHECK_DEADLOCK FALSE
SYMMETRY RequestSymmetry
INVARIANTS
  ReplayDetectable
  SpentHasSuccessor
  AbsoluteLifetime
PROPERTIES
  NoRevival
  ImplementsLifecycle
