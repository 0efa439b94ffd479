SPECIFICATION CascadeSpec
CONSTANTS
  AccessTokenFormat = "jwt"
  Requests = {r1, r2, r3, r4}
  Users = {u1}
  Clients = {c1}
  Scopes = {openid, email, offline}
  OpenId = openid
  OfflineAccess = offline
  OfflineClients = {c1}
  Prompts <- AnyPrompts
  MaxAges = {Absent}
  Hints = {Absent}
  TxnLifetime = 2
  MaxAttempts = 1
  AtomicStore = TRUE
  MaxInFlight = 1
  MaxTime = 1
  Absent = Absent
  TokenRequests = {t1, t2}
  TokenMaxInFlight = 1
  CodeLifetime = 2
  AccessLifetime = 1
  RefreshLifetime = 2
  RefreshClients = {c1}
CHECK_DEADLOCK FALSE
SYMMETRY Symmetry
INVARIANTS
  WithdrawalIsFinal
  TokensTraceToConsent
PROPERTY ImplementsLifecycle
