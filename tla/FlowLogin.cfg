SPECIFICATION Spec
CONSTANTS
  Requests = {r1, r2, r3, r4}
  Users = {u1}
  Clients = {c1}
  Scopes = {openid, offline}
  OpenId = openid
  OfflineAccess = offline
  OfflineClients = {c1}
  Prompts <- ForcedPrompts
  MaxAges = {0, 1}
  Hints = {Absent}
  TxnLifetime = 2
  MaxAttempts = 2
  AtomicStore = TRUE
  MaxInFlight = 2
  MaxTime = 2
  Absent = Absent
CHECK_DEADLOCK FALSE
SYMMETRY RequestSymmetry
INVARIANTS
  AuthenticationIsFresh
  LockoutHolds
