SPECIFICATION Spec
CONSTANTS
  Requests = {r1, r2, r3, r4}
  Users = {u1, u2}
  Clients = {c1}
  Scopes = {openid, offline}
  OpenId = openid
  OfflineAccess = offline
  OfflineClients = {c1}
  Prompts <- AllPrompts
  MaxAges = {Absent}
  Hints = {Absent, u2}
  TxnLifetime = 1
  MaxAttempts = 2
  AtomicStore = FALSE
  MaxInFlight = 1
  MaxTime = 1
  Absent = Absent
CHECK_DEADLOCK FALSE
SYMMETRY RequestSymmetry
INVARIANTS
  OneCodePerTransaction
  SilenceHasConsent
PROPERTIES
  ClosedIsFinal
