SPECIFICATION Spec
CONSTANTS
  Requests = {r1, r2, r3, r4, r5}
  Users = {u1, u2}
  Clients = {c1}
  Scopes = {openid, email, offline}
  OpenId = openid
  OfflineAccess = offline
  OfflineClients = {c1}
  Prompts <- SignOnPrompts
  MaxAges = {Absent}
  Hints = {Absent}
  TxnLifetime = 1
  MaxAttempts = 1
  AtomicStore = TRUE
  MaxInFlight = 2
  MaxTime = 0
  Absent = Absent
CHECK_DEADLOCK FALSE
SYMMETRY Symmetry
INVARIANTS
  TypeOK
  SilenceHasConsent
  EveryGrantIndexed
