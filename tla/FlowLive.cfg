SPECIFICATION FairSpec
CONSTANTS
  Requests = {r1, r2, r3, r4}
  Users = {u1}
  Clients = {c1}
  Scopes = {openid, offline}
  OpenId = openid
  OfflineAccess = offline
  OfflineClients = {c1}
  Prompts <- PlainPrompt
  MaxAges = {Absent}
  Hints = {Absent}
  TxnLifetime = 2
  MaxAttempts = 1
  AtomicStore = TRUE
  MaxInFlight = 2
  MaxTime = 0
  Absent = Absent
CHECK_DEADLOCK FALSE
PROPERTIES
  RequestsEnd
  WithdrawalCompletes
