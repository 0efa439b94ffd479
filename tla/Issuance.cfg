SPECIFICATION Spec
CONSTANTS
  Grants = {g1, g2}
  Requests = {r1, r2, r3}
  Users = {"u1", "u2"}
  Clients = {"c1", "c2"}
  Scopes <- AnyScope
  Audiences = {"userinfo", "api"}
  Nonces = {"n1", Absent}
  AcrRequests = {"high", "low", Absent}
  Acrs = {"gold", "silver", "bronze", Absent}
  Authorizations <- TheAuthorizations
  AcrResolver <- TheResolver
  RandomNames = FALSE
  UserInfoEndpoint = "userinfo"
  CodeLifetime = 1
  AccessLifetime = 2
  RefreshLifetime = 3
  MaxTime = 3
  Absent = Absent
CHECK_DEADLOCK FALSE
SYMMETRY Symmetry
INVARIANTS
  ContextSurvives
  DroppedStaysDropped
  AnsweredIsActive
  RevocationReaches
