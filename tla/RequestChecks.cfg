SPECIFICATION Spec
CONSTANTS
  LoopbackHosts = {"localhost"}
  Absent = Absent
  Structured = Structured
  Registry <- TheRegistry
  Configs <- TheConfigs
  Sound <- TheSound
  Alternatives <- TheAlternatives
  MaxChanges = 3
  ScopeClaims <- TheScopeClaims
  AnyValue = AnyValue
CHECK_DEADLOCK FALSE
INVARIANTS
  AnswersReachTheClient
  ObjectSupersedes
  ObjectIsTheClients
  FlowMayAssume
  AcceptsWhatIsAcceptable
  NoDowngrade
  StrangersLookLikeClients
  ReadersAgree
  ClaimsAreCalledFor
  HintIsOnlyAHint
