SPECIFICATION Spec
CONSTANTS
  Workers = {w1, w2}
  Requests = {r1, r2}
  MaxKey = 2
  Ttl = 1
  MaxServe = 1
  Life = 1
  Ahead = 4
  Keep = 4
  MaxTime = 8
  LastSwitch = 3
  None = None
SYMMETRY Symmetry
CHECK_DEADLOCK FALSE
INVARIANTS
  RotationPickedUp
  AccessTokensVerify
