SPECIFICATION Spec
CONSTANTS
  Token = {t1, t2, t3}
  NoToken = NoToken
  Request = {r1, r2}
  IdleWindow = 2
  ActivityInterval = 1
  MaxClock = 1
  Lifetime <- MCLifetime
SYMMETRY Symmetry
INVARIANT NeverRecreated
