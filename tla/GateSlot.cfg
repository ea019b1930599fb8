SPECIFICATION SlotSpec
CONSTANTS
  Session = {s1}
  NoSession = NoSession
  Password = {p1}
  NoPassword = NoPassword
  Secret = {k1}
  NoSecret = NoSecret
  Code = {c1}
  Request = {r1, r2}
  Nobody = Nobody
  Terminal = FALSE
  MaxStep = 0
  Window = {w1, w2}
  MaxSessions = 2
  MaxEvents = 2
INVARIANT ReadyHasToken
PROPERTIES SlotComesBack GateFollowsServer
