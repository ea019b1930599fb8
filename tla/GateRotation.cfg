SPECIFICATION Spec
CONSTANTS
  Session = {s1, s2}
  NoSession = NoSession
  Password = {p1, p2}
  NoPassword = NoPassword
  Secret = {k1}
  NoSecret = NoSecret
  Code = {c1}
  Request = {r1, r2}
  Nobody = Nobody
  Terminal = FALSE
  MaxStep = 0
SYMMETRY Symmetry
INVARIANT ChangedSessionIsRotated
