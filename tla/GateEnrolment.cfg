SPECIFICATION Spec
CONSTANTS
  Session = {s1, s2}
  NoSession = NoSession
  Password = {p1}
  NoPassword = NoPassword
  Secret = {k1, k2}
  NoSecret = NoSecret
  Code = {c1, c2}
  Request = {r1, r2}
  Nobody = Nobody
  Terminal = TRUE
  MaxStep = 0
SYMMETRY Symmetry
INVARIANTS TypeOK PasswordAloneOnlyWithoutMFA EnabledSecretIsProven CodesBelongToSecret
