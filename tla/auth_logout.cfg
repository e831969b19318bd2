SPECIFICATION Spec
CONSTANTS
  Emails = {e1, e2}
  Passwords = {p1, p2}
  Reqs = {r1, r2}
  NoEmail = NoEmail
  NoPassword = NoPassword
  MaxTokens = 4
SYMMETRY Symmetry
INVARIANTS LogoutEndsSession
CHECK_DEADLOCK FALSE
