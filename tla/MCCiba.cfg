SPECIFICATION Spec
CONSTANTS
  a1 = a1
  a2 = a2
  u1 = u1
  u2 = u2
  c1 = c1
  c2 = c2
  c3 = c3
  Usernames = {u1, u2}
  AccountIds = {a1, a2}
  CredentialIds = {c1, c2, c3}
  UsernameOf <- OneUsername
  AccountOf <- Owners
  RequestIds = {q1, q2}
  Browsers = {b1, b2}
  ConsentRequests = {k1, k2}
  Nobody = Nobody
  None = None
SYMMETRY Symmetry
CHECK_DEADLOCK FALSE
INVARIANTS
  SessionsAreOneUsers
  CompleteWasApproved
PROPERTIES
  ImplementsBackchannelLogin
