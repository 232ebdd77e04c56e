SPECIFICATION Spec
CONSTANTS
  CredentialIds = {c1, c2}
  AccountIds = {a1, a2}
  Usernames = {u1}
  Browsers = {b1, b2}
  MaxCounter = 0
  FirstCounter <- MintedCounter
  None = None
  RegistrationRequests = {r1, r2}
  LoginRequests = {l1}
  DeviceRequests = {}
  LoginNames = {u1, None}
  Counterless = {c1, c2}
SYMMETRY Symmetry
CHECK_DEADLOCK FALSE
INVARIANTS
  OneAccountPerUsername
