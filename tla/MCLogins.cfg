SPECIFICATION Spec
CONSTANTS
  CredentialIds = {c1}
  AccountIds = {a1, a2}
  Usernames = {u1}
  Browsers = {b1, b2}
  MaxCounter = 3
  FirstCounter <- MintedCounter
  None = None
  RegistrationRequests = {r1}
  LoginRequests = {l1, l2}
  DeviceRequests = {d1}
  LoginNames = {None}
  Counterless = {}
SYMMETRY Symmetry
CHECK_DEADLOCK FALSE
INVARIANTS
  CounterBehindAuthenticator
PROPERTIES
  CounterFallsOnlyWhenOvertaken
  ImplementsOwnership
