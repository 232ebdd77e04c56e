SPECIFICATION Spec
CONSTANTS
  AccountIds = {a1}
  Emails = {e1}
  EmailRequests = {r1, r2}
  FailedAttemptsLimit = 1
  MaxCode = 2
  None = None
SYMMETRY Symmetry
CHECK_DEADLOCK FALSE
PROPERTIES
  BurntCodeRefused
