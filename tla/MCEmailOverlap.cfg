SPECIFICATION Spec
CONSTANTS
  AccountIds = {a1, a2}
  Emails = {e1, e2}
  EmailRequests = {r1, r2}
  FailedAttemptsLimit = 1
  MaxCode = 3
  None = None
SYMMETRY Symmetry
CHECK_DEADLOCK FALSE
PROPERTIES
  AttemptsForgottenOnlyWhenOvertaken
  ImplementsAddressProof
