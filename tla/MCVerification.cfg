SPECIFICATION Spec
CONSTANTS
  None = None
  NoAaGuid = "zero"
  AppAaGuids = {"dev", "prod"}
  DevAaGuid = "dev"
  AppleAppRoot = "maker"
  Minute = 1
  Ceremonies = {c1, c2}
  Authenticators = {"a1", "a2"}
  Pairings <- PairingsChecked
  Entries <- EntriesChecked
  Sites = {"home", "other"}
  Home = "home"
  AaGuids = {"zero", "m1", "dev", "prod"}
  Undesired = {"revoked"}
  Conformance = FALSE
  MaxTime = 2
  MaxAnswers = 2
  MaxResults = 2
SYMMETRY Symmetry
CHECK_DEADLOCK FALSE
INVARIANTS
  AttestedHere
  MintedForThisSite
  GenuineModel
  SignedHere
