SPECIFICATION FairSpec
CONSTANTS
  MaxDialogs = 3
  Options <- PageOptions
  Updates <- PageUpdates
  PageElements = {"header", "main"}
  Marked = {"header"}
  Slots = {"p"}
  None = None
CHECK_DEADLOCK FALSE
INVARIANTS
  OneDialogAlive
  PageReachable
  TimerIsOfLatest
PROPERTIES
  ConfirmedByItsHook
  ImplementsDialogs
  SettledIsDisposed
