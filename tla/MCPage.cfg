SPECIFICATION FairSpec
CONSTANTS
  MaxSubmissions = 2
  MaxDialogs = 6
  Toasts = {"saved", "news"}
  Timed = {"saved"}
  Closable = {"saved"}
  MaxShows = 2
  MaxRemovals = 2
  GravityOf <- AllOnTop
  PositionOf <- NewsInTheCenter
  PositionLeft = {"saved"}
  Narrow = TRUE
  Nobody = Nobody
  Links = {"a", "b", "mail"}
  Preloadable = {"a", "b"}
  NoLink = NoLink
  Delay = 2
  Increases = {1}
  MaxGiven = 4
  MaxClock = 6
  Preferred = "confirm"
  OptionValues <- SomeValues
  Falsy = {"zero"}
INVARIANTS
  NoOrphanWaiting
  LastWordIsOutcome
  PointerPauses
  CountdownRuns
  NoneOverlap
  NothingPrefetchedIdly
  TimerIsExact
  LoaderGivesBack
  ConfirmsChoice
PROPERTIES
  FocusIsTrapped
  WaitingGoesAway
  ToastGoesAway
CHECK_DEADLOCK FALSE
