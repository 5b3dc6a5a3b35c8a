SPECIFICATION Spec
CONSTANTS
  Pairings <- BrowserPair
  MaxIce = 2
  MaxData = 0
  RelayAppendsNewline = FALSE
  TimeoutsHappen = TRUE
  CrashesHappen = FALSE
CHECK_DEADLOCK FALSE
INVARIANT NoTimeoutWhileOpen
