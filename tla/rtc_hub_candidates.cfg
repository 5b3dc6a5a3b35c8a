SPECIFICATION Spec
CONSTANTS
  Pairings <- NativePair
  MaxIce = 2
  MaxData = 0
  RelayAppendsNewline = TRUE
  TimeoutsHappen = FALSE
  CrashesHappen = FALSE
CHECK_DEADLOCK FALSE
INVARIANT RelayedCandidatesApply
