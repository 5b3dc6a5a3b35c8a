SPECIFICATION FairSpec
CONSTANTS
  Pairings <- AllPairs
  MaxIce = 2
  MaxData = 1
  RelayAppendsNewline = FALSE
  TimeoutsHappen = TRUE
  CrashesHappen = TRUE
CHECK_DEADLOCK FALSE
INVARIANTS CandidatesComplete AnswerComesFirst NoFalseLoss
PROPERTIES ExchangeCompletes LossEndsExchange
