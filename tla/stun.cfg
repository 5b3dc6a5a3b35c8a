SPECIFICATION FairSpec
CONSTANTS
  None = None
  Bad = Bad
  Server <- Pair
  Conn = {1, 2}
  server_of <- AllToA
  MAX_TCP_CONNECTIONS = 1
  OutCap = 1
  MaxAsk = 2
  MaxFaults = 1
  attempts = 2
  probe_conn = 1
  Scenarios <- AllScenarios
CHECK_DEADLOCK FALSE
INVARIANTS TypeOK ReportIsTrue QuietNetworkIsExact Accounted
PROPERTIES ProbeEnds SlotsComeBack
