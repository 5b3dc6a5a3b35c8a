SPECIFICATION FairSpec
CONSTANTS
  Conn = {"c1", "c2"}
  NoConn = "none"
  Setups <- SomeSetups
  Clients <- SomeClients
  channel_cap = 1
CHECK_DEADLOCK FALSE
INVARIANTS TypeOK RoutedByFirstMessage NobodyIsTurnedAway
PROPERTY EveryTalkerIsRouted
