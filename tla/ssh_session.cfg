SPECIFICATION FairSpec
CONSTANTS
  Conn = {"c1", "c2"}
  Chan <- TwoChan
  NoChan = "none"
  End <- Ends
  Owner <- OwnerOf
  Kind <- ShellAndExec
  Says <- Dialogue
  Modes <- DialogueModes
  ChunkLen = 2
  BufLen = 1
  MaxSaid = 3
  connection_backlog = 1
  channel_backlog = 1
CHECK_DEADLOCK FALSE
INVARIANTS TypeOK NobodyIsForgotten ServedInTurn NothingIsSwallowed
PROPERTY LineMovesOn
