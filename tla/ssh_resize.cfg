SPECIFICATION FairSpec
CONSTANTS
  Conn = {"c1"}
  Chan <- OneChan
  NoChan = "none"
  End <- Ends
  Owner <- OwnerOf
  Kind <- ShellAndExec
  Says <- Resizing
  Modes <- AnyMode
  ChunkLen = 2
  BufLen = 1
  MaxSaid = 3
  connection_backlog = 1
  channel_backlog = 1
CHECK_DEADLOCK FALSE
PROPERTY RecvReturns
