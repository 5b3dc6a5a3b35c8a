SPECIFICATION ReadingSpec
CONSTANTS
  p1 = p1
  p2 = p2
  Peer = {p1, p2}
  Room = {r1}
  NoPeer = NoPeer
  Stream = {p1}
  MaxSend = 3
  LineEnds <- Texts
  OutCap = 1
CHECK_DEADLOCK FALSE
INVARIANT NoLossOnTheWay
PROPERTIES SessionSpec LeaverIsAnnounced QueuedIsDelivered
