SPECIFICATION FairSpec
CONSTANTS
  p1 = p1
  p2 = p2
  Peer = {p1, p2, p3}
  Room = {r1, r2}
  NoPeer = NoPeer
  Stream = {}
  MaxSend = 0
  LineEnds <- Silent
  OutCap = 1
CHECK_DEADLOCK FALSE
INVARIANTS SlotOwnership LockHeldOnlyForFirstLine
PROPERTY JoinIsDecided
