SPECIFICATION FairSpec
CONSTANTS
  Lengths <- Payloads
  HeaderLen = 4
  max_frame = 3
  ReadChunk = 5
  DetectLen = 3
  NetCap = 6
  InboxCap = 1
  AppBuf = 2
  MultiLine = 3
  max_messages = 2
  max_bytes = 3
CHECK_DEADLOCK FALSE
INVARIANTS TypeOK BytesInOrder MemoryBounded
PROPERTIES FrameQueueSpec FramesArrive LossIsNoticed
