SPECIFICATION AssetSpec
CONSTANTS
  f1 = f1
  m1 = m1
  long = long
  Player = me
  Files = {f1}
  Models = {m1}
  ModelOf <- MCModelOf
  Contents = {long}
  CompressedSize <- MCCompressedSize
  FileChunkSize = 2
  Oversized = {}
  ClientOversized = {}
  NoContent = NoContent
  Garbage = Garbage
  ChunksPerPlayerPerTick = 1
  MaxActiveTransfersPerPlayer = 1
  RetryMaxAttempts = 1
  MaxRequests = 2
  MaxManualRetries = 0
  None = None
  MaxFaults = 1
INVARIANTS CompleteAtEnd
PROPERTIES Settles
CHECK_DEADLOCK FALSE
