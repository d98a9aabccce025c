SPECIFICATION AloneSpec
CONSTANTS
  f1 = f1
  m1 = m1
  short = short
  long = long
  Files = {f1}
  Models = {m1}
  ModelOf <- MCModelOf
  Contents = {short, long}
  CompressedSize <- MCCompressedSize
  FileChunkSize = 2
  ClientOversized = {}
  NoContent = NoContent
  Garbage = Garbage
  RetryMaxAttempts = 2
  MaxRequests = 1
  MaxManualRetries = 1
  MaxPackets = 5
  None = None
INVARIANTS StoreIntegrity SendBudget Watched
CHECK_DEADLOCK FALSE
