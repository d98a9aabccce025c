SPECIFICATION Spec
CONSTANTS
  p1 = p1
  f1 = f1
  f2 = f2
  f3 = f3
  m1 = m1
  m2 = m2
  short = short
  long = long
  Players = {p1}
  Files = {f1, f2, f3}
  Models = {m1, m2}
  ModelOf <- MCModelOf
  Contents = {short, long}
  CompressedSize <- MCCompressedSize
  FileChunkSize = 2
  Oversized = {}
  NoContent = NoContent
  Garbage = Garbage
  ChunksPerPlayerPerTick = 1
  MaxActiveTransfersPerPlayer = 2
INVARIANTS TypeOK OneTransferPerFile FirstComeFirstServed WorkConserving TransferLimit QueueIsLive
PROPERTIES ImplementsStreams TransfersEnd
