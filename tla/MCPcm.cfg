CONSTANTS
  Mono = TRUE
  FrameSize = 4
  QueueSize = 4
  WriteSizes = {4, 12}
  ReadSizes = {2, 4}
  Polls = 2
  Latencies = {0, 1, 2}
  Word = 256
  MaxBytes = 24
  MaxPresented = 7
SPECIFICATION PcmFairSpec
INVARIANT DataContiguous
INVARIANT FrameAligned
INVARIANT PositionBounded
PROPERTY WriteReturns
