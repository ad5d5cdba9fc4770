SPECIFICATION Spec
CONSTANTS
  MaxNonce = 4
  ChunkSize = 2
  WireLimit = 4
  Sizes = {0, 3, 4}
  ReplySizes = {0, 1}
  MaximumPayload = 3
  OutboxLimit = 3
  KernelLimit = 1
  MaxFrames = 2
  MaxPublished = 1
INVARIANTS MinerDecryptsAll FramesArriveIntact
PROPERTIES OutboxDrains
CHECK_DEADLOCK FALSE
