SPECIFICATION EndFairSpec
CONSTANTS
  Total = 2
  Window = 2
  Retries = 2
  ResetRetries = 0
  Modes <- MCModes
  MaxTransfers = 1
  SessionIds <- MCSessionIds
  NumBlocks = 1
  BlockBytes = 2
  LbBytes = 2
  CoalesceCount = 2
  HistoryDepth = 1
  ChunkLen <- MCChunkLen
  MaxQueue = 2
INVARIANTS AckedIsOnItsWay
PROPERTIES CableSpec DoneReachesAir
CHECK_DEADLOCK FALSE
