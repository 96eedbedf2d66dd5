SPECIFICATION Spec
CONSTANTS
  p1 = p1
  NoPeer = NoPeer
  Peers <- MCPeers
  NumBlocks = 2
  BlockBytes = 2
  LbBytes = 1
  Lens <- MCLens
  Sessions = {1}
  CrcModes <- MCCrc
  CoalesceCount = 2
  HistoryDepth = 2
  MaxSeq = 4
  MaxResets = 1
INVARIANTS TypeOK BlockOwnership AirIsPrefix NothingLost OkLengthRemembered BusyMeansFull LoopbackContiguous
PROPERTIES FatalIsFinal StartsOnIdleChannels PipeSpec
