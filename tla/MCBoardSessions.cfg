SPECIFICATION Spec
SYMMETRY PeerSymmetry
CONSTANTS
  p1 = p1
  p2 = p2
  NoPeer = NoPeer
  Peers <- MCPeers
  NumBlocks = 1
  BlockBytes = 3
  LbBytes = 3
  Lens <- MCLens
  Sessions = {1, 2}
  CrcModes <- MCCrc
  CoalesceCount = 2
  HistoryDepth = 1
  MaxSeq = 2
  MaxResets = 2
INVARIANTS OkIsTrue
PROPERTIES RefusalsFlushOk SessionStartsQuiet HostSpec
