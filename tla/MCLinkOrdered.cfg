SPECIFICATION OrderedFairSpec
CONSTANTS
  Total = 2
  Window = 2
  Retries = 2
  ResetRetries = 1
  Modes <- MCModes
  MaxTransfers = 2
  SessionIds <- MCSessionIds
  CoalesceCount = 2
  MaxQueue = 2
INVARIANTS AckedIsHeld
PROPERTIES TransferEnds
CHECK_DEADLOCK FALSE
