SPECIFICATION LinkSpec
CONSTANTS
  Total = 2
  Window = 2
  Retries = 2
  ResetRetries = 1
  Modes <- MCModes
  MaxTransfers = 2
  SessionIds <- MCSessionIds
  CoalesceCount = 2
INVARIANTS WindowIsInterval WindowBounded AckedWasAccepted
CHECK_DEADLOCK FALSE
VIEW MCView
