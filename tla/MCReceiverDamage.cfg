SPECIFICATION Spec
CONSTANTS
  NumTransfers = 2
  Packets <- MCLong
  Format <- MCMixed
  MaxPackets = 4
  MaxDamage = 2
  UdpCells = 4
  ScanCells = 7
  Expected = 0
  MaxAttempts = 0
  Registers = FALSE
  Duplicates = FALSE
INVARIANTS PassedMeansTaken RawSaveIsWhole
CHECK_DEADLOCK FALSE
