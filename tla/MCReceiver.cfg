SPECIFICATION FairSpec
CONSTANTS
  NumTransfers = 2
  Packets <- MCTwo
  Format <- MCFiles
  MaxPackets = 3
  MaxDamage = 1
  UdpCells = 5
  ScanCells = 8
  Expected = 0
  MaxAttempts = 1
  Registers = TRUE
  Duplicates = TRUE
INVARIANTS ChecksFindTheFile RegisteredIsPeer TempFilesGone
PROPERTIES WholeIsSaved RunEnds
CHECK_DEADLOCK FALSE
