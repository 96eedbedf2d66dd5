SPECIFICATION Spec
CONSTANTS
  NumTransfers = 1
  Packets <- MCFour
  Format <- MCVideo
  MaxPackets = 4
  MaxDamage = 0
  UdpCells = 4
  ScanCells = 8
  Expected = 0
  MaxAttempts = 0
  Registers = FALSE
  Duplicates = FALSE
INVARIANTS ArrivedIsTaken
CHECK_DEADLOCK FALSE
