SPECIFICATION PathSpec
CONSTANTS
  NumFrames = 5
  FragCount <- MCWhole
  KeyFrames = {1, 5}
  MaxIncomplete = 1
  QueueLimit = 2
  ResultLimit = 1
  NumSessions = 1
  Failures = FALSE
INVARIANTS ChainKept
CHECK_DEADLOCK FALSE
