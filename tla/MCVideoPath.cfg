SPECIFICATION PathSpec
CONSTANTS
  NumFrames = 5
  FragCount <- MCFragCount
  KeyFrames = {1, 5}
  MaxIncomplete = 1
  QueueLimit = 2
  ResultLimit = 1
  NumSessions = 1
  Failures = TRUE
VIEW MCView
INVARIANTS CountsExact ShownIffWhole QueueIsChain
PROPERTIES PreviewHolds
CHECK_DEADLOCK FALSE
