SPECIFICATION PartsSpec
CONSTANTS
  Half = 4
  Span = 3
  Depth = 2
  MaxChunks = 18
  Size = 9
  MaxNals = 7
  NumFrames = 2
  KeyFrames = {1}
  QueueLimit = 1
  ResultLimit = 1
  NumSessions = 2
  Failures = FALSE
INVARIANTS VerdictIsRight CoverageExact FramesAreTheStream FrameIsPicture
PROPERTIES IsByteSet StopEndsWorker QueuedIsDecoded
CHECK_DEADLOCK FALSE
