SPECIFICATION ResumeSpec
CONSTANTS
  FrameCount = 2
  Encoders = {e1, e2}
  QueueCapacity = 2
  BatchHoldsBack = 0
  WrapQueueFrames = 1
  HeldLimit = 2
  Wraps = {FALSE}
  MaxRestarts = 1
INVARIANT NoTruncatedFrameStays
CHECK_DEADLOCK FALSE
