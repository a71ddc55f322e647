SPECIFICATION LoadedSpec
CONSTANTS
  FrameCount = 3
  Encoders = {e1}
  Loaders = {l1}
  QueueCapacity = 1
  BatchHoldsBack = 0
  WrapQueueFrames = 1
  HeldLimit = 2
  Wraps = {TRUE, FALSE}
PROPERTY LoadedRunReturns
CHECK_DEADLOCK FALSE
