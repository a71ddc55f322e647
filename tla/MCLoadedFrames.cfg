SPECIFICATION LoadedSpec
CONSTANTS
  FrameCount = 3
  Encoders = {e1}
  Loaders = {l1, l2}
  QueueCapacity = 1
  BatchHoldsBack = 2
  WrapQueueFrames = 1
  HeldLimit = 2
  Wraps = {TRUE}
INVARIANTS LoadedTypeOK EveryLoadedFrameIsEncoded
PROPERTY UntroubledRunReturns
CHECK_DEADLOCK FALSE
