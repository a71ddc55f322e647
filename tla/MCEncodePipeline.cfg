SPECIFICATION Spec
CONSTANTS
  FrameCount = 3
  Encoders = {e1, e2}
  QueueCapacity = 1
  BatchHoldsBack = 1
  WrapQueueFrames = 1
  HeldLimit = 2
  Wraps = {TRUE, FALSE}
INVARIANTS TypeOK SuccessIsComplete NothingHalfLeft FramesConserved
PROPERTIES WrapKeepsItsPromise RunReturns
