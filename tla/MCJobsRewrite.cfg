SPECIFICATION Spec
CONSTANTS
  MaxJobs = 2
  MaxStops = 1
INVARIANT NothingQueuedIsLost
CHECK_DEADLOCK FALSE
