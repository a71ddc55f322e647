SPECIFICATION Spec
CONSTANTS
  MaxJobs = 3
  MaxStops = 1
INVARIANTS TypeOK ListedExactlyOnce FileMatchesQueue CancelHitsItsJob ExitCancelsWhatRuns
PROPERTIES FinishedStaysFinished StopsKeepTheQueue
CHECK_DEADLOCK FALSE
