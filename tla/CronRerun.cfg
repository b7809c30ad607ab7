CONSTANTS
  Period = 2
  Specs <- SomeSpecs
  SuccessfulJobsHistoryLimit = 0
  FailedJobsHistoryLimit = 0
  MaxActive = 1
  MaxMissed = 1
  StaleReads = FALSE
  MaxTime = 5
  MaxFaults = 0
  MaxEdits = 0
SPECIFICATION Spec
INVARIANT NeverTwice
CHECK_DEADLOCK FALSE
