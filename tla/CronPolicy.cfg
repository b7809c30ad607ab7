CONSTANTS
  Period = 2
  Specs <- SomeSpecs
  SuccessfulJobsHistoryLimit = 1
  FailedJobsHistoryLimit = 1
  MaxActive = 1
  MaxMissed = 1
  StaleReads = TRUE
  MaxTime = 5
  MaxFaults = 1
  MaxEdits = 1
SPECIFICATION Spec
INVARIANTS TypeOK PolicyKept RunOnce RestIsScheduled
CHECK_DEADLOCK FALSE
