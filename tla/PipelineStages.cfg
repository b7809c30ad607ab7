CONSTANTS
  NScan = 1
  NUp = 1
  TTLSecondsAfterFinished <- NoTTL
  TTLSecondsMaxLifetime <- NoTTL
  UnknownRequeue = 1
  StaleReads = FALSE
  MaxTime = 3
  MaxFaults = 0
  MaxRestarts = 0
  MaxPodLosses = 0
  MaxPods = 2
SPECIFICATION Spec
INVARIANT DownloadStageIsTrue
CHECK_DEADLOCK FALSE
