CONSTANTS
  NScan = 1
  NUp = 0
  TTLSecondsAfterFinished = 1
  TTLSecondsMaxLifetime <- NoTTL
  UnknownRequeue = 1
  StaleReads = TRUE
  MaxTime = 2
  MaxFaults = 1
  MaxRestarts = 0
  MaxPodLosses = 0
  MaxPods = 2
SPECIFICATION FairSpec
PROPERTIES FinishIsRecorded DeletionFinishes TTLIsHonoured
CHECK_DEADLOCK FALSE
