CONSTANTS
  NScan = 1
  NUp = 1
  TTLSecondsAfterFinished = 1
  TTLSecondsMaxLifetime <- NoTTL
  UnknownRequeue = 1
  StaleReads = TRUE
  MaxTime = 2
  MaxFaults = 1
  MaxRestarts = 1
  MaxPodLosses = 0
  MaxPods = 2
SPECIFICATION Spec
INVARIANTS TypeOK RestIsSettled OutcomeIsThePods
PROPERTIES FollowsLifecycle NoEarlyDeletion
CHECK_DEADLOCK FALSE
