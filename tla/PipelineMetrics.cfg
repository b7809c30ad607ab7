CONSTANTS
  NScan = 1
  NUp = 0
  TTLSecondsAfterFinished <- NoTTL
  TTLSecondsMaxLifetime = 0
  UnknownRequeue = 1
  StaleReads = TRUE
  MaxTime = 1
  MaxFaults = 1
  MaxRestarts = 0
  MaxPodLosses = 1
  MaxPods = 2
SPECIFICATION Spec
INVARIANTS GaugeExact CompletionCountedOnce
PROPERTIES NeverRerun
CHECK_DEADLOCK FALSE
