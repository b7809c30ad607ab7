CONSTANTS
  k1 = k1
  Kids = {k1}
  TTLSecondsAfterFinished = 1
  Requeue = 1
  StaleReads = TRUE
  MaxTime = 3
  MaxFaults = 1
SPECIFICATION FairSpec
INVARIANTS TypeOK CompletedAfterChildren RestIsSettled
PROPERTIES RecordIsFinal NoEarlyDeletion CompletionFollows
CHECK_DEADLOCK FALSE
