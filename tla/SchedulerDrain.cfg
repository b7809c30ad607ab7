CONSTANTS
  N = 4
  MaxMalformed = 1
  Capacity = 2
  Signals = 1
  MaxFaults = 1
SPECIFICATION FairSpec
INVARIANT TypeOK
INVARIANT InOrder
INVARIANT LossIsExplained
PROPERTY CrawlerExitEnds
