CONSTANTS
  s1 = s1
  s2 = s2
  u1 = u1
  Scanners <- MCScanners
  Uploaders <- MCUploaders
  MaxFaults = 2
SPECIFICATION FairSpec
INVARIANT TypeOK
INVARIANT UploadsAfterScans
INVARIANT SuccessIsComplete
PROPERTY WaitEndsUnlessFault
PROPERTY StopEnds
