CONSTANTS
  Params <- MCParams
  Values <- MCValues
  Names <- MCNames
  LengthOf <- MCLengthOf
  Keys <- MCKeys
  Candidates <- MCCandidates
  Installed <- MCInstalled
  MaxRequests = 3
  MaxInFlight = 2
SPECIFICATION Spec
INVARIANTS TypeOK RefsResolve AwaitedAreMarked UploadersSeeScanValues
PROPERTIES DeletedUnreferenced UpdateKeepsDependants ConditionsAgree
CHECK_DEADLOCK FALSE
