CONSTANTS
  Params <- MCParams
  Values <- MCValues
  Names <- MCNames
  LengthOf <- MCLengthOf
  Keys <- FirstKeys
  Candidates <- FirstCandidates
  Installed <- FirstInstalled
  MaxRequests = 3
  MaxInFlight = 1
SPECIFICATION Spec
PROPERTY NewRequiredAreSet
CHECK_DEADLOCK FALSE
