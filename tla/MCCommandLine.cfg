CONSTANTS
  None = None
  Torn = Torn
  p1 = p1
  p2 = p2
  MaxEvents = 5
  providerOf <- Providers
  Params <- AnyFlags
  PageSize = 2
  MaxRuns = 3
  Flags <- CertificateFlags
  OwnFiles <- Own
  MaxKeys = 4
SPECIFICATION SessionSpec
INVARIANTS
  NothingSkipped
  GeneratedIsAccepted
  KeysAreKept
PROPERTIES
  FollowShowsAll
CHECK_DEADLOCK FALSE
