SPECIFICATION Spec
CONSTANTS
  r1 = r1
  r2 = r2
  r3 = r3
  e1 = e1
  e2 = e2
  NoContent = NoContent
  Requests <- MCRequests
  Contents <- MCContents
  Lease = 2
  Window = 2
  Limit = 2
  MaxTime = 3
SYMMETRY GatewaySymmetry
INVARIANTS
  TypeOK
  PublishedMeansOnTopic
  OneContent
  DuplicateOnlyAfterFault
  RateIsLimited
PROPERTY PublishedIsFinal
CHECK_DEADLOCK FALSE
