SPECIFICATION Spec
CONSTANTS
  d1 = d1
  d2 = d2
  c1 = c1
  c2 = c2
  p1 = p1
  p2 = p2
  NoPlan = NoPlan
  Deliveries <- OneDelivery
  Callbacks <- OneCallback
  Plans <- OnePlanOnly
  NumSteps = 1
  MaxAttempts = 1
  DependsOn <- Sequential
  UserTargets = {}
INVARIANT FailedMeansRestored
CHECK_DEADLOCK FALSE
