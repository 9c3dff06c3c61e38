SPECIFICATION FairSpec
CONSTANTS
  d1 = d1
  d2 = d2
  c1 = c1
  c2 = c2
  p1 = p1
  p2 = p2
  NoPlan = NoPlan
  Deliveries <- OneDelivery
  Callbacks <- OneCallback
  Plans <- OnePlanOnly
  NumSteps = 2
  MaxAttempts = 2
  DependsOn <- Sequential
  UserTargets = {}
INVARIANT MutationIsGoverned
PROPERTY CallbackEnds
CHECK_DEADLOCK FALSE
