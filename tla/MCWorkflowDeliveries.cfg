SPECIFICATION FairSpec
CONSTANTS
  d1 = d1
  d2 = d2
  c1 = c1
  c2 = c2
  p1 = p1
  p2 = p2
  NoPlan = NoPlan
  Deliveries <- TwoDeliveries
  Callbacks = {}
  Plans <- TwoPlans
  NumSteps = 1
  MaxAttempts = 1
  DependsOn <- Sequential
  UserTargets <- CancelOrRetry
INVARIANTS
  TypeOK
  AckedMeansHandled
  OnePlan
PROPERTIES
  RecordIsMonotonic
  EventHandled
CHECK_DEADLOCK FALSE
