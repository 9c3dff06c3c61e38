SPECIFICATION Spec
CONSTANTS
  r1 = r1
  r2 = r2
  r3 = r3
  p1 = p1
  NoPlan = NoPlan
  Requests <- MCRequests
  Targets <- MCTargets
  Plans <- MCPlans
  Clocks <- MCClocks
  Foresight = 0
SYMMETRY RequestSymmetry
INVARIANTS
  TypeOK
  AuditExplainsChange
  AnswerMatchesAudit
PROPERTY GraphRespected
CHECK_DEADLOCK FALSE
