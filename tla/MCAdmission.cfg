SPECIFICATION Spec
CONSTANTS
  owner = owner
  alice = alice
  bob = bob
  crm = crm
  i1 = i1
  i2 = i2
  w1 = w1
  w2 = w2
  NoOne = NoOne
  NoTx = NoTx
  Subjects = {owner, alice, bob}
  Organizations = {crm}
  Invitations = {i1, i2}
  Workers = {w1, w2}
  Emails = {"owner@x", "team@x"}
  Roles = {"auditor"}
  EmailOf <- MCEmailOf
  NoMember <- MCNoMember
  NoInvite <- MCNoInvite
  MaxOrganizations = 1
  MaxCommits = 7
SYMMETRY Symmetry
INVARIANTS
  TypeOK
  MembershipFromInvitation
  OwnerStays
  AuditCountsVersions
PROPERTIES
  NewAccessIsCurrent
  ImplementsAtomic
CHECK_DEADLOCK FALSE
