---------------------------- MODULE MCAdmission ----------------------------
EXTENDS AdmissionStore, TLC

CONSTANTS owner, alice, bob, crm, i1, i2, w1, w2

\* Two provider accounts of one e-mail address besides the owner.
MCEmailOf == [s \in Subjects |-> IF s = owner THEN "owner@x" ELSE "team@x"]
MCNoMember == [active |-> FALSE, role |-> "auditor", version |-> 0]
MCNoInvite ==
  [email |-> "team@x", organization_id |-> crm, role |-> "auditor",
   invited_by |-> owner, redeemed_by |-> NoOne, revoked |-> FALSE, version |-> 0]

Symmetry == Permutations(Workers) \cup Permutations({alice, bob}) \cup Permutations(Invitations)
=============================================================================
