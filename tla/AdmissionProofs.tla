--------------------------- MODULE AdmissionProofs ---------------------------
(***************************************************************************)
(* The transactions of AdmissionStore implement Admission, and what        *)
(* follows for its documents, for any number of workers, subjects,         *)
(* organizations and invitations.                                          *)
(***************************************************************************)
EXTENDS AdmissionStore, FiniteSetTheorems, TLAPS

\* The documents the decision and the writes of op look at are among those
\* that were read.
Complete(r, op) ==
  /\ op.by \in DOMAIN r.user
  /\ op.kind \in {"set_user_status", "set_administrator", "update_membership"} =>
       op.user \in DOMAIN r.user
  /\ op.kind \in {"invite", "redeem", "revoke_invitation"} =>
       op.invitation \in DOMAIN r.invitation
  /\ op.kind \in {"create_organization", "invite", "set_org_status", "update_membership"} =>
       op.org \in DOMAIN r.org
  /\ op.kind = "update_membership" => <<op.org, op.user>> \in DOMAIN r.member
  /\ op.kind = "redeem" =>
       /\ r.invitation[op.invitation].invited_by \in DOMAIN r.user
       /\ r.invitation[op.invitation].organization_id \in DOMAIN r.org
       /\ <<r.invitation[op.invitation].organization_id, op.by>> \in DOMAIN r.member

\* What is true of an open transaction from its decision to its end.
OpenTx(w) ==
  tx[w] # NoTx =>
    /\ tx[w].op \in Operations
    /\ Complete(tx[w].read, tx[w].op)
    /\ Allowed(tx[w].read, tx[w].op)

Transactions ==
  /\ DOMAIN tx = Workers
  /\ \A w \in Workers : OpenTx(w)

-----------------------------------------------------------------------------
(* A transaction that commits decided on the documents as they are.        *)

\* What operation(tx) reads is all that its decision depends on.
LEMMA ReadIsComplete ==
  ASSUME NEW op \in Operations
  PROVE  Complete(Read(op), op)
  BY DEF Complete, Read, PartOf, UsersRead, InvitesRead, OrgsRead, MembersRead, Operations

\* A decision on unchanged copies is a decision on the documents themselves.
LEMMA DecisionStillHolds ==
  ASSUME NEW op \in Operations, NEW r, Complete(r, op), Current(r), Allowed(r, op)
  PROVE  Allowed(Store, op)
<1> DEFINE s == Store
<1>s. /\ s.bootstrap = bootstrap /\ s.user = user /\ s.org = org
      /\ s.member = member /\ s.invitation = invitation
  BY DEF Store
<1>c. /\ r.bootstrap = bootstrap
      /\ \A x \in DOMAIN r.user : r.user[x] = user[x]
      /\ \A x \in DOMAIN r.org : r.org[x] = org[x]
      /\ \A x \in DOMAIN r.member : r.member[x] = member[x]
      /\ \A x \in DOMAIN r.invitation : r.invitation[x] = invitation[x]
  BY DEF Current, Agree
<1> HIDE DEF s
<1>1. CASE op.kind = "bootstrap_owner" /\ may_bootstrap_owner(r, op)
  <2>1. may_bootstrap_owner(s, op)
    BY <1>1, <1>s, <1>c DEF Complete, may_bootstrap_owner
  <2> QED BY <1>1, <2>1 DEF Allowed, s
<1>2. CASE op.kind = "create_organization" /\ may_create_organization(r, op)
  <2>1. may_create_organization(s, op)
    BY <1>2, <1>s, <1>c DEF Complete, may_create_organization, IsAdmin
  <2> QED BY <1>2, <2>1 DEF Allowed, s
<1>3. CASE op.kind = "invite" /\ may_invite(r, op)
  <2>1. may_invite(s, op)
    BY <1>3, <1>s, <1>c DEF Complete, may_invite, IsAdmin
  <2> QED BY <1>3, <2>1 DEF Allowed, s
<1>4. CASE op.kind = "redeem" /\ may_redeem(r, op)
  <2>1. may_redeem(s, op)
    BY <1>4, <1>s, <1>c DEF Complete, may_redeem, IsAdmin
  <2> QED BY <1>4, <2>1 DEF Allowed, s
<1>5. CASE op.kind = "revoke_invitation" /\ may_revoke_invitation(r, op)
  <2>1. may_revoke_invitation(s, op)
    BY <1>5, <1>s, <1>c DEF Complete, may_revoke_invitation, IsAdmin
  <2> QED BY <1>5, <2>1 DEF Allowed, s
<1>6. CASE op.kind = "set_org_status" /\ may_set_org_status(r, op)
  <2>1. may_set_org_status(s, op)
    BY <1>6, <1>s, <1>c DEF Complete, may_set_org_status, IsAdmin
  <2> QED BY <1>6, <2>1 DEF Allowed, s
<1>7. CASE op.kind = "set_user_status" /\ may_set_user_status(r, op)
  <2>1. may_set_user_status(s, op)
    BY <1>7, <1>s, <1>c DEF Complete, may_set_user_status, IsAdmin
  <2> QED BY <1>7, <2>1 DEF Allowed, s
<1>8. CASE op.kind = "set_administrator" /\ may_set_administrator(r, op)
  <2>1. may_set_administrator(s, op)
    BY <1>8, <1>s, <1>c DEF Complete, may_set_administrator, IsAdmin
  <2> QED BY <1>8, <2>1 DEF Allowed, s
<1>9. CASE op.kind = "update_membership" /\ may_update_membership(r, op)
  <2>1. may_update_membership(s, op)
    BY <1>9, <1>s, <1>c DEF Complete, may_update_membership, IsAdmin
  <2> QED BY <1>9, <2>1 DEF Allowed, s
<1> QED BY <1>1, <1>2, <1>3, <1>4, <1>5, <1>6, <1>7, <1>8, <1>9 DEF Allowed

\* What it writes from the copies is what it would write from the documents.
LEMMA WritesTheSame ==
  ASSUME NEW op \in Operations, NEW r, Complete(r, op), Current(r), Writes(r, op)
  PROVE  Writes(Store, op)
<1> DEFINE s == Store
<1>s. /\ s.bootstrap = bootstrap /\ s.user = user /\ s.org = org
      /\ s.member = member /\ s.invitation = invitation
  BY DEF Store
<1>c. /\ r.bootstrap = bootstrap
      /\ \A x \in DOMAIN r.user : r.user[x] = user[x]
      /\ \A x \in DOMAIN r.org : r.org[x] = org[x]
      /\ \A x \in DOMAIN r.member : r.member[x] = member[x]
      /\ \A x \in DOMAIN r.invitation : r.invitation[x] = invitation[x]
  BY DEF Current, Agree
<1> HIDE DEF s
<1>1. CASE op.kind = "bootstrap_owner" /\ write_bootstrap_owner(r, op)
  <2>1. write_bootstrap_owner(s, op)
    BY <1>1, <1>s, <1>c DEF Complete, write_bootstrap_owner
  <2> QED BY <1>1, <2>1 DEF Writes, s
<1>2. CASE op.kind = "create_organization" /\ write_create_organization(r, op)
  <2>1. write_create_organization(s, op)
    BY <1>2, <1>s, <1>c DEF Complete, write_create_organization
  <2> QED BY <1>2, <2>1 DEF Writes, s
<1>3. CASE op.kind = "invite" /\ write_invite(r, op)
  <2>1. write_invite(s, op)
    BY <1>3, <1>s, <1>c DEF Complete, write_invite
  <2> QED BY <1>3, <2>1 DEF Writes, s
<1>4. CASE op.kind = "redeem" /\ write_redeem(r, op)
  <2>1. write_redeem(s, op)
    BY <1>4, <1>s, <1>c DEF Complete, write_redeem
  <2> QED BY <1>4, <2>1 DEF Writes, s
<1>5. CASE op.kind = "revoke_invitation" /\ write_revoke_invitation(r, op)
  <2>1. write_revoke_invitation(s, op)
    BY <1>5, <1>s, <1>c DEF Complete, write_revoke_invitation
  <2> QED BY <1>5, <2>1 DEF Writes, s
<1>6. CASE op.kind = "set_org_status" /\ write_set_org_status(r, op)
  <2>1. write_set_org_status(s, op)
    BY <1>6, <1>s, <1>c DEF Complete, write_set_org_status
  <2> QED BY <1>6, <2>1 DEF Writes, s
<1>7. CASE op.kind = "set_user_status" /\ write_set_user_status(r, op)
  <2>1. write_set_user_status(s, op)
    BY <1>7, <1>s, <1>c DEF Complete, write_set_user_status
  <2> QED BY <1>7, <2>1 DEF Writes, s
<1>8. CASE op.kind = "set_administrator" /\ write_set_administrator(r, op)
  <2>1. write_set_administrator(s, op)
    BY <1>8, <1>s, <1>c DEF Complete, write_set_administrator
  <2> QED BY <1>8, <2>1 DEF Writes, s
<1>9. CASE op.kind = "update_membership" /\ write_update_membership(r, op)
  <2>1. write_update_membership(s, op)
    BY <1>9, <1>s, <1>c DEF Complete, write_update_membership
  <2> QED BY <1>9, <2>1 DEF Writes, s
<1> QED BY <1>1, <1>2, <1>3, <1>4, <1>5, <1>6, <1>7, <1>8, <1>9 DEF Writes

\* Both instances count alike.
LEMMA SameCardinality == \A S : Cardinality(S) = Atomic!Cardinality(S)
  BY DEF Cardinality, Atomic!Cardinality, IsFiniteSet, Atomic!IsFiniteSet

\* The operations of the two specifications are the same.
LEMMA SamePerform ==
  ASSUME NEW op, Allowed(Store, op), Writes(Store, op)
  PROVE  Atomic!Perform(op)
<1>1. Atomic!Allowed(Atomic!Store, op)
  BY SameCardinality DEF Allowed, may_bootstrap_owner, may_create_organization, may_invite, may_redeem, may_revoke_invitation, may_set_org_status, may_set_user_status, may_set_administrator, may_update_membership, Atomic!Allowed, Atomic!may_bootstrap_owner, Atomic!may_create_organization, Atomic!may_invite, Atomic!may_redeem, Atomic!may_revoke_invitation, Atomic!may_set_org_status, Atomic!may_set_user_status, Atomic!may_set_administrator, Atomic!may_update_membership, IsAdmin, Atomic!IsAdmin, IsOpen, Atomic!IsOpen, Exists, Atomic!Exists, Store, Atomic!Store
<1>2. Atomic!Writes(Atomic!Store, op)
  BY DEF Writes, write_bootstrap_owner, write_create_organization, write_invite, write_redeem, write_revoke_invitation, write_set_org_status, write_set_user_status, write_set_administrator, write_update_membership, Atomic!Writes, Atomic!write_bootstrap_owner, Atomic!write_create_organization, Atomic!write_invite, Atomic!write_redeem, Atomic!write_revoke_invitation, Atomic!write_set_org_status, Atomic!write_set_user_status, Atomic!write_set_administrator, Atomic!write_update_membership, Joined, Atomic!Joined, Settled, Atomic!Settled, UserDoc, Atomic!UserDoc, OrgDoc, Atomic!OrgDoc, MemberDoc, Atomic!MemberDoc, Audit, Atomic!Audit, Exists, Atomic!Exists, Store, Atomic!Store
<1> QED BY <1>1, <1>2 DEF Atomic!Perform

\* Both instances have the same operations.
LEMMA SameOperations == Operations = Atomic!Operations
  BY DEF Operations, Atomic!Operations

-----------------------------------------------------------------------------
(* The refinement.                                                         *)

\* One operation of the service, decided and written on the documents.
Performed == \E op \in Operations : Allowed(Store, op) /\ Writes(Store, op)

\* A commit performs the operation on the documents it finds.
LEMMA CommitPerforms ==
  ASSUME Transactions, NEW w \in Workers, commit(w)
  PROVE  Performed
<1> DEFINE op == tx[w].op
           r == tx[w].read
<1>1. /\ op \in Operations /\ Complete(r, op) /\ Allowed(r, op)
      /\ Current(r) /\ Writes(r, op)
  BY DEF Transactions, OpenTx, commit
<1> HIDE DEF op, r
<1>2. Allowed(Store, op)
  BY <1>1, DecisionStillHolds
<1>3. Writes(Store, op)
  BY <1>1, WritesTheSame
<1> QED BY <1>1, <1>2, <1>3 DEF Performed

\* Every other step leaves the documents alone.
LEMMA StepPerforms ==
  ASSUME Transactions, [Next]_vars
  PROVE  Performed \/ UNCHANGED documents
<1>1. ASSUME NEW w \in Workers, NEW op \in Operations, begin(w, op)
      PROVE  UNCHANGED documents
  BY <1>1 DEF begin
<1>2. ASSUME NEW w \in Workers, commit(w) PROVE Performed
  BY <1>2, CommitPerforms
<1>3. ASSUME NEW w \in Workers, abort(w) PROVE UNCHANGED documents
  BY <1>3 DEF abort
<1>4. ASSUME NEW i \in Invitations, expire(i) PROVE UNCHANGED documents
  BY <1>4 DEF expire
<1>5. CASE UNCHANGED vars
  BY <1>5 DEF vars
<1> QED BY <1>1, <1>2, <1>3, <1>4, <1>5 DEF Next

\* No transaction is open at first.
LEMMA TransactionsInit == Init => Transactions
  BY DEF Init, Transactions, OpenTx

\* What an open transaction has read stays complete, and its decision allowed.
LEMMA TransactionsStep ==
  ASSUME Transactions, [Next]_vars
  PROVE  Transactions'
<1>1. ASSUME NEW w \in Workers, NEW op \in Operations, begin(w, op)
      PROVE  Transactions'
  <2> DEFINE new == [op |-> op, read |-> Read(op)]
  <2>1. Complete(new.read, new.op) /\ Allowed(new.read, new.op) /\ new.op \in Operations
    BY <1>1, ReadIsComplete DEF begin
  <2>2. tx' = [tx EXCEPT ![w] = new]
    BY <1>1 DEF begin
  <2> HIDE DEF new
  <2>3. DOMAIN tx' = Workers
    BY <2>2 DEF Transactions
  <2>4. ASSUME NEW v \in Workers PROVE OpenTx(v)'
    <3>1. CASE v = w
      BY <3>1, <2>1, <2>2 DEF Transactions, OpenTx
    <3>2. CASE v # w
      <4>1. tx'[v] = tx[v] BY <3>2, <2>2 DEF Transactions
      <4> QED BY <4>1 DEF Transactions, OpenTx
    <3> QED BY <3>1, <3>2
  <2> QED BY <2>3, <2>4 DEF Transactions
<1>2. ASSUME NEW w \in Workers, tx' = [tx EXCEPT ![w] = NoTx]
      PROVE  Transactions'
  <2>1. \A v \in Workers : tx'[v] = NoTx \/ tx'[v] = tx[v]
    BY <1>2 DEF Transactions
  <2> QED BY <1>2, <2>1 DEF Transactions, OpenTx
<1>3. CASE tx' = tx
  BY <1>3 DEF Transactions, OpenTx
<1>4. ASSUME NEW i \in Invitations, expire(i) PROVE tx' = tx
  BY <1>4 DEF expire
<1>5. ASSUME NEW w \in Workers, commit(w) \/ abort(w) PROVE tx' = [tx EXCEPT ![w] = NoTx]
  BY <1>5 DEF commit, abort
<1>6. CASE UNCHANGED vars
  BY <1>3, <1>6 DEF vars
<1> QED BY <1>1, <1>2, <1>3, <1>4, <1>5, <1>6 DEF Next

\* An open transaction decided for a whole operation on documents it read.
THEOREM TransactionsInvariant == Spec => []Transactions
  BY TransactionsInit, TransactionsStep, PTL DEF Spec

\* The optimistic transactions of any number of workers implement operations
\* that happen one at a time, each decided on the documents as they are.
THEOREM StoreImplementsAtomic == Spec => ImplementsAtomic
<1>1. Init => Atomic!Init
  BY DEF Init, NoDocuments, Atomic!Init, Atomic!NoDocuments, UserDoc, Atomic!UserDoc,
         OrgDoc, Atomic!OrgDoc, MemberKeys, Atomic!MemberKeys, Resources, Atomic!Resources
<1>2. ASSUME Transactions, [Next]_vars PROVE [Atomic!Next]_(Atomic!documents)
  <2>1. CASE Performed
    <3>1. PICK op \in Operations : Allowed(Store, op) /\ Writes(Store, op)
      BY <2>1 DEF Performed
    <3>2. Atomic!Perform(op)
      BY <3>1, SamePerform
    <3> QED BY <3>2, SameOperations DEF Atomic!Next
  <2>2. CASE UNCHANGED documents
    BY <2>2 DEF documents, Atomic!documents
  <2> QED BY <1>2, <2>1, <2>2, StepPerforms
<1> QED BY <1>1, <1>2, TransactionsInvariant, PTL DEF Spec, ImplementsAtomic, Atomic!Spec

-----------------------------------------------------------------------------
(* The invariants of the documents.                                        *)

DocumentTypes ==
  /\ bootstrap \in Subjects \cup {NoOne}
  /\ user \in [Subjects -> Users]
  /\ org \in [Organizations -> Orgs]
  /\ member \in [MemberKeys -> Memberships]
  /\ invitation \in [Invitations -> Invites]
  /\ audit \in [Resources -> Nat]

\* A document that does not exist holds nothing.
Absent ==
  \A s \in Subjects :
    /\ IsFiniteSet(user[s].organization_ids)
    /\ ~Exists(user[s]) => user[s].organization_ids = {} /\ ~user[s].owner

DInv == DocumentTypes /\ Absent /\ OwnerStays /\ MembershipFromInvitation

\* The fields of an operation.
LEMMA OperationTypes ==
  ASSUME NEW op \in Operations
  PROVE  /\ op.by \in Subjects
         /\ op.kind \in {"create_organization", "invite", "set_org_status", "update_membership"} =>
              op.org \in Organizations
         /\ op.kind \in {"invite", "redeem", "revoke_invitation"} => op.invitation \in Invitations
         /\ op.kind = "invite" => op.email \in Emails
         /\ op.kind \in {"invite", "update_membership"} => op.role \in Roles
         /\ op.kind \in {"set_user_status", "set_administrator", "update_membership"} =>
              op.user \in Subjects
         /\ op.kind \in {"set_org_status", "set_user_status", "set_administrator",
                          "update_membership"} => op.active \in BOOLEAN
  BY DEF Operations

\* The invariant holds of no documents.
LEMMA DInvInit == Init => DInv
<1> SUFFICES ASSUME Init PROVE DInv
  OBVIOUS
<1>1. DocumentTypes
  BY NoDocumentAssumption
     DEF Init, NoDocuments, DocumentTypes, Users, Orgs, UserDoc, OrgDoc
<1>2. IsFiniteSet({})
  BY FS_EmptySet
<1>3. Absent
  BY <1>2 DEF Init, NoDocuments, Absent, UserDoc, Exists
<1>4. OwnerStays
  BY NoOneAssumption DEF Init, NoDocuments, OwnerStays, UserDoc
<1>5. MembershipFromInvitation
  BY NoDocumentAssumption
     DEF Init, NoDocuments, MembershipFromInvitation, Redeemed, Exists, UserDoc, MemberKeys
<1> QED BY <1>1, <1>3, <1>4, <1>5 DEF DInv

\* An operation keeps the shape of the documents.
LEMMA DocumentTypesStep ==
  ASSUME DocumentTypes, Performed
  PROVE  DocumentTypes'
<1>1. PICK op \in Operations : Allowed(Store, op) /\ Writes(Store, op)
  BY DEF Performed
<1>o. /\ Store.bootstrap = bootstrap /\ Store.user = user /\ Store.org = org
      /\ Store.member = member /\ Store.invitation = invitation
  BY DEF Store
<1>a. ASSUME NEW x \in Resources, Audit(x) PROVE audit' \in [Resources -> Nat]
  BY <1>a DEF Audit, DocumentTypes
<1>2. CASE op.kind = "bootstrap_owner" /\ write_bootstrap_owner(Store, op)
  <2>1. audit' \in [Resources -> Nat]
    BY <1>2, <1>a, OperationTypes DEF write_bootstrap_owner, Resources, MemberKeys
  <2> QED BY <1>2, <1>o, <2>1, OperationTypes, NoOneAssumption
          DEF write_bootstrap_owner, DocumentTypes, UserDoc, Users
<1>3. CASE op.kind = "create_organization" /\ write_create_organization(Store, op)
  <2>1. audit' \in [Resources -> Nat]
    BY <1>3, <1>a, OperationTypes DEF write_create_organization, Resources, MemberKeys
  <2> QED BY <1>3, <1>o, <2>1, OperationTypes, NoOneAssumption
          DEF write_create_organization, DocumentTypes, OrgDoc, Orgs
<1>4. CASE op.kind = "invite" /\ write_invite(Store, op)
  <2>1. audit' \in [Resources -> Nat]
    BY <1>4, <1>a, OperationTypes DEF write_invite, Resources, MemberKeys
  <2> QED BY <1>4, <1>o, <2>1, OperationTypes, NoOneAssumption
          DEF write_invite, DocumentTypes, Invites
<1>5. CASE op.kind = "redeem" /\ write_redeem(Store, op)
  <2>1. audit' \in [Resources -> Nat]
    BY <1>5, <1>a, OperationTypes DEF write_redeem, Resources, MemberKeys
  <2> QED BY <1>5, <1>o, <2>1, OperationTypes, NoOneAssumption
          DEF write_redeem, DocumentTypes, Joined, UserDoc, Users, MemberDoc, Memberships, MemberKeys, Settled, Invites
<1>6. CASE op.kind = "revoke_invitation" /\ write_revoke_invitation(Store, op)
  <2>1. audit' \in [Resources -> Nat]
    BY <1>6, <1>a, OperationTypes DEF write_revoke_invitation, Resources, MemberKeys
  <2> QED BY <1>6, <1>o, <2>1, OperationTypes, NoOneAssumption
          DEF write_revoke_invitation, DocumentTypes, Settled, Invites
<1>7. CASE op.kind = "set_org_status" /\ write_set_org_status(Store, op)
  <2>1. audit' \in [Resources -> Nat]
    BY <1>7, <1>a, OperationTypes DEF write_set_org_status, Resources, MemberKeys
  <2> QED BY <1>7, <1>o, <2>1, OperationTypes, NoOneAssumption
          DEF write_set_org_status, DocumentTypes, OrgDoc, Orgs
<1>8. CASE op.kind = "set_user_status" /\ write_set_user_status(Store, op)
  <2>1. audit' \in [Resources -> Nat]
    BY <1>8, <1>a, OperationTypes DEF write_set_user_status, Resources, MemberKeys
  <2> QED BY <1>8, <1>o, <2>1, OperationTypes, NoOneAssumption
          DEF write_set_user_status, DocumentTypes, UserDoc, Users
<1>9. CASE op.kind = "set_administrator" /\ write_set_administrator(Store, op)
  <2>1. audit' \in [Resources -> Nat]
    BY <1>9, <1>a, OperationTypes DEF write_set_administrator, Resources, MemberKeys
  <2> QED BY <1>9, <1>o, <2>1, OperationTypes, NoOneAssumption
          DEF write_set_administrator, DocumentTypes, UserDoc, Users
<1>10. CASE op.kind = "update_membership" /\ write_update_membership(Store, op)
  <2>1. audit' \in [Resources -> Nat]
    BY <1>10, <1>a, OperationTypes DEF write_update_membership, Resources, MemberKeys
  <2> QED BY <1>10, <1>o, <2>1, OperationTypes, NoOneAssumption
          DEF write_update_membership, DocumentTypes, MemberDoc, Memberships, MemberKeys
<1> QED BY <1>1, <1>2, <1>3, <1>4, <1>5, <1>6, <1>7, <1>8, <1>9, <1>10 DEF Writes

\* Users change only as these operations say; all others keep the users, and
\* all but bootstrap_owner the owner.
LEMMA UserStep ==
  ASSUME DInv, NEW op \in Operations, Allowed(Store, op), Writes(Store, op)
  PROVE  \/ /\ bootstrap = NoOne /\ ~Exists(user[op.by]) /\ bootstrap' = op.by
            /\ user' = [user EXCEPT ![op.by] = UserDoc(TRUE, TRUE, TRUE, {}, 1)]
            /\ UNCHANGED <<org, member, invitation>>
            /\ Audit(<<"user", op.by>>)
         \/ /\ op.kind = "redeem" /\ may_redeem(Store, op) /\ write_redeem(Store, op)
         \/ /\ op.user \in Subjects /\ Exists(user[op.user]) /\ ~user[op.user].owner
            /\ \E active, admin \in BOOLEAN :
                 user' = [user EXCEPT ![op.user] =
                   UserDoc(active, admin, user[op.user].owner, user[op.user].organization_ids,
                           user[op.user].version + 1)]
            /\ UNCHANGED <<bootstrap, org, member, invitation>>
            /\ Audit(<<"user", op.user>>)
         \/ /\ op.kind \notin {"bootstrap_owner", "redeem", "set_user_status", "set_administrator"}
            /\ UNCHANGED <<bootstrap, user>>
<1>o. /\ Store.bootstrap = bootstrap /\ Store.user = user /\ Store.org = org
      /\ Store.member = member /\ Store.invitation = invitation
  BY DEF Store
<1>1. CASE op.kind = "bootstrap_owner"
  BY <1>1, <1>o DEF Allowed, Writes, may_bootstrap_owner, write_bootstrap_owner
<1>2. CASE op.kind = "redeem"
  BY <1>2 DEF Allowed, Writes
<1>3. CASE op.kind = "set_user_status"
  <2>1. op.user \in Subjects /\ op.active \in BOOLEAN
    BY <1>3, OperationTypes
  <2>2. user[op.user].platform_admin \in BOOLEAN
    BY <2>1 DEF DInv, DocumentTypes, Users
  <2> QED BY <1>3, <1>o, <2>1, <2>2 DEF Allowed, Writes, may_set_user_status, write_set_user_status
<1>4. CASE op.kind = "set_administrator"
  <2>1. op.user \in Subjects /\ op.active \in BOOLEAN
    BY <1>4, OperationTypes
  <2>2. user[op.user].active \in BOOLEAN
    BY <2>1 DEF DInv, DocumentTypes, Users
  <2> QED BY <1>4, <1>o, <2>1, <2>2 DEF Allowed, Writes, may_set_administrator, write_set_administrator
<1>5. CASE op.kind \notin {"bootstrap_owner", "redeem", "set_user_status", "set_administrator"}
  BY <1>5 DEF Writes, write_create_organization, write_invite, write_revoke_invitation,
              write_set_org_status, write_update_membership
<1> QED BY <1>1, <1>2, <1>3, <1>4, <1>5

\* What redeeming an invitation finds and writes.
LEMMA RedeemStep ==
  ASSUME DInv, NEW op \in Operations, op.kind = "redeem",
         may_redeem(Store, op), write_redeem(Store, op)
  PROVE  \E o \in Organizations :
           /\ Exists(invitation[op.invitation]) /\ ~invitation[op.invitation].revoked
           /\ invitation[op.invitation].redeemed_by = NoOne
           /\ invitation[op.invitation].email = EmailOf[op.by]
           /\ invitation[op.invitation].organization_id = o
           /\ IsAdmin(Store, invitation[op.invitation].invited_by)
           /\ Exists(org[o]) /\ org[o].active
           /\ Exists(user[op.by]) => user[op.by].active
           /\ ~Exists(member[<<o, op.by>>])
           /\ o \notin user[op.by].organization_ids
           /\ user' = [user EXCEPT ![op.by] = Joined(user[op.by], o)]
           /\ member' = [member EXCEPT ![<<o, op.by>>] =
                           MemberDoc(TRUE, invitation[op.invitation].role, 1)]
           /\ invitation' = [invitation EXCEPT ![op.invitation] =
                               Settled(invitation[op.invitation], op.by, FALSE)]
           /\ UNCHANGED <<bootstrap, org>>
           /\ Audit(<<"invitation", op.invitation>>)
<1>o. /\ Store.bootstrap = bootstrap /\ Store.user = user /\ Store.org = org
      /\ Store.member = member /\ Store.invitation = invitation
  BY DEF Store
<1>1. op.by \in Subjects /\ op.invitation \in Invitations
  BY OperationTypes
<1> DEFINE o == invitation[op.invitation].organization_id
<1>2. o \in Organizations
  BY <1>1 DEF DInv, DocumentTypes, Invites
<1>3. o \notin user[op.by].organization_ids
  BY <1>1, <1>2, <1>o DEF DInv, MembershipFromInvitation, may_redeem
<1>4. /\ Exists(invitation[op.invitation]) /\ ~invitation[op.invitation].revoked
      /\ invitation[op.invitation].redeemed_by = NoOne
      /\ invitation[op.invitation].email = EmailOf[op.by]
      /\ IsAdmin(Store, invitation[op.invitation].invited_by)
      /\ Exists(org[o]) /\ org[o].active
      /\ Exists(user[op.by]) => user[op.by].active
      /\ ~Exists(member[<<o, op.by>>])
  BY <1>o DEF may_redeem, IsOpen
<1>5. /\ user' = [user EXCEPT ![op.by] = Joined(user[op.by], o)]
      /\ member' = [member EXCEPT ![<<o, op.by>>] = MemberDoc(TRUE, invitation[op.invitation].role, 1)]
      /\ invitation' = [invitation EXCEPT ![op.invitation] =
                          Settled(invitation[op.invitation], op.by, FALSE)]
      /\ UNCHANGED <<bootstrap, org>>
      /\ Audit(<<"invitation", op.invitation>>)
  BY <1>o DEF write_redeem
<1> HIDE DEF o
<1> WITNESS o \in Organizations
<1> QED BY <1>3, <1>4, <1>5 DEF o

\* A document that does not exist still holds nothing after an operation.
LEMMA AbsentStep ==
  ASSUME DInv, NEW op \in Operations, Allowed(Store, op), Writes(Store, op)
  PROVE  Absent'
<1>1. op.by \in Subjects
  BY OperationTypes
<1> USE DEF DInv, DocumentTypes, Users
<1>2. CASE user' = [user EXCEPT ![op.by] = UserDoc(TRUE, TRUE, TRUE, {}, 1)]
  BY <1>1, <1>2, FS_EmptySet DEF Absent, UserDoc, Exists
<1>3. CASE op.kind = "redeem" /\ may_redeem(Store, op) /\ write_redeem(Store, op)
  <2>1. PICK o \in Organizations : user' = [user EXCEPT ![op.by] = Joined(user[op.by], o)]
    BY <1>3, RedeemStep
  <2>2. IsFiniteSet(user[op.by].organization_ids \cup {o})
    BY <1>1, FS_AddElement DEF Absent
  <2>3. IsFiniteSet({o})
    BY FS_Singleton
  <2> QED BY <1>1, <2>1, <2>2, <2>3 DEF Absent, Joined, UserDoc, Exists
<1>4. CASE /\ op.user \in Subjects /\ Exists(user[op.user])
           /\ \E active, admin \in BOOLEAN :
                 user' = [user EXCEPT ![op.user] =
                   UserDoc(active, admin, user[op.user].owner, user[op.user].organization_ids,
                           user[op.user].version + 1)]
  BY <1>4 DEF Absent, UserDoc, Exists
<1>5. CASE user' = user
  BY <1>5 DEF Absent
<1> QED BY <1>2, <1>3, <1>4, <1>5, UserStep

\* An operation leaves the owner an active administrator.
LEMMA OwnerStep ==
  ASSUME DInv, NEW op \in Operations, Allowed(Store, op), Writes(Store, op)
  PROVE  OwnerStays'
<1>o. /\ Store.user = user /\ Store'.user = user'
  BY DEF Store
<1>1. op.by \in Subjects
  BY OperationTypes
<1> USE DEF DInv, DocumentTypes, Users
<1>2. CASE /\ bootstrap = NoOne /\ bootstrap' = op.by
           /\ user' = [user EXCEPT ![op.by] = UserDoc(TRUE, TRUE, TRUE, {}, 1)]
  BY <1>1, <1>2, <1>o, NoOneAssumption DEF OwnerStays, UserDoc, Exists, IsAdmin
<1>3. CASE op.kind = "redeem" /\ may_redeem(Store, op) /\ write_redeem(Store, op)
  <2>1. PICK o \in Organizations :
          user' = [user EXCEPT ![op.by] = Joined(user[op.by], o)] /\ bootstrap' = bootstrap
    BY <1>3, RedeemStep
  <2>2. ~Exists(user[op.by]) => ~user[op.by].owner
    BY <1>1 DEF Absent
  <2> QED BY <1>1, <2>1, <2>2, <1>o DEF OwnerStays, Joined, UserDoc, Exists, IsAdmin
<1>4. CASE /\ op.user \in Subjects /\ ~user[op.user].owner
           /\ \E active, admin \in BOOLEAN :
                 user' = [user EXCEPT ![op.user] =
                   UserDoc(active, admin, user[op.user].owner, user[op.user].organization_ids,
                           user[op.user].version + 1)]
           /\ bootstrap' = bootstrap
  BY <1>4, <1>o DEF OwnerStays, UserDoc, Exists, IsAdmin
<1>5. CASE user' = user /\ bootstrap' = bootstrap
  BY <1>5, <1>o DEF OwnerStays, IsAdmin
<1> QED BY <1>2, <1>3, <1>4, <1>5, UserStep

\* A step that joins no one keeps the agreement of the documents.
LEMMA NobodyJoins ==
  ASSUME MembershipFromInvitation,
         \A s \in Subjects : user'[s].organization_ids = user[s].organization_ids,
         \A o \in Organizations, s \in Subjects :
           Exists(member'[<<o, s>>]) <=> Exists(member[<<o, s>>]),
         \A i \in Invitations, o \in Organizations, s \in Subjects :
           /\ Redeemed(i, o, s)' <=> Redeemed(i, o, s)
           /\ Redeemed(i, o, s) => invitation'[i] = invitation[i]
  PROVE  MembershipFromInvitation'
<1> DEFINE E(o, s) == Exists(member[<<o, s>>])
           R(i, o, s) == Redeemed(i, o, s)
<1> SUFFICES ASSUME NEW o \in Organizations, NEW s \in Subjects
    PROVE  /\ E(o, s)' <=> o \in user'[s].organization_ids
           /\ E(o, s)' <=> \E i \in Invitations : R(i, o, s)'
           /\ \A i, j \in Invitations : R(i, o, s)' /\ R(j, o, s)' => i = j
           /\ \A i \in Invitations : R(i, o, s)' =>
                ~invitation'[i].revoked /\ invitation'[i].email = EmailOf[s]
  BY DEF MembershipFromInvitation
<1>1. /\ E(o, s) <=> o \in user[s].organization_ids
      /\ E(o, s) <=> \E i \in Invitations : R(i, o, s)
      /\ \A i, j \in Invitations : R(i, o, s) /\ R(j, o, s) => i = j
      /\ \A i \in Invitations : R(i, o, s) =>
           ~invitation[i].revoked /\ invitation[i].email = EmailOf[s]
  BY DEF MembershipFromInvitation
<1>2. /\ user'[s].organization_ids = user[s].organization_ids
      /\ E(o, s)' <=> E(o, s)
      /\ \A i \in Invitations :
           (R(i, o, s)' <=> R(i, o, s)) /\ (R(i, o, s) => invitation'[i] = invitation[i])
  OBVIOUS
<1> HIDE DEF E, R
<1> QED BY <1>1, <1>2

\* Redeeming an invitation accounts for the membership it creates.
LEMMA JoinStep ==
  ASSUME DInv, NEW op \in Operations, op.kind = "redeem",
         may_redeem(Store, op), write_redeem(Store, op)
  PROVE  MembershipFromInvitation'
<1>1. PICK o \in Organizations :
           /\ Exists(invitation[op.invitation]) /\ ~invitation[op.invitation].revoked
           /\ invitation[op.invitation].redeemed_by = NoOne
           /\ invitation[op.invitation].email = EmailOf[op.by]
           /\ invitation[op.invitation].organization_id = o
           /\ ~Exists(member[<<o, op.by>>])
           /\ o \notin user[op.by].organization_ids
           /\ user' = [user EXCEPT ![op.by] = Joined(user[op.by], o)]
           /\ member' = [member EXCEPT ![<<o, op.by>>] =
                           MemberDoc(TRUE, invitation[op.invitation].role, 1)]
           /\ invitation' = [invitation EXCEPT ![op.invitation] =
                               Settled(invitation[op.invitation], op.by, FALSE)]
  BY RedeemStep
<1>2. op.by \in Subjects /\ op.invitation \in Invitations
  BY OperationTypes
<1> DEFINE k == op.invitation
<1>3. user'[op.by].organization_ids = user[op.by].organization_ids \cup {o}
  BY <1>1, <1>2 DEF DInv, DocumentTypes, Absent, Joined, UserDoc
<1>4. \A s \in Subjects : s # op.by => user'[s] = user[s]
  BY <1>1 DEF DInv, DocumentTypes
<1>5. Exists(member'[<<o, op.by>>])
  BY <1>1, <1>2 DEF DInv, DocumentTypes, MemberKeys, MemberDoc, Exists
<1>6. \A m \in MemberKeys : m # <<o, op.by>> => member'[m] = member[m]
  BY <1>1 DEF DInv, DocumentTypes
<1>7. /\ invitation'[k].organization_id = o /\ invitation'[k].redeemed_by = op.by
      /\ ~invitation'[k].revoked /\ invitation'[k].email = EmailOf[op.by]
      /\ Exists(invitation'[k])
  BY <1>1, <1>2 DEF DInv, DocumentTypes, Invites, Settled, Exists
<1>8. \A i \in Invitations : i # k => invitation'[i] = invitation[i]
  BY <1>1 DEF DInv, DocumentTypes
<1>9. \A i \in Invitations : ~Redeemed(i, o, op.by)
  BY <1>1, <1>2 DEF DInv, MembershipFromInvitation
<1>10. \A x \in Organizations, s \in Subjects : ~Redeemed(k, x, s)
  BY <1>1, NoOneAssumption DEF Redeemed
<1>11. /\ \A i \in Invitations : Redeemed(i, o, op.by)' <=> i = k
       /\ \A i \in Invitations, x \in Organizations, s \in Subjects :
            <<x, s>> # <<o, op.by>> => (Redeemed(i, x, s)' <=> Redeemed(i, x, s))
  BY <1>2, <1>7, <1>8, <1>9, <1>10 DEF Redeemed
<1>12. \A i \in Invitations, x \in Organizations, s \in Subjects :
         Redeemed(i, x, s) => i # k /\ invitation'[i] = invitation[i]
  BY <1>8, <1>10
<1>13. \A x \in Organizations, s \in Subjects : <<x, s>> # <<o, op.by>> =>
         /\ x \in user'[s].organization_ids <=> x \in user[s].organization_ids
         /\ member'[<<x, s>>] = member[<<x, s>>]
  BY <1>3, <1>4, <1>6 DEF MemberKeys
<1> DEFINE R(i, x, s) == Redeemed(i, x, s)
<1> SUFFICES ASSUME NEW x \in Organizations, NEW s \in Subjects
    PROVE  /\ Exists(member'[<<x, s>>]) <=> x \in user'[s].organization_ids
           /\ Exists(member'[<<x, s>>]) <=> \E i \in Invitations : R(i, x, s)'
           /\ \A i, j \in Invitations : R(i, x, s)' /\ R(j, x, s)' => i = j
           /\ \A i \in Invitations : R(i, x, s)' =>
                ~invitation'[i].revoked /\ invitation'[i].email = EmailOf[s]
  BY DEF MembershipFromInvitation
<1>14. CASE x = o /\ s = op.by
  <2>1. \A i \in Invitations : R(i, x, s)' <=> i = k
    BY <1>11, <1>14
  <2> HIDE DEF R
  <2> QED BY <1>2, <1>3, <1>5, <1>7, <1>14, <2>1
<1>15. CASE ~(x = o /\ s = op.by)
  <2>1. /\ Exists(member[<<x, s>>]) <=> x \in user[s].organization_ids
        /\ Exists(member[<<x, s>>]) <=> \E i \in Invitations : R(i, x, s)
        /\ \A i, j \in Invitations : R(i, x, s) /\ R(j, x, s) => i = j
        /\ \A i \in Invitations : R(i, x, s) =>
             ~invitation[i].revoked /\ invitation[i].email = EmailOf[s]
    BY DEF DInv, MembershipFromInvitation
  <2>2. <<x, s>> # <<o, op.by>>
    BY <1>15
  <2>3. \A i \in Invitations : R(i, x, s)' <=> R(i, x, s)
    BY <2>2, <1>11
  <2>4. \A i \in Invitations : R(i, x, s) => invitation'[i] = invitation[i]
    BY <1>12
  <2> HIDE DEF R
  <2> QED BY <1>13, <2>1, <2>2, <2>3, <2>4
<1> QED BY <1>14, <1>15

\* So does every other operation for the memberships there are.
LEMMA MembershipStep ==
  ASSUME DInv, NEW op \in Operations, Allowed(Store, op), Writes(Store, op)
  PROVE  MembershipFromInvitation'
<1>o. /\ Store.bootstrap = bootstrap /\ Store.user = user /\ Store.org = org
      /\ Store.member = member /\ Store.invitation = invitation
  BY DEF Store
<1>m. MembershipFromInvitation
  BY DEF DInv
<1>t. op.by \in Subjects
  BY OperationTypes
<1>1. CASE op.kind = "redeem"
  BY <1>1, JoinStep DEF Allowed, Writes
<1>2. CASE UNCHANGED <<user, member, invitation>>
  BY <1>2, <1>m, NobodyJoins DEF Redeemed
<1>3. CASE op.kind = "bootstrap_owner"
  <2>1. /\ ~Exists(user[op.by])
        /\ user' = [user EXCEPT ![op.by] = UserDoc(TRUE, TRUE, TRUE, {}, 1)]
        /\ UNCHANGED <<member, invitation>>
    BY <1>3, <1>o DEF Allowed, Writes, may_bootstrap_owner, write_bootstrap_owner
  <2>2. \A s \in Subjects : user'[s].organization_ids = user[s].organization_ids
    BY <1>t, <2>1 DEF DInv, DocumentTypes, Absent, UserDoc
  <2> QED BY <1>m, <2>1, <2>2, NobodyJoins DEF Redeemed
<1>4. CASE op.kind \in {"set_user_status", "set_administrator"}
  <2>1. /\ op.user \in Subjects
        /\ \E active, admin :
             user' = [user EXCEPT ![op.user] =
               UserDoc(active, admin, user[op.user].owner, user[op.user].organization_ids,
                       user[op.user].version + 1)]
        /\ UNCHANGED <<member, invitation>>
    BY <1>4, <1>o, OperationTypes DEF Writes, write_set_user_status, write_set_administrator
  <2>2. \A s \in Subjects : user'[s].organization_ids = user[s].organization_ids
    BY <2>1 DEF DInv, DocumentTypes, UserDoc
  <2> QED BY <1>m, <2>1, <2>2, NobodyJoins DEF Redeemed
<1>5. CASE op.kind = "invite"
  <2>1. /\ op.invitation \in Invitations /\ ~Exists(invitation[op.invitation])
        /\ invitation' = [invitation EXCEPT ![op.invitation] =
             [email |-> op.email, organization_id |-> op.org, role |-> op.role,
              invited_by |-> op.by, redeemed_by |-> NoOne, revoked |-> FALSE, version |-> 1]]
        /\ UNCHANGED <<user, member>>
    BY <1>5, <1>o, OperationTypes DEF Allowed, Writes, may_invite, write_invite
  <2>2. /\ invitation'[op.invitation].redeemed_by = NoOne
        /\ \A i \in Invitations : i # op.invitation => invitation'[i] = invitation[i]
    BY <2>1 DEF DInv, DocumentTypes
  <2>3. \A i \in Invitations, o \in Organizations, s \in Subjects :
          /\ Redeemed(i, o, s)' <=> Redeemed(i, o, s)
          /\ Redeemed(i, o, s) => invitation'[i] = invitation[i]
    BY <2>1, <2>2, NoOneAssumption DEF Redeemed
  <2> QED BY <1>m, <2>1, <2>3, NobodyJoins
<1>6. CASE op.kind = "revoke_invitation"
  <2>1. /\ op.invitation \in Invitations /\ invitation[op.invitation].redeemed_by = NoOne
        /\ invitation' = [invitation EXCEPT ![op.invitation] =
                             Settled(invitation[op.invitation], NoOne, TRUE)]
        /\ UNCHANGED <<user, member>>
    BY <1>6, <1>o, OperationTypes
       DEF Allowed, Writes, may_revoke_invitation, write_revoke_invitation, IsOpen
  <2>2. /\ invitation'[op.invitation].redeemed_by = NoOne
        /\ \A i \in Invitations : i # op.invitation => invitation'[i] = invitation[i]
    BY <2>1 DEF DInv, DocumentTypes, Settled
  <2>3. \A i \in Invitations, o \in Organizations, s \in Subjects :
          /\ Redeemed(i, o, s)' <=> Redeemed(i, o, s)
          /\ Redeemed(i, o, s) => invitation'[i] = invitation[i]
    BY <2>1, <2>2, NoOneAssumption DEF Redeemed
  <2> QED BY <1>m, <2>1, <2>3, NobodyJoins
<1>7. CASE op.kind = "update_membership"
  <2>1. /\ <<op.org, op.user>> \in MemberKeys /\ Exists(member[<<op.org, op.user>>])
        /\ member' = [member EXCEPT ![<<op.org, op.user>>] =
             MemberDoc(op.active, op.role, member[<<op.org, op.user>>].version + 1)]
        /\ UNCHANGED <<user, invitation>>
    BY <1>7, <1>o, OperationTypes
       DEF Allowed, Writes, may_update_membership, write_update_membership, MemberKeys
  <2>2. \A m \in MemberKeys : Exists(member'[m]) <=> Exists(member[m])
    <3>1. \A m \in MemberKeys : m # <<op.org, op.user>> => member'[m] = member[m]
      BY <2>1 DEF DInv, DocumentTypes
    <3>2. member[<<op.org, op.user>>].version \in Nat
      BY <2>1 DEF DInv, DocumentTypes, Memberships
    <3>3. member'[<<op.org, op.user>>].version = member[<<op.org, op.user>>].version + 1
      BY <2>1 DEF DInv, DocumentTypes, MemberDoc
    <3>4. Exists(member'[<<op.org, op.user>>])
      BY <3>2, <3>3 DEF Exists
    <3> QED BY <2>1, <3>1, <3>4
  <2>3. \A o \in Organizations, s \in Subjects : Exists(member'[<<o, s>>]) <=> Exists(member[<<o, s>>])
    BY <2>2 DEF MemberKeys
  <2> QED BY <1>m, <2>1, <2>3, NobodyJoins DEF Redeemed
<1>8. CASE op.kind \in {"create_organization", "set_org_status"}
  BY <1>2, <1>8 DEF Writes, write_create_organization, write_set_org_status
<1> QED BY <1>1, <1>3, <1>4, <1>5, <1>6, <1>7, <1>8 DEF Writes

\* An operation keeps the invariant.
LEMMA DInvStep ==
  ASSUME DInv, Performed
  PROVE  DInv'
<1>1. PICK op \in Operations : Allowed(Store, op) /\ Writes(Store, op)
  BY DEF Performed
<1>2. DocumentTypes'
  BY DocumentTypesStep DEF DInv
<1> QED BY <1>1, <1>2, AbsentStep, OwnerStep, MembershipStep DEF DInv

\* So does a step that leaves the documents alone.
LEMMA DInvStutter ==
  ASSUME DInv, UNCHANGED documents
  PROVE  DInv'
<1>1. UNCHANGED <<bootstrap, user, org, member, invitation, audit>>
  BY DEF documents
<1>2. DocumentTypes' /\ Absent' /\ OwnerStays'
  BY <1>1 DEF DInv, DocumentTypes, Absent, OwnerStays, IsAdmin, Store
<1>3. MembershipFromInvitation'
  BY <1>1, NobodyJoins DEF DInv, Redeemed
<1> QED BY <1>2, <1>3 DEF DInv

\* The documents of the admission service keep their shape and what they say of
\* one another, whatever transactions interleave.
THEOREM DInvInvariant == Spec => []DInv
<1>1. ASSUME Transactions, DInv, [Next]_vars PROVE DInv'
  BY <1>1, StepPerforms, DInvStep, DInvStutter
<1> QED BY DInvInit, TransactionsInvariant, <1>1, PTL DEF Spec

\* The documents keep the types of their models.
THEOREM TypeCorrect == Spec => []TypeOK
<1> DEFINE Rest == expired \subseteq Invitations /\ commits \in Nat
<1>1. Init => Rest
  BY DEF Init
<1>2. ASSUME Rest, [Next]_vars PROVE Rest'
  BY <1>2 DEF Next, begin, commit, abort, expire, vars
<1>3. Transactions /\ DInv /\ Rest => TypeOK
  BY DEF Transactions, OpenTx, DInv, DocumentTypes, TypeOK
<1> HIDE DEF Rest
<1> QED BY <1>1, <1>2, <1>3, TransactionsInvariant, DInvInvariant, PTL DEF Spec

\* The owner that was bootstrapped stays the one owner and an administrator.
THEOREM OwnerIsKept == Spec => []OwnerStays
<1>1. DInv => OwnerStays
  BY DEF DInv
<1> QED BY <1>1, DInvInvariant, PTL

\* Memberships, users and redeemed invitations agree, whatever races.
THEOREM MembershipsAreInvited == Spec => []MembershipFromInvitation
<1>1. DInv => MembershipFromInvitation
  BY DEF DInv
<1> QED BY <1>1, DInvInvariant, PTL

-----------------------------------------------------------------------------
(* The audit.                                                              *)

\* An audit event counts for its resource only.
LEMMA AuditAdds ==
  ASSUME DocumentTypes, NEW x \in Resources, Audit(x)
  PROVE  /\ audit'[x] = audit[x] + 1
         /\ \A y \in Resources : y # x => audit'[y] = audit[y]
  BY DEF DocumentTypes, Audit

\* Every document is a resource of the audit.
LEMMA ResourceNames ==
  /\ \A s \in Subjects : <<"user", s>> \in Resources
  /\ \A o \in Organizations : <<"organization", o>> \in Resources
  /\ \A m \in MemberKeys : <<"membership", m>> \in Resources
  /\ \A i \in Invitations : <<"invitation", i>> \in Resources
  BY DEF Resources

OrgCounted(o) == audit[<<"organization", o>>] = org[o].version
InvitationCounted(i) == audit[<<"invitation", i>>] = invitation[i].version
MemberCounted(m) ==
  audit[<<"membership", m>>] = IF Exists(member[m]) THEN member[m].version - 1 ELSE 0
UserCounted(s) ==
  audit[<<"user", s>>] + Cardinality(user[s].organization_ids)
    = user[s].version - IF Exists(user[s]) /\ ~user[s].owner THEN 1 ELSE 0

\* AuditCountsVersions, resource by resource.
LEMMA Counted ==
  AuditCountsVersions <=>
    /\ \A o \in Organizations : OrgCounted(o)
    /\ \A i \in Invitations : InvitationCounted(i)
    /\ \A m \in MemberKeys : MemberCounted(m)
    /\ \A s \in Subjects : UserCounted(s)
  BY DEF AuditCountsVersions, OrgCounted, InvitationCounted, MemberCounted, UserCounted

\* An operation keeps the count of every organization.
LEMMA OrgAuditStep ==
  ASSUME DInv, AuditCountsVersions, NEW op \in Operations, Allowed(Store, op), Writes(Store, op),
         NEW o \in Organizations
  PROVE  OrgCounted(o)'
<1>s. Store.org = org
  BY DEF Store
<1>t. /\ DocumentTypes /\ org[o].version \in Nat /\ OrgCounted(o)
  BY Counted DEF DInv, DocumentTypes, Orgs
<1>1. CASE op.kind = "create_organization"
  <2>1. /\ op.org \in Organizations /\ ~Exists(org[op.org])
        /\ org' = [org EXCEPT ![op.org] = OrgDoc(TRUE, 1)]
        /\ Audit(<<"organization", op.org>>)
    BY <1>1, <1>s, OperationTypes
       DEF Allowed, Writes, may_create_organization, write_create_organization
  <2>2. CASE o = op.org
    BY <1>t, <2>1, <2>2, AuditAdds, ResourceNames DEF OrgCounted, DocumentTypes, OrgDoc, Exists
  <2>3. CASE o # op.org
    BY <1>t, <2>1, <2>3, AuditAdds, ResourceNames DEF OrgCounted, DocumentTypes
  <2> QED BY <2>2, <2>3
<1>2. CASE op.kind = "set_org_status"
  <2>1. /\ op.org \in Organizations
        /\ org' = [org EXCEPT ![op.org] = OrgDoc(op.active, org[op.org].version + 1)]
        /\ Audit(<<"organization", op.org>>)
    BY <1>2, <1>s, OperationTypes DEF Writes, write_set_org_status
  <2>2. CASE o = op.org
    BY <1>t, <2>1, <2>2, AuditAdds, ResourceNames DEF OrgCounted, DocumentTypes, OrgDoc
  <2>3. CASE o # op.org
    BY <1>t, <2>1, <2>3, AuditAdds, ResourceNames DEF OrgCounted, DocumentTypes
  <2> QED BY <2>2, <2>3
<1>3. CASE op.kind \notin {"create_organization", "set_org_status"}
  <2>1. /\ org' = org
        /\ \E x \in Resources : x[1] # "organization" /\ Audit(x)
    BY <1>3, OperationTypes, ResourceNames
       DEF Writes, write_bootstrap_owner, write_invite, write_redeem, write_revoke_invitation,
           write_set_user_status, write_set_administrator, write_update_membership, MemberKeys
  <2> QED BY <1>t, <2>1, AuditAdds, ResourceNames DEF OrgCounted
<1> QED BY <1>1, <1>2, <1>3

\* The same for every invitation.
LEMMA InvitationAuditStep ==
  ASSUME DInv, AuditCountsVersions, NEW op \in Operations, Allowed(Store, op), Writes(Store, op),
         NEW i \in Invitations
  PROVE  InvitationCounted(i)'
<1>s. Store.invitation = invitation
  BY DEF Store
<1>t. /\ DocumentTypes /\ invitation[i].version \in Nat /\ InvitationCounted(i)
  BY Counted DEF DInv, DocumentTypes, Invites
<1>1. CASE op.kind = "invite"
  <2> DEFINE new == [email |-> op.email, organization_id |-> op.org, role |-> op.role,
                     invited_by |-> op.by, redeemed_by |-> NoOne, revoked |-> FALSE, version |-> 1]
  <2>1. /\ op.invitation \in Invitations /\ ~Exists(invitation[op.invitation])
        /\ invitation' = [invitation EXCEPT ![op.invitation] = new]
        /\ Audit(<<"invitation", op.invitation>>)
    BY <1>1, <1>s, OperationTypes DEF Allowed, Writes, may_invite, write_invite
  <2>2. CASE i = op.invitation
    BY <1>t, <2>1, <2>2, AuditAdds, ResourceNames DEF InvitationCounted, DocumentTypes, Exists
  <2>3. CASE i # op.invitation
    BY <1>t, <2>1, <2>3, AuditAdds, ResourceNames DEF InvitationCounted, DocumentTypes
  <2> QED BY <2>2, <2>3
<1>2. CASE op.kind \in {"redeem", "revoke_invitation"}
  <2>1. /\ op.invitation \in Invitations
        /\ \E by, revoked : invitation' = [invitation EXCEPT ![op.invitation] =
                                              Settled(invitation[op.invitation], by, revoked)]
        /\ Audit(<<"invitation", op.invitation>>)
    BY <1>2, <1>s, OperationTypes DEF Writes, write_redeem, write_revoke_invitation
  <2>2. CASE i = op.invitation
    BY <1>t, <2>1, <2>2, AuditAdds, ResourceNames DEF InvitationCounted, DocumentTypes, Settled
  <2>3. CASE i # op.invitation
    BY <1>t, <2>1, <2>3, AuditAdds, ResourceNames DEF InvitationCounted, DocumentTypes
  <2> QED BY <2>2, <2>3
<1>3. CASE op.kind \notin {"invite", "redeem", "revoke_invitation"}
  <2>1. /\ invitation' = invitation
        /\ \E x \in Resources : x[1] # "invitation" /\ Audit(x)
    BY <1>3, OperationTypes, ResourceNames
       DEF Writes, write_bootstrap_owner, write_create_organization, write_set_org_status,
           write_set_user_status, write_set_administrator, write_update_membership, MemberKeys
  <2> QED BY <1>t, <2>1, AuditAdds, ResourceNames DEF InvitationCounted
<1> QED BY <1>1, <1>2, <1>3

\* The same for every membership.
LEMMA MemberAuditStep ==
  ASSUME DInv, AuditCountsVersions, NEW op \in Operations, Allowed(Store, op), Writes(Store, op),
         NEW m \in MemberKeys
  PROVE  MemberCounted(m)'
<1>s. Store.member = member
  BY DEF Store
<1>t. /\ DocumentTypes /\ member[m].version \in Nat /\ MemberCounted(m)
  BY Counted DEF DInv, DocumentTypes, Memberships
<1>1. CASE op.kind = "redeem"
  <2>1. PICK o \in Organizations :
          /\ ~Exists(member[<<o, op.by>>])
          /\ member' = [member EXCEPT ![<<o, op.by>>] =
                          MemberDoc(TRUE, invitation[op.invitation].role, 1)]
          /\ Audit(<<"invitation", op.invitation>>)
    BY <1>1, RedeemStep DEF Allowed, Writes
  <2>2. <<o, op.by>> \in MemberKeys /\ op.invitation \in Invitations
    BY <1>1, OperationTypes DEF MemberKeys
  <2>3. audit'[<<"membership", m>>] = audit[<<"membership", m>>]
    BY <1>t, <2>1, <2>2, AuditAdds, ResourceNames
  <2>4. CASE m = <<o, op.by>>
    <3>1. member'[m].version = 1
      BY <1>t, <2>1, <2>2, <2>4 DEF DocumentTypes, MemberDoc
    <3>2. ~Exists(member[m])
      BY <2>1, <2>4
    <3>3. audit[<<"membership", m>>] = 0
      BY <1>t, <3>2 DEF MemberCounted
    <3> HIDE <2>4
    <3> QED BY <2>3, <3>1, <3>3 DEF MemberCounted, Exists
  <2>5. CASE m # <<o, op.by>>
    <3>1. member'[m] = member[m]
      BY <1>t, <2>1, <2>5 DEF DocumentTypes
    <3> QED BY <1>t, <2>3, <3>1 DEF MemberCounted, Exists
  <2> QED BY <2>4, <2>5
<1>2. CASE op.kind = "update_membership"
  <2> DEFINE k == <<op.org, op.user>>
  <2>1. /\ k \in MemberKeys /\ Exists(member[k])
        /\ member' = [member EXCEPT ![k] = MemberDoc(op.active, op.role, member[k].version + 1)]
        /\ Audit(<<"membership", k>>)
    BY <1>2, <1>s, OperationTypes
       DEF Allowed, Writes, may_update_membership, write_update_membership, MemberKeys
  <2> HIDE DEF k
  <2>2. CASE m = k
    <3>1. member'[m].version = member[m].version + 1
      BY <1>t, <2>1, <2>2 DEF DocumentTypes, MemberDoc
    <3>2. audit'[<<"membership", m>>] = audit[<<"membership", m>>] + 1
      BY <1>t, <2>1, <2>2, AuditAdds, ResourceNames
    <3> QED BY <1>t, <2>1, <2>2, <3>1, <3>2 DEF MemberCounted, Exists
  <2>3. CASE m # k
    <3>1. member'[m] = member[m]
      BY <1>t, <2>1, <2>3 DEF DocumentTypes
    <3>2. audit'[<<"membership", m>>] = audit[<<"membership", m>>]
      BY <1>t, <2>1, <2>3, AuditAdds, ResourceNames
    <3> QED BY <1>t, <3>1, <3>2 DEF MemberCounted, Exists
  <2> QED BY <2>2, <2>3
<1>3. CASE op.kind \notin {"redeem", "update_membership"}
  <2>1. /\ member' = member
        /\ \E x \in Resources : x[1] # "membership" /\ Audit(x)
    BY <1>3, OperationTypes, ResourceNames
       DEF Writes, write_bootstrap_owner, write_create_organization, write_invite,
           write_revoke_invitation, write_set_org_status, write_set_user_status,
           write_set_administrator
  <2>2. audit'[<<"membership", m>>] = audit[<<"membership", m>>]
    BY <1>t, <2>1, AuditAdds, ResourceNames
  <2> QED BY <1>t, <2>1, <2>2 DEF MemberCounted, Exists
<1> QED BY <1>1, <1>2, <1>3

\* The same for every user.
LEMMA UserAuditStep ==
  ASSUME DInv, AuditCountsVersions, NEW op \in Operations, Allowed(Store, op), Writes(Store, op),
         NEW s \in Subjects
  PROVE  UserCounted(s)'
<1>t. /\ DocumentTypes /\ user[s].version \in Nat /\ UserCounted(s)
      /\ user[s].owner \in BOOLEAN /\ audit[<<"user", s>>] \in Nat
  BY Counted, ResourceNames DEF DInv, DocumentTypes, Users
<1>c. Cardinality({}) = 0
  BY FS_EmptySet
<1>n. Cardinality(user[s].organization_ids) \in Nat
  BY FS_CardinalityType DEF DInv, Absent
<1>b. op.by \in Subjects
  BY OperationTypes
<1>1. CASE /\ ~Exists(user[op.by]) /\ Audit(<<"user", op.by>>)
           /\ user' = [user EXCEPT ![op.by] = UserDoc(TRUE, TRUE, TRUE, {}, 1)]
  <2>1. CASE s = op.by
    <3>1. /\ user'[s].organization_ids = {} /\ user'[s].version = 1 /\ user'[s].owner
      BY <1>t, <1>1, <2>1 DEF DocumentTypes, UserDoc
    <3>2. /\ user[s].organization_ids = {} /\ user[s].version = 0
      BY <1>t, <1>1, <2>1 DEF DInv, Absent, Exists
    <3>3. audit'[<<"user", s>>] = audit[<<"user", s>>] + 1
      BY <1>t, <1>1, <2>1, AuditAdds, ResourceNames
    <3> QED BY <1>t, <1>c, <3>1, <3>2, <3>3 DEF UserCounted, Exists
  <2>2. CASE s # op.by
    <3>1. user'[s] = user[s] /\ audit'[<<"user", s>>] = audit[<<"user", s>>]
      BY <1>t, <1>1, <1>b, <2>2, AuditAdds, ResourceNames DEF DocumentTypes
    <3> QED BY <1>t, <3>1 DEF UserCounted, Exists
  <2> QED BY <2>1, <2>2
<1>2. CASE op.kind = "redeem" /\ may_redeem(Store, op) /\ write_redeem(Store, op)
  <2>1. PICK o \in Organizations :
          /\ o \notin user[op.by].organization_ids
          /\ user' = [user EXCEPT ![op.by] = Joined(user[op.by], o)]
          /\ Audit(<<"invitation", op.invitation>>)
    BY <1>2, RedeemStep
  <2>2. op.invitation \in Invitations
    BY <1>2, OperationTypes
  <2>3. audit'[<<"user", s>>] = audit[<<"user", s>>]
    BY <1>t, <2>1, <2>2, AuditAdds, ResourceNames
  <2>4. CASE s = op.by
    <3>1. Cardinality(user[s].organization_ids \cup {o}) = Cardinality(user[s].organization_ids) + 1
      BY <2>1, <2>4, FS_AddElement DEF DInv, Absent
    <3>2. user'[s].organization_ids = user[s].organization_ids \cup {o}
      BY <1>t, <2>1, <2>4 DEF DInv, Absent, DocumentTypes, Joined, UserDoc
    <3>3. CASE Exists(user[s])
      <4>1. user'[s].version = user[s].version + 1 /\ user'[s].owner = user[s].owner
        BY <1>t, <2>1, <2>4, <3>3 DEF DocumentTypes, Joined, UserDoc
      <4> QED BY <1>t, <1>n, <2>3, <3>1, <3>2, <3>3, <4>1 DEF UserCounted, Exists
    <3>4. CASE ~Exists(user[s])
      <4>1. user'[s].version = 2 /\ ~user'[s].owner
        BY <1>t, <2>1, <2>4, <3>4 DEF DocumentTypes, Joined, UserDoc
      <4> QED BY <1>t, <1>n, <2>3, <3>1, <3>2, <3>4, <4>1 DEF UserCounted, Exists
    <3> QED BY <3>3, <3>4
  <2>5. CASE s # op.by
    <3>1. user'[s] = user[s]
      BY <1>t, <2>1, <2>5 DEF DocumentTypes
    <3> QED BY <1>t, <2>3, <3>1 DEF UserCounted, Exists
  <2> QED BY <2>4, <2>5
<1>3. CASE /\ op.user \in Subjects /\ Exists(user[op.user]) /\ Audit(<<"user", op.user>>)
           /\ \E active, admin \in BOOLEAN :
                 user' = [user EXCEPT ![op.user] =
                   UserDoc(active, admin, user[op.user].owner, user[op.user].organization_ids,
                           user[op.user].version + 1)]
  <2>1. CASE s = op.user
    <3>1. /\ user'[s].organization_ids = user[s].organization_ids
          /\ user'[s].version = user[s].version + 1 /\ user'[s].owner = user[s].owner
      BY <1>t, <1>3, <2>1 DEF DocumentTypes, UserDoc
    <3>2. audit'[<<"user", s>>] = audit[<<"user", s>>] + 1
      BY <1>t, <1>3, <2>1, AuditAdds, ResourceNames
    <3> QED BY <1>t, <1>n, <1>3, <2>1, <3>1, <3>2 DEF UserCounted, Exists
  <2>2. CASE s # op.user
    <3>1. user'[s] = user[s] /\ audit'[<<"user", s>>] = audit[<<"user", s>>]
      BY <1>t, <1>3, <2>2, AuditAdds, ResourceNames DEF DocumentTypes
    <3> QED BY <1>t, <3>1 DEF UserCounted, Exists
  <2> QED BY <2>1, <2>2
<1>4. CASE op.kind \notin {"bootstrap_owner", "redeem", "set_user_status", "set_administrator"}
  <2>1. /\ user' = user
        /\ \E x \in Resources : x[1] # "user" /\ Audit(x)
    BY <1>4, OperationTypes, ResourceNames
       DEF Writes, write_create_organization, write_invite, write_revoke_invitation,
           write_set_org_status, write_update_membership, MemberKeys
  <2>2. audit'[<<"user", s>>] = audit[<<"user", s>>]
    BY <1>t, <2>1, AuditAdds, ResourceNames
  <2> QED BY <1>t, <2>1, <2>2 DEF UserCounted, Exists
<1> QED BY <1>1, <1>2, <1>3, <1>4, UserStep

\* Every version of every document has its audit event, and no event is for
\* nothing, whatever transactions race, repeat or die.
THEOREM AuditIsComplete == Spec => []AuditCountsVersions
<1>1. Init => AuditCountsVersions
  <2> SUFFICES ASSUME Init PROVE AuditCountsVersions
    OBVIOUS
  <2>1. Cardinality({}) = 0
    BY FS_EmptySet
  <2>2. /\ \A x \in Resources : audit[x] = 0
        /\ \A o \in Organizations : org[o].version = 0
        /\ \A i \in Invitations : invitation[i].version = 0
        /\ \A m \in MemberKeys : member[m].version = 0
        /\ \A s \in Subjects : user[s].version = 0 /\ user[s].organization_ids = {}
    BY NoDocumentAssumption DEF Init, NoDocuments, UserDoc, OrgDoc
  <2>3. ASSUME NEW o \in Organizations PROVE OrgCounted(o)
    BY <2>2, ResourceNames DEF OrgCounted
  <2>4. ASSUME NEW i \in Invitations PROVE InvitationCounted(i)
    BY <2>2, ResourceNames DEF InvitationCounted
  <2>5. ASSUME NEW m \in MemberKeys PROVE MemberCounted(m)
    <3>1. audit[<<"membership", m>>] = 0 /\ member[m].version = 0
      BY <2>2, ResourceNames
    <3> QED BY <3>1 DEF MemberCounted, Exists
  <2>6. ASSUME NEW s \in Subjects PROVE UserCounted(s)
    <3>1. /\ audit[<<"user", s>>] = 0 /\ user[s].version = 0
          /\ Cardinality(user[s].organization_ids) = 0
      BY <2>1, <2>2, ResourceNames
    <3> QED BY <3>1 DEF UserCounted, Exists
  <2> QED BY <2>3, <2>4, <2>5, <2>6, Counted
<1>2. ASSUME DInv, AuditCountsVersions, Performed PROVE AuditCountsVersions'
  <2>1. PICK op \in Operations : Allowed(Store, op) /\ Writes(Store, op)
    BY <1>2 DEF Performed
  <2>2. /\ \A o \in Organizations : OrgCounted(o)'
        /\ \A i \in Invitations : InvitationCounted(i)'
        /\ \A m \in MemberKeys : MemberCounted(m)'
        /\ \A s \in Subjects : UserCounted(s)'
    BY <1>2, <2>1, OrgAuditStep, InvitationAuditStep, MemberAuditStep, UserAuditStep
  <2> QED BY <2>2 DEF AuditCountsVersions, OrgCounted, InvitationCounted, MemberCounted, UserCounted
<1>3. ASSUME AuditCountsVersions, UNCHANGED documents PROVE AuditCountsVersions'
  BY <1>3 DEF documents, AuditCountsVersions, Exists
<1>4. ASSUME Transactions, DInv, AuditCountsVersions, [Next]_vars PROVE AuditCountsVersions'
  BY <1>2, <1>3, <1>4, StepPerforms
<1> QED BY <1>1, <1>4, TransactionsInvariant, DInvInvariant, PTL DEF Spec

-----------------------------------------------------------------------------
(* Access.                                                                 *)

\* Whoever gains access is let in by an operation that admits them.
LEMMA AccessStep ==
  ASSUME DInv, Performed, NEW o \in Organizations, NEW s \in Subjects,
         member'[<<o, s>>].active, ~member[<<o, s>>].active
  PROVE  /\ o \in access(Store', s)
         /\ ~Exists(member[<<o, s>>]) =>
              \E i \in Invitations :
                Redeemed(i, o, s)' /\ ~Redeemed(i, o, s) /\ IsAdmin(Store, invitation[i].invited_by)
<1>1. PICK op \in Operations : Allowed(Store, op) /\ Writes(Store, op)
  BY DEF Performed
<1>s. /\ Store.user = user /\ Store.org = org /\ Store.member = member
      /\ Store'.user = user' /\ Store'.org = org' /\ Store'.member = member'
  BY DEF Store
<1>k. <<o, s>> \in MemberKeys
  BY DEF MemberKeys
<1>2. CASE op.kind = "redeem"
  <2> DEFINE k == op.invitation
  <2>1. op.by \in Subjects /\ k \in Invitations
    BY <1>2, OperationTypes
  <2>2. PICK x \in Organizations :
           /\ invitation[k].redeemed_by = NoOne
           /\ invitation[k].organization_id = x
           /\ IsAdmin(Store, invitation[k].invited_by)
           /\ Exists(org[x]) /\ org[x].active
           /\ Exists(user[op.by]) => user[op.by].active
           /\ user' = [user EXCEPT ![op.by] = Joined(user[op.by], x)]
           /\ member' = [member EXCEPT ![<<x, op.by>>] = MemberDoc(TRUE, invitation[k].role, 1)]
           /\ invitation' = [invitation EXCEPT ![k] = Settled(invitation[k], op.by, FALSE)]
           /\ org' = org
    BY <1>1, <1>2, RedeemStep DEF Allowed, Writes
  <2>3. <<o, s>> = <<x, op.by>>
    BY <1>k, <2>2 DEF DInv, DocumentTypes
  <2>4. o = x /\ s = op.by
    BY <2>3
  <2>5. /\ user'[s].active /\ Exists(user'[s]) /\ o \in user'[s].organization_ids
    BY <2>1, <2>2, <2>4 DEF DInv, DocumentTypes, Users, Joined, UserDoc, Exists
  <2>6. Exists(member'[<<o, s>>])
    BY <1>k, <2>2, <2>3 DEF DInv, DocumentTypes, MemberDoc, Exists
  <2>7. Exists(org'[o]) /\ org'[o].active
    BY <2>2, <2>4
  <2>8. o \in access(Store', s)
    BY <1>s, <2>5, <2>6, <2>7 DEF access
  <2>9. /\ invitation'[k].redeemed_by = s /\ invitation'[k].organization_id = o
        /\ Exists(invitation'[k])
    BY <2>1, <2>2, <2>4 DEF DInv, DocumentTypes, Invites, Settled, Exists
  <2>10. Redeemed(k, o, s)' /\ ~Redeemed(k, o, s)
    BY <2>2, <2>9, NoOneAssumption DEF Redeemed
  <2> QED BY <2>1, <2>2, <2>8, <2>10
<1>3. CASE op.kind = "update_membership"
  <2>1. op.user \in Subjects /\ op.org \in Organizations
    BY <1>3, OperationTypes
  <2>2. /\ Exists(org[op.org]) /\ Exists(member[<<op.org, op.user>>])
        /\ Exists(user[op.user]) /\ op.org \in user[op.user].organization_ids
        /\ op.active => user[op.user].active /\ org[op.org].active
        /\ member' = [member EXCEPT ![<<op.org, op.user>>] =
             MemberDoc(op.active, op.role, member[<<op.org, op.user>>].version + 1)]
        /\ UNCHANGED <<user, org>>
    BY <1>1, <1>3, <1>s
       DEF Allowed, Writes, may_update_membership, write_update_membership
  <2>3. <<o, s>> = <<op.org, op.user>>
    BY <1>k, <2>2 DEF DInv, DocumentTypes
  <2>4. o = op.org /\ s = op.user
    BY <2>3
  <2>5. op.active
    BY <1>k, <2>2, <2>3 DEF DInv, DocumentTypes, MemberDoc
  <2>6. member[<<o, s>>].version \in Nat
    BY <1>k DEF DInv, DocumentTypes, Memberships
  <2>7. member'[<<o, s>>].version = member[<<o, s>>].version + 1
    BY <1>k, <2>2, <2>3 DEF DInv, DocumentTypes, MemberDoc
  <2>8. Exists(member'[<<o, s>>])
    BY <2>6, <2>7 DEF Exists
  <2>9. o \in access(Store', s)
    BY <1>s, <2>2, <2>4, <2>5, <2>8 DEF access
  <2> QED BY <2>2, <2>4, <2>9
<1>4. CASE op.kind \notin {"redeem", "update_membership"}
  <2>1. member' = member
    BY <1>1, <1>4
       DEF Writes, write_bootstrap_owner, write_create_organization, write_invite,
           write_revoke_invitation, write_set_org_status, write_set_user_status,
           write_set_administrator
  <2> QED BY <2>1
<1> QED BY <1>2, <1>3, <1>4

\* A membership becomes active only while its user and its organization are,
\* and is created only by an administrator's invitation, at the moment of the
\* commit and not only of the read.
THEOREM AccessIsCurrent == Spec => NewAccessIsCurrent
<1> DEFINE A == \A o \in Organizations, s \in Subjects :
       member'[<<o, s>>].active /\ ~member[<<o, s>>].active =>
         /\ o \in access(Store', s)
         /\ ~Exists(member[<<o, s>>]) =>
              \E i \in Invitations :
                Redeemed(i, o, s)' /\ ~Redeemed(i, o, s) /\ IsAdmin(Store, invitation[i].invited_by)
<1>1. ASSUME DInv, Performed PROVE A
  BY <1>1, AccessStep
<1>2. ASSUME UNCHANGED documents PROVE A
  BY <1>2 DEF documents
<1>3. ASSUME Transactions, DInv, [Next]_vars PROVE [A]_vars
  BY <1>1, <1>2, <1>3, StepPerforms
<1> QED BY <1>3, TransactionsInvariant, DInvInvariant, PTL DEF Spec, NewAccessIsCurrent
=============================================================================
