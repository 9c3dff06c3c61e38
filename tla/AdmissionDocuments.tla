------------------------- MODULE AdmissionDocuments -------------------------
(***************************************************************************)
(* The documents of the enterprise admission service and what each of its  *)
(* operations does to them.  Every operation of AdmissionService is one    *)
(* transaction: operation(tx) reads some documents, raises denied() or a   *)
(* conflict, or buffers writes that become visible together with the audit *)
(* event.  may_x says when operation x does not raise, write_x what it     *)
(* writes; r holds the documents it got from tx.get.                       *)
(*                                                                         *)
(* A document with version 0 does not exist.  The caller of an operation   *)
(* other than redeem has a verified session with a second factor; without  *)
(* one require_admin denies.  An expected_version that is not the stored   *)
(* version is a conflict, so only the matching one is an operation here.   *)
(***************************************************************************)
EXTENDS Integers, FiniteSets

CONSTANTS
  Subjects, Organizations, Invitations, Emails, Roles,
  EmailOf,            \* the verified e-mail address of each subject
  NoOne,              \* no subject
  NoMember, NoInvite, \* the documents before they exist
  MaxOrganizations    \* User.organization_ids, max_length

VARIABLES
  bootstrap,          \* admission_metadata/bootstrap: the owner
  user, org,          \* admission_users, admission_organizations
  member,             \* .../members, by organization and subject
  invitation,         \* admission_invitations, by the hash of the token
  audit               \* admission_audit: how many events name each resource

documents == <<bootstrap, user, org, member, invitation, audit>>

Users == [active : BOOLEAN, platform_admin : BOOLEAN, owner : BOOLEAN,
          organization_ids : SUBSET Organizations, version : Nat]
Orgs == [active : BOOLEAN, version : Nat]
Memberships == [active : BOOLEAN, role : Roles, version : Nat]
Invites == [email : Emails, organization_id : Organizations, role : Roles,
            invited_by : Subjects, redeemed_by : Subjects \cup {NoOne},
            revoked : BOOLEAN, version : Nat]
MemberKeys == Organizations \X Subjects
Resources ==
  ({"user"} \X Subjects) \cup ({"organization"} \X Organizations)
  \cup ({"membership"} \X MemberKeys) \cup ({"invitation"} \X Invitations)

ASSUME EmailOfAssumption == EmailOf \in [Subjects -> Emails]
ASSUME NoOneAssumption == NoOne \notin Subjects
ASSUME MaxAssumption == MaxOrganizations \in Nat \ {0}
ASSUME NoDocumentAssumption ==
  /\ NoMember \in Memberships /\ NoMember.version = 0 /\ ~NoMember.active
  /\ NoInvite \in Invites /\ NoInvite.version = 0 /\ NoInvite.redeemed_by = NoOne

UserDoc(active, platform_admin, owner, organization_ids, version) ==
  [active |-> active, platform_admin |-> platform_admin, owner |-> owner,
   organization_ids |-> organization_ids, version |-> version]
OrgDoc(active, version) == [active |-> active, version |-> version]
MemberDoc(active, role, version) == [active |-> active, role |-> role, version |-> version]

Exists(document) == document.version > 0

\* The state before bootstrap_owner.
NoDocuments ==
  /\ bootstrap = NoOne
  /\ user = [s \in Subjects |-> UserDoc(FALSE, FALSE, FALSE, {}, 0)]
  /\ org = [o \in Organizations |-> OrgDoc(FALSE, 0)]
  /\ member = [m \in MemberKeys |-> NoMember]
  /\ invitation = [i \in Invitations |-> NoInvite]
  /\ audit = [x \in Resources |-> 0]

\* The documents as they are.
Store == [bootstrap |-> bootstrap, user |-> user, org |-> org, member |-> member,
          invitation |-> invitation]

-----------------------------------------------------------------------------
(* Requests.                                                               *)

Operations ==
  [kind : {"bootstrap_owner"}, by : Subjects]
  \cup [kind : {"create_organization"}, by : Subjects, org : Organizations]
  \cup [kind : {"invite"}, by : Subjects, invitation : Invitations, email : Emails,
        org : Organizations, role : Roles]
  \cup [kind : {"redeem", "revoke_invitation"}, by : Subjects, invitation : Invitations]
  \cup [kind : {"set_org_status"}, by : Subjects, org : Organizations, active : BOOLEAN]
  \cup [kind : {"set_user_status", "set_administrator"}, by : Subjects,
        user : Subjects, active : BOOLEAN]
  \cup [kind : {"update_membership"}, by : Subjects, org : Organizations,
        user : Subjects, active : BOOLEAN, role : Roles]

\* require_admin
IsAdmin(r, s) ==
  Exists(r.user[s]) /\ r.user[s].active /\ r.user[s].platform_admin

\* access: the workspaces a subject is shown.
access(r, s) ==
  {o \in r.user[s].organization_ids :
     /\ Exists(r.user[s]) /\ r.user[s].active
     /\ Exists(r.org[o]) /\ r.org[o].active
     /\ Exists(r.member[<<o, s>>]) /\ r.member[<<o, s>>].active}

IsOpen(i) == Exists(i) /\ i.redeemed_by = NoOne /\ ~i.revoked

-----------------------------------------------------------------------------
(* The transactions: may the operation go on, given the documents r.       *)

may_bootstrap_owner(r, op) ==
  r.bootstrap = NoOne /\ ~Exists(r.user[op.by])

\* The identifier is a fresh uuid4.
may_create_organization(r, op) ==
  IsAdmin(r, op.by) /\ ~Exists(r.org[op.org])

\* The document's name is the hash of a fresh random token.
may_invite(r, op) ==
  /\ IsAdmin(r, op.by)
  /\ Exists(r.org[op.org]) /\ r.org[op.org].active
  /\ ~Exists(r.invitation[op.invitation])

\* Mutant: a redeemed invitation can be redeemed again.
may_redeem_again(r, op) ==
  LET i == r.invitation[op.invitation] IN
  /\ Exists(i) /\ ~i.revoked
  /\ i.email = EmailOf[op.by]
  /\ IsAdmin(r, i.invited_by)
  /\ Exists(r.org[i.organization_id]) /\ r.org[i.organization_id].active
  /\ Exists(r.user[op.by]) => r.user[op.by].active
  /\ ~Exists(r.member[<<i.organization_id, op.by>>])
  /\ Cardinality(r.user[op.by].organization_ids) < MaxOrganizations

may_redeem(r, op) ==
  LET i == r.invitation[op.invitation] IN
  /\ IsOpen(i)
  /\ i.email = EmailOf[op.by]
  /\ IsAdmin(r, i.invited_by)
  /\ Exists(r.org[i.organization_id]) /\ r.org[i.organization_id].active
  /\ Exists(r.user[op.by]) => r.user[op.by].active
  /\ ~Exists(r.member[<<i.organization_id, op.by>>])
  /\ Cardinality(r.user[op.by].organization_ids) < MaxOrganizations

may_revoke_invitation(r, op) ==
  IsAdmin(r, op.by) /\ IsOpen(r.invitation[op.invitation])

may_set_org_status(r, op) ==
  IsAdmin(r, op.by) /\ Exists(r.org[op.org])

\* Mutant: the owner is not exempt.
may_set_user_status_any(r, op) ==
  /\ IsAdmin(r, op.by)
  /\ Exists(r.user[op.user])
  /\ op.user # op.by

may_set_user_status(r, op) ==
  /\ IsAdmin(r, op.by)
  /\ Exists(r.user[op.user])
  /\ ~r.user[op.user].owner
  /\ op.user # op.by

may_set_administrator(r, op) ==
  /\ IsAdmin(r, op.by) /\ r.user[op.by].owner
  /\ Exists(r.user[op.user]) /\ r.user[op.user].active
  /\ ~r.user[op.user].owner

may_update_membership(r, op) ==
  /\ IsAdmin(r, op.by)
  /\ Exists(r.org[op.org]) /\ Exists(r.member[<<op.org, op.user>>])
  /\ op.user # op.by
  /\ Exists(r.user[op.user]) /\ op.org \in r.user[op.user].organization_ids
  /\ op.active => r.user[op.user].active /\ r.org[op.org].active

Allowed(r, op) ==
  \/ op.kind = "bootstrap_owner" /\ may_bootstrap_owner(r, op)
  \/ op.kind = "create_organization" /\ may_create_organization(r, op)
  \/ op.kind = "invite" /\ may_invite(r, op)
  \/ op.kind = "redeem" /\ may_redeem(r, op)
  \/ op.kind = "revoke_invitation" /\ may_revoke_invitation(r, op)
  \/ op.kind = "set_org_status" /\ may_set_org_status(r, op)
  \/ op.kind = "set_user_status" /\ may_set_user_status(r, op)
  \/ op.kind = "set_administrator" /\ may_set_administrator(r, op)
  \/ op.kind = "update_membership" /\ may_update_membership(r, op)

-----------------------------------------------------------------------------
(* The transactions: what they write.  A replaced document is computed     *)
(* from the copy in r.  Every one adds an audit event (_audit) that names  *)
(* one resource.                                                           *)

Audit(resource) == audit' = [audit EXCEPT ![resource] = audit[resource] + 1]

write_bootstrap_owner(r, op) ==
  /\ bootstrap' = op.by
  /\ user' = [user EXCEPT ![op.by] = UserDoc(TRUE, TRUE, TRUE, {}, 1)]
  /\ Audit(<<"user", op.by>>)
  /\ UNCHANGED <<org, member, invitation>>

write_create_organization(r, op) ==
  /\ org' = [org EXCEPT ![op.org] = OrgDoc(TRUE, 1)]
  /\ Audit(<<"organization", op.org>>)
  /\ UNCHANGED <<bootstrap, user, member, invitation>>

\* expires_at is 24 hours later.
write_invite(r, op) ==
  /\ invitation' = [invitation EXCEPT ![op.invitation] =
       [email |-> op.email, organization_id |-> op.org, role |-> op.role,
        invited_by |-> op.by, redeemed_by |-> NoOne, revoked |-> FALSE, version |-> 1]]
  /\ Audit(<<"invitation", op.invitation>>)
  /\ UNCHANGED <<bootstrap, user, org, member>>

\* The user's document after joining o; one that does not exist starts from
\* the default User, version 1.
Joined(u, o) ==
  IF Exists(u)
    THEN UserDoc(u.active, u.platform_admin, u.owner, u.organization_ids \cup {o}, u.version + 1)
    ELSE UserDoc(TRUE, FALSE, FALSE, {o}, 2)

Settled(i, redeemed_by, revoked) ==
  [email |-> i.email, organization_id |-> i.organization_id, role |-> i.role,
   invited_by |-> i.invited_by, redeemed_by |-> redeemed_by, revoked |-> revoked,
   version |-> i.version + 1]

\* Mutant: the address is stored in place of the subject.
write_redeem_email(r, op) ==
  LET i == r.invitation[op.invitation] IN
  /\ user' = [user EXCEPT ![op.by] = Joined(r.user[op.by], i.organization_id)]
  /\ member' = [member EXCEPT ![<<i.organization_id, op.by>>] = MemberDoc(TRUE, i.role, 1)]
  /\ invitation' = [invitation EXCEPT ![op.invitation] = Settled(i, i.email, FALSE)]
  /\ Audit(<<"invitation", op.invitation>>)
  /\ UNCHANGED <<bootstrap, org>>

write_redeem(r, op) ==
  LET i == r.invitation[op.invitation] IN
  /\ user' = [user EXCEPT ![op.by] = Joined(r.user[op.by], i.organization_id)]
  /\ member' = [member EXCEPT ![<<i.organization_id, op.by>>] = MemberDoc(TRUE, i.role, 1)]
  /\ invitation' = [invitation EXCEPT ![op.invitation] = Settled(i, op.by, FALSE)]
  /\ Audit(<<"invitation", op.invitation>>)
  /\ UNCHANGED <<bootstrap, org>>

write_revoke_invitation(r, op) ==
  /\ invitation' = [invitation EXCEPT ![op.invitation] =
                      Settled(r.invitation[op.invitation], NoOne, TRUE)]
  /\ Audit(<<"invitation", op.invitation>>)
  /\ UNCHANGED <<bootstrap, user, org, member>>

write_set_org_status(r, op) ==
  /\ org' = [org EXCEPT ![op.org] = OrgDoc(op.active, r.org[op.org].version + 1)]
  /\ Audit(<<"organization", op.org>>)
  /\ UNCHANGED <<bootstrap, user, member, invitation>>

write_set_user_status(r, op) ==
  LET u == r.user[op.user] IN
  /\ user' = [user EXCEPT ![op.user] =
       UserDoc(op.active, u.platform_admin, u.owner, u.organization_ids, u.version + 1)]
  /\ Audit(<<"user", op.user>>)
  /\ UNCHANGED <<bootstrap, org, member, invitation>>

write_set_administrator(r, op) ==
  LET u == r.user[op.user] IN
  /\ user' = [user EXCEPT ![op.user] =
       UserDoc(u.active, op.active, u.owner, u.organization_ids, u.version + 1)]
  /\ Audit(<<"user", op.user>>)
  /\ UNCHANGED <<bootstrap, org, member, invitation>>

\* Mutant: the change of a membership is not audited.
write_update_membership_silent(r, op) ==
  LET m == <<op.org, op.user>> IN
  /\ member' = [member EXCEPT ![m] = MemberDoc(op.active, op.role, r.member[m].version + 1)]
  /\ UNCHANGED <<bootstrap, user, org, invitation, audit>>

write_update_membership(r, op) ==
  LET m == <<op.org, op.user>> IN
  /\ member' = [member EXCEPT ![m] = MemberDoc(op.active, op.role, r.member[m].version + 1)]
  /\ Audit(<<"membership", m>>)
  /\ UNCHANGED <<bootstrap, user, org, invitation>>

Writes(r, op) ==
  \/ op.kind = "bootstrap_owner" /\ write_bootstrap_owner(r, op)
  \/ op.kind = "create_organization" /\ write_create_organization(r, op)
  \/ op.kind = "invite" /\ write_invite(r, op)
  \/ op.kind = "redeem" /\ write_redeem(r, op)
  \/ op.kind = "revoke_invitation" /\ write_revoke_invitation(r, op)
  \/ op.kind = "set_org_status" /\ write_set_org_status(r, op)
  \/ op.kind = "set_user_status" /\ write_set_user_status(r, op)
  \/ op.kind = "set_administrator" /\ write_set_administrator(r, op)
  \/ op.kind = "update_membership" /\ write_update_membership(r, op)
=============================================================================
