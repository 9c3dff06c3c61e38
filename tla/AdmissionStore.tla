---------------------------- MODULE AdmissionStore ----------------------------
(***************************************************************************)
(* The admission service as it runs: several API workers, each with a      *)
(* transaction open on the shared store.  A transaction reads documents    *)
(* and decides; later it commits, provided no document it read has been    *)
(* written since (the Firestore server's part; the memory adapter holds a  *)
(* lock instead).  Otherwise it is run again or given up.                  *)
(***************************************************************************)
EXTENDS AdmissionDocuments

CONSTANTS
  Workers,
  NoTx,       \* a worker without an open transaction
  MaxCommits  \* bound of the model: transactions that commit

ASSUME MaxCommitsAssumption == MaxCommits \in Nat

VARIABLES
  expired,    \* invitations whose 24 hours are over
  tx,         \* the open transaction of each worker
  commits     \* history: committed transactions, to bound the model

vars == <<documents, expired, tx, commits>>

Init ==
  /\ NoDocuments
  /\ expired = {}
  /\ tx = [w \in Workers |-> NoTx]
  /\ commits = 0

-----------------------------------------------------------------------------
(* What a transaction gets from tx.get.  The new identifiers of            *)
(* create_organization and invite are fresh; here that they are unused is  *)
(* part of what the transaction read.                                      *)

UsersRead(op) ==
  IF op.kind \in {"set_user_status", "set_administrator", "update_membership"}
    THEN {op.by, op.user}
  ELSE IF op.kind = "redeem" THEN {op.by, invitation[op.invitation].invited_by}
  ELSE {op.by}

InvitesRead(op) ==
  IF op.kind \in {"invite", "redeem", "revoke_invitation"} THEN {op.invitation} ELSE {}

OrgsRead(op) ==
  IF op.kind \in {"create_organization", "invite", "set_org_status", "update_membership"}
    THEN {op.org}
  ELSE IF op.kind = "redeem" THEN {invitation[op.invitation].organization_id}
  ELSE {}

MembersRead(op) ==
  IF op.kind = "update_membership" THEN {<<op.org, op.user>>}
  ELSE IF op.kind = "redeem" THEN {<<invitation[op.invitation].organization_id, op.by>>}
  ELSE {}

PartOf(f, S) == [x \in S |-> f[x]]

\* The documents an operation reads.
Read(op) ==
  [bootstrap |-> bootstrap,
   user |-> PartOf(user, UsersRead(op)),
   org |-> PartOf(org, OrgsRead(op)),
   member |-> PartOf(member, MembersRead(op)),
   invitation |-> PartOf(invitation, InvitesRead(op))]

Agree(f, g) == \A x \in DOMAIN f : f[x] = g[x]

\* Mutant: the users are read outside the transaction.
Current_users_outside(r) ==
  /\ r.bootstrap = bootstrap
  /\ Agree(r.org, org) /\ Agree(r.member, member) /\ Agree(r.invitation, invitation)

\* The store still holds what the transaction read.
Current(r) ==
  /\ r.bootstrap = bootstrap
  /\ Agree(r.user, user) /\ Agree(r.org, org)
  /\ Agree(r.member, member) /\ Agree(r.invitation, invitation)

-----------------------------------------------------------------------------
\* operation(tx): the reads and the decision.  A refusal writes nothing.
begin(w, op) ==
  /\ tx[w] = NoTx
  /\ commits < MaxCommits
  /\ Allowed(Read(op), op)
  /\ op.kind \in {"redeem", "revoke_invitation"} => op.invitation \notin expired
  /\ tx' = [tx EXCEPT ![w] = [op |-> op, read |-> Read(op)]]
  /\ UNCHANGED <<documents, expired, commits>>

\* Mutant: the writes are flushed without the server's check of the reads.
commit_blind(w) ==
  /\ tx[w] # NoTx
  /\ Writes(tx[w].read, tx[w].op)
  /\ tx' = [tx EXCEPT ![w] = NoTx]
  /\ commits' = commits + 1
  /\ UNCHANGED expired

\* flush and commit: all writes or none.
commit(w) ==
  /\ tx[w] # NoTx
  /\ Current(tx[w].read)
  /\ Writes(tx[w].read, tx[w].op)
  /\ tx' = [tx EXCEPT ![w] = NoTx]
  /\ commits' = commits + 1
  /\ UNCHANGED expired

\* A conflict, a lost connection or a crash: nothing is written; the retry of
\* @firestore.transactional is another begin.
abort(w) ==
  /\ tx[w] # NoTx
  /\ tx' = [tx EXCEPT ![w] = NoTx]
  /\ UNCHANGED <<documents, expired, commits>>

expire(i) ==
  /\ Exists(invitation[i]) /\ i \notin expired
  /\ expired' = expired \cup {i}
  /\ UNCHANGED <<documents, tx, commits>>

Next ==
  \/ \E w \in Workers, op \in Operations : begin(w, op)
  \/ \E w \in Workers : commit(w) \/ abort(w)
  \/ \E i \in Invitations : expire(i)

Spec == Init /\ [][Next]_vars

-----------------------------------------------------------------------------
(* Properties.                                                             *)

\* The documents have the fields their models validate, the audit counts are
\* natural numbers, and an open transaction is one of the operations.
TypeOK ==
  /\ bootstrap \in Subjects \cup {NoOne}
  /\ user \in [Subjects -> Users]
  /\ org \in [Organizations -> Orgs]
  /\ member \in [MemberKeys -> Memberships]
  /\ invitation \in [Invitations -> Invites]
  /\ audit \in [Resources -> Nat]
  /\ expired \subseteq Invitations
  /\ commits \in Nat
  /\ DOMAIN tx = Workers
  /\ \A w \in Workers : tx[w] # NoTx => tx[w].op \in Operations

Redeemed(i, o, s) ==
  /\ Exists(invitation[i])
  /\ invitation[i].redeemed_by = s /\ invitation[i].organization_id = o

\* "Provider login alone never activates membership": the user document, the
\* membership document and the invitations agree.  A membership exists exactly
\* for the organizations of its user's document, and each came from one
\* redemption of an invitation addressed to that user; none of the races of two
\* redemptions, or of a redemption and a revocation, leaves half of it behind.
MembershipFromInvitation ==
  \A o \in Organizations, s \in Subjects :
    /\ Exists(member[<<o, s>>]) <=> o \in user[s].organization_ids
    /\ Exists(member[<<o, s>>]) <=> \E i \in Invitations : Redeemed(i, o, s)
    /\ \A i, j \in Invitations : Redeemed(i, o, s) /\ Redeemed(j, o, s) => i = j
    /\ \A i \in Invitations : Redeemed(i, o, s) =>
         ~invitation[i].revoked /\ invitation[i].email = EmailOf[s]

\* The bootstrapped owner stays the only owner and an active administrator,
\* whatever administrators do to each other: the service never locks itself out.
OwnerStays ==
  \A s \in Subjects :
    /\ user[s].owner <=> bootstrap = s
    /\ bootstrap = s => IsAdmin(Store, s)

\* "Partial mutation without audit": the events that name a resource count its
\* versions, so no write went unaudited and no event stands for a lost write.
\* A redemption raises the user's version and is audited on the invitation.
AuditCountsVersions ==
  /\ \A o \in Organizations : audit[<<"organization", o>>] = org[o].version
  /\ \A i \in Invitations : audit[<<"invitation", i>>] = invitation[i].version
  /\ \A m \in MemberKeys :
       audit[<<"membership", m>>] = IF Exists(member[m]) THEN member[m].version - 1 ELSE 0
  /\ \A s \in Subjects :
       audit[<<"user", s>>] + Cardinality(user[s].organization_ids)
         = user[s].version - IF Exists(user[s]) /\ ~user[s].owner THEN 1 ELSE 0

\* "Account/organization suspension takes precedence over membership
\* activation": at the moment a membership becomes active its user and its
\* organization are active, and one that is created has an active administrator
\* as its inviter, also when a suspension committed after the transaction read.
NewAccessIsCurrent ==
  [][\A o \in Organizations, s \in Subjects :
       member'[<<o, s>>].active /\ ~member[<<o, s>>].active =>
         /\ o \in access(Store', s)
         /\ ~Exists(member[<<o, s>>]) =>
              \E i \in Invitations :
                Redeemed(i, o, s)' /\ ~Redeemed(i, o, s) /\ IsAdmin(Store, invitation[i].invited_by)]_vars

\* The transactions implement operations that happen one at a time.
Atomic == INSTANCE Admission
  WITH bootstrap <- bootstrap, user <- user, org <- org, member <- member,
       invitation <- invitation, audit <- audit

\* Every step of the store is one whole operation, allowed by the documents as
\* they are when it commits, or changes no document: the behaviours of the
\* transactions are behaviours of Admission.
ImplementsAtomic == Atomic!Spec
=============================================================================
