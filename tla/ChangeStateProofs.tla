-------------------------- MODULE ChangeStateProofs --------------------------
(***************************************************************************)
(* Proofs about ChangeState for any set of requests, targets and plans.    *)
(* The results that need optimistic locking to be sound assume that no     *)
(* client sends a version it has not seen (Foresight = 0).                 *)
(***************************************************************************)
EXTENDS ChangeState, TLAPS

\* What a request knows of the store while it is under way.  A request that
\* was checked against the graph either still holds the stored record, or its
\* expected version is already behind the stored one and its commit will fail.
ReadsStayUsable ==
  \A r \in Requests :
    /\ req[r].pc = "read" => req[r].expected <= change.version
    /\ req[r].pc = "commit" =>
         /\ req[r].expected <= req[r].cur.version
         /\ req[r].cur.version <= change.version
         /\ req[r].cur.version = change.version => req[r].cur = change
         /\ can_transition(req[r].cur.status, req[r].target)
         /\ req[r].cur.at <= req[r].at

IInv == TypeOK /\ ReadsStayUsable

\* The success events a request has.
Events(r) == {i \in 1..Len(trail) : trail[i].by = r}

\* A request without a success answer, and which did not die, has no event.
OpenRequestsHaveNoEvent ==
  \A r \in Requests :
    /\ req[r].pc = "done" => \E i \in Events(r) : Events(r) = {i}
    /\ req[r].pc \in {"idle", "rejected", "clock_error"} \cup InFlight =>
         Events(r) = {}
    /\ req[r].pc = "rejected" => r \in rejected

-----------------------------------------------------------------------------
USE TargetsAssumption, ClocksAssumption, ForesightAssumption, NoPlanAssumption

\* Replacing one request by a well-formed one keeps the table well-formed and
\* the other requests as they are.
LEMMA RequestUpdate ==
  ASSUME NEW r \in Requests, NEW q \in Request, TypeOK,
         req' = [req EXCEPT ![r] = q]
  PROVE  /\ req' \in [Requests -> Request]
         /\ req'[r] = q
         /\ \A s \in Requests \ {r} : req'[s] = req[s]
  BY DEF TypeOK

\* Initially the documents are typed and no request is under way.
LEMMA InitIInv == Init => IInv
  BY DEF Init, IInv, TypeOK, ReadsStayUsable, NoChange, IdleRequest, Request,
         InFlight, Answered, ChangeRecord

\* Graph targets are workflow states.
LEMMA GraphClosed ==
  ASSUME NEW s \in WorkflowState, NEW t, can_transition(s, t)
  PROVE  t \in WorkflowState
  BY DEF can_transition, allowed_targets, AllowedTransitions, WorkflowState

\* Every step keeps the types and what requests know of the store.
LEMMA NextIInv ==
  ASSUME Foresight = 0, IInv, [Next]_vars
  PROVE  IInv'
<1> USE DEF IInv
<1>1. ASSUME NEW t \in Clocks, add_with_audit(t)
      PROVE  IInv'
  <2>1. TypeOK'
    BY <1>1 DEF add_with_audit, TypeOK, ChangeRecord, AuditEvent, NoChange, WorkflowState
  <2>2. ReadsStayUsable'
    BY <1>1 DEF add_with_audit, TypeOK, ReadsStayUsable, NoChange, Request, ChangeRecord
  <2> QED BY <2>1, <2>2
<1>2. ASSUME NEW r \in Requests, NEW target \in WorkflowState,
             NEW set \in Plans \cup {NoPlan}, NEW expected \in 1..change.version,
             Issue(r, target, expected, set), UNCHANGED <<change, trail, rejected>>
      PROVE  IInv'
  <2> DEFINE q == [pc |-> "read", target |-> target, expected |-> expected,
                 set |-> set, cur |-> NoChange, at |-> 0]
  <2>0. change.version \in Nat
    BY DEF TypeOK, ChangeRecord, NoChange
  <2>1. q \in Request /\ q.pc = "read" /\ q.expected = expected
    BY <2>0 DEF Request, InFlight
  <2>2. req' = [req EXCEPT ![r] = q]
    BY <1>2 DEF Issue
  <2> HIDE DEF q
  <2>3. /\ req' \in [Requests -> Request]
        /\ req'[r] = q
        /\ \A s \in Requests \ {r} : req'[s] = req[s]
    BY <2>1, <2>2, RequestUpdate
  <2>4. TypeOK'
    BY <1>2, <2>0, <2>1, <2>3 DEF TypeOK
  <2>5. ReadsStayUsable'
    BY <1>2, <2>0, <2>1, <2>3 DEF ReadsStayUsable
  <2> QED BY <2>4, <2>5
<1>3. ASSUME NEW r \in Requests, NEW target \in Targets,
             NEW set \in Plans \cup {NoPlan}, engine_transition(r, target, set)
      PROVE  IInv'
  <2>1. change.version \in 1..change.version
    BY <1>3 DEF engine_transition, Exists, TypeOK, ChangeRecord, NoChange
  <2> QED BY <1>2, <1>3, <2>1 DEF engine_transition
<1>4. ASSUME NEW r \in Requests, NEW expected \in ClientVersions, cancel_change(r, expected)
      PROVE  IInv'
  <2>1. expected \in 1..change.version
    BY <1>4 DEF ClientVersions, TypeOK, ChangeRecord, NoChange
  <2> QED BY <1>2, <1>4, <2>1 DEF cancel_change, WorkflowState
<1>5. ASSUME NEW r \in Requests, NEW expected \in ClientVersions, retry_change(r, expected)
      PROVE  IInv'
  <2>1. expected \in 1..change.version
    BY <1>5 DEF ClientVersions, TypeOK, ChangeRecord, NoChange
  <2>2. change.status \in WorkflowState
    BY <1>5 DEF retry_change, Exists, TypeOK, ChangeRecord, NoChange
  <2> DEFINE target == IF change.status \in {"BLOCKED", "NEEDS_ATTENTION"}
                         THEN "SCREENING" ELSE change.status
  <2>3. target \in WorkflowState
    BY <2>2 DEF WorkflowState
  <2>4. Issue(r, target, expected, NoPlan) /\ UNCHANGED <<change, trail, rejected>>
    BY <1>5 DEF retry_change
  <2> HIDE DEF target
  <2> QED BY <1>2, <2>1, <2>3, <2>4
<1>6. ASSUME NEW r \in Requests, NEW t \in Clocks, transition_read(r, t)
      PROVE  IInv'
  <2> DEFINE q == [req[r] EXCEPT !.cur = change, !.at = t, !.pc = AfterRead(r, t)]
  <2>1. q \in Request
    BY DEF TypeOK, Request, AfterRead, InFlight, Answered
  <2>2. /\ q.pc = AfterRead(r, t) /\ q.cur = change /\ q.at = t
        /\ q.target = req[r].target /\ q.expected = req[r].expected
    BY DEF TypeOK, Request
  <2>3. req' = [req EXCEPT ![r] = q] /\ UNCHANGED <<change, trail, rejected>>
    BY <1>6 DEF transition_read
  <2> HIDE DEF q
  <2>4. /\ req' \in [Requests -> Request]
        /\ req'[r] = q
        /\ \A s \in Requests \ {r} : req'[s] = req[s]
    BY <2>1, <2>3, RequestUpdate
  <2>5. req[r].pc = "read"
    BY <1>6 DEF transition_read
  <2>6. TypeOK'
    BY <2>2, <2>3, <2>4, <2>5 DEF TypeOK
  <2>7. q.pc = "commit" => can_transition(change.status, req[r].target) /\ change.at <= t
    BY <2>2 DEF AfterRead, TypeOK, ChangeRecord, NoChange
  <2>8. change.version \in Nat /\ req[r].expected <= change.version /\ q.pc # "read"
    BY <2>2, <2>5 DEF TypeOK, ChangeRecord, NoChange, ReadsStayUsable, AfterRead
  <2>9. ReadsStayUsable'
    BY <2>2, <2>3, <2>4, <2>7, <2>8 DEF ReadsStayUsable
  <2> QED BY <2>6, <2>9
<1>7. ASSUME NEW r \in Requests, commit_transition(r)
      PROVE  IInv'
  <2>1. CASE change.version = req[r].expected
    <3>0. /\ change' = Updated(r)
          /\ trail' = Append(trail, SuccessAudit(r))
          /\ req' = [req EXCEPT ![r].pc = "done"]
          /\ rejected' = rejected /\ req[r].pc = "commit"
      BY <1>7, <2>1 DEF commit_transition
    <3>1. req[r].cur = change
      BY <2>1, <3>0 DEF ReadsStayUsable, TypeOK, Request, ChangeRecord, NoChange
    <3>2. req[r].expected \in Nat /\ req[r].expected > 0 /\ change \in ChangeRecord
      BY <2>1, <3>0 DEF TypeOK, Request, NoChange
    <3>3. req[r].target \in WorkflowState
      BY <3>0, <3>1, <3>2, GraphClosed DEF ReadsStayUsable, ChangeRecord
    <3>4. change' \in ChangeRecord /\ change'.version = change.version + 1
      BY <2>1, <3>0, <3>1, <3>2, <3>3 DEF Updated, TypeOK, Request, ChangeRecord
    <3>5. SuccessAudit(r) \in AuditEvent
      BY <3>0, <3>1, <3>2, <3>3 DEF Updated, SuccessAudit, TypeOK, Request, ChangeRecord, AuditEvent
    <3>6. /\ req' \in [Requests -> Request]
          /\ req'[r].pc = "done" /\ req'[r].expected = req[r].expected
          /\ \A s \in Requests \ {r} : req'[s] = req[s]
      BY <3>0 DEF TypeOK, Request, Answered
    <3>7. TypeOK'
      BY <3>0, <3>2, <3>4, <3>5, <3>6 DEF TypeOK
    <3>8. ASSUME NEW s \in Requests \ {r}, req[s].pc = "commit"
          PROVE  req[s].cur.version \in Nat /\ req[s].cur.version <= change.version
      BY <3>8 DEF ReadsStayUsable, TypeOK, Request, ChangeRecord, NoChange
    <3>9. change.version \in Nat /\ \A s \in Requests : req[s].expected \in Nat
      BY <3>2 DEF TypeOK, Request, ChangeRecord
    <3>10. ReadsStayUsable'
      BY <3>4, <3>6, <3>8, <3>9 DEF ReadsStayUsable
    <3> QED BY <3>7, <3>10
  <2>2. CASE change.version # req[r].expected
    <3>1. /\ req' = [req EXCEPT ![r].pc = "conflict"]
          /\ UNCHANGED <<change, trail, rejected>> /\ req[r].pc = "commit"
      BY <1>7, <2>2 DEF commit_transition
    <3>2. TypeOK'
      BY <3>1 DEF TypeOK, Request, InFlight
    <3>3. ReadsStayUsable'
      BY <3>1 DEF ReadsStayUsable, TypeOK, Request
    <3> QED BY <3>2, <3>3
  <2> QED BY <2>1, <2>2
<1>8. ASSUME NEW r \in Requests, reject_audit(r)
      PROVE  IInv'
  <2>1. TypeOK'
    BY <1>8 DEF reject_audit, TypeOK, Request, Answered
  <2>2. ReadsStayUsable'
    BY <1>8 DEF reject_audit, TypeOK, Request, ReadsStayUsable
  <2> QED BY <2>1, <2>2
<1>9. ASSUME NEW r \in Requests, crash(r)
      PROVE  IInv'
  <2>1. TypeOK'
    BY <1>9 DEF crash, TypeOK, Request, InFlight
  <2>2. ReadsStayUsable'
    BY <1>9 DEF crash, TypeOK, Request, ReadsStayUsable
  <2> QED BY <2>1, <2>2
<1>10. CASE UNCHANGED vars
  BY <1>10 DEF vars, TypeOK, ReadsStayUsable
<1> QED
  BY <1>1, <1>3, <1>4, <1>5, <1>6, <1>7, <1>8, <1>9, <1>10 DEF Next

\* The types and the knowledge invariant hold in every reachable state.
THEOREM IInvInvariant == ASSUME Foresight = 0 PROVE Spec => []IInv
  BY InitIInv, NextIInv, PTL DEF Spec

-----------------------------------------------------------------------------
(* Consequences for the steps that commit.                                 *)

\* A commit that succeeds was computed from the record it replaces.
LEMMA CommitIsCurrent ==
  ASSUME IInv, NEW r \in Requests, req[r].pc = "commit",
         change.version = req[r].expected
  PROVE  /\ req[r].cur = change
         /\ change \in ChangeRecord
         /\ can_transition(change.status, req[r].target)
         /\ change.at <= req[r].at
<1>1. req[r].cur = change
  BY DEF IInv, ReadsStayUsable, TypeOK, Request, ChangeRecord, NoChange
<1>2. change \in ChangeRecord
  BY DEF IInv, TypeOK, Request, NoChange
<1> QED BY <1>1, <1>2 DEF IInv, ReadsStayUsable

\* The only steps that touch the change or its audit are creation and a
\* commit whose expected version is the stored one.
LEMMA StoreSteps ==
  ASSUME [Next]_vars
  PROVE  \/ UNCHANGED <<change, trail>>
         \/ \E t \in Clocks : add_with_audit(t)
         \/ \E r \in Requests : /\ req[r].pc = "commit"
                                /\ change.version = req[r].expected
                                /\ change' = Updated(r)
                                /\ trail' = Append(trail, SuccessAudit(r))
                                /\ req' = [req EXCEPT ![r].pc = "done"]
                                /\ rejected' = rejected
<1>1. ASSUME NEW r \in Requests, commit_transition(r)
      PROVE  \/ UNCHANGED <<change, trail>>
             \/ /\ req[r].pc = "commit"
                /\ change.version = req[r].expected
                /\ change' = Updated(r)
                /\ trail' = Append(trail, SuccessAudit(r))
                /\ req' = [req EXCEPT ![r].pc = "done"]
                /\ rejected' = rejected
  BY <1>1 DEF commit_transition
<1>2. ASSUME NEW r \in Requests, commit_transition(r)
      PROVE  \/ UNCHANGED <<change, trail>>
             \/ \E s \in Requests : /\ req[s].pc = "commit"
                                    /\ change.version = req[s].expected
                                    /\ change' = Updated(s)
                                    /\ trail' = Append(trail, SuccessAudit(s))
                                    /\ req' = [req EXCEPT ![s].pc = "done"]
                                    /\ rejected' = rejected
  BY <1>1, <1>2
<1>3. ASSUME NEW r \in Requests,
             \/ \E target \in Targets, set \in Plans \cup {NoPlan} :
                  engine_transition(r, target, set)
             \/ \E expected \in ClientVersions : cancel_change(r, expected)
             \/ \E expected \in ClientVersions : retry_change(r, expected)
             \/ \E t \in Clocks : transition_read(r, t)
             \/ reject_audit(r)
             \/ crash(r)
      PROVE  UNCHANGED <<change, trail>>
  BY <1>3 DEF engine_transition, cancel_change, retry_change, transition_read,
              reject_audit, crash
<1> QED
  BY <1>2, <1>3 DEF Next, vars

\* A stored change only moves along edges of the static graph, one version at
\* a time, for any number of concurrent requests (GraphRespected).
THEOREM GraphIsRespected == ASSUME Foresight = 0 PROVE Spec => GraphRespected
<1>1. ASSUME IInv, [Next]_vars
      PROVE  [Exists => /\ can_transition(change.status, change'.status)
                        /\ change'.version = change.version + 1]_change
  <2>1. CASE \E t \in Clocks : add_with_audit(t)
    BY <2>1 DEF add_with_audit, Exists, NoChange
  <2>2. ASSUME NEW r \in Requests, req[r].pc = "commit",
               change.version = req[r].expected, change' = Updated(r)
        PROVE  /\ can_transition(change.status, change'.status)
               /\ change'.version = change.version + 1
    BY <1>1, <2>2, CommitIsCurrent DEF Updated
  <2> QED BY <1>1, <2>1, <2>2, StoreSteps
<1> QED BY <1>1, IInvInvariant, PTL DEF Spec, GraphRespected

-----------------------------------------------------------------------------
(* The audit trail.                                                        *)

\* Every step keeps the audit trail a complete explanation of the change.
LEMMA AuditStep ==
  ASSUME IInv, AuditExplainsChange, [Next]_vars
  PROVE  AuditExplainsChange'
<1> USE DEF IInv
<1>1. CASE UNCHANGED <<change, trail>>
  BY <1>1 DEF AuditExplainsChange, Exists
<1>2. ASSUME NEW t \in Clocks, add_with_audit(t)
      PROVE  AuditExplainsChange'
  <2>1. trail \in Seq(AuditEvent) /\ Len(trail) = 0
    BY <1>2 DEF add_with_audit, AuditExplainsChange, TypeOK, NoChange
  <2> DEFINE e == [from |-> "NONE", to |-> "RECEIVED", set |-> NoPlan,
                   plan |-> NoPlan, at |-> t, by |-> "creator"]
  <2>2. /\ trail' = Append(trail, e) /\ e.to = "RECEIVED" /\ e.plan = NoPlan /\ e.at = t
        /\ change'.version = 1 /\ change'.status = "RECEIVED"
        /\ change'.plan = NoPlan /\ change'.at = t
    BY <1>2 DEF add_with_audit
  <2>3. e \in AuditEvent
    BY DEF AuditEvent, WorkflowState
  <2> HIDE DEF e
  <2>4. Len(trail') = 1 /\ trail'[1] = e
    BY <2>1, <2>2, <2>3
  <2> QED BY <2>2, <2>4 DEF AuditExplainsChange, Exists
<1>3. ASSUME NEW r \in Requests, req[r].pc = "commit",
             change.version = req[r].expected, change' = Updated(r),
             trail' = Append(trail, SuccessAudit(r))
      PROVE  AuditExplainsChange'
  <2> DEFINE e == SuccessAudit(r)
             n == change.version
  <2>1. /\ req[r].cur = change /\ change \in ChangeRecord /\ change.at <= req[r].at
    BY <1>3, CommitIsCurrent
  <2>2. /\ n \in Nat \ {0} /\ change.at \in Nat
    BY <2>1 DEF ChangeRecord
  <2>3. /\ e.from = change.status /\ e.to = req[r].target /\ e.at = req[r].at
        /\ e.plan = IF e.set = NoPlan THEN change.plan ELSE e.set
        /\ change'.status = e.to /\ change'.plan = e.plan /\ change'.at = e.at
        /\ change'.version = n + 1
    BY <1>3, <2>1 DEF SuccessAudit, Updated
  <2>4. trail \in Seq(AuditEvent) /\ Len(trail) = n
    BY DEF TypeOK, AuditExplainsChange
  <2>5. trail' = Append(trail, e)
    BY <1>3
  <2> HIDE DEF e
  <2>6. /\ Len(trail') = n + 1 /\ trail'[n + 1] = e
        /\ \A i \in 1..n : trail'[i] = trail[i]
    BY <2>2, <2>4, <2>5
  <2>7. /\ trail[n].to = change.status /\ trail[n].plan = change.plan
        /\ trail[n].at = change.at
    BY <2>2 DEF AuditExplainsChange, Exists
  <2>8. ASSUME NEW i \in 1..(Len(trail') - 1)
        PROVE  /\ trail'[i + 1].from = trail'[i].to
               /\ trail'[i + 1].plan = IF trail'[i + 1].set = NoPlan
                                         THEN trail'[i].plan ELSE trail'[i + 1].set
               /\ trail'[i].at <= trail'[i + 1].at
    <3>1. CASE i = n
      BY <2>1, <2>2, <2>3, <2>6, <2>7, <3>1
    <3>2. CASE i # n
      <4>1. i \in 1..(Len(trail) - 1) /\ i + 1 \in 1..n /\ i \in 1..n
        BY <2>2, <2>4, <2>6, <3>2
      <4>2. /\ trail[i + 1].from = trail[i].to
            /\ trail[i + 1].plan = IF trail[i + 1].set = NoPlan
                                     THEN trail[i].plan ELSE trail[i + 1].set
            /\ trail[i].at <= trail[i + 1].at
        BY <4>1 DEF AuditExplainsChange
      <4>3. trail'[i] = trail[i] /\ trail'[i + 1] = trail[i + 1]
        BY <2>6, <4>1
      <4> QED BY <4>2, <4>3
    <3> QED BY <3>1, <3>2
  <2> QED BY <2>2, <2>3, <2>6, <2>8 DEF AuditExplainsChange, Exists
<1> QED BY <1>1, <1>2, <1>3, StoreSteps

\* The audit trail alone reconstructs the stored change: no version without
\* its event, no lost update, no step back in time (AuditExplainsChange).
THEOREM AuditTrailComplete == ASSUME Foresight = 0 PROVE Spec => []AuditExplainsChange
<1>1. Init => AuditExplainsChange
  BY DEF Init, AuditExplainsChange, Exists, NoChange
<1> QED BY <1>1, AuditStep, IInvInvariant, PTL DEF Spec

\* The documents keep the shape of their contracts (TypeOK).
THEOREM TypeCorrect == ASSUME Foresight = 0 PROVE Spec => []TypeOK
<1>1. IInv => TypeOK
  BY DEF IInv
<1> QED BY <1>1, IInvInvariant, PTL

-----------------------------------------------------------------------------
(* Answers and audit events.                                               *)

\* Appending an event of another request leaves a request's events alone.
LEMMA EventsOfOthers ==
  ASSUME NEW e \in AuditEvent, NEW r, e.by # r,
         trail \in Seq(AuditEvent), trail' = Append(trail, e)
  PROVE  Events(r)' = Events(r)
<1>1. Len(trail') = Len(trail) + 1 /\ Len(trail) \in Nat /\ trail'[Len(trail) + 1] = e
  OBVIOUS
<1>2. \A i \in 1..Len(trail) : trail'[i] = trail[i]
  OBVIOUS
<1> QED BY <1>1, <1>2 DEF Events

\* Every step keeps answers and success events in agreement.
LEMMA AnswerStep ==
  ASSUME Foresight = 0, IInv, OpenRequestsHaveNoEvent, [Next]_vars
  PROVE  OpenRequestsHaveNoEvent'
<1> USE DEF IInv
<1>1. CASE UNCHANGED vars
  BY <1>1 DEF vars, OpenRequestsHaveNoEvent, Events
<1>2. ASSUME NEW t \in Clocks, add_with_audit(t)
      PROVE  OpenRequestsHaveNoEvent'
  <2> DEFINE e == [from |-> "NONE", to |-> "RECEIVED", set |-> NoPlan,
                   plan |-> NoPlan, at |-> t, by |-> "creator"]
  <2>1. e \in AuditEvent /\ e.by = "creator"
    BY DEF AuditEvent, WorkflowState
  <2>2. trail' = Append(trail, e) /\ UNCHANGED <<rejected, req>> /\ trail \in Seq(AuditEvent)
    BY <1>2 DEF add_with_audit, TypeOK
  <2> HIDE DEF e
  <2>3. \A r \in Requests : Events(r)' = Events(r)
    BY <2>1, <2>2, EventsOfOthers, CreatorAssumption
  <2> QED BY <2>2, <2>3 DEF OpenRequestsHaveNoEvent
<1>3. ASSUME NEW r \in Requests, req[r].pc = "commit",
             change.version = req[r].expected,
             trail' = Append(trail, SuccessAudit(r)),
             req' = [req EXCEPT ![r].pc = "done"], rejected' = rejected
      PROVE  OpenRequestsHaveNoEvent'
  <2> DEFINE e == SuccessAudit(r)
  <2>1. req[r].target \in WorkflowState /\ req[r].cur \in ChangeRecord
    BY <1>3, CommitIsCurrent, GraphClosed DEF ChangeRecord
  <2>2. e \in AuditEvent /\ e.by = r
    BY <2>1 DEF SuccessAudit, Updated, AuditEvent, TypeOK, Request, ChangeRecord
  <2>3. trail \in Seq(AuditEvent) /\ trail' = Append(trail, e)
    BY <1>3 DEF TypeOK
  <2> HIDE DEF e
  <2>4. \A s \in Requests \ {r} : Events(s)' = Events(s) /\ req'[s] = req[s]
    BY <1>3, <2>2, <2>3, EventsOfOthers DEF TypeOK
  <2>5. Events(r) = {}
    BY <1>3 DEF OpenRequestsHaveNoEvent, InFlight
  <2>6. /\ Len(trail') = Len(trail) + 1 /\ Len(trail) \in Nat
        /\ trail'[Len(trail) + 1] = e
        /\ \A i \in 1..Len(trail) : trail'[i] = trail[i]
    BY <2>2, <2>3
  <2>7. Events(r)' = {Len(trail) + 1}
    BY <2>2, <2>5, <2>6 DEF Events
  <2>8. req'[r].pc = "done"
    BY <1>3 DEF TypeOK, Request
  <2> QED BY <1>3, <2>4, <2>7, <2>8 DEF OpenRequestsHaveNoEvent, InFlight
<1>4. ASSUME NEW r \in Requests, trail' = trail,
             \A s \in Requests \ {r} : req'[s] = req[s],
             req[r].pc \in {"idle"} \cup InFlight,
             req'[r].pc \in {"clock_error", "crashed"} \cup InFlight,
             rejected' = rejected
      PROVE  OpenRequestsHaveNoEvent'
  <2>1. \A s : Events(s)' = Events(s)
    BY <1>4 DEF Events
  <2> QED BY <1>4, <2>1 DEF OpenRequestsHaveNoEvent, InFlight
<1>5. ASSUME NEW r \in Requests,
             \/ \E target \in Targets, set \in Plans \cup {NoPlan} :
                  engine_transition(r, target, set)
             \/ \E expected \in ClientVersions : cancel_change(r, expected)
             \/ \E expected \in ClientVersions : retry_change(r, expected)
      PROVE  OpenRequestsHaveNoEvent'
  <2>1. /\ trail' = trail /\ rejected' = rejected /\ req[r].pc = "idle"
        /\ req'[r].pc = "read" /\ \A s \in Requests \ {r} : req'[s] = req[s]
    BY <1>5 DEF engine_transition, cancel_change, retry_change, Issue, TypeOK
  <2> QED BY <1>4, <2>1 DEF InFlight
<1>6. ASSUME NEW r \in Requests, NEW t \in Clocks, transition_read(r, t)
      PROVE  OpenRequestsHaveNoEvent'
  <2>1. /\ trail' = trail /\ rejected' = rejected /\ req[r].pc = "read"
        /\ req'[r].pc = AfterRead(r, t) /\ \A s \in Requests \ {r} : req'[s] = req[s]
    BY <1>6 DEF transition_read, TypeOK, Request
  <2>2. AfterRead(r, t) \in {"clock_error"} \cup InFlight
    BY DEF AfterRead, InFlight
  <2> QED BY <1>4, <2>1, <2>2 DEF InFlight
<1>7. ASSUME NEW r \in Requests, commit_transition(r)
      PROVE  OpenRequestsHaveNoEvent'
  <2>1. CASE change.version = req[r].expected
    BY <1>3, <1>7, <2>1 DEF commit_transition
  <2>2. CASE change.version # req[r].expected
    <3>1. /\ trail' = trail /\ rejected' = rejected /\ req[r].pc = "commit"
          /\ req'[r].pc = "conflict" /\ \A s \in Requests \ {r} : req'[s] = req[s]
      BY <1>7, <2>2 DEF commit_transition, TypeOK, Request
    <3> QED BY <1>4, <3>1 DEF InFlight
  <2> QED BY <2>1, <2>2
<1>8. ASSUME NEW r \in Requests, reject_audit(r)
      PROVE  OpenRequestsHaveNoEvent'
  <2>1. /\ trail' = trail /\ rejected' = rejected \cup {r} /\ req[r].pc \in InFlight
        /\ req'[r].pc = "rejected" /\ \A s \in Requests \ {r} : req'[s] = req[s]
    BY <1>8 DEF reject_audit, TypeOK, Request, InFlight
  <2>2. \A s : Events(s)' = Events(s)
    BY <2>1 DEF Events
  <2> QED BY <2>1, <2>2 DEF OpenRequestsHaveNoEvent, InFlight
<1>9. ASSUME NEW r \in Requests, crash(r)
      PROVE  OpenRequestsHaveNoEvent'
  <2>1. /\ trail' = trail /\ rejected' = rejected /\ req[r].pc \in InFlight
        /\ req'[r].pc = "crashed" /\ \A s \in Requests \ {r} : req'[s] = req[s]
    BY <1>9 DEF crash, TypeOK, Request
  <2> QED BY <1>4, <2>1 DEF InFlight
<1> QED BY <1>1, <1>2, <1>5, <1>6, <1>7, <1>8, <1>9 DEF Next

\* What callers are told agrees with the audit, for any number of concurrent
\* requests and crashes (AnswerMatchesAudit).
THEOREM AnswersAgreeWithAudit == ASSUME Foresight = 0 PROVE Spec => []AnswerMatchesAudit
<1>1. Init => OpenRequestsHaveNoEvent
  BY DEF Init, OpenRequestsHaveNoEvent, Events, IdleRequest, InFlight
<1>2. OpenRequestsHaveNoEvent => AnswerMatchesAudit
  BY DEF OpenRequestsHaveNoEvent, AnswerMatchesAudit, Events, InFlight
<1> QED BY <1>1, <1>2, AnswerStep, IInvInvariant, PTL DEF Spec
=============================================================================
