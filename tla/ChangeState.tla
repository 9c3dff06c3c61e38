----------------------------- MODULE ChangeState -----------------------------
(***************************************************************************)
(* StateTransitionService and the change repository, for one change.       *)
(*                                                                         *)
(* A transition is not one atomic step of the program: the caller fixes an *)
(* expected version, the service reads the record, checks the graph, builds *)
(* the updated document from what it read, and asks the repository for a   *)
(* compare-and-set commit that also appends the audit event.  Requests of  *)
(* the workflow coordinator and of Control API users interleave at every   *)
(* one of those points, and a request may die at any of them.              *)
(***************************************************************************)
EXTENDS Integers, Sequences, ChangeStates

CONSTANTS
  Requests,   \* transition requests; each is issued at most once
  Targets,    \* the targets the coordinator asks for
  Plans,      \* values of record_updates (plan hash, workflow id)
  NoPlan,     \* the record_updates value of a change that has none yet
  Clocks,     \* readings of the servers' clocks, which need not agree
  Foresight   \* how far ahead of the store a client's expected_version may be

ASSUME TargetsAssumption == Targets \subseteq WorkflowState
ASSUME ClocksAssumption == Clocks \subseteq Nat
ASSUME ForesightAssumption == Foresight \in Nat
ASSUME NoPlanAssumption == NoPlan \notin Plans
ASSUME CreatorAssumption == "creator" \notin Requests

VARIABLES
  change,     \* the stored ChangeRecord
  trail,      \* SUCCESS audit events, in the order they were committed
  rejected,   \* requests that have a durable REJECTED audit event
  req         \* each request's progress and what it has read

vars == <<change, trail, rejected, req>>

NoChange == [status |-> "NONE", version |-> 0, plan |-> NoPlan, at |-> 0]

IdleRequest ==
  [pc |-> "idle", target |-> "NONE", expected |-> 0, set |-> NoPlan,
   cur |-> NoChange, at |-> 0]

\* pc values: "read" is before service.transition's repository.get, "invalid"
\* and "conflict" are before their record_audit.
InFlight == {"read", "invalid", "commit", "conflict"}
Answered == {"done", "rejected", "clock_error"}

Init ==
  /\ change = NoChange
  /\ trail = <<>>
  /\ rejected = {}
  /\ req = [r \in Requests |-> IdleRequest]

-----------------------------------------------------------------------------
(* Creation.                                                               *)

\* The change and its CHANGE_RECEIVED audit are created together; a second
\* creator gets ChangeAlreadyExistsError and changes nothing.
add_with_audit(t) ==
  /\ change = NoChange
  /\ change' = [status |-> "RECEIVED", version |-> 1, plan |-> NoPlan, at |-> t]
  /\ trail' = Append(trail, [from |-> "NONE", to |-> "RECEIVED", set |-> NoPlan,
                             plan |-> NoPlan, at |-> t, by |-> "creator"])
  /\ UNCHANGED <<rejected, req>>

-----------------------------------------------------------------------------
(* Who asks for a transition, and with which expected version.             *)

Exists == change.version > 0

Issue(r, target, expected, set) ==
  req' = [req EXCEPT ![r] = [pc |-> "read", target |-> target,
                             expected |-> expected, set |-> set,
                             cur |-> NoChange, at |-> 0]]

\* Mutant: the engine does not notice that the change is missing.
engine_transition_unchecked(r, target, set) ==
  /\ req[r].pc = "idle"
  /\ Issue(r, target, change.version, set)
  /\ UNCHANGED <<change, trail, rejected>>

\* WorkflowEngine._transition reads the record for its version first.
engine_transition(r, target, set) ==
  /\ req[r].pc = "idle"
  /\ Exists
  /\ Issue(r, target, change.version, set)
  /\ UNCHANGED <<change, trail, rejected>>

\* TransitionRequest.expected_version of a user: any positive integer; one
\* that a client has seen is at most the stored version.
ClientVersions == 1..(change.version + Foresight)

cancel_change(r, expected) ==
  /\ req[r].pc = "idle"
  /\ Exists
  /\ expected \in ClientVersions
  /\ Issue(r, "CANCELLED", expected, NoPlan)
  /\ UNCHANGED <<change, trail, rejected>>

\* The route reads the change to choose the target and the service reads it
\* again; a change that is not blocked is asked to stay where it is, which
\* the graph never allows.
retry_change(r, expected) ==
  /\ req[r].pc = "idle"
  /\ Exists
  /\ expected \in ClientVersions
  /\ Issue(r,
           IF change.status \in {"BLOCKED", "NEEDS_ATTENTION"}
             THEN "SCREENING" ELSE change.status,
           expected, NoPlan)
  /\ UNCHANGED <<change, trail, rejected>>

-----------------------------------------------------------------------------
(* StateTransitionService.transition.                                      *)

\* Mutant: the graph is not consulted.
AfterReadNoGraph(r, t) == IF t < change.at THEN "clock_error" ELSE "commit"

\* What transition() decides after repository.get: a clock behind the record
\* raises ValueError, an edge outside the graph is rejected.
AfterRead(r, t) ==
  IF t < change.at THEN "clock_error"
  ELSE IF can_transition(change.status, req[r].target) THEN "commit"
  ELSE "invalid"

transition_read(r, t) ==
  /\ req[r].pc = "read"
  /\ req' = [req EXCEPT ![r] = [@ EXCEPT !.cur = change, !.at = t,
                                         !.pc = AfterRead(r, t)]]
  /\ UNCHANGED <<change, trail, rejected>>

\* The document built from the record that was read, not from the stored one.
Updated(r) ==
  [status |-> req[r].target, version |-> req[r].expected + 1,
   plan |-> IF req[r].set = NoPlan THEN req[r].cur.plan ELSE req[r].set,
   at |-> req[r].at]

\* The success audit hashes the state that was read and the updated document.
SuccessAudit(r) ==
  [from |-> req[r].cur.status, to |-> req[r].target, set |-> req[r].set,
   plan |-> Updated(r).plan, at |-> req[r].at, by |-> r]

\* Mutant: last writer wins.
commit_transition_unversioned(r) ==
  /\ req[r].pc = "commit"
  /\ change' = Updated(r)
  /\ trail' = Append(trail, SuccessAudit(r))
  /\ req' = [req EXCEPT ![r].pc = "done"]
  /\ UNCHANGED rejected

\* commit_transition stores the document and its audit in one transaction,
\* if the stored version is the expected one.
commit_transition(r) ==
  /\ req[r].pc = "commit"
  /\ \/ /\ change.version = req[r].expected
        /\ change' = Updated(r)
        /\ trail' = Append(trail, SuccessAudit(r))
        /\ req' = [req EXCEPT ![r].pc = "done"]
     \/ /\ change.version # req[r].expected
        /\ req' = [req EXCEPT ![r].pc = "conflict"]
        /\ UNCHANGED <<change, trail>>
  /\ UNCHANGED rejected

\* Mutant: only an invalid edge is audited, a version conflict is just raised.
reject_audit_invalid_only(r) ==
  /\ req[r].pc \in {"invalid", "conflict"}
  /\ rejected' = IF req[r].pc = "invalid" THEN rejected \cup {r} ELSE rejected
  /\ req' = [req EXCEPT ![r].pc = "rejected"]
  /\ UNCHANGED <<change, trail>>

\* record_audit for the rejected transition, before the error is raised.
reject_audit(r) ==
  /\ req[r].pc \in {"invalid", "conflict"}
  /\ rejected' = rejected \cup {r}
  /\ req' = [req EXCEPT ![r].pc = "rejected"]
  /\ UNCHANGED <<change, trail>>

\* The process that serves the request dies between two of its steps.
crash(r) ==
  /\ req[r].pc \in InFlight
  /\ req' = [req EXCEPT ![r].pc = "crashed"]
  /\ UNCHANGED <<change, trail, rejected>>

Next ==
  \/ \E t \in Clocks : add_with_audit(t)
  \/ \E r \in Requests :
       \/ \E target \in Targets, set \in Plans \cup {NoPlan} :
            engine_transition(r, target, set)
       \/ \E expected \in ClientVersions : cancel_change(r, expected)
       \/ \E expected \in ClientVersions : retry_change(r, expected)
       \/ \E t \in Clocks : transition_read(r, t)
       \/ commit_transition(r)
       \/ reject_audit(r)
       \/ crash(r)

Spec == Init /\ [][Next]_vars

-----------------------------------------------------------------------------
(* Properties.                                                             *)

ChangeRecord ==
  [status : WorkflowState, version : Nat \ {0}, plan : Plans \cup {NoPlan},
   at : Nat]

AuditEvent ==
  [from : WorkflowState \cup {"NONE"}, to : WorkflowState,
   set : Plans \cup {NoPlan}, plan : Plans \cup {NoPlan}, at : Nat,
   by : Requests \cup {"creator"}]

Request ==
  [pc : {"idle", "crashed"} \cup InFlight \cup Answered,
   target : WorkflowState \cup {"NONE"}, expected : Nat,
   set : Plans \cup {NoPlan}, cur : ChangeRecord \cup {NoChange}, at : Nat]

\* Every stored document has the shape of its contract, and a request that
\* reached the service carries a positive expected version (TransitionRequest).
TypeOK ==
  /\ change \in ChangeRecord \cup {NoChange}
  /\ trail \in Seq(AuditEvent)
  /\ rejected \subseteq Requests
  /\ req \in [Requests -> Request]
  /\ \A r \in Requests : req[r].pc # "idle" => req[r].expected > 0

\* The success audit alone reconstructs the stored change: there is one event
\* per version, each event starts in the state the previous one ended in and
\* carries its record_updates forward (no update is lost), time never runs
\* backwards, and the last event is the stored record.
AuditExplainsChange ==
  /\ Len(trail) = change.version
  /\ \A i \in 1..(Len(trail) - 1) :
       /\ trail[i + 1].from = trail[i].to
       /\ trail[i + 1].plan = IF trail[i + 1].set = NoPlan
                                THEN trail[i].plan ELSE trail[i + 1].set
       /\ trail[i].at <= trail[i + 1].at
  /\ Exists => /\ trail[change.version].to = change.status
               /\ trail[change.version].plan = change.plan
               /\ trail[change.version].at = change.at

\* What a caller is told and what the audit says agree: a request answered
\* with success has exactly one success event, an error answer has none, and
\* a rejection is durable before the error is raised, whoever raced it.
AnswerMatchesAudit ==
  \A r \in Requests :
    LET events == {i \in 1..Len(trail) : trail[i].by = r}
    IN  /\ req[r].pc = "done" => \E i \in events : events = {i}
        /\ req[r].pc \in {"rejected", "clock_error"} \cup InFlight => events = {}
        /\ req[r].pc = "rejected" => r \in rejected

\* A stored change only ever moves along an edge of the static graph, one
\* version at a time, although the graph was checked on an earlier read.
GraphRespected ==
  [][Exists => /\ can_transition(change.status, change'.status)
               /\ change'.version = change.version + 1]_change
=============================================================================
