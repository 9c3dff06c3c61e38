--------------------------- MODULE WorkflowStores ---------------------------
(***************************************************************************)
(* What the workflow coordinator's two entry points share: the change, the *)
(* WorkflowExecutionRecord, the gateway's approval, and the coroutines that *)
(* run WorkflowEngine over them.  One event, hence one change and one      *)
(* workflow record (their identifiers are derived from the event).         *)
(*                                                                         *)
(* A coroutine keeps a local copy of the record it last read or wrote, and *)
(* every store access is a step of its own, so other coroutines run        *)
(* between any two of them.                                                *)
(***************************************************************************)
EXTENDS Integers, FiniteSets, ChangeStates

CONSTANTS
  Deliveries,   \* deliveries of the event: at most max_delivery_attempts
  Callbacks,    \* approval callbacks: one per (repeated) decision request
  Plans,        \* the plans the fleet may draft
  NoPlan,       \* plan = None
  NumSteps,     \* steps of a plan, numbered by RemediationStep.order
  UserTargets   \* what Control API users may ask for: cancel, retry

ASSUME NumStepsAssumption == NumSteps \in Nat
ASSUME NoPlanPlansAssumption == NoPlan \notin Plans
ASSUME UserTargetsAssumption == UserTargets \subseteq {"CANCELLED", "SCREENING"}
ASSUME ProcsAssumption == Deliveries \cap Callbacks = {}

VARIABLES
  change,       \* ChangeRecord: status, version, workflow id set?, plan hash; and
                \* from its audit trail: has it ever needed attention?
  record,       \* WorkflowExecutionRecord
  approval,     \* ApprovalRequestRecord
  expired,      \* approval_expires_at has passed
  proc          \* the coroutines

storeVars == <<change, record, approval, expired, proc>>

Procs == Deliveries \cup Callbacks
Steps == 1..NumSteps

\* WorkflowRuntimeStatus
Terminal == {"COMPLETED", "FAILED", "NEEDS_ATTENTION", "DEAD_LETTERED"}
RuntimeStatus ==
  {"RECEIVED", "ANALYZING", "WAITING_APPROVAL", "EXECUTING", "VERIFYING",
   "ROLLING_BACK"} \cup Terminal

\* WorkflowTaskStatus (RUNNING is declared and never assigned), and a task:
\* its status and the configuration its snapshot holds.
TaskStatus == {"PENDING", "SUCCEEDED", "FAILED", "ROLLED_BACK", "ROLLBACK_FAILED"}
Configuration == {"old_field", "new_field"}
Task == [status : TaskStatus, snap : Configuration \cup {"NONE"}]
PendingTask == [status |-> "PENDING", snap |-> "NONE"]

NoChange ==
  [status |-> "NONE", version |-> 0, wf |-> FALSE, plan |-> NoPlan, attention |-> FALSE]

\* err abstracts last_error_code to whether there is one.
NoRecord ==
  [status |-> "NONE", version |-> 0, plan |-> NoPlan, err |-> FALSE,
   tasks |-> [s \in Steps |-> PendingTask]]

NoApproval == [status |-> "NONE", plan |-> NoPlan]

\* A coroutine: where it is, the record it holds, the status of the change
\* as it last saw it, the transition it is in (target, expected version, where
\* to go on), the drafted plan, and the steps its current loop has done.
Idle ==
  [pc |-> "idle", rec |-> NoRecord, seen |-> "NONE", to |-> "NONE", exp |-> 0,
   cont |-> "idle", draft |-> NoPlan, marks |-> {}]

StoreInit ==
  /\ change = NoChange
  /\ record = NoRecord
  /\ approval = NoApproval
  /\ expired = FALSE
  /\ proc = [p \in Procs |-> Idle]

At(p, pc) == proc[p].pc = pc

\* Where an exception that nothing in the engine catches ends: the subscriber
\* nacks the message, the callback route answers with an error.
Raised(p) == IF p \in Deliveries THEN "nacked" ELSE "failed"
Ended == {"idle", "acked", "nacked", "answered", "refused", "failed"}

\* A coroutine that ends takes its local state with it.
Goto(p, pc) ==
  proc' = [proc EXCEPT ![p] = IF pc \in Ended THEN [Idle EXCEPT !.pc = pc]
                              ELSE [@ EXCEPT !.pc = pc]]
GotoWith(p, rec, pc) ==
  proc' = [proc EXCEPT ![p] = IF pc \in Ended THEN [Idle EXCEPT !.pc = pc]
                              ELSE [@ EXCEPT !.pc = pc, !.rec = rec]]
Running(p) == proc[p].pc \notin Ended

-----------------------------------------------------------------------------
(* WorkflowEngine._transition: a read for the expected version, then the   *)
(* state service, whose own read and compare-and-set are one step here     *)
(* (module ChangeState takes them apart).                                  *)

begin_transition(p, target, cont) ==
  proc' = [proc EXCEPT ![p] = [@ EXCEPT !.pc = "transition", !.to = target,
    !.exp = change.version, !.cont = cont, !.seen = "NONE"]]

\* The change with the new status and the record_updates of that transition.
\* Only the coordinator's own SCREENING carries the workflow identifier.  Each
\* transition leaves its audit event.
Transitioned(p) ==
  [status |-> proc[p].to, version |-> change.version + 1,
   wf |-> change.wf \/ proc[p].to = "SCREENING",
   plan |-> IF proc[p].to = "PLAN_READY" THEN proc[p].rec.plan ELSE change.plan,
   attention |-> change.attention \/ proc[p].to = "NEEDS_ATTENTION"]

TransitionAllowed(p) ==
  /\ change.version = proc[p].exp
  /\ can_transition(change.status, proc[p].to)

transition(p) ==
  /\ At(p, "transition")
  /\ \/ /\ TransitionAllowed(p)
        /\ change' = Transitioned(p)
        /\ proc' = [proc EXCEPT ![p] = [@ EXCEPT
             !.pc = proc[p].cont, !.seen = proc[p].to,
             !.to = "NONE", !.exp = 0, !.cont = "idle"]]
     \/ /\ ~TransitionAllowed(p)
        /\ Goto(p, Raised(p))
        /\ UNCHANGED change
  /\ UNCHANGED <<record, approval, expired>>

\* cancel_change and retry_change of a Control API user.
user_transition(target) ==
  /\ \/ target = "CANCELLED"
     \/ target = "SCREENING" /\ change.status \in {"BLOCKED", "NEEDS_ATTENTION"}
  /\ change # NoChange
  /\ can_transition(change.status, target)
  /\ change' = [change EXCEPT !.status = target, !.version = @ + 1]
  /\ UNCHANGED <<record, approval, expired, proc>>

-----------------------------------------------------------------------------
(* WorkflowEngine._update_record and what goes through it.                 *)

\* Mutant: the last writer wins.
UpdateAllowed_unversioned(p, new) ==
  proc[p].rec.status \in Terminal => new.status \in Terminal

\* Mutant: completed_at and status are not compared.
UpdateAllowed_unvalidated(p, new) == record.version = proc[p].rec.version

\* validate_lifecycle: a record that has completed_at has a terminal status.
UpdateAllowed(p, new) ==
  /\ record.version = proc[p].rec.version
  /\ proc[p].rec.status \in Terminal => new.status \in Terminal

\* The local record with its updates replaces the stored one, if the stored
\* one still has the version the local copy was read at.
update_record(p, new, cont) ==
  /\ \/ /\ UpdateAllowed(p, new)
        /\ record' = [new EXCEPT !.version = record.version + 1]
        /\ GotoWith(p, record', cont)
     \/ /\ ~UpdateAllowed(p, new)
        /\ Goto(p, Raised(p))
        /\ UNCHANGED record
  /\ UNCHANGED <<change, approval, expired>>

\* _set_runtime_status does not touch the store when nothing would change.
set_runtime_status(p, status, err, cont) ==
  LET rec == proc[p].rec IN
  \/ /\ rec.status = status /\ rec.err = err
     /\ Goto(p, cont)
     /\ UNCHANGED <<change, record, approval, expired>>
  \/ /\ ~(rec.status = status /\ rec.err = err)
     /\ update_record(p, [rec EXCEPT !.status = status, !.err = err], cont)

\* _terminal
terminal(p, status, err, cont) ==
  LET rec == proc[p].rec IN
  \/ /\ rec.status = status
     /\ Goto(p, cont)
     /\ UNCHANGED <<change, record, approval, expired>>
  \/ /\ rec.status # status
     /\ update_record(p, [rec EXCEPT !.status = status, !.err = err], cont)
=============================================================================
