-------------------------- MODULE ChangeLifecycle --------------------------
(***************************************************************************)
(* What an approver and the owners of the systems may rely on, whatever    *)
(* deliveries, callbacks, retries, crashes and users do underneath: the    *)
(* status and the plan a change shows, the approval, and the systems.      *)
(* WorkflowCoordinator implements this specification; it knows no records, *)
(* copies, versions, coroutines or tool calls.                             *)
(***************************************************************************)
EXTENDS ChangeStates

CONSTANTS Plans, NoPlan, Steps, DependsOn

VARIABLES
  status,       \* the status of the change, "NONE" before there is one
  plan,         \* the plan it is bound to
  approval,     \* the approval request and its decision
  config,       \* the field each step's system is configured with
  applied,      \* the steps that have been applied
  late          \* those applied when the change had left EXECUTING

systems == <<config, applied, late>>
vars == <<status, plan, approval, systems>>

Init ==
  /\ status = "NONE"
  /\ plan = NoPlan
  /\ approval = [status |-> "NONE", plan |-> NoPlan]
  /\ config = [s \in Steps |-> "old_field"]
  /\ applied = {}
  /\ late = {}

\* The approver has approved the plan the change is bound to.
Approved == approval.status = "APPROVED" /\ approval.plan = plan

Restored == \A s \in Steps \ late : config[s] = "old_field"

Receive ==
  /\ status = "NONE"
  /\ status' = "RECEIVED"
  /\ UNCHANGED <<plan, approval, systems>>

\* The change goes along the graph.
Move(target) ==
  /\ status # "NONE"
  /\ can_transition(status, target)
  /\ status' = target
  /\ UNCHANGED <<approval, systems>>

\* Screening and analysis, and the user's commands, promise no more than that.
Analyse ==
  /\ \E target \in {"SCREENING", "BLOCKED", "ANALYZING", "CANCELLED"} : Move(target)
  /\ UNCHANGED plan

\* A change is bound to one plan, once.
Propose ==
  /\ Move("PLAN_READY")
  /\ plan' \in Plans
  /\ plan \in {NoPlan, plan'}

AwaitApproval ==
  /\ plan # NoPlan
  /\ Move("AWAITING_APPROVAL")
  /\ UNCHANGED plan

\* The approver is asked about the plan of the change, once.
RequestApproval ==
  /\ approval.status = "NONE"
  /\ plan # NoPlan
  /\ approval' = [status |-> "PENDING", plan |-> plan]
  /\ UNCHANGED <<status, plan, systems>>

Decide ==
  /\ approval.status = "PENDING"
  /\ \E decision \in {"APPROVED", "REJECTED", "CHANGES_REQUESTED"} :
       approval' = [approval EXCEPT !.status = decision]
  /\ UNCHANGED <<status, plan, systems>>

Reject ==
  /\ approval.status \in {"REJECTED", "CHANGES_REQUESTED"}
  /\ Move("REJECTED")
  /\ UNCHANGED plan

\* Execution, verification and compensation are for an approved plan.
Execute ==
  /\ Approved
  /\ \E target \in {"APPROVED", "EXECUTING", "VERIFYING", "ROLLING_BACK",
                    "NEEDS_ATTENTION"} : Move(target)
  /\ UNCHANGED plan

\* The two ends of an execution: every step was applied, or every system is
\* back at its old configuration.
Complete ==
  /\ Approved
  /\ applied = Steps
  /\ Move("COMPLETED")
  /\ UNCHANGED plan

Fail ==
  /\ Approved
  /\ Restored
  /\ Move("FAILED")
  /\ UNCHANGED plan

\* A step is applied once, for an approved plan, after those it depends on.
Apply(s) ==
  /\ Approved
  /\ s \notin applied
  /\ config[s] = "old_field"
  /\ DependsOn[s] \subseteq applied
  /\ config' = [config EXCEPT ![s] = "new_field"]
  /\ applied' = applied \cup {s}
  /\ late' = IF status = "EXECUTING" THEN late ELSE late \cup {s}
  /\ UNCHANGED <<status, plan, approval>>

\* Nothing ties a restore to the status of the change.
Restore(s) ==
  /\ Approved
  /\ config' = [config EXCEPT ![s] = "old_field"]
  /\ UNCHANGED <<status, plan, approval, applied, late>>

Next ==
  \/ Receive \/ Analyse \/ Propose \/ AwaitApproval
  \/ RequestApproval \/ Decide \/ Reject
  \/ Execute \/ Complete \/ Fail
  \/ \E s \in Steps : Apply(s) \/ Restore(s)

Spec == Init /\ [][Next]_vars
=============================================================================
