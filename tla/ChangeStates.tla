---------------------------- MODULE ChangeStates ----------------------------
(***************************************************************************)
(* The static workflow graph of packages/changeops-core state_machine.py:  *)
(* the states a change can be in and the transitions the application       *)
(* allows.  Every component that moves a change goes through this graph.   *)
(***************************************************************************)

WorkflowState ==
  {"RECEIVED", "SCREENING", "BLOCKED", "ANALYZING", "PLAN_READY",
   "AWAITING_APPROVAL", "APPROVED", "REJECTED", "EXECUTING", "VERIFYING",
   "ROLLING_BACK", "NEEDS_ATTENTION", "COMPLETED", "FAILED", "PARTIAL",
   "CANCELLED"}

\* _ALLOWED_TRANSITIONS
AllowedTransitions ==
  [s \in WorkflowState |->
     CASE s = "RECEIVED" -> {"SCREENING", "CANCELLED", "FAILED"}
       [] s = "SCREENING" ->
            {"BLOCKED", "ANALYZING", "CANCELLED", "FAILED", "NEEDS_ATTENTION"}
       [] s = "BLOCKED" -> {"SCREENING", "CANCELLED", "NEEDS_ATTENTION"}
       [] s = "ANALYZING" ->
            {"PLAN_READY", "BLOCKED", "CANCELLED", "FAILED", "NEEDS_ATTENTION"}
       [] s = "PLAN_READY" ->
            {"AWAITING_APPROVAL", "EXECUTING", "ANALYZING", "CANCELLED",
             "NEEDS_ATTENTION"}
       [] s = "AWAITING_APPROVAL" ->
            {"APPROVED", "REJECTED", "CANCELLED", "NEEDS_ATTENTION"}
       [] s = "APPROVED" -> {"EXECUTING", "CANCELLED", "NEEDS_ATTENTION"}
       [] s = "REJECTED" -> {"ANALYZING", "CANCELLED"}
       [] s = "EXECUTING" ->
            {"VERIFYING", "ROLLING_BACK", "FAILED", "PARTIAL", "NEEDS_ATTENTION"}
       [] s = "VERIFYING" ->
            {"COMPLETED", "ROLLING_BACK", "FAILED", "PARTIAL", "NEEDS_ATTENTION"}
       [] s = "ROLLING_BACK" ->
            {"FAILED", "PARTIAL", "CANCELLED", "NEEDS_ATTENTION"}
       [] s = "NEEDS_ATTENTION" ->
            {"SCREENING", "ANALYZING", "AWAITING_APPROVAL", "EXECUTING",
             "VERIFYING", "ROLLING_BACK", "FAILED", "CANCELLED"}
       [] OTHER -> {}]

allowed_targets(state) == AllowedTransitions[state]

can_transition(current, target) == target \in allowed_targets(current)

=============================================================================
