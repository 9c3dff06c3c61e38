-------------------------- MODULE WorkflowExecution --------------------------
(***************************************************************************)
(* The approval side of the coordinator: the approver's decision, the      *)
(* callback that runs WorkflowEngine.resume_approval, the governed tool    *)
(* calls it makes through the Tool Gateway to the sandboxes, verification  *)
(* and compensation.                                                       *)
(*                                                                         *)
(* A callback is repeated whenever the approver repeats the decision (the  *)
(* gateway asks for that after a delivery failure or its 30 s timeout), so *)
(* several may run at once.  Tool calls of one wave run concurrently, and a *)
(* call whose client gave up goes on inside the gateway.                   *)
(***************************************************************************)
EXTENDS WorkflowStores

CONSTANTS
  DependsOn,     \* RemediationStep.depends_on
  MaxAttempts    \* RetryPolicy.maximum_attempts

ASSUME DependsOnAssumption ==
  DependsOn \in [Steps -> SUBSET Steps] /\ \A s \in Steps : DependsOn[s] \subseteq 1..(s - 1)
ASSUME MaxAttemptsAssumption == MaxAttempts \in Nat \ {0}

VARIABLES
  config,        \* the field each step's sandbox is configured with
  applied,       \* steps whose idempotency key the sandbox has executed
  ledger,        \* the gateway's ToolExecutionRecord of each step
  calls,         \* requests inside evaluate_and_execute
  late           \* history: steps applied when the change had left EXECUTING

executionVars == <<config, applied, ledger, calls, late>>

Stages == {"policy", "reserve", "apply", "complete", "fail"}
Call == [by : Callbacks, step : Steps, plan : Plans, n : 1..MaxAttempts,
         stage : Stages, waited : BOOLEAN]

ExecutionInit ==
  /\ config = [s \in Steps |-> "old_field"]
  /\ applied = {}
  /\ ledger = [s \in Steps |-> "NONE"]
  /\ calls = {}
  /\ late = {}

-----------------------------------------------------------------------------
(* Tool Gateway approvals.                                                 *)

\* decide_approval: final, and only before it expires.
decide_approval(decision) ==
  /\ approval.status = "PENDING"
  /\ ~expired
  /\ approval' = [approval EXCEPT !.status = decision]
  /\ UNCHANGED <<change, record, expired, proc, executionVars>>

expire ==
  /\ approval # NoApproval
  /\ ~expired
  /\ expired' = TRUE
  /\ UNCHANGED <<change, record, approval, proc, executionVars>>

\* callback_notifier.notify, after the decision or its identical repetition.
notify(c) ==
  /\ At(c, "idle")
  /\ approval.status \notin {"NONE", "PENDING"}
  /\ Goto(c, "get_change")
  /\ UNCHANGED <<change, record, approval, expired, executionVars>>

-----------------------------------------------------------------------------
(* Tool Gateway evaluate_and_execute, one request k.                       *)

\* A tool intent: the step, the plan hash it is bound to, and the attempt.
NewCall(c, s, n) ==
  [by |-> c, step |-> s, plan |-> proc[c].rec.plan, n |-> n,
   stage |-> "policy", waited |-> TRUE]

At_stage(k, stage) == k \in calls /\ k.stage = stage

Advance(k, stage) == calls' = (calls \ {k}) \cup {[k EXCEPT !.stage = stage]}

\* Mutant: a retry does not count as an attempt.
TaskOutcome_uncounted(k, outcome, rest) ==
  LET retry == k.waited /\ outcome = "transient" /\ k.n < MaxAttempts IN
  /\ calls' = rest \cup (IF retry THEN {NewCall(k.by, k.step, k.n)} ELSE {})
  /\ IF k.waited /\ ~retry
       THEN proc' = [proc EXCEPT ![k.by].rec.tasks[k.step].status =
                       IF outcome = "ok" THEN "SUCCEEDED" ELSE "FAILED"]
       ELSE UNCHANGED proc

\* _execute_task on the outcome of its call: a transient error is retried up
\* to MaxAttempts, everything else is the task's result.
TaskOutcome(k, outcome, rest) ==
  LET retry == k.waited /\ outcome = "transient" /\ k.n < MaxAttempts IN
  /\ calls' = rest \cup (IF retry THEN {NewCall(k.by, k.step, k.n + 1)} ELSE {})
  /\ IF k.waited /\ ~retry
       THEN proc' = [proc EXCEPT ![k.by].rec.tasks[k.step].status =
                       IF outcome = "ok" THEN "SUCCEEDED" ELSE "FAILED"]
       ELSE UNCHANGED proc

Answer(k, outcome) == TaskOutcome(k, outcome, calls \ {k})

\* PolicyEngine.evaluate on the change, the stored plan and the approval.
PolicyAllows(k) ==
  /\ change.status = "EXECUTING"
  /\ change.wf
  /\ change.plan = k.plan
  /\ approval.status = "APPROVED"
  /\ approval.plan = change.plan
  /\ ~expired

evaluate_policy(k) ==
  /\ At_stage(k, "policy")
  /\ \/ /\ PolicyAllows(k)
        /\ Advance(k, "reserve")
        /\ UNCHANGED proc
     \/ /\ ~PolicyAllows(k)
        /\ Answer(k, "permanent")
  /\ UNCHANGED <<change, record, approval, expired, config, applied, ledger, late>>

\* A worker that holds the reservation of a step.  Its adapter timeout is far
\* below the two minutes after which a reservation counts as abandoned.
Reserving(s) ==
  \E k \in calls : k.step = s /\ k.stage \notin {"policy", "reserve"}

\* Quota, then reserve_execution: a success is replayed, a reservation that
\* is not abandoned is a conflict, a failed or an abandoned one is taken over.
reserve_execution(k) ==
  /\ At_stage(k, "reserve")
  /\ \/ /\ ledger[k.step] = "SUCCEEDED" /\ ~expired
        /\ Answer(k, "ok")
        /\ UNCHANGED ledger
     \/ /\ expired \/ ledger[k.step] = "RESERVED"
        /\ Answer(k, "permanent")
        /\ UNCHANGED ledger
     \/ /\ ~expired
        /\ ledger[k.step] \in {"NONE", "FAILED", "RESERVED"}
        /\ ledger[k.step] = "RESERVED" => ~Reserving(k.step)
        /\ ledger' = [ledger EXCEPT ![k.step] = "RESERVED"]
        /\ Advance(k, "apply")
        /\ UNCHANGED proc
     \/ /\ Answer(k, "transient")          \* RateLimitedError
        /\ UNCHANGED ledger
  /\ UNCHANGED <<change, record, approval, expired, config, applied, late>>

\* The sandbox's apply, behind the executor: idempotent by key, and a conflict
\* when the field is not the expected old one.  The answer may be lost, and
\* the sandbox may fail.
apply_patch(k) ==
  /\ At_stage(k, "apply")
  /\ \/ /\ k.step \in applied \/ config[k.step] = "old_field"
        /\ config' = IF k.step \in applied THEN config
                     ELSE [config EXCEPT ![k.step] = "new_field"]
        /\ applied' = applied \cup {k.step}
        /\ late' = IF k.step \in applied \/ change.status = "EXECUTING"
                     THEN late ELSE late \cup {k.step}
        /\ Advance(k, "complete") \/ Advance(k, "fail")
     \/ /\ Advance(k, "fail")
        /\ UNCHANGED <<config, applied, late>>
  /\ UNCHANGED <<change, record, approval, expired, proc, ledger>>

complete_execution(k) ==
  /\ At_stage(k, "complete")
  /\ \/ /\ ledger[k.step] = "RESERVED"
        /\ ledger' = [ledger EXCEPT ![k.step] = "SUCCEEDED"]
        /\ Answer(k, "ok")
     \/ /\ ledger[k.step] # "RESERVED"
        /\ Answer(k, "permanent")
        /\ UNCHANGED ledger
  /\ UNCHANGED <<change, record, approval, expired, config, applied, late>>

\* fail_execution and the answer: 503 for a transient adapter error and 502
\* for a permanent one, both of which the coordinator's client retries.
fail_execution(k) ==
  /\ At_stage(k, "fail")
  /\ \/ /\ ledger[k.step] = "RESERVED"
        /\ ledger' = [ledger EXCEPT ![k.step] = "FAILED"]
        /\ Answer(k, "transient")
     \/ /\ ledger[k.step] # "RESERVED"
        /\ Answer(k, "permanent")
        /\ UNCHANGED ledger
  /\ UNCHANGED <<change, record, approval, expired, config, applied, late>>

\* The client's 30 s are over; the gateway goes on with the request.
client_timeout(k) ==
  /\ k \in calls /\ k.waited
  /\ TaskOutcome(k, "transient",
                 (calls \ {k}) \cup {[k EXCEPT !.waited = FALSE]})
  /\ UNCHANGED <<change, record, approval, expired, config, applied, ledger, late>>

\* The gateway worker dies, or an exception it does not catch ends the request
\* with a 500: either leaves the reservation behind.
worker_crash(k) ==
  /\ k \in calls
  /\ Answer(k, "transient")
  /\ UNCHANGED <<change, record, approval, expired, config, applied, ledger, late>>

gateway_request(k) ==
  \/ evaluate_policy(k) \/ reserve_execution(k) \/ apply_patch(k)
  \/ complete_execution(k) \/ fail_execution(k)

-----------------------------------------------------------------------------
(* resume_approval: the change, the record, the decision.                  *)

get_change(c) ==
  /\ At(c, "get_change")
  /\ \/ /\ change.wf
        /\ proc' = [proc EXCEPT ![c] = [@ EXCEPT !.seen = change.status,
                                                 !.pc = "get_record"]]
     \/ ~change.wf /\ Goto(c, "failed")
  /\ UNCHANGED <<change, record, approval, expired, executionVars>>

resume_record(c) ==
  /\ At(c, "get_record")
  /\ GotoWith(c, record,
       IF record.status \in Terminal \ {"DEAD_LETTERED"} THEN "answered"
       ELSE IF record.plan = NoPlan \/ record.plan # approval.plan THEN "failed"
       ELSE "resume")
  /\ UNCHANGED <<change, record, approval, expired, executionVars>>

\* Mutant: every decision that is not a rejection is an approval.
Path_unless_rejected ==
  [APPROVED |-> [AWAITING_APPROVAL |-> "APPROVED", APPROVED |-> "EXECUTING"],
   REJECTED |-> [AWAITING_APPROVAL |-> "REJECTED"],
   CHANGES_REQUESTED |-> [AWAITING_APPROVAL |-> "APPROVED", APPROVED |-> "EXECUTING"]]

\* The transitions each decision asks for, and what follows them: "refused" is
\* the permanent error CHANGE_NOT_EXECUTABLE.
Path ==
  [APPROVED |-> [AWAITING_APPROVAL |-> "APPROVED", APPROVED |-> "EXECUTING"],
   REJECTED |-> [AWAITING_APPROVAL |-> "REJECTED"],
   CHANGES_REQUESTED |-> [AWAITING_APPROVAL |-> "REJECTED", REJECTED |-> "ANALYZING"]]

AfterPath(c) ==
  CASE approval.status = "REJECTED" -> "rejected"
    [] approval.status = "CHANGES_REQUESTED" -> "changes_requested"
    [] approval.status = "APPROVED" ->
         IF proc[c].seen = "EXECUTING" THEN "executing" ELSE "refused"

follow_decision(c) ==
  /\ At(c, "resume")
  /\ LET status == proc[c].seen
         path == Path[approval.status] IN
     \/ /\ status \in DOMAIN path
        /\ begin_transition(c, path[status], "resume")
     \/ /\ status \notin DOMAIN path
        /\ Goto(c, AfterPath(c))
  /\ UNCHANGED <<change, record, approval, expired, executionVars>>

finish_rejected(c) ==
  /\ At(c, "rejected")
  /\ terminal(c, "FAILED", TRUE, "answered")
  /\ UNCHANGED executionVars

finish_changes_requested(c) ==
  /\ At(c, "changes_requested")
  /\ set_runtime_status(c, "ANALYZING", TRUE, "answered")
  /\ UNCHANGED executionVars

mark_executing(c) ==
  /\ At(c, "executing")
  /\ set_runtime_status(c, "EXECUTING", FALSE, "snapshots")
  /\ UNCHANGED executionVars

-----------------------------------------------------------------------------
(* _capture_snapshots and _execute_dag.                                    *)

Tasks(c) == proc[c].rec.tasks
WithStatus(c, status) == {s \in Steps : Tasks(c)[s].status = status}

\* The sandboxes are read in no particular order, for the tasks that have no
\* snapshot; a failed read ends the callback.
capture_snapshot(c, s) ==
  /\ At(c, "snapshots")
  /\ Tasks(c)[s].snap = "NONE"
  /\ \/ proc' = [proc EXCEPT ![c] = [@ EXCEPT
          !.rec.tasks[s].snap = config[s], !.marks = proc[c].marks \cup {s}]]
     \/ Goto(c, "failed")
  /\ UNCHANGED <<change, record, approval, expired, executionVars>>

\* Mutant: the snapshots are only stored with the first wave's results.
store_snapshots_deferred(c) ==
  /\ At(c, "snapshots")
  /\ \A s \in Steps : Tasks(c)[s].snap # "NONE"
  /\ Goto(c, "dag")
  /\ UNCHANGED <<change, record, approval, expired, executionVars>>

\* All are stored together; nothing is stored when none was missing.
store_snapshots(c) ==
  /\ At(c, "snapshots")
  /\ \A s \in Steps : Tasks(c)[s].snap # "NONE"
  /\ \/ /\ proc[c].marks = {}
        /\ Goto(c, "dag")
        /\ UNCHANGED <<change, record, approval, expired>>
     \/ /\ proc[c].marks # {}
        /\ update_record(c, proc[c].rec, "dag")
  /\ UNCHANGED executionVars

\* Mutant: dependencies are ignored.
Ready_any(c) == WithStatus(c, "PENDING")

Ready(c) ==
  {s \in WithStatus(c, "PENDING") : DependsOn[s] \subseteq WithStatus(c, "SUCCEEDED")}

\* Leave a loop over the tasks, or start the next one.
Enter(c, pc, marks) ==
  proc' = [proc EXCEPT ![c] = [@ EXCEPT !.pc = pc, !.marks = marks]]

\* One round of the loop: launch the ready steps, or leave it.
execute_dag(c) ==
  /\ At(c, "dag")
  /\ \/ /\ Ready(c) # {}
        /\ calls' = calls \cup {NewCall(c, s, 1) : s \in Ready(c)}
        /\ Enter(c, "wave", Ready(c))
     \/ /\ WithStatus(c, "PENDING") # {} /\ Ready(c) = {}
        /\ Goto(c, "failed")
        /\ UNCHANGED calls
     \/ /\ WithStatus(c, "PENDING") = {}
        /\ Enter(c, IF WithStatus(c, "FAILED") # {} THEN "rollback" ELSE "executed", {})
        /\ UNCHANGED calls
  /\ UNCHANGED <<change, record, approval, expired, config, applied, ledger, late>>

\* Mutant: the results overwrite whatever another callback stored.
store_wave_unversioned(c) ==
  /\ At(c, "wave")
  /\ ~\E k \in calls : k.by = c /\ k.waited
  /\ LET failed == WithStatus(c, "FAILED") \cap proc[c].marks # {} IN
     /\ record' = [proc[c].rec EXCEPT !.err = failed, !.version = record.version + 1]
     /\ GotoWith(c, record', IF failed THEN "rollback" ELSE "dag")
  /\ UNCHANGED <<change, approval, expired, executionVars>>

\* The results of the wave are stored when all of them are in; a failure in
\* this wave ends the loop.
store_wave(c) ==
  /\ At(c, "wave")
  /\ ~\E k \in calls : k.by = c /\ k.waited
  /\ LET failed == WithStatus(c, "FAILED") \cap proc[c].marks # {} IN
     update_record(c, [proc[c].rec EXCEPT !.err = failed],
                   IF failed THEN "rollback" ELSE "dag")
  /\ UNCHANGED executionVars

-----------------------------------------------------------------------------
(* _verify and completion.                                                 *)

start_verifying(c) ==
  /\ At(c, "executed")
  /\ begin_transition(c, "VERIFYING", "verifying")
  /\ UNCHANGED <<change, record, approval, expired, executionVars>>

mark_verifying(c) ==
  /\ At(c, "verifying")
  /\ set_runtime_status(c, "VERIFYING", FALSE, "verify")
  /\ UNCHANGED executionVars

\* Every system is read on its own; one that fails the check or cannot be
\* read condemns the change.  The others' reads have no effect then.
verify_task(c, s) ==
  /\ At(c, "verify")
  /\ s \notin proc[c].marks
  /\ \/ /\ config[s] = "new_field"
        /\ Enter(c, "verify", proc[c].marks \cup {s})
     \/ Enter(c, "rollback", {})
  /\ UNCHANGED <<change, record, approval, expired, executionVars>>

start_completing(c) ==
  /\ At(c, "verify")
  /\ proc[c].marks = Steps
  /\ begin_transition(c, "COMPLETED", "complete")
  /\ UNCHANGED <<change, record, approval, expired, executionVars>>

finish_completed(c) ==
  /\ At(c, "complete")
  /\ terminal(c, "COMPLETED", FALSE, "answered")
  /\ UNCHANGED executionVars

-----------------------------------------------------------------------------
(* _rollback.                                                              *)

read_for_rollback(c) ==
  /\ At(c, "rollback")
  /\ proc' = [proc EXCEPT ![c] = [@ EXCEPT
       !.seen = change.status, !.marks = {},
       !.pc = IF change.status \in {"EXECUTING", "VERIFYING"}
                THEN "roll" ELSE "rolling_back"]]
  /\ UNCHANGED <<change, record, approval, expired, executionVars>>

start_rollback(c) ==
  /\ At(c, "roll")
  /\ begin_transition(c, "ROLLING_BACK", "rolling_back")
  /\ UNCHANGED <<change, record, approval, expired, executionVars>>

mark_rolling_back(c) ==
  /\ At(c, "rolling_back")
  /\ set_runtime_status(c, "ROLLING_BACK", TRUE, "restore")
  /\ UNCHANGED executionVars

\* The next task in reverse plan order.
IsNextRestore(c, s) == s \notin proc[c].marks /\ (s + 1)..NumSteps \subseteq proc[c].marks

TaskRestored(c, s, status) ==
  proc' = [proc EXCEPT ![c] = [@ EXCEPT
    !.rec.tasks[s].status = status, !.marks = proc[c].marks \cup {s}, !.pc = "restore"]]

\* Mutant: only steps that are known to have succeeded are restored.
restore_succeeded(c, s) ==
  /\ At(c, "restore")
  /\ IsNextRestore(c, s)
  /\ LET task == Tasks(c)[s] IN
     \/ /\ task.status = "SUCCEEDED" /\ task.snap # "NONE"
        /\ config' = [config EXCEPT ![s] = task.snap]
        /\ Goto(c, "restored")
     \/ /\ task.status # "SUCCEEDED"
        /\ TaskRestored(c, s, "ROLLED_BACK")
        /\ UNCHANGED config
  /\ UNCHANGED <<change, record, approval, expired, applied, ledger, calls, late>>

\* A restore that fails, before or after its effect, fails this task only.
restore(c, s) ==
  /\ At(c, "restore")
  /\ IsNextRestore(c, s)
  /\ LET snap == Tasks(c)[s].snap IN
     \/ /\ snap # "NONE"
        /\ config' = [config EXCEPT ![s] = snap]
        /\ Goto(c, "restored") \/ TaskRestored(c, s, "ROLLBACK_FAILED")
     \/ /\ TaskRestored(c, s, "ROLLBACK_FAILED")
        /\ UNCHANGED config
  /\ UNCHANGED <<change, record, approval, expired, applied, ledger, calls, late>>

\* The hash is read after the restore, and compared with the snapshot's.
check_restored(c, s) ==
  /\ At(c, "restored")
  /\ IsNextRestore(c, s)
  /\ \/ config[s] = Tasks(c)[s].snap /\ TaskRestored(c, s, "ROLLED_BACK")
     \/ TaskRestored(c, s, "ROLLBACK_FAILED")
  /\ UNCHANGED <<change, record, approval, expired, executionVars>>

store_rollback(c) ==
  /\ At(c, "restore")
  /\ proc[c].marks = Steps
  /\ update_record(c, proc[c].rec, "rolled_back")
  /\ UNCHANGED executionVars

Compensated(c) ==
  IF WithStatus(c, "ROLLBACK_FAILED") # {} THEN "NEEDS_ATTENTION" ELSE "FAILED"

end_rollback(c) ==
  /\ At(c, "rolled_back")
  /\ begin_transition(c, Compensated(c), "compensated")
  /\ UNCHANGED <<change, record, approval, expired, executionVars>>

finish_rolled_back(c) ==
  /\ At(c, "compensated")
  /\ terminal(c, Compensated(c), TRUE, "answered")
  /\ UNCHANGED executionVars

-----------------------------------------------------------------------------

\* The coordinator dies while a callback runs: its tool calls go on.
callback_crash(c) ==
  /\ Running(c)
  /\ Goto(c, "failed")
  /\ calls' = {IF k.by = c THEN [k EXCEPT !.waited = FALSE] ELSE k : k \in calls}
  /\ UNCHANGED <<change, record, approval, expired, config, applied, ledger, late>>

resume_approval(c) ==
  \/ get_change(c) \/ resume_record(c) \/ follow_decision(c)
  \/ finish_rejected(c) \/ finish_changes_requested(c) \/ mark_executing(c)
  \/ \E s \in Steps :
       \/ capture_snapshot(c, s) \/ verify_task(c, s)
       \/ restore(c, s) \/ check_restored(c, s)
  \/ store_snapshots(c) \/ execute_dag(c) \/ store_wave(c)
  \/ start_verifying(c) \/ mark_verifying(c)
  \/ start_completing(c) \/ finish_completed(c)
  \/ read_for_rollback(c) \/ start_rollback(c) \/ mark_rolling_back(c)
  \/ store_rollback(c) \/ end_rollback(c) \/ finish_rolled_back(c)
  \/ transition(c) /\ UNCHANGED executionVars

ExecutionNext ==
  \/ \E decision \in DOMAIN Path : decide_approval(decision)
  \/ expire
  \/ \E c \in Callbacks : notify(c) \/ resume_approval(c) \/ callback_crash(c)
  \/ \E k \in calls : gateway_request(k) \/ client_timeout(k) \/ worker_crash(k)
=============================================================================
