------------------------- MODULE WorkflowCoordinator -------------------------
(***************************************************************************)
(* The workflow coordinator as a whole: event deliveries, approval         *)
(* callbacks, the governed tool calls they make and the users of the       *)
(* Control API, all working on one change.                                 *)
(***************************************************************************)
EXTENDS WorkflowIntake, WorkflowExecution

vars == <<storeVars, intakeVars, executionVars>>

Init == StoreInit /\ IntakeInit /\ ExecutionInit

Next ==
  \/ IntakeNext /\ UNCHANGED executionVars
  \/ ExecutionNext /\ UNCHANGED intakeVars
  \/ /\ \E target \in UserTargets : user_transition(target)
     /\ UNCHANGED <<intakeVars, executionVars>>

Spec == Init /\ [][Next]_vars

\* Fairness: a coroutine, a gateway request and Pub/Sub keep running (asyncio
\* and the gateway's event loop schedule what is ready, every outward call has
\* a timeout), and a message is delivered.  Nobody is obliged to decide, to
\* repeat a decision or to crash.
Fairness ==
  /\ \A d \in Deliveries :
       WF_vars((deliver(d) \/ handle_message(d)) /\ UNCHANGED executionVars)
  /\ WF_vars(pubsub_forward /\ UNCHANGED executionVars)
  /\ \A c \in Callbacks : WF_vars(resume_approval(c) /\ UNCHANGED intakeVars)
  /\ WF_vars((\E k \in calls : gateway_request(k)) /\ UNCHANGED intakeVars)

FairSpec == Spec /\ Fairness

-----------------------------------------------------------------------------
(* Properties.                                                             *)

\* The documents, a coroutine's copy of a record, which may be of one that does
\* not exist yet, and the points of the code a coroutine can be at.
ChangeRecord ==
  [status : WorkflowState, version : Nat \ {0}, wf : BOOLEAN, plan : Plans \cup {NoPlan},
   attention : BOOLEAN]
WorkflowExecutionRecord ==
  [status : RuntimeStatus, version : Nat \ {0}, plan : Plans \cup {NoPlan},
   err : BOOLEAN, tasks : [Steps -> Task]]
ApprovalRequestRecord == [status : {"PENDING"} \cup DOMAIN Path, plan : Plans]
RecordCopy ==
  [status : RuntimeStatus \cup {"NONE"}, version : Nat, plan : Plans \cup {NoPlan},
   err : BOOLEAN, tasks : [Steps -> Task]]
Points ==
  Ended \cup
  {"get", "create", "attempt", "ensure", "analyzing", "screening", "screen", "analyze",
   "block", "blocked", "analyzed", "screened", "drafted", "advance", "climb", "request",
   "create_approval", "approval_created", "dead", "dead_letter_record", "publish", "ack",
   "get_change", "get_record", "resume", "rejected", "changes_requested", "executing",
   "snapshots", "dag", "wave", "executed", "verifying", "verify", "complete", "rollback",
   "roll", "rolling_back", "restore", "restored", "rolled_back", "compensated", "transition"}
Coroutine ==
  [pc : Points, rec : RecordCopy, seen : WorkflowState \cup {"NONE"},
   to : WorkflowState \cup {"NONE"}, exp : Nat, cont : Points,
   draft : Plans \cup {NoPlan}, marks : SUBSET Steps]

\* Every stored document has the shape of its model class, and nothing is
\* stored for a workflow that has not been received.
TypeOK ==
  /\ change \in ChangeRecord \cup {NoChange}
  /\ record \in WorkflowExecutionRecord \cup {NoRecord}
  /\ approval \in ApprovalRequestRecord \cup {NoApproval}
  /\ expired \in BOOLEAN
  /\ proc \in [Procs -> Coroutine]
  /\ event \in Events /\ deadLetters \in BOOLEAN /\ deadTopic \in Nat /\ forwarded \in BOOLEAN
  /\ config \in [Steps -> Configuration] /\ applied \subseteq Steps
  /\ ledger \in [Steps -> {"NONE", "RESERVED", "SUCCEEDED", "FAILED"}]
  /\ calls \subseteq Call /\ late \subseteq Steps
  /\ change # NoChange => record # NoRecord

\* An event is never lost: when the subscriber has acknowledged a message,
\* whichever delivery it was, the workflow is waiting for an approver, is
\* over, or the event is on the dead-letter topic.
AckedMeansHandled ==
  (\E d \in Deliveries : At(d, "acked")) =>
    \/ approval # NoApproval
    \/ record.status \in Terminal
    \/ deadTopic > 0

\* Concurrent deliveries may draft different plans, but one plan wins: the
\* plan the approver sees, the plan the change is bound to and the plan the
\* coordinator executes are the same.
OnePlan ==
  /\ approval # NoApproval => approval.plan = record.plan /\ approval.plan = change.plan
  /\ change.plan # NoPlan => change.plan = record.plan

\* "Every pre-write snapshot ... is persisted before mutation", although
\* snapshots are taken by whichever callback runs: a mutated system always
\* has a stored snapshot of its configuration before the mutation.
SnapshotBeforeMutation ==
  \A s \in applied : record.tasks[s].snap = "old_field"

\* A system is only mutated for an approved plan, and after every system its
\* step depends on.
MutationIsGoverned ==
  \A s \in applied : approval.status = "APPROVED" /\ DependsOn[s] \subseteq applied

\* A completed change is completed: every system has the new field, although
\* overlapping callbacks, late requests and a user's cancel and retry go on
\* around it.  The one exception is a change that has needed attention: of
\* three callbacks, one may take it on from there and verify it while the restore
\* of another, which nothing fences, is still on its way.
CompletedMeansMigrated ==
  change.status = "COMPLETED" /\ ~change.attention => \A s \in Steps : config[s] = "new_field"

\* Compensation: when a change ends as FAILED, every system is back at its
\* old configuration, steps that failed after their effect included.  The one
\* exception is a tool call that passed policy while the change was EXECUTING
\* and reached its sandbox only after the change had moved on.
RestoredUnlessLate ==
  change.status = "FAILED" => \A s \in Steps \ late : config[s] = "old_field"

\* The plan of a record is written once, and a terminal record stays terminal.
RecordIsMonotonic ==
  [][/\ record.plan # NoPlan => record'.plan = record.plan
     /\ record.status \in Terminal => record'.status \in Terminal]_record

\* The coordinator implements the life cycle: whatever deliveries, callbacks,
\* tool calls and users do, the change, the approval and the systems only make
\* the steps of ChangeLifecycle.
Lifecycle == INSTANCE ChangeLifecycle WITH status <- change.status, plan <- change.plan
ImplementsLifecycle == Lifecycle!Spec

\* Every event is eventually handled or handed to the dead-letter topic.
EventHandled == <>(approval # NoApproval \/ record.status \in Terminal \/ deadTopic > 0)

\* Retries are bounded: a callback does not run forever, even if every tool
\* call fails every time.
CallbackEnds == \A c \in Callbacks : Running(c) ~> ~Running(c)

-----------------------------------------------------------------------------
(* What the documentation says and the code does not keep.                 *)

\* ADR 0009: a critical failure "restores snapshots in reverse plan order,
\* verifies the restored hashes, and ends as FAILED": a FAILED change has no
\* mutated system.
FailedMeansRestored ==
  change.status = "FAILED" => \A s \in Steps : config[s] = "old_field"

\* ADR 0009: "service restart recovery converge[s] on one execution": when
\* nobody works on the change any more, a repeated callback was not turned
\* away from a change that is in the middle of its execution.
RestartRecovers ==
  (\A p \in Procs : ~Running(p)) /\ (\E c \in Callbacks : At(c, "refused")) =>
    change.status \notin {"EXECUTING", "VERIFYING", "ROLLING_BACK"}
=============================================================================
