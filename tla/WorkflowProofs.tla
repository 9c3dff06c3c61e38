--------------------------- MODULE WorkflowProofs ---------------------------
(***************************************************************************)
(* Proofs about WorkflowCoordinator, for any number of deliveries,         *)
(* callbacks, plans and steps, any acyclic dependency graph and any retry  *)
(* bound.                                                                  *)
(*                                                                         *)
(* The argument is about what a coroutine's copy of the record is worth.   *)
(* Every write of the record is a compare-and-set on its version, so       *)
(*   - the record only grows: its plan, its snapshots and its being        *)
(*     terminal are never taken back (RecordGrows);                        *)
(*   - a copy is either current, and then equal to the record but for what *)
(*     its coroutine has changed since, or out of date, and then what it   *)
(*     says about plan, snapshots and end is still true (Sync, Snapshots). *)
(* The rest says what a coroutine knows at each point of the code.         *)
(***************************************************************************)
EXTENDS WorkflowCoordinator, TLAPS

-----------------------------------------------------------------------------
(* Points of the code.                                                     *)

\* Where a coroutine is or, during a transition, where it goes on.
Where(x) == IF x.pc = "transition" THEN x.cont ELSE x.pc

\* Nothing is known of the record yet, or any more.
Unread == Ended \cup {"get", "create", "publish", "ack", "get_change", "get_record"}

\* The fleet is asked for a plan because the copy has none.
Drafting == {"analyzed", "screened", "drafted"}

\* Every snapshot of the copy is taken and stored.
Guarded ==
  {"dag", "wave", "executed", "verifying", "verify", "complete", "rollback",
   "roll", "rolling_back", "restore", "restored", "rolled_back", "compensated"}

\* The rest of resume_approval, and all of it.
Resumed == {"resume", "rejected", "changes_requested", "executing", "snapshots"} \cup Guarded

\* The copy has a plan.
Planned ==
  {"advance", "climb", "request", "create_approval", "approval_created"} \cup Resumed

Decided == {"APPROVED", "REJECTED", "CHANGES_REQUESTED"}

\* Runtime statuses that say that there is an approval request.
UnderWay == {"WAITING_APPROVAL", "EXECUTING", "VERIFYING", "ROLLING_BACK"}

-----------------------------------------------------------------------------
(* The inductive invariant.  A coroutine is at (or goes on at) w with the   *)
(* copy c and these marks; r is the record, cp the plan of the change, a   *)
(* the approval, app the applied steps, dt the messages on the dead-letter *)
(* topic.                                                                  *)

\* What a copy says is true, and it is the record if it is current.
Sync(c, r) ==
  /\ c.version <= r.version
  /\ c.version = r.version => c.status = r.status /\ c.plan = r.plan
  /\ c.status \in Terminal => r.status \in Terminal
  /\ c.plan # NoPlan => c.plan = r.plan

\* The conclusion of AckedMeansHandled.
Handled(r, a, dt) == a.status # "NONE" \/ r.status \in Terminal \/ dt > 0

\* What a coroutine knows where it is.
Knows(w, c, marks, r, cp, a, dt) ==
  /\ w \notin Unread => r.version > 0
  /\ w \in Drafting => c.plan = NoPlan
  /\ w \in Planned => c.plan # NoPlan
  /\ w = "create_approval" => cp = c.plan
  /\ w = "approval_created" => a.status # "NONE"
  /\ w \in {"get_change", "get_record"} \cup Resumed => a.status \in Decided
  /\ w \in {"ack", "acked"} => Handled(r, a, dt)
  /\ w \notin {"snapshots"} \cup Guarded => marks = {}

\* A snapshot in a copy is the stored one, unless _capture_snapshots has just
\* taken it; one just taken for a copy that is current is of the old
\* configuration.
Snapshots(w, c, marks, r, app) ==
  \A s \in Steps :
    /\ (w # "snapshots" \/ s \notin marks) =>
         /\ c.tasks[s].snap \in {"NONE", r.tasks[s].snap}
         /\ c.version = r.version => c.tasks[s].snap = r.tasks[s].snap
    /\ (w = "snapshots" /\ s \in marks /\ c.version = r.version) =>
         c.tasks[s].snap = "old_field"
    /\ w \in Guarded => c.tasks[s].snap # "NONE"
    /\ c.tasks[s].status = "SUCCEEDED" => s \in app

LocalInv(w, c, marks, r, cp, a, app, dt) ==
  Sync(c, r) /\ Knows(w, c, marks, r, cp, a, dt) /\ Snapshots(w, c, marks, r, app)

\* A transition has a target and a point to go on at, and a plan to bind the
\* change to if that is what it does.
Transition(x) ==
  /\ x.to \in WorkflowState
  /\ x.cont \notin Unread \cup {"transition"}
  /\ x.to = "PLAN_READY" => x.rec.plan # NoPlan

CoroutineInv(x, r, cp, a, app, dt) ==
  /\ LocalInv(Where(x), x.rec, x.marks, r, cp, a, app, dt)
  /\ x.pc = "transition" => Transition(x)

\* One plan, and an approval request once the record says so.
PlanInv(r, cp, a) ==
  /\ cp # NoPlan => cp = r.plan
  /\ a.status # "NONE" => a.plan = r.plan /\ a.plan = cp
  /\ r.status \in UnderWay => a.status # "NONE"

\* What the tasks of the record say of the sandboxes.
TaskInv(r, app) ==
  \A s \in Steps :
    /\ r.tasks[s].snap \in {"NONE", "old_field"}
    /\ r.tasks[s].status = "SUCCEEDED" => s \in app

\* What has been applied was approved, in order, and has a stored snapshot.
AppliedInv(r, a, app) ==
  \A s \in app :
    a.status = "APPROVED" /\ DependsOn[s] \subseteq app /\ r.tasks[s].snap = "old_field"

SandboxInv == \A s \in Steps :
  (ledger[s] = "SUCCEEDED" \/ config[s] = "new_field") => s \in applied

\* A request inside the gateway is for a step that may be applied.
CallInv(k, r, a, app) ==
  /\ r.tasks[k.step].snap = "old_field"
  /\ DependsOn[k.step] \subseteq app
  /\ k.stage # "policy" => a.status = "APPROVED"
  /\ k.stage = "complete" => k.step \in app

\* A request somebody waits for is part of a wave.
Waiting == \A k \in calls : k.waited => proc[k.by].pc = "wave"

Coroutines ==
  \A p \in Procs : CoroutineInv(proc[p], record, change.plan, approval, applied, deadTopic)

Calls == \A k \in calls : CallInv(k, record, approval, applied)

IInv ==
  /\ TypeOK
  /\ PlanInv(record, change.plan, approval)
  /\ TaskInv(record, applied)
  /\ AppliedInv(record, approval, applied)
  /\ SandboxInv
  /\ Coroutines
  /\ Calls
  /\ Waiting

-----------------------------------------------------------------------------
(* What no step takes back.                                                *)

RecordGrows(r, r2) ==
  /\ r.version <= r2.version
  /\ r.version = r2.version => r2 = r
  /\ r.status \in Terminal => r2.status \in Terminal
  /\ r.plan # NoPlan => r2.plan = r.plan
  /\ \A s \in Steps : r.tasks[s].snap # "NONE" => r2.tasks[s].snap = r.tasks[s].snap

ApprovalGrows(a, a2) ==
  /\ a.status # "NONE" => a2.status # "NONE" /\ a2.plan = a.plan
  /\ a.status \in Decided => a2.status = a.status

\* That a change has needed attention is on its audit trail for good.
ChangeGrows(c, c2) ==
  \/ c2 = c
  \/ /\ c.attention => c2.attention
     /\ c2.status = "NEEDS_ATTENTION" => c2.attention

Grows ==
  /\ RecordGrows(record, record')
  /\ ChangeGrows(change, change')
  /\ change.plan # NoPlan => change'.plan = change.plan
  /\ ApprovalGrows(approval, approval')
  /\ applied \subseteq applied'
  /\ deadTopic <= deadTopic'

-----------------------------------------------------------------------------
(* Types.                                                                  *)

\* The documents a coroutine can copy: a stored record or NoRecord.
Records == WorkflowExecutionRecord \cup {NoRecord}

\* The decisions resume_approval knows are the decisions there are.
LEMMA DecidedIsPath == DOMAIN Path = Decided
  BY DEF Path, Decided

\* A task of a new record.
LEMMA PendingIsTask == PendingTask \in Task
  BY DEF PendingTask, Task, TaskStatus, Configuration

\* NoRecord is a copy, and the only document with version 0.
LEMMA NoRecordFacts ==
  /\ NoRecord \in RecordCopy
  /\ NoRecord.version = 0 /\ NoRecord.status = "NONE" /\ NoRecord.plan = NoPlan
  /\ \A s \in Steps : NoRecord.tasks[s].snap = "NONE" /\ NoRecord.tasks[s].status = "PENDING"
<1>1. [s \in Steps |-> PendingTask] \in [Steps -> Task]
  BY PendingIsTask
<1>2. \A s \in Steps : [q \in Steps |-> PendingTask][s] = PendingTask
  OBVIOUS
<1> QED
  BY <1>1, <1>2 DEF NoRecord, RecordCopy, PendingTask

\* A record, or the lack of one, is a copy of itself.
LEMMA RecordFacts ==
  ASSUME NEW r \in Records
  PROVE  /\ r \in RecordCopy
         /\ r.version = 0 => r = NoRecord
         /\ r.version > 0 => r \in WorkflowExecutionRecord
         /\ r # NoRecord => r.version > 0
<1>1. CASE r = NoRecord
  BY <1>1, NoRecordFacts
<1>2. CASE r \in WorkflowExecutionRecord
  <2>1. r.version \in Nat \ {0}
    BY <1>2 DEF WorkflowExecutionRecord
  <2>2. r \in RecordCopy
    BY <1>2 DEF WorkflowExecutionRecord, RecordCopy
  <2> QED
    BY <1>2, <2>1, <2>2, NoRecordFacts
<1> QED
  BY <1>1, <1>2 DEF Records

\* A coroutine that has ended.
LEMMA IdleFacts ==
  ASSUME NEW pc \in Points
  PROVE  /\ [Idle EXCEPT !.pc = pc] \in Coroutine
         /\ [Idle EXCEPT !.pc = pc].pc = pc
         /\ [Idle EXCEPT !.pc = pc].rec = NoRecord
         /\ [Idle EXCEPT !.pc = pc].marks = {}
         /\ [Idle EXCEPT !.pc = pc].cont = "idle"
         /\ [Idle EXCEPT !.pc = pc].to = "NONE"
<1> DEFINE x == [Idle EXCEPT !.pc = pc]
<1>1. x = [pc |-> pc, rec |-> NoRecord, seen |-> "NONE", to |-> "NONE", exp |-> 0,
           cont |-> "idle", draft |-> NoPlan, marks |-> {}]
  BY DEF Idle
<1>2. x.pc = pc /\ x.rec = NoRecord /\ x.marks = {} /\ x.cont = "idle" /\ x.to = "NONE"
  BY <1>1
<1>3. "idle" \in Points /\ "NONE" \in WorkflowState \cup {"NONE"} /\ 0 \in Nat
      /\ NoPlan \in Plans \cup {NoPlan} /\ {} \in SUBSET Steps
  BY DEF Points, Ended
<1>4. x \in Coroutine
  <2> HIDE DEF x
  <2> QED BY <1>1, <1>3, NoRecordFacts DEF Coroutine
<1> QED
  BY <1>2, <1>4

-----------------------------------------------------------------------------
(* What a coroutine knows stays true while others work.                    *)

\* What a coroutine knows stays true while the documents grow.
LEMMA StaysTrue ==
  ASSUME NEW w, NEW c \in RecordCopy, NEW m, NEW r \in Records, NEW r2 \in Records,
         NEW cp \in Plans \cup {NoPlan}, NEW cp2 \in Plans \cup {NoPlan},
         NEW a, NEW a2, NEW app, NEW app2, NEW dt \in Nat, NEW dt2 \in Nat,
         LocalInv(w, c, m, r, cp, a, app, dt),
         RecordGrows(r, r2), cp # NoPlan => cp2 = cp, ApprovalGrows(a, a2),
         app \subseteq app2, dt <= dt2
  PROVE  LocalInv(w, c, m, r2, cp2, a2, app2, dt2)
<1>t. r \in RecordCopy /\ r2 \in RecordCopy
  BY RecordFacts
<1>v. c.version \in Nat /\ r.version \in Nat /\ r2.version \in Nat
  BY <1>t DEF RecordCopy
<1>1. c.version = r2.version => r2 = r
  BY <1>v DEF LocalInv, Sync, RecordGrows
<1>2. Sync(c, r2)
  BY <1>1, <1>v DEF LocalInv, Sync, RecordGrows
<1>3. Knows(w, c, m, r2, cp2, a2, dt2)
  <2>1. w \notin Unread => r2.version > 0
    BY <1>v DEF LocalInv, Knows, RecordGrows
  <2>2. w = "create_approval" => cp2 = c.plan
    BY DEF LocalInv, Knows, Planned
  <2>3. w \in {"ack", "acked"} => Handled(r2, a2, dt2)
    BY DEF LocalInv, Knows, Handled, RecordGrows, ApprovalGrows
  <2> QED
    BY <2>1, <2>2, <2>3 DEF LocalInv, Knows, ApprovalGrows
<1>4. Snapshots(w, c, m, r2, app2)
  BY <1>1 DEF LocalInv, Snapshots, RecordGrows
<1> QED
  BY <1>2, <1>3, <1>4 DEF LocalInv

\* A coroutine that ends, with nothing but its verdict.
LEMMA EndsTrue ==
  ASSUME NEW w \in Ended, NEW r \in Records, NEW cp, NEW a, NEW app, NEW dt,
         w = "acked" => Handled(r, a, dt)
  PROVE  LocalInv(w, NoRecord, {}, r, cp, a, app, dt)
<1>v. r.version \in Nat
  BY RecordFacts DEF RecordCopy
<1>1. Sync(NoRecord, r)
  BY <1>v, RecordFacts, NoRecordFacts DEF Sync, Terminal
<1>2. Knows(w, NoRecord, {}, r, cp, a, dt)
  BY DEF Knows, Unread, Ended, Drafting, Planned, Resumed, Guarded
<1>3. Snapshots(w, NoRecord, {}, r, app)
  BY RecordFacts, NoRecordFacts DEF Snapshots, Ended, Guarded
<1> QED
  BY <1>1, <1>2, <1>3 DEF LocalInv

\* A coroutine that goes on with the same copy.
LEMMA MovesTrue ==
  ASSUME NEW w, NEW w2, NEW c, NEW m, NEW r, NEW cp, NEW a, NEW app, NEW dt, NEW dt2,
         LocalInv(w, c, m, r, cp, a, app, dt),
         Knows(w2, c, m, r, cp, a, dt2),
         w # "snapshots", w2 = "snapshots" => m = {},
         w2 \in Guarded => w \in Guarded
  PROVE  LocalInv(w2, c, m, r, cp, a, app, dt2)
  BY DEF LocalInv, Snapshots

\* A coroutine that has just read or written the record.
LEMMA ReadsTrue ==
  ASSUME NEW w, NEW r \in Records, NEW m, NEW cp, NEW a, NEW app, NEW dt,
         Knows(w, r, m, r, cp, a, dt), TaskInv(r, app),
         w = "snapshots" => m = {},
         w \in Guarded => \A s \in Steps : r.tasks[s].snap # "NONE"
  PROVE  LocalInv(w, r, m, r, cp, a, app, dt)
<1>v. r.version \in Nat
  BY RecordFacts DEF RecordCopy
<1>1. Sync(r, r)
  BY <1>v DEF Sync
<1>2. Snapshots(w, r, m, r, app)
  BY DEF Snapshots, TaskInv
<1> QED
  BY <1>1, <1>2 DEF LocalInv

-----------------------------------------------------------------------------
(* How a coroutine moves.                                                  *)

\* Only p moves.
OthersStay(p) ==
  /\ proc' \in [Procs -> Coroutine]
  /\ \A q \in Procs : q # p => proc'[q] = proc[q]

\* p comes to w with this copy and these marks.
Lands(p, w, rec, marks) ==
  /\ OthersStay(p)
  /\ Where(proc'[p]) = w
  /\ proc'[p].rec = rec
  /\ proc'[p].marks = marks
  /\ proc'[p].pc = "transition" => Transition(proc'[p])

\* Goto keeps the copy unless the coroutine ends.
LEMMA GotoLands ==
  ASSUME proc \in [Procs -> Coroutine], NEW p \in Procs,
         NEW pc \in Points, pc # "transition", Goto(p, pc)
  PROVE  /\ pc \in Ended => Lands(p, pc, NoRecord, {})
         /\ pc \notin Ended => Lands(p, pc, proc[p].rec, proc[p].marks)
<1>x. proc[p] \in Coroutine
  OBVIOUS
<1>1. ASSUME pc \in Ended PROVE Lands(p, pc, NoRecord, {})
  <2>1. proc' = [proc EXCEPT ![p] = [Idle EXCEPT !.pc = pc]]
    BY <1>1 DEF Goto
  <2> HIDE DEF Idle
  <2> DEFINE y == [Idle EXCEPT !.pc = pc]
  <2>2. y \in Coroutine /\ y.pc = pc /\ y.rec = NoRecord /\ y.marks = {} /\ y.to = "NONE"
    BY IdleFacts
  <2> HIDE DEF y
  <2>3. proc' = [proc EXCEPT ![p] = y]
    BY <2>1 DEF y
  <2>4. proc' \in [Procs -> Coroutine] /\ proc'[p] = y /\ \A q \in Procs : q # p => proc'[q] = proc[q]
    BY <2>2, <2>3
  <2> QED
    BY <2>2, <2>4 DEF Lands, OthersStay, Where
<1>2. ASSUME pc \notin Ended PROVE Lands(p, pc, proc[p].rec, proc[p].marks)
  <2>1. proc' = [proc EXCEPT ![p] = [proc[p] EXCEPT !.pc = pc]]
    BY <1>2 DEF Goto
  <2> DEFINE y == [proc[p] EXCEPT !.pc = pc]
  <2>2. y \in Coroutine /\ y.pc = pc /\ y.rec = proc[p].rec /\ y.marks = proc[p].marks
    BY <1>x DEF Coroutine
  <2> HIDE DEF y
  <2>3. proc' = [proc EXCEPT ![p] = y]
    BY <2>1 DEF y
  <2>4. proc' \in [Procs -> Coroutine] /\ proc'[p] = y /\ \A q \in Procs : q # p => proc'[q] = proc[q]
    BY <2>2, <2>3
  <2> QED
    BY <2>2, <2>4 DEF Lands, OthersStay, Where
<1> QED
  BY <1>1, <1>2

\* GotoWith takes a new copy along.
LEMMA GotoWithLands ==
  ASSUME proc \in [Procs -> Coroutine], NEW p \in Procs, NEW rec \in RecordCopy,
         NEW pc \in Points, pc # "transition", GotoWith(p, rec, pc)
  PROVE  /\ pc \in Ended => Lands(p, pc, NoRecord, {})
         /\ pc \notin Ended => Lands(p, pc, rec, proc[p].marks)
<1>x. proc[p] \in Coroutine
  OBVIOUS
<1>1. ASSUME pc \in Ended PROVE Lands(p, pc, NoRecord, {})
  <2>1. Goto(p, pc)
    BY <1>1 DEF Goto, GotoWith
  <2> QED
    BY <1>1, <2>1, GotoLands
<1>2. ASSUME pc \notin Ended PROVE Lands(p, pc, rec, proc[p].marks)
  <2>1. proc' = [proc EXCEPT ![p] = [proc[p] EXCEPT !.pc = pc, !.rec = rec]]
    BY <1>2 DEF GotoWith
  <2> DEFINE y == [proc[p] EXCEPT !.pc = pc, !.rec = rec]
  <2>2. y \in Coroutine /\ y.pc = pc /\ y.rec = rec /\ y.marks = proc[p].marks
    BY <1>x DEF Coroutine
  <2> HIDE DEF y
  <2>3. proc' = [proc EXCEPT ![p] = y]
    BY <2>1 DEF y
  <2>4. proc' \in [Procs -> Coroutine] /\ proc'[p] = y /\ \A q \in Procs : q # p => proc'[q] = proc[q]
    BY <2>2, <2>3
  <2> QED
    BY <2>2, <2>4 DEF Lands, OthersStay, Where
<1> QED
  BY <1>1, <1>2

\* A coroutine that begins a transition is already at the point after it.
LEMMA BeginLands ==
  ASSUME proc \in [Procs -> Coroutine], NEW p \in Procs, change.version \in Nat,
         NEW target \in WorkflowState, NEW cont \in Points \ Unread, cont # "transition",
         target = "PLAN_READY" => proc[p].rec.plan # NoPlan,
         begin_transition(p, target, cont)
  PROVE  Lands(p, cont, proc[p].rec, proc[p].marks)
<1>x. proc[p] \in Coroutine
  OBVIOUS
<1> DEFINE y == [proc[p] EXCEPT !.pc = "transition", !.to = target,
                   !.exp = change.version, !.cont = cont, !.seen = "NONE"]
<1>0. "transition" \in Points /\ "NONE" \in WorkflowState \cup {"NONE"}
  BY DEF Points
<1>2. y \in Coroutine /\ y.pc = "transition" /\ y.to = target /\ y.cont = cont
      /\ y.rec = proc[p].rec /\ y.marks = proc[p].marks
  BY <1>x, <1>0 DEF Coroutine
<1>1. proc' = [proc EXCEPT ![p] = y]
  BY DEF begin_transition
<1> HIDE DEF y
<1>4. proc' \in [Procs -> Coroutine] /\ proc'[p] = y /\ \A q \in Procs : q # p => proc'[q] = proc[q]
  BY <1>1, <1>2
<1>5. Transition(y)
  BY <1>2 DEF Transition
<1> QED
  BY <1>2, <1>4, <1>5 DEF Lands, OthersStay, Where

\* A step that keeps what it reads of the change.
LEMMA ReadLands ==
  ASSUME proc \in [Procs -> Coroutine], NEW p \in Procs,
         change.status \in WorkflowState \cup {"NONE"},
         NEW cont \in Points, cont # "transition", read_change(p, cont)
  PROVE  Lands(p, cont, proc[p].rec, proc[p].marks)
<1>x. proc[p] \in Coroutine
  OBVIOUS
<1> DEFINE y == [proc[p] EXCEPT !.seen = change.status, !.pc = cont]
<1>2. y \in Coroutine /\ y.pc = cont /\ y.rec = proc[p].rec /\ y.marks = proc[p].marks
  BY <1>x DEF Coroutine
<1>1. proc' = [proc EXCEPT ![p] = y]
  BY DEF read_change
<1> HIDE DEF y
<1>4. proc' \in [Procs -> Coroutine] /\ proc'[p] = y /\ \A q \in Procs : q # p => proc'[q] = proc[q]
  BY <1>1, <1>2
<1> QED
  BY <1>2, <1>4 DEF Lands, OthersStay, Where

\* A step of a loop over the tasks.
LEMMA EnterLands ==
  ASSUME proc \in [Procs -> Coroutine], NEW p \in Procs, NEW pc \in Points,
         pc # "transition", NEW marks \in SUBSET Steps, Enter(p, pc, marks)
  PROVE  Lands(p, pc, proc[p].rec, marks)
<1>x. proc[p] \in Coroutine
  OBVIOUS
<1> DEFINE y == [proc[p] EXCEPT !.pc = pc, !.marks = marks]
<1>2. y \in Coroutine /\ y.pc = pc /\ y.rec = proc[p].rec /\ y.marks = marks
  BY <1>x DEF Coroutine
<1>1. proc' = [proc EXCEPT ![p] = y]
  BY DEF Enter
<1> HIDE DEF y
<1>4. proc' \in [Procs -> Coroutine] /\ proc'[p] = y /\ \A q \in Procs : q # p => proc'[q] = proc[q]
  BY <1>1, <1>2
<1> QED
  BY <1>2, <1>4 DEF Lands, OthersStay, Where

-----------------------------------------------------------------------------
(* Steps that only move coroutines.                                        *)

\* The documents in a form the provers use.
Documents ==
  /\ record \in Records
  /\ change.plan \in Plans \cup {NoPlan}
  /\ change.version \in Nat
  /\ change.status \in WorkflowState \cup {"NONE"}
  /\ proc \in [Procs -> Coroutine]
  /\ deadTopic \in Nat
  /\ approval.status \in {"NONE", "PENDING"} \cup Decided
  /\ approval.status # "NONE" => approval.plan \in Plans
  /\ approval.status = "NONE" <=> approval = NoApproval

\* They follow from TypeOK.
LEMMA TypeGivesDocuments == TypeOK => Documents
<1> SUFFICES ASSUME TypeOK PROVE Documents
  OBVIOUS
<1>1. record \in Records /\ proc \in [Procs -> Coroutine] /\ deadTopic \in Nat
  BY DEF TypeOK, Records
<1>2. /\ change.plan \in Plans \cup {NoPlan}
      /\ change.version \in Nat
      /\ change.status \in WorkflowState \cup {"NONE"}
  BY DEF TypeOK, ChangeRecord, NoChange
<1>3. /\ approval.status \in {"NONE", "PENDING"} \cup Decided
      /\ approval.status # "NONE" => approval.plan \in Plans
      /\ approval.status = "NONE" <=> approval = NoApproval
  BY DecidedIsPath DEF TypeOK, ApprovalRequestRecord, NoApproval, Decided
<1> QED
  BY <1>1, <1>2, <1>3 DEF Documents

\* The copy a coroutine holds, and what it knows.
LEMMA CoroutineFacts ==
  ASSUME IInv, NEW p \in Procs
  PROVE  /\ proc[p] \in Coroutine
         /\ proc[p].rec \in RecordCopy
         /\ proc[p].marks \subseteq Steps
         /\ LocalInv(Where(proc[p]), proc[p].rec, proc[p].marks,
                     record, change.plan, approval, applied, deadTopic)
<1>1. proc[p] \in Coroutine
  BY DEF IInv, TypeOK
<1> QED
  BY <1>1 DEF IInv, Coroutines, CoroutineInv, Coroutine

\* One coroutine moves, and nothing is taken back from the others.
LEMMA CoroutinesStep ==
  ASSUME IInv, Documents', Grows, NEW p \in Procs, NEW w, NEW c, NEW m,
         Lands(p, w, c, m),
         LocalInv(w, c, m, record', change'.plan, approval', applied', deadTopic')
  PROVE  Coroutines'
<1> SUFFICES ASSUME NEW q \in Procs
             PROVE  CoroutineInv(proc'[q], record', change'.plan, approval', applied', deadTopic')
  BY DEF Coroutines
<1>1. CASE q = p
  BY <1>1 DEF Lands, CoroutineInv
<1>2. CASE q # p
  <2>1. proc'[q] = proc[q]
    BY <1>2 DEF Lands, OthersStay
  <2>2. proc[q].rec \in RecordCopy
        /\ LocalInv(Where(proc[q]), proc[q].rec, proc[q].marks,
                    record, change.plan, approval, applied, deadTopic)
    BY CoroutineFacts
  <2>3. Documents
    BY TypeGivesDocuments DEF IInv
  <2>4. LocalInv(Where(proc[q]), proc[q].rec, proc[q].marks,
                 record', change'.plan, approval', applied', deadTopic')
    BY <2>2, <2>3, StaysTrue DEF Grows, Documents
  <2>5. proc[q].pc = "transition" => Transition(proc[q])
    BY DEF IInv, Coroutines, CoroutineInv
  <2> QED
    BY <2>1, <2>4, <2>5 DEF CoroutineInv
<1> QED
  BY <1>1, <1>2

\* Nobody moves.
LEMMA CoroutinesStay ==
  ASSUME IInv, Documents', Grows, proc' = proc
  PROVE  Coroutines'
<1> SUFFICES ASSUME NEW q \in Procs
             PROVE  CoroutineInv(proc'[q], record', change'.plan, approval', applied', deadTopic')
  BY DEF Coroutines
<1>1. proc'[q] = proc[q]
  OBVIOUS
<1>2. proc[q].rec \in RecordCopy
      /\ LocalInv(Where(proc[q]), proc[q].rec, proc[q].marks,
                  record, change.plan, approval, applied, deadTopic)
  BY CoroutineFacts
<1>3. Documents
  BY TypeGivesDocuments DEF IInv
<1>4. LocalInv(Where(proc[q]), proc[q].rec, proc[q].marks,
               record', change'.plan, approval', applied', deadTopic')
  BY <1>2, <1>3, StaysTrue DEF Grows, Documents
<1>5. proc[q].pc = "transition" => Transition(proc[q])
  BY DEF IInv, Coroutines, CoroutineInv
<1> QED
  BY <1>1, <1>4, <1>5 DEF CoroutineInv

\* No document and no sandbox changes.
Still ==
  /\ UNCHANGED <<change, record, approval, config, applied, ledger, calls, late, event>>
  /\ expired' \in BOOLEAN /\ deadLetters' \in BOOLEAN /\ forwarded' \in BOOLEAN
  /\ deadTopic' \in Nat /\ deadTopic <= deadTopic'

\* p is not waiting for a tool call.
NotWaiting(p) == \A k \in calls : k.waited => k.by # p

\* Only a coroutine in a wave waits for a tool call.
LEMMA OnlyWavesWait ==
  ASSUME IInv, NEW p \in Procs, proc[p].pc # "wave"
  PROVE  NotWaiting(p)
  BY DEF IInv, Waiting, NotWaiting

\* Such a step takes nothing back.
LEMMA StillGrows ==
  ASSUME IInv, Still
  PROVE  Grows
<1>1. record.version \in Nat
  BY TypeGivesDocuments, RecordFacts DEF IInv, Documents, RecordCopy
<1> QED
  BY <1>1 DEF Still, Grows, RecordGrows, ChangeGrows, ApprovalGrows

\* The type invariant does not depend on who is where.
LEMMA StillTypeOK ==
  ASSUME TypeOK, Still, proc' \in [Procs -> Coroutine]
  PROVE  TypeOK'
  BY DEF TypeOK, Still

\* One coroutine moves while the documents are still.
LEMMA QuietStep ==
  ASSUME IInv, Still, NEW p \in Procs, NEW w, NEW c, NEW m, Lands(p, w, c, m), NotWaiting(p),
         LocalInv(w, c, m, record, change.plan, approval, applied, deadTopic')
  PROVE  IInv' /\ Grows
<1>1. TypeOK'
  BY StillTypeOK DEF IInv, Lands, OthersStay
<1>2. Documents'
  BY <1>1, TypeGivesDocuments, PTL
<1>3. Grows
  BY StillGrows
<1>4. Coroutines'
  <2>1. LocalInv(w, c, m, record', change'.plan, approval', applied', deadTopic')
    BY DEF Still
  <2> QED
    BY <1>2, <1>3, <2>1, CoroutinesStep
<1>5. /\ PlanInv(record, change.plan, approval)'
      /\ TaskInv(record, applied)'
      /\ AppliedInv(record, approval, applied)'
      /\ Calls'
  BY DEF IInv, Still, Calls
<1>6. SandboxInv'
  BY DEF IInv, Still, SandboxInv
<1>7. Waiting'
  <2> SUFFICES ASSUME NEW k \in calls, k.waited PROVE proc'[k.by].pc = "wave"
    BY DEF Waiting, Still
  <2>1. k.by # p /\ k.by \in Procs /\ proc[k.by].pc = "wave"
    BY DEF NotWaiting, IInv, Waiting, TypeOK, Call, Procs
  <2> QED
    BY <2>1 DEF Lands, OthersStay
<1> QED
  BY <1>1, <1>3, <1>4, <1>5, <1>6, <1>7 DEF IInv

\* A coroutine that ends without an acknowledgement.
LEMMA EndStep ==
  ASSUME IInv, Still, NEW p \in Procs, NotWaiting(p), NEW pc \in Ended \ {"acked"}, Goto(p, pc)
  PROVE  IInv' /\ Grows
<1>1. Documents
  BY TypeGivesDocuments DEF IInv
<1>2. pc \in Points /\ pc # "transition"
  BY DEF Points, Ended
<1>3. Lands(p, pc, NoRecord, {})
  BY <1>1, <1>2, GotoLands DEF Documents
<1>4. LocalInv(pc, NoRecord, {}, record, change.plan, approval, applied, deadTopic')
  BY <1>1, EndsTrue DEF Documents
<1> QED
  BY <1>3, <1>4, QuietStep

\* An exception that nothing catches ends the coroutine.
LEMMA RaisedEnds == \A p : Raised(p) \in Ended \ {"acked"}
  BY DEF Raised, Ended

-----------------------------------------------------------------------------
(* Writes of the record.                                                   *)

\* new may replace the record that p has a current copy of, and p may go on
\* at cont.
UpdateOK(p, new, cont) ==
  /\ new \in RecordCopy
  /\ new.status = proc[p].rec.status \/ new.status \in RuntimeStatus
  /\ new.status \in UnderWay => new.status = proc[p].rec.status \/ approval.status # "NONE"
  /\ new.plan = proc[p].rec.plan \/ proc[p].rec.plan = NoPlan
  /\ cont \in Points \ {"transition", "create_approval", "approval_created",
                        "get_change", "get_record"}
  /\ cont \notin Drafting
  /\ cont \in Planned => new.plan # NoPlan
  /\ cont \in Resumed => approval.status \in Decided
  /\ cont \in {"ack", "acked"} => approval.status # "NONE" \/ new.status \in Terminal
  /\ cont \notin Guarded \cup Ended => proc[p].marks = {}
  /\ cont \in Guarded => \A s \in Steps : new.tasks[s].snap # "NONE"
  /\ \A s \in Steps : new.tasks[s].status = "SUCCEEDED" => s \in applied
  /\ proc[p].rec.version = record.version =>
       \A s \in Steps :
         /\ new.tasks[s].snap \in {"NONE", "old_field"}
         /\ record.tasks[s].snap # "NONE" => new.tasks[s].snap = record.tasks[s].snap

\* What the stored record looks like after a write.
LEMMA WrittenRecord ==
  ASSUME IInv, NEW p \in Procs, Where(proc[p]) \notin Unread, NEW new, NEW cont,
         UpdateOK(p, new, cont), UpdateAllowed(p, new),
         NEW r2, r2 = [new EXCEPT !.version = record.version + 1]
  PROVE  /\ r2 \in WorkflowExecutionRecord
         /\ r2.version = record.version + 1
         /\ r2.status = new.status /\ r2.plan = new.plan /\ r2.tasks = new.tasks
         /\ RecordGrows(record, r2)
         /\ record # NoRecord
         /\ TaskInv(r2, applied)
         /\ PlanInv(r2, change.plan, approval)
<1> DEFINE c == proc[p].rec
<1>d. Documents
  BY TypeGivesDocuments DEF IInv
<1>l. /\ c \in RecordCopy
      /\ Sync(c, record) /\ record.version > 0
  BY CoroutineFacts DEF LocalInv, Knows
<1>r. record \in WorkflowExecutionRecord /\ record.version \in Nat \ {0} /\ record.status \in RuntimeStatus
  <2>1. record \in WorkflowExecutionRecord
    BY <1>d, <1>l, RecordFacts DEF Documents
  <2> QED
    BY <2>1 DEF WorkflowExecutionRecord
<1>n. record # NoRecord
  BY <1>l, NoRecordFacts
<1>e. c.version = record.version /\ c.status = record.status /\ c.plan = record.plan
  BY <1>l DEF UpdateAllowed, Sync
<1>1. r2.version = record.version + 1 /\ r2.status = new.status /\ r2.plan = new.plan
      /\ r2.tasks = new.tasks /\ r2.err = new.err
  BY DEF UpdateOK, RecordCopy
<1>2. r2 \in WorkflowExecutionRecord
  <2>1. new.status \in RuntimeStatus
    BY <1>e, <1>r DEF UpdateOK
  <2>2. record.version + 1 \in Nat \ {0}
    BY <1>r
  <2> QED
    BY <2>1, <2>2 DEF UpdateOK, RecordCopy, WorkflowExecutionRecord
<1>3. RecordGrows(record, r2)
  <2>1. record.version <= r2.version /\ record.version # r2.version
    BY <1>1, <1>r
  <2>2. record.status \in Terminal => r2.status \in Terminal
    BY <1>1, <1>e DEF UpdateAllowed
  <2>3. record.plan # NoPlan => r2.plan = record.plan
    BY <1>1, <1>e DEF UpdateOK
  <2>4. \A s \in Steps : record.tasks[s].snap # "NONE" => r2.tasks[s].snap = record.tasks[s].snap
    BY <1>1, <1>e DEF UpdateOK
  <2> QED
    BY <2>1, <2>2, <2>3, <2>4 DEF RecordGrows
<1>4. TaskInv(r2, applied)
  BY <1>1, <1>e DEF UpdateOK, TaskInv
<1>5. PlanInv(r2, change.plan, approval)
  <2>1. PlanInv(record, change.plan, approval)
    BY DEF IInv
  <2>2. record.plan # NoPlan => r2.plan = record.plan
    BY <1>3 DEF RecordGrows
  <2>3. approval.status # "NONE" => approval.plan \in Plans
    BY <1>d DEF Documents
  <2>4. r2.status \in UnderWay => approval.status # "NONE"
    BY <2>1, <1>1, <1>e DEF PlanInv, UpdateOK
  <2> QED
    BY <2>1, <2>2, <2>3, <2>4, NoPlanPlansAssumption DEF PlanInv
<1> QED
  BY <1>1, <1>2, <1>3, <1>4, <1>5, <1>n

\* Everything outside the store is left alone.
OutsideStays == UNCHANGED <<intakeVars, executionVars>>

\* _update_record: the write, or the exception of a copy that is out of date.
LEMMA UpdateStep ==
  ASSUME IInv, NEW p \in Procs, Where(proc[p]) \notin Unread, NotWaiting(p), NEW new, NEW cont,
         UpdateOK(p, new, cont), update_record(p, new, cont), OutsideStays
  PROVE  IInv' /\ Grows
<1>d. Documents
  BY TypeGivesDocuments DEF IInv
<1>1. CASE ~UpdateAllowed(p, new)
  <2>1. Goto(p, Raised(p)) /\ Still
    <3>1. expired \in BOOLEAN /\ deadLetters \in BOOLEAN /\ forwarded \in BOOLEAN /\ deadTopic \in Nat
      BY DEF IInv, TypeOK
    <3> QED
      BY <1>1, <3>1 DEF update_record, OutsideStays, Still, intakeVars, executionVars
  <2> QED
    BY <2>1, RaisedEnds, EndStep
<1>2. CASE UpdateAllowed(p, new)
  <2> DEFINE r2 == [new EXCEPT !.version = record.version + 1]
  <2>0. /\ record' = r2 /\ GotoWith(p, r2, cont)
        /\ change' = change /\ approval' = approval /\ expired' = expired
    BY <1>2 DEF update_record
  <2>o. /\ event' = event /\ deadLetters' = deadLetters /\ deadTopic' = deadTopic
        /\ forwarded' = forwarded /\ config' = config /\ applied' = applied
        /\ ledger' = ledger /\ calls' = calls /\ late' = late
    BY DEF OutsideStays, intakeVars, executionVars
  <2>1. /\ r2 \in WorkflowExecutionRecord
        /\ r2.version = record.version + 1
        /\ r2.status = new.status /\ r2.plan = new.plan /\ r2.tasks = new.tasks
        /\ RecordGrows(record, r2)
        /\ record # NoRecord
        /\ TaskInv(r2, applied)
        /\ PlanInv(r2, change.plan, approval)
    BY <1>2, WrittenRecord
  <2> HIDE DEF r2
  <2>2. r2 \in Records /\ r2 \in RecordCopy /\ r2.version > 0
    <3>1. r2 \in Records
      BY <2>1 DEF Records
    <3>2. r2.version \in Nat \ {0}
      BY <2>1 DEF WorkflowExecutionRecord
    <3> QED
      BY <3>1, <3>2, RecordFacts
  <2>c. cont \in Points /\ cont # "transition"
    BY DEF UpdateOK
  <2>3. proc' \in [Procs -> Coroutine] /\ \A q \in Procs : q # p => proc'[q] = proc[q]
    BY <1>d, <2>0, <2>2, <2>c, GotoWithLands DEF Documents, Lands, OthersStay
  <2>t. TypeOK'
    <3>1. record' # NoRecord
      BY <2>0, <2>2, NoRecordFacts
    <3> QED
      BY <2>0, <2>o, <2>1, <2>3, <3>1 DEF IInv, TypeOK
  <2>4. Documents'
    BY <2>t, TypeGivesDocuments, PTL
  <2>5. Grows
    <3>1. deadTopic \in Nat
      BY <1>d DEF Documents
    <3> QED
      BY <2>0, <2>o, <2>1, <3>1 DEF Grows, ChangeGrows, ApprovalGrows
  <2>6. Coroutines'
    <3>1. CASE cont \in Ended
      <4>1. Lands(p, cont, NoRecord, {})
        BY <1>d, <2>0, <2>2, <2>c, <3>1, GotoWithLands DEF Documents
      <4>2. cont = "acked" => Handled(r2, approval, deadTopic)
        BY <2>1 DEF UpdateOK, Handled
      <4>3. LocalInv(cont, NoRecord, {}, r2, change.plan, approval, applied, deadTopic)
        BY <2>2, <3>1, <4>2, EndsTrue
      <4> QED
        BY <2>0, <2>o, <2>4, <2>5, <4>1, <4>3, CoroutinesStep
    <3>2. CASE cont \notin Ended
      <4>1. Lands(p, cont, r2, proc[p].marks)
        BY <1>d, <2>0, <2>2, <2>c, <3>2, GotoWithLands DEF Documents
      <4>2. Knows(cont, r2, proc[p].marks, r2, change.plan, approval, deadTopic)
        BY <2>1, <2>2, <3>2 DEF UpdateOK, Knows, Handled
      <4>m. cont = "snapshots" => proc[p].marks = {}
        BY <3>2 DEF UpdateOK, Guarded
      <4>3. LocalInv(cont, r2, proc[p].marks, r2, change.plan, approval, applied, deadTopic)
        BY <2>1, <2>2, <4>2, <4>m, ReadsTrue DEF UpdateOK
      <4> QED
        BY <2>0, <2>o, <2>4, <2>5, <4>1, <4>3, CoroutinesStep
    <3> QED
      BY <3>1, <3>2
  <2>7. PlanInv(record, change.plan, approval)' /\ TaskInv(record, applied)'
    BY <2>0, <2>o, <2>1
  <2>8. AppliedInv(record, approval, applied)' /\ Calls'
    <3>1. \A s \in Steps : record.tasks[s].snap = "old_field" => r2.tasks[s].snap = "old_field"
      BY <2>1 DEF RecordGrows
    <3>2. applied \subseteq Steps /\ \A k \in calls : k.step \in Steps
      BY DEF IInv, TypeOK, Call
    <3>3. AppliedInv(r2, approval, applied)
      BY <3>1, <3>2 DEF IInv, AppliedInv
    <3>4. \A k \in calls : CallInv(k, r2, approval, applied)
      BY <3>1, <3>2 DEF IInv, Calls, CallInv
    <3> QED
      BY <2>0, <2>o, <3>3, <3>4 DEF Calls
  <2>9. SandboxInv'
    BY <2>o DEF IInv, SandboxInv
  <2>10. Waiting'
    <3> SUFFICES ASSUME NEW k \in calls, k.waited PROVE proc'[k.by].pc = "wave"
      BY <2>o DEF Waiting
    <3>1. k.by # p /\ k.by \in Procs /\ proc[k.by].pc = "wave"
      BY DEF NotWaiting, IInv, Waiting, TypeOK, Call, Procs
    <3> QED
      BY <2>3, <3>1
  <2> QED
    BY <2>t, <2>5, <2>6, <2>7, <2>8, <2>9, <2>10 DEF IInv
<1> QED
  BY <1>1, <1>2

\* p may give the record this status and go on at cont.
StatusOK(p, status, cont) ==
  /\ Where(proc[p]) \notin Unread \cup {"snapshots"}
  /\ status \in RuntimeStatus
  /\ status \in UnderWay => approval.status # "NONE"
  /\ cont \in Points \ {"transition", "create_approval", "approval_created",
                        "get_change", "get_record"}
  /\ cont \notin Drafting
  /\ cont \in Planned => proc[p].rec.plan # NoPlan
  /\ cont \in Resumed => approval.status \in Decided
  /\ cont \in {"ack", "acked"} => approval.status # "NONE" \/ status \in Terminal
  /\ cont \notin Guarded \cup Ended => proc[p].marks = {}
  /\ cont \in Guarded => Where(proc[p]) \in Guarded

\* _set_runtime_status and _terminal: a write, or nothing to do.
LEMMA StatusStep ==
  ASSUME IInv, NEW p \in Procs, NotWaiting(p), NEW status, NEW err \in BOOLEAN, NEW cont,
         StatusOK(p, status, cont),
         set_runtime_status(p, status, err, cont) \/ terminal(p, status, err, cont),
         OutsideStays
  PROVE  IInv' /\ Grows
<1> DEFINE c == proc[p].rec
           m == proc[p].marks
           w == Where(proc[p])
<1>d. Documents
  BY TypeGivesDocuments DEF IInv
<1>l. /\ c \in RecordCopy
      /\ LocalInv(w, c, m, record, change.plan, approval, applied, deadTopic)
  BY CoroutineFacts
<1>1. ASSUME c.status = status, Goto(p, cont), UNCHANGED <<change, record, approval, expired>>
      PROVE  IInv' /\ Grows
  <2>1. Still
    <3>1. expired \in BOOLEAN /\ deadLetters \in BOOLEAN /\ forwarded \in BOOLEAN /\ deadTopic \in Nat
      BY DEF IInv, TypeOK
    <3> QED
      BY <1>1, <3>1 DEF OutsideStays, Still, intakeVars, executionVars
  <2>2. deadTopic' = deadTopic
    BY DEF OutsideStays, intakeVars
  <2>c. cont \in Points /\ cont # "transition"
    BY DEF StatusOK
  <2>h. cont \in {"ack", "acked"} => Handled(record, approval, deadTopic)
    BY <1>l, <1>1 DEF StatusOK, Handled, LocalInv, Sync
  <2>3. CASE cont \in Ended
    <3>1. Lands(p, cont, NoRecord, {})
      BY <1>d, <1>1, <2>3, <2>c, GotoLands DEF Documents
    <3>2. LocalInv(cont, NoRecord, {}, record, change.plan, approval, applied, deadTopic)
      BY <1>d, <2>3, <2>h, EndsTrue DEF Documents
    <3> QED
      BY <2>1, <2>2, <3>1, <3>2, QuietStep
  <2>4. CASE cont \notin Ended
    <3>1. Lands(p, cont, c, m)
      BY <1>d, <1>1, <2>4, <2>c, GotoLands DEF Documents
    <3>2. Knows(cont, c, m, record, change.plan, approval, deadTopic)
      BY <1>l, <2>h, <2>4 DEF StatusOK, Knows, LocalInv
    <3>m. cont = "snapshots" => m = {}
      BY <2>4 DEF StatusOK, Guarded
    <3>3. LocalInv(cont, c, m, record, change.plan, approval, applied, deadTopic)
      BY <1>l, <3>2, <3>m, MovesTrue DEF StatusOK
    <3> QED
      BY <2>1, <2>2, <3>1, <3>3, QuietStep
  <2> QED
    BY <2>3, <2>4
<1>2. ASSUME update_record(p, [c EXCEPT !.status = status, !.err = err], cont)
      PROVE  IInv' /\ Grows
  <2> DEFINE new == [c EXCEPT !.status = status, !.err = err]
  <2>1. new \in RecordCopy /\ new.status = status /\ new.plan = c.plan /\ new.tasks = c.tasks
    BY <1>l DEF StatusOK, RecordCopy
  <2>2. update_record(p, new, cont)
    BY <1>2
  <2> HIDE DEF new
  <2>3. TaskInv(record, applied)
    BY DEF IInv
  <2>4. UpdateOK(p, new, cont)
    <3>1. /\ cont \in Guarded => \A s \in Steps : new.tasks[s].snap # "NONE"
          /\ \A s \in Steps : new.tasks[s].status = "SUCCEEDED" => s \in applied
          /\ c.version = record.version =>
               \A s \in Steps :
                 /\ new.tasks[s].snap \in {"NONE", "old_field"}
                 /\ record.tasks[s].snap # "NONE" => new.tasks[s].snap = record.tasks[s].snap
      BY <1>l, <2>1, <2>3 DEF StatusOK, LocalInv, Snapshots, TaskInv
    <3> QED
      BY <2>1, <3>1 DEF UpdateOK, StatusOK
  <2>5. w \notin Unread
    BY DEF StatusOK
  <2> QED
    BY <2>2, <2>4, <2>5, UpdateStep
<1>3. CASE set_runtime_status(p, status, err, cont)
  BY <1>1, <1>2, <1>3 DEF set_runtime_status
<1>4. CASE terminal(p, status, err, cont)
  BY <1>1, <1>2, <1>4 DEF terminal
<1> QED
  BY <1>3, <1>4

-----------------------------------------------------------------------------
(* The event side.                                                         *)

\* The premises of the lemmas above at a point of the code.
LEMMA AtPoint ==
  ASSUME IInv, NEW p \in Procs, NEW w, w # "transition", w # "wave", At(p, w)
  PROVE  Where(proc[p]) = w /\ NotWaiting(p)
  BY OnlyWavesWait DEF At, Where

\* A step that leaves the documents alone is still.
LEMMA StoreStays ==
  ASSUME IInv, UNCHANGED <<change, record, approval, expired>>, OutsideStays
  PROVE  Still /\ deadTopic' = deadTopic
<1>1. expired \in BOOLEAN /\ deadLetters \in BOOLEAN /\ forwarded \in BOOLEAN /\ deadTopic \in Nat
  BY DEF IInv, TypeOK
<1> QED
  BY <1>1 DEF OutsideStays, Still, intakeVars, executionVars

\* A coroutine goes on at w with the copy it has.
LEMMA MoveStep ==
  ASSUME IInv, Still, deadTopic' = deadTopic, NEW p \in Procs, NotWaiting(p), NEW w,
         Lands(p, w, proc[p].rec, proc[p].marks),
         Knows(w, proc[p].rec, proc[p].marks, record, change.plan, approval, deadTopic),
         Where(proc[p]) # "snapshots", w = "snapshots" => proc[p].marks = {},
         w \in Guarded => Where(proc[p]) \in Guarded
  PROVE  IInv' /\ Grows
<1>1. LocalInv(w, proc[p].rec, proc[p].marks, record, change.plan, approval, applied, deadTopic)
  BY CoroutineFacts, MovesTrue
<1> QED
  BY <1>1, QuietStep

\* deliver: the message handler starts.
LEMMA deliver_step ==
  ASSUME IInv, NEW d \in Deliveries, deliver(d), UNCHANGED executionVars
  PROVE  IInv' /\ Grows
<1> DEFINE c == proc[d].rec
           m == proc[d].marks
<1>p. d \in Procs
  BY DEF Procs
<1>d. Documents
  BY TypeGivesDocuments DEF IInv
<1>w. Where(proc[d]) = "idle" /\ NotWaiting(d)
  BY <1>p, AtPoint DEF deliver
<1>k. Knows("idle", c, m, record, change.plan, approval, deadTopic)
  BY <1>p, <1>w, CoroutineFacts DEF LocalInv
<1>s. Still /\ deadTopic' = deadTopic
  <2>1. UNCHANGED <<change, record, approval, expired>> /\ OutsideStays
    BY DEF deliver, OutsideStays
  <2> QED
    BY <2>1, StoreStays
<1> DEFINE w == IF event = "malformed" THEN "publish" ELSE "get"
<1>1. w \in {"publish", "get"}
  BY DEF Unread
<1>2. w \in Points \ Ended /\ w # "transition" /\ w \notin Guarded /\ w # "snapshots"
  BY <1>1 DEF Points, Ended, Guarded
<1>3. Knows(w, c, m, record, change.plan, approval, deadTopic)
  BY <1>1, <1>k DEF Knows, Unread, Ended, Drafting, Planned, Resumed, Guarded
<1>4. Lands(d, w, c, m)
  <2>1. Goto(d, w)
    BY DEF deliver
  <2> QED
    BY <1>p, <1>d, <1>2, <2>1, GotoLands DEF Documents
<1> QED
  BY <1>p, <1>w, <1>s, <1>2, <1>3, <1>4, MoveStep

\* read_received and screen: RECEIVED to SCREENING.
LEMMA read_received_step ==
  ASSUME IInv, NEW d \in Deliveries, read_received(d), UNCHANGED executionVars
  PROVE  IInv' /\ Grows
<1> DEFINE c == proc[d].rec
           m == proc[d].marks
<1>p. d \in Procs
  BY DEF Procs
<1>d. Documents
  BY TypeGivesDocuments DEF IInv
<1>w. Where(proc[d]) = "screening" /\ NotWaiting(d)
  BY <1>p, AtPoint DEF read_received
<1>k. Knows("screening", c, m, record, change.plan, approval, deadTopic)
  BY <1>p, <1>w, CoroutineFacts DEF LocalInv
<1>s. Still /\ deadTopic' = deadTopic
  <2>1. UNCHANGED <<change, record, approval, expired>> /\ OutsideStays
    BY DEF read_received, OutsideStays
  <2> QED
    BY <2>1, StoreStays
<1> DEFINE w == IF change.status = "RECEIVED" THEN "screen" ELSE "analyze"
<1>1. w \in {"screen", "analyze"}
  BY DEF Unread
<1>2. w \in Points \ Ended /\ w # "transition" /\ w \notin Guarded /\ w # "snapshots"
  BY <1>1 DEF Points, Ended, Guarded
<1>3. Knows(w, c, m, record, change.plan, approval, deadTopic)
  BY <1>1, <1>k DEF Knows, Unread, Ended, Drafting, Planned, Resumed, Guarded
<1>4. Lands(d, w, c, m)
  <2>1. read_change(d, w)
    BY DEF read_received
  <2> QED
    BY <1>p, <1>d, <1>2, <2>1, ReadLands DEF Documents
<1> QED
  BY <1>p, <1>w, <1>s, <1>2, <1>3, <1>4, MoveStep

\* screen: the transition to SCREENING begins.
LEMMA screen_step ==
  ASSUME IInv, NEW d \in Deliveries, screen(d), UNCHANGED executionVars
  PROVE  IInv' /\ Grows
<1> DEFINE c == proc[d].rec
           m == proc[d].marks
<1>p. d \in Procs
  BY DEF Procs
<1>d. Documents
  BY TypeGivesDocuments DEF IInv
<1>w. Where(proc[d]) = "screen" /\ NotWaiting(d)
  BY <1>p, AtPoint DEF screen
<1>k. Knows("screen", c, m, record, change.plan, approval, deadTopic)
  BY <1>p, <1>w, CoroutineFacts DEF LocalInv
<1>s. Still /\ deadTopic' = deadTopic
  <2>1. UNCHANGED <<change, record, approval, expired>> /\ OutsideStays
    BY DEF screen, OutsideStays
  <2> QED
    BY <2>1, StoreStays
<1> DEFINE w == "analyze"
<1>1. w \in {"analyze"}
  BY DEF Unread
<1>2. w \in Points \ Ended /\ w # "transition" /\ w \notin Guarded /\ w # "snapshots"
  BY <1>1 DEF Points, Ended, Guarded
<1>3. Knows(w, c, m, record, change.plan, approval, deadTopic)
  BY <1>1, <1>k DEF Knows, Unread, Ended, Drafting, Planned, Resumed, Guarded
<1>4. Lands(d, w, c, m)
  <2>1. begin_transition(d, "SCREENING", w)
    BY DEF screen
  <2>2. "SCREENING" \in WorkflowState /\ w \notin Unread
    BY <1>1 DEF WorkflowState, Unread, Ended
  <2> QED
    BY <1>p, <1>d, <1>2, <2>1, <2>2, BeginLands DEF Documents
<1> QED
  BY <1>p, <1>w, <1>s, <1>2, <1>3, <1>4, MoveStep

\* block: the fleet found the change unsafe.
LEMMA block_step ==
  ASSUME IInv, NEW d \in Deliveries, block(d), UNCHANGED executionVars
  PROVE  IInv' /\ Grows
<1> DEFINE c == proc[d].rec
           m == proc[d].marks
<1>p. d \in Procs
  BY DEF Procs
<1>d. Documents
  BY TypeGivesDocuments DEF IInv
<1>w. Where(proc[d]) = "block" /\ NotWaiting(d)
  BY <1>p, AtPoint DEF block
<1>k. Knows("block", c, m, record, change.plan, approval, deadTopic)
  BY <1>p, <1>w, CoroutineFacts DEF LocalInv
<1>s. Still /\ deadTopic' = deadTopic
  <2>1. UNCHANGED <<change, record, approval, expired>> /\ OutsideStays
    BY DEF block, OutsideStays
  <2> QED
    BY <2>1, StoreStays
<1> DEFINE w == "blocked"
<1>1. w \in {"blocked"}
  BY DEF Unread
<1>2. w \in Points \ Ended /\ w # "transition" /\ w \notin Guarded /\ w # "snapshots"
  BY <1>1 DEF Points, Ended, Guarded
<1>3. Knows(w, c, m, record, change.plan, approval, deadTopic)
  BY <1>1, <1>k DEF Knows, Unread, Ended, Drafting, Planned, Resumed, Guarded
<1>4. Lands(d, w, c, m)
  <2>1. begin_transition(d, "BLOCKED", w)
    BY DEF block
  <2>2. "BLOCKED" \in WorkflowState /\ w \notin Unread
    BY <1>1 DEF WorkflowState, Unread, Ended
  <2> QED
    BY <1>p, <1>d, <1>2, <2>1, <2>2, BeginLands DEF Documents
<1> QED
  BY <1>p, <1>w, <1>s, <1>2, <1>3, <1>4, MoveStep

\* read_screening and screened: SCREENING to ANALYZING.
LEMMA read_screening_step ==
  ASSUME IInv, NEW d \in Deliveries, read_screening(d), UNCHANGED executionVars
  PROVE  IInv' /\ Grows
<1> DEFINE c == proc[d].rec
           m == proc[d].marks
<1>p. d \in Procs
  BY DEF Procs
<1>d. Documents
  BY TypeGivesDocuments DEF IInv
<1>w. Where(proc[d]) = "analyzed" /\ NotWaiting(d)
  BY <1>p, AtPoint DEF read_screening
<1>k. Knows("analyzed", c, m, record, change.plan, approval, deadTopic)
  BY <1>p, <1>w, CoroutineFacts DEF LocalInv
<1>s. Still /\ deadTopic' = deadTopic
  <2>1. UNCHANGED <<change, record, approval, expired>> /\ OutsideStays
    BY DEF read_screening, OutsideStays
  <2> QED
    BY <2>1, StoreStays
<1> DEFINE w == IF change.status = "SCREENING" THEN "screened" ELSE "drafted"
<1>1. w \in {"screened", "drafted"}
  BY DEF Unread
<1>2. w \in Points \ Ended /\ w # "transition" /\ w \notin Guarded /\ w # "snapshots"
  BY <1>1 DEF Points, Ended, Guarded
<1>3. Knows(w, c, m, record, change.plan, approval, deadTopic)
  BY <1>1, <1>k DEF Knows, Unread, Ended, Drafting, Planned, Resumed, Guarded
<1>4. Lands(d, w, c, m)
  <2>1. read_change(d, w)
    BY DEF read_screening
  <2> QED
    BY <1>p, <1>d, <1>2, <2>1, ReadLands DEF Documents
<1> QED
  BY <1>p, <1>w, <1>s, <1>2, <1>3, <1>4, MoveStep

\* screened: the transition to ANALYZING begins.
LEMMA screened_step ==
  ASSUME IInv, NEW d \in Deliveries, screened(d), UNCHANGED executionVars
  PROVE  IInv' /\ Grows
<1> DEFINE c == proc[d].rec
           m == proc[d].marks
<1>p. d \in Procs
  BY DEF Procs
<1>d. Documents
  BY TypeGivesDocuments DEF IInv
<1>w. Where(proc[d]) = "screened" /\ NotWaiting(d)
  BY <1>p, AtPoint DEF screened
<1>k. Knows("screened", c, m, record, change.plan, approval, deadTopic)
  BY <1>p, <1>w, CoroutineFacts DEF LocalInv
<1>s. Still /\ deadTopic' = deadTopic
  <2>1. UNCHANGED <<change, record, approval, expired>> /\ OutsideStays
    BY DEF screened, OutsideStays
  <2> QED
    BY <2>1, StoreStays
<1> DEFINE w == "drafted"
<1>1. w \in {"drafted"}
  BY DEF Unread
<1>2. w \in Points \ Ended /\ w # "transition" /\ w \notin Guarded /\ w # "snapshots"
  BY <1>1 DEF Points, Ended, Guarded
<1>3. Knows(w, c, m, record, change.plan, approval, deadTopic)
  BY <1>1, <1>k DEF Knows, Unread, Ended, Drafting, Planned, Resumed, Guarded
<1>4. Lands(d, w, c, m)
  <2>1. begin_transition(d, "ANALYZING", w)
    BY DEF screened
  <2>2. "ANALYZING" \in WorkflowState /\ w \notin Unread
    BY <1>1 DEF WorkflowState, Unread, Ended
  <2> QED
    BY <1>p, <1>d, <1>2, <2>1, <2>2, BeginLands DEF Documents
<1> QED
  BY <1>p, <1>w, <1>s, <1>2, <1>3, <1>4, MoveStep

\* advance reads the change the ladder starts from.
LEMMA advance_step ==
  ASSUME IInv, NEW d \in Deliveries, advance(d), UNCHANGED executionVars
  PROVE  IInv' /\ Grows
<1> DEFINE c == proc[d].rec
           m == proc[d].marks
<1>p. d \in Procs
  BY DEF Procs
<1>d. Documents
  BY TypeGivesDocuments DEF IInv
<1>w. Where(proc[d]) = "advance" /\ NotWaiting(d)
  BY <1>p, AtPoint DEF advance
<1>k. Knows("advance", c, m, record, change.plan, approval, deadTopic)
  BY <1>p, <1>w, CoroutineFacts DEF LocalInv
<1>s. Still /\ deadTopic' = deadTopic
  <2>1. UNCHANGED <<change, record, approval, expired>> /\ OutsideStays
    BY DEF advance, OutsideStays
  <2> QED
    BY <2>1, StoreStays
<1> DEFINE w == "climb"
<1>1. w \in {"climb"}
  BY DEF Unread
<1>2. w \in Points \ Ended /\ w # "transition" /\ w \notin Guarded /\ w # "snapshots"
  BY <1>1 DEF Points, Ended, Guarded
<1>3. Knows(w, c, m, record, change.plan, approval, deadTopic)
  BY <1>1, <1>k DEF Knows, Unread, Ended, Drafting, Planned, Resumed, Guarded
<1>4. Lands(d, w, c, m)
  <2>1. read_change(d, w)
    BY DEF advance
  <2> QED
    BY <1>p, <1>d, <1>2, <2>1, ReadLands DEF Documents
<1> QED
  BY <1>p, <1>w, <1>s, <1>2, <1>3, <1>4, MoveStep

\* ack: the event is handled.
LEMMA ack_step ==
  ASSUME IInv, NEW d \in Deliveries, ack(d), UNCHANGED executionVars
  PROVE  IInv' /\ Grows
<1> DEFINE c == proc[d].rec
           m == proc[d].marks
<1>p. d \in Procs
  BY DEF Procs
<1>d. Documents
  BY TypeGivesDocuments DEF IInv
<1>w. Where(proc[d]) = "ack" /\ NotWaiting(d)
  BY <1>p, AtPoint DEF ack
<1>k. Knows("ack", c, m, record, change.plan, approval, deadTopic)
  BY <1>p, <1>w, CoroutineFacts DEF LocalInv
<1>s. Still /\ deadTopic' = deadTopic
  <2>1. UNCHANGED <<change, record, approval, expired>> /\ OutsideStays
    BY DEF ack, OutsideStays
  <2> QED
    BY <2>1, StoreStays
<1>1. Goto(d, "acked") /\ "acked" \in Points /\ "acked" \in Ended
  BY DEF ack, Points, Ended
<1>2. Lands(d, "acked", NoRecord, {})
  BY <1>p, <1>d, <1>1, GotoLands DEF Documents
<1>3. LocalInv("acked", NoRecord, {}, record, change.plan, approval, applied, deadTopic)
  BY <1>d, <1>1, <1>k, EndsTrue DEF Documents, Knows
<1> QED
  BY <1>p, <1>w, <1>s, <1>2, <1>3, QuietStep

\* interrupt: nobody waits for a delivery.
LEMMA interrupt_step ==
  ASSUME IInv, NEW d \in Deliveries, interrupt(d), UNCHANGED executionVars
  PROVE  IInv' /\ Grows
<1> DEFINE c == proc[d].rec
           m == proc[d].marks
<1>p. d \in Procs
  BY DEF Procs
<1>d. Documents
  BY TypeGivesDocuments DEF IInv
<1>1. NotWaiting(d)
  BY ProcsAssumption DEF NotWaiting, IInv, TypeOK, Call
<1>2. Still
  <2>1. UNCHANGED <<change, record, approval, expired>> /\ OutsideStays
    BY DEF interrupt, OutsideStays
  <2> QED
    BY <2>1, StoreStays
<1>3. Goto(d, "nacked") /\ "nacked" \in Ended \ {"acked"}
  BY DEF interrupt, Ended
<1> QED
  BY <1>p, <1>1, <1>2, <1>3, EndStep

\* publish_dead_letter: the message is on the topic before it is acknowledged.
LEMMA publish_dead_letter_step ==
  ASSUME IInv, NEW d \in Deliveries, publish_dead_letter(d), UNCHANGED executionVars
  PROVE  IInv' /\ Grows
<1> DEFINE c == proc[d].rec
           m == proc[d].marks
<1>p. d \in Procs
  BY DEF Procs
<1>d. Documents
  BY TypeGivesDocuments DEF IInv
<1>w. Where(proc[d]) = "publish" /\ NotWaiting(d)
  BY <1>p, AtPoint DEF publish_dead_letter
<1>k. Knows("publish", c, m, record, change.plan, approval, deadTopic)
  BY <1>p, <1>w, CoroutineFacts DEF LocalInv
<1>s. /\ UNCHANGED <<change, record, approval, expired, event, deadLetters, forwarded>>
      /\ UNCHANGED <<config, applied, ledger, calls, late>>
  BY DEF publish_dead_letter, executionVars
<1>b. expired \in BOOLEAN /\ deadLetters \in BOOLEAN /\ forwarded \in BOOLEAN /\ deadTopic \in Nat
  BY DEF IInv, TypeOK
<1>1. CASE deadTopic' = deadTopic + 1 /\ Goto(d, "ack")
  <2>1. deadTopic' \in Nat /\ deadTopic <= deadTopic' /\ deadTopic' > 0
    BY <1>1, <1>b
  <2>2. Still
    BY <1>s, <1>b, <2>1 DEF Still
  <2>3. "ack" \in Points \ Ended /\ "ack" # "transition"
    BY DEF Points, Ended
  <2>4. Lands(d, "ack", c, m)
    BY <1>p, <1>d, <1>1, <2>3, GotoLands DEF Documents
  <2>5. Knows("ack", c, m, record, change.plan, approval, deadTopic')
    BY <1>k, <2>1 DEF Handled, Knows, Unread, Ended, Drafting, Planned, Resumed, Guarded
  <2>6. LocalInv("ack", c, m, record, change.plan, approval, applied, deadTopic')
    <3>1. LocalInv("publish", c, m, record, change.plan, approval, applied, deadTopic)
      BY <1>p, <1>w, CoroutineFacts
    <3>2. "ack" \notin Guarded
      BY DEF Guarded
    <3> QED
      BY <2>5, <3>1, <3>2, MovesTrue
  <2> QED
    BY <1>p, <1>w, <2>2, <2>4, <2>6, QuietStep
<1>2. CASE deadTopic' = deadTopic /\ Goto(d, "nacked")
  <2>1. Still
    BY <1>2, <1>s, <1>b DEF Still
  <2>2. "nacked" \in Ended \ {"acked"}
    BY DEF Ended
  <2> QED
    BY <1>2, <1>p, <1>w, <2>1, <2>2, EndStep
<1> QED
  BY <1>1, <1>2 DEF publish_dead_letter

\* get_record: a record in one of the settled statuses is handled already.
LEMMA get_record_step ==
  ASSUME IInv, NEW d \in Deliveries, get_record(d), UNCHANGED executionVars
  PROVE  IInv' /\ Grows
<1> DEFINE c == proc[d].rec
           m == proc[d].marks
<1>p. d \in Procs
  BY DEF Procs
<1>d. Documents
  BY TypeGivesDocuments DEF IInv
<1>w. Where(proc[d]) = "get" /\ NotWaiting(d)
  BY <1>p, AtPoint DEF get_record
<1>k. Knows("get", c, m, record, change.plan, approval, deadTopic)
  BY <1>p, <1>w, CoroutineFacts DEF LocalInv
<1>s. Still /\ deadTopic' = deadTopic
  <2>1. UNCHANGED <<change, record, approval, expired>> /\ OutsideStays
    BY DEF get_record, OutsideStays
  <2> QED
    BY <2>1, StoreStays
<1> DEFINE w == IF record = NoRecord THEN "create"
                ELSE IF record.status \in Settled THEN Returned(record)
                ELSE "attempt"
<1>1. w \in {"create", "publish", "ack", "attempt"}
  BY DEF Returned
<1>2. w \in Points \ Ended /\ w # "transition" /\ w \notin Guarded /\ w # "snapshots"
  BY <1>1 DEF Points, Ended, Guarded
<1>3. GotoWith(d, record, w)
  BY DEF get_record
<1>4. record \in RecordCopy /\ record \in Records
  BY <1>d, RecordFacts DEF Documents
<1>5. Lands(d, w, record, m)
  BY <1>p, <1>d, <1>2, <1>3, <1>4, GotoWithLands DEF Documents
<1>6. w = "ack" => Handled(record, approval, deadTopic)
  <2>1. PlanInv(record, change.plan, approval)
    BY DEF IInv
  <2> QED
    BY <2>1 DEF PlanInv, Settled, UnderWay, Handled
<1>7. w = "attempt" => record.version > 0
  <2>1. w = "attempt" => record # NoRecord
    OBVIOUS
  <2> HIDE DEF w
  <2> QED
    BY <1>4, <2>1, RecordFacts
<1> HIDE DEF w
<1>8. Knows(w, record, m, record, change.plan, approval, deadTopic)
  BY <1>1, <1>6, <1>7, <1>k DEF Knows, Unread, Ended, Drafting, Planned, Resumed, Guarded
<1>9. TaskInv(record, applied)
  BY DEF IInv
<1>10. LocalInv(w, record, m, record, change.plan, approval, applied, deadTopic)
  BY <1>2, <1>4, <1>8, <1>9, ReadsTrue
<1> QED
  BY <1>p, <1>w, <1>s, <1>5, <1>10, QuietStep

\* What UpdateOK asks of the tasks holds for a copy that is not being changed.
LEMMA CopyTasks ==
  ASSUME IInv, NEW p \in Procs, Where(proc[p]) # "snapshots", NEW new,
         new.tasks = proc[p].rec.tasks
  PROVE  /\ \A s \in Steps : new.tasks[s].status = "SUCCEEDED" => s \in applied
         /\ Where(proc[p]) \in Guarded => \A s \in Steps : new.tasks[s].snap # "NONE"
         /\ proc[p].rec.version = record.version =>
              \A s \in Steps :
                /\ new.tasks[s].snap \in {"NONE", "old_field"}
                /\ record.tasks[s].snap # "NONE" => new.tasks[s].snap = record.tasks[s].snap
  BY CoroutineFacts DEF IInv, LocalInv, Snapshots, TaskInv

\* count_attempt writes the copy back.
LEMMA count_attempt_step ==
  ASSUME IInv, NEW d \in Deliveries, count_attempt(d), UNCHANGED executionVars
  PROVE  IInv' /\ Grows
<1> DEFINE c == proc[d].rec
           m == proc[d].marks
<1>p. d \in Procs
  BY DEF Procs
<1>d. Documents
  BY TypeGivesDocuments DEF IInv
<1>w. Where(proc[d]) = "attempt" /\ NotWaiting(d)
  BY <1>p, AtPoint DEF count_attempt
<1>k. Knows("attempt", c, m, record, change.plan, approval, deadTopic)
  BY <1>p, <1>w, CoroutineFacts DEF LocalInv
<1>1. c \in RecordCopy
  BY <1>p, CoroutineFacts
<1>2. Supported \in {"ensure", "dead"}
  BY DEF Supported
<1>3. UpdateOK(d, c, Supported)
  <2>1. /\ \A s \in Steps : c.tasks[s].status = "SUCCEEDED" => s \in applied
        /\ c.version = record.version =>
             \A s \in Steps :
               /\ c.tasks[s].snap \in {"NONE", "old_field"}
               /\ record.tasks[s].snap # "NONE" => c.tasks[s].snap = record.tasks[s].snap
    BY <1>p, <1>w, CopyTasks
  <2> QED
    BY <1>1, <1>2, <1>k, <2>1 DEF UpdateOK, Points, Ended, Drafting, Planned, Resumed, Guarded, Knows
<1>4. update_record(d, c, Supported) /\ OutsideStays
  BY DEF count_attempt, OutsideStays
<1>5. "attempt" \notin Unread
  BY DEF Unread, Ended
<1> QED
  BY <1>p, <1>w, <1>3, <1>4, <1>5, UpdateStep

\* mark_analyzing, finish_blocked and dead_letter set a status.
LEMMA mark_analyzing_step ==
  ASSUME IInv, NEW d \in Deliveries, mark_analyzing(d), UNCHANGED executionVars
  PROVE  IInv' /\ Grows
<1> DEFINE c == proc[d].rec
           m == proc[d].marks
<1>p. d \in Procs
  BY DEF Procs
<1>d. Documents
  BY TypeGivesDocuments DEF IInv
<1>w. Where(proc[d]) = "analyzing" /\ NotWaiting(d)
  BY <1>p, AtPoint DEF mark_analyzing
<1>k. Knows("analyzing", c, m, record, change.plan, approval, deadTopic)
  BY <1>p, <1>w, CoroutineFacts DEF LocalInv
<1>1. StatusOK(d, "ANALYZING", "screening")
  BY <1>w, <1>k DEF StatusOK, Knows, Points, Unread, Ended, Drafting, Planned, Resumed, Guarded, RuntimeStatus, UnderWay, Terminal
<1>2. set_runtime_status(d, "ANALYZING", FALSE, "screening") /\ OutsideStays
  BY DEF mark_analyzing, OutsideStays
<1> QED
  BY <1>p, <1>w, <1>1, <1>2, StatusStep

\* finish_blocked: the record of a blocked change is FAILED.
LEMMA finish_blocked_step ==
  ASSUME IInv, NEW d \in Deliveries, finish_blocked(d), UNCHANGED executionVars
  PROVE  IInv' /\ Grows
<1> DEFINE c == proc[d].rec
           m == proc[d].marks
<1>p. d \in Procs
  BY DEF Procs
<1>d. Documents
  BY TypeGivesDocuments DEF IInv
<1>w. Where(proc[d]) = "blocked" /\ NotWaiting(d)
  BY <1>p, AtPoint DEF finish_blocked
<1>k. Knows("blocked", c, m, record, change.plan, approval, deadTopic)
  BY <1>p, <1>w, CoroutineFacts DEF LocalInv
<1>1. StatusOK(d, "FAILED", "ack")
  BY <1>w, <1>k DEF StatusOK, Knows, Points, Unread, Ended, Drafting, Planned, Resumed, Guarded, RuntimeStatus, UnderWay, Terminal
<1>2. terminal(d, "FAILED", TRUE, "ack") /\ OutsideStays
  BY DEF finish_blocked, OutsideStays
<1> QED
  BY <1>p, <1>w, <1>1, <1>2, StatusStep

\* dead_letter: the record is DEAD_LETTERED.
LEMMA dead_letter_step ==
  ASSUME IInv, NEW d \in Deliveries, dead_letter(d), UNCHANGED executionVars
  PROVE  IInv' /\ Grows
<1> DEFINE c == proc[d].rec
           m == proc[d].marks
<1>p. d \in Procs
  BY DEF Procs
<1>d. Documents
  BY TypeGivesDocuments DEF IInv
<1>w. Where(proc[d]) = "dead" /\ NotWaiting(d)
  BY <1>p, AtPoint DEF dead_letter
<1>k. Knows("dead", c, m, record, change.plan, approval, deadTopic)
  BY <1>p, <1>w, CoroutineFacts DEF LocalInv
<1>1. StatusOK(d, "DEAD_LETTERED", "dead_letter_record")
  BY <1>w, <1>k DEF StatusOK, Knows, Points, Unread, Ended, Drafting, Planned, Resumed, Guarded, RuntimeStatus, UnderWay, Terminal
<1>2. terminal(d, "DEAD_LETTERED", TRUE, "dead_letter_record") /\ OutsideStays
  BY DEF dead_letter, OutsideStays
<1> QED
  BY <1>p, <1>w, <1>1, <1>2, StatusStep

-----------------------------------------------------------------------------
(* Steps that write the change, the approval or a new record.              *)

\* What has been applied or asked for stays governed.
LEMMA GovernedStays ==
  ASSUME IInv, Grows, applied' = applied, calls' = calls
  PROVE  AppliedInv(record, approval, applied)' /\ Calls'
<1>1. /\ \A s \in Steps : record.tasks[s].snap = "old_field" => record'.tasks[s].snap = "old_field"
      /\ approval.status = "APPROVED" => approval'.status = "APPROVED"
  BY DEF Grows, RecordGrows, ApprovalGrows, Decided
<1>2. applied \subseteq Steps /\ \A k \in calls : k.step \in Steps
  BY DEF IInv, TypeOK, Call
<1>3. AppliedInv(record', approval', applied)
  BY <1>1, <1>2 DEF IInv, AppliedInv
<1>4. \A k \in calls : CallInv(k, record', approval', applied)
  BY <1>1, <1>2 DEF IInv, Calls, CallInv
<1> QED
  BY <1>3, <1>4 DEF Calls

\* The tool calls somebody waits for are those of coroutines that stay.
LEMMA WaitingStays ==
  ASSUME IInv, calls' = calls, NEW p \in Procs, OthersStay(p), NotWaiting(p)
  PROVE  Waiting'
<1> SUFFICES ASSUME NEW k \in calls, k.waited PROVE proc'[k.by].pc = "wave"
  BY DEF Waiting
<1>1. k.by # p /\ k.by \in Procs /\ proc[k.by].pc = "wave"
  BY DEF NotWaiting, IInv, Waiting, TypeOK, Call, Procs
<1> QED
  BY <1>1 DEF OthersStay

\* One coroutine moves and writes a document.
LEMMA DocumentStep ==
  ASSUME IInv, TypeOK', Grows, NEW p \in Procs, NEW w, NEW c, NEW m,
         Lands(p, w, c, m), NotWaiting(p),
         LocalInv(w, c, m, record', change'.plan, approval', applied', deadTopic'),
         PlanInv(record', change'.plan, approval'), TaskInv(record', applied'),
         UNCHANGED <<config, applied, ledger, calls>>
  PROVE  IInv'
<1>1. Documents'
  BY TypeGivesDocuments, PTL
<1>2. Coroutines'
  BY <1>1, CoroutinesStep
<1>3. AppliedInv(record, approval, applied)' /\ Calls'
  BY GovernedStays
<1>4. SandboxInv'
  BY DEF IInv, SandboxInv
<1>5. Waiting'
  BY WaitingStays DEF Lands
<1> QED
  BY <1>2, <1>3, <1>4, <1>5 DEF IInv

\* A document that is replaced by one that says at least as much.
LEMMA SameRecordGrows ==
  ASSUME IInv
  PROVE  RecordGrows(record, record) /\ ApprovalGrows(approval, approval) /\ deadTopic <= deadTopic
<1>1. record.version \in Nat /\ deadTopic \in Nat
  BY TypeGivesDocuments, RecordFacts DEF IInv, Documents, RecordCopy
<1> QED
  BY <1>1 DEF RecordGrows, ApprovalGrows

\* The end of a transition, of a delivery or a callback.
LEMMA TransitionStep ==
  ASSUME IInv, NEW p \in Procs, transition(p), OutsideStays
  PROVE  IInv' /\ Grows
<1> DEFINE c == proc[p].rec
           m == proc[p].marks
           w == proc[p].cont
<1>d. Documents
  BY TypeGivesDocuments DEF IInv
<1>w. proc[p].pc = "transition" /\ Where(proc[p]) = w /\ NotWaiting(p)
  BY OnlyWavesWait DEF transition, At, Where
<1>x. proc[p] \in Coroutine /\ c \in RecordCopy /\ m \subseteq Steps /\ w \in Points
  BY CoroutineFacts DEF Coroutine
<1>l. LocalInv(w, c, m, record, change.plan, approval, applied, deadTopic)
  BY <1>w, CoroutineFacts
<1>t. Transition(proc[p])
  BY <1>w DEF IInv, Coroutines, CoroutineInv
<1>o. /\ record' = record /\ approval' = approval /\ expired' = expired
      /\ event' = event /\ deadLetters' = deadLetters /\ deadTopic' = deadTopic
      /\ forwarded' = forwarded /\ config' = config /\ applied' = applied
      /\ ledger' = ledger /\ calls' = calls /\ late' = late
  BY DEF transition, OutsideStays, intakeVars, executionVars
<1>1. CASE ~TransitionAllowed(p)
  <2>1. Goto(p, Raised(p)) /\ change' = change
    BY <1>1 DEF transition
  <2>2. Still
    BY <1>o, <2>1, StoreStays
  <2> QED
    BY <1>w, <2>1, <2>2, RaisedEnds, EndStep
<1>2. CASE TransitionAllowed(p)
  <2>1. /\ change' = Transitioned(p)
        /\ proc' = [proc EXCEPT ![p] = [proc[p] EXCEPT !.pc = proc[p].cont,
             !.seen = proc[p].to, !.to = "NONE", !.exp = 0, !.cont = "idle"]]
    BY <1>2 DEF transition
  <2> DEFINE y == [proc[p] EXCEPT !.pc = proc[p].cont,
                     !.seen = proc[p].to, !.to = "NONE", !.exp = 0, !.cont = "idle"]
  <2>2. "idle" \in Points /\ "NONE" \in WorkflowState \cup {"NONE"} /\ 0 \in Nat
    BY DEF Points, Ended
  <2>3. y \in Coroutine /\ y.pc = w /\ y.rec = c /\ y.marks = m
    BY <1>x, <1>t, <2>2 DEF Coroutine, Transition
  <2>4. proc' = [proc EXCEPT ![p] = y]
    BY <2>1
  <2> HIDE DEF y
  <2>5. proc' \in [Procs -> Coroutine] /\ proc'[p] = y /\ \A q \in Procs : q # p => proc'[q] = proc[q]
    BY <1>d, <2>3, <2>4 DEF Documents
  <2>6. Lands(p, w, c, m)
    BY <1>t, <2>3, <2>5 DEF Lands, OthersStay, Where, Transition
  <2>7. change'.plan = IF proc[p].to = "PLAN_READY" THEN c.plan ELSE change.plan
    BY <2>1 DEF Transitioned
  <2>8. change' \in ChangeRecord
    <3>1. change.version + 1 \in Nat \ {0}
      BY <1>d DEF Documents
    <3>2. proc[p].to \in WorkflowState /\ c.plan \in Plans \cup {NoPlan}
      BY <1>t, <1>x DEF Transition, RecordCopy
    <3>3. (change.wf \/ proc[p].to = "SCREENING") \in BOOLEAN
      OBVIOUS
    <3>4. (IF proc[p].to = "PLAN_READY" THEN c.plan ELSE change.plan) \in Plans \cup {NoPlan}
      BY <1>d, <3>2 DEF Documents
    <3>5. (change.attention \/ proc[p].to = "NEEDS_ATTENTION") \in BOOLEAN
      OBVIOUS
    <3> QED
      BY <2>1, <3>1, <3>2, <3>3, <3>4, <3>5 DEF Transitioned, ChangeRecord
  <2>9. record # NoRecord
    BY <1>l, <1>t, NoRecordFacts DEF LocalInv, Knows, Transition
  <2>10. TypeOK'
    BY <1>o, <2>5, <2>8, <2>9 DEF IInv, TypeOK
  <2>11. (change.plan # NoPlan => change'.plan = change.plan)
         /\ PlanInv(record, change'.plan, approval)
    <3>1. PlanInv(record, change.plan, approval)
      BY DEF IInv
    <3>2. proc[p].to = "PLAN_READY" => c.plan # NoPlan /\ c.plan = record.plan
      BY <1>l, <1>t DEF Transition, LocalInv, Sync
    <3>3. approval.status # "NONE" => approval.plan # NoPlan
      BY <1>d, NoPlanPlansAssumption DEF Documents
    <3> QED
      BY <2>7, <3>1, <3>2, <3>3 DEF PlanInv
  <2>c. ChangeGrows(change, change')
    BY <2>1 DEF Transitioned, ChangeGrows
  <2>12. Grows
    BY <1>o, <2>11, <2>c, SameRecordGrows DEF Grows
  <2>13. LocalInv(w, c, m, record', change'.plan, approval', applied', deadTopic')
    <3>1. Documents'
      BY <2>10, TypeGivesDocuments, PTL
    <3> QED
      BY <1>d, <1>x, <1>l, <2>12, <3>1, StaysTrue DEF Grows, Documents
  <2>14. TaskInv(record', applied')
    BY <1>o DEF IInv
  <2> QED
    BY <1>o, <1>w, <2>6, <2>10, <2>11, <2>12, <2>13, <2>14, DocumentStep
<1> QED
  BY <1>1, <1>2

\* create_or_get: a record is created once.
LEMMA create_or_get_step ==
  ASSUME IInv, NEW d \in Deliveries, create_or_get(d), UNCHANGED executionVars
  PROVE  IInv' /\ Grows
<1> DEFINE c == proc[d].rec
           m == proc[d].marks
<1>p. d \in Procs
  BY DEF Procs
<1>d. Documents
  BY TypeGivesDocuments DEF IInv
<1>w. Where(proc[d]) = "create" /\ NotWaiting(d)
  BY <1>p, AtPoint DEF create_or_get
<1>k. Knows("create", c, m, record, change.plan, approval, deadTopic)
  BY <1>p, <1>w, CoroutineFacts DEF LocalInv
<1>o. /\ change' = change /\ approval' = approval /\ expired' = expired
      /\ event' = event /\ deadLetters' = deadLetters /\ deadTopic' = deadTopic
      /\ forwarded' = forwarded /\ config' = config /\ applied' = applied
      /\ ledger' = ledger /\ calls' = calls /\ late' = late
  BY DEF create_or_get, intakeVars, executionVars
<1> DEFINE new == [NoRecord EXCEPT !.status = "RECEIVED", !.version = 1]
           r2 == IF record = NoRecord THEN new ELSE record
           w == Supported
<1>1. /\ new \in WorkflowExecutionRecord
      /\ new.version = 1 /\ new.status = "RECEIVED" /\ new.plan = NoPlan
      /\ new.tasks = NoRecord.tasks
  <2>1. new.version = 1 /\ new.status = "RECEIVED" /\ new.plan = NoRecord.plan
        /\ new.tasks = NoRecord.tasks
    BY NoRecordFacts DEF RecordCopy
  <2>2. "RECEIVED" \in RuntimeStatus /\ 1 \in Nat \ {0}
    BY DEF RuntimeStatus
  <2>3. new \in WorkflowExecutionRecord
    BY <2>2, NoRecordFacts DEF RecordCopy, WorkflowExecutionRecord
  <2> QED
    BY <2>1, <2>3, NoRecordFacts
<1> HIDE DEF new
<1>2. record' = r2 /\ GotoWith(d, r2, w)
  BY DEF create_or_get, new
<1>3. r2 \in WorkflowExecutionRecord
  BY <1>1, <1>d DEF Documents, Records
<1>4. r2 \in Records /\ r2 \in RecordCopy /\ r2.version > 0
  <2>1. r2.version \in Nat \ {0}
    BY <1>3 DEF WorkflowExecutionRecord
  <2>2. r2 \in Records
    BY <1>3 DEF Records
  <2> QED
    BY <2>1, <2>2, RecordFacts
<1>5. RecordGrows(record, r2)
  <2>1. CASE record = NoRecord
    BY <1>1, <2>1, NoRecordFacts DEF RecordGrows, Terminal
  <2>2. CASE record # NoRecord
    BY <2>2, SameRecordGrows
  <2> QED
    BY <2>1, <2>2
<1>6. PlanInv(r2, change.plan, approval) /\ TaskInv(r2, applied)
  <2>1. CASE record = NoRecord
    BY <1>1, <2>1, NoRecordFacts DEF IInv, PlanInv, TaskInv, UnderWay
  <2>2. CASE record # NoRecord
    BY <2>2 DEF IInv
  <2> QED
    BY <2>1, <2>2
<1> HIDE DEF r2
<1>7. w \in {"ensure", "dead"}
  BY DEF Supported
<1>8. w \in Points \ Ended /\ w # "transition" /\ w \notin Guarded /\ w # "snapshots"
  BY <1>7 DEF Points, Ended, Guarded
<1> HIDE DEF w
<1>9. Lands(d, w, r2, m)
  BY <1>p, <1>d, <1>2, <1>4, <1>8, GotoWithLands DEF Documents
<1>10. TypeOK'
  <2>1. record' # NoRecord
    BY <1>2, <1>4, NoRecordFacts
  <2>2. proc' \in [Procs -> Coroutine]
    BY <1>9 DEF Lands, OthersStay
  <2> QED
    BY <1>o, <1>2, <1>3, <2>1, <2>2 DEF IInv, TypeOK
<1>11. Grows
  BY <1>o, <1>2, <1>5, SameRecordGrows DEF Grows, ChangeGrows
<1>12. Knows(w, r2, m, r2, change.plan, approval, deadTopic)
  BY <1>4, <1>7, <1>k DEF Knows, Unread, Ended, Drafting, Planned, Resumed, Guarded
<1>13. LocalInv(w, r2, m, r2, change.plan, approval, applied, deadTopic)
  BY <1>4, <1>6, <1>8, <1>12, ReadsTrue
<1> QED
  BY <1>p, <1>o, <1>w, <1>2, <1>6, <1>9, <1>10, <1>11, <1>13, DocumentStep

\* ensure_change: the change of a record that exists.
LEMMA ensure_change_step ==
  ASSUME IInv, NEW d \in Deliveries, ensure_change(d), UNCHANGED executionVars
  PROVE  IInv' /\ Grows
<1> DEFINE c == proc[d].rec
           m == proc[d].marks
<1>p. d \in Procs
  BY DEF Procs
<1>d. Documents
  BY TypeGivesDocuments DEF IInv
<1>w. Where(proc[d]) = "ensure" /\ NotWaiting(d)
  BY <1>p, AtPoint DEF ensure_change
<1>k. Knows("ensure", c, m, record, change.plan, approval, deadTopic)
  BY <1>p, <1>w, CoroutineFacts DEF LocalInv
<1>o. /\ record' = record /\ approval' = approval /\ expired' = expired
      /\ event' = event /\ deadLetters' = deadLetters /\ deadTopic' = deadTopic
      /\ forwarded' = forwarded /\ config' = config /\ applied' = applied
      /\ ledger' = ledger /\ calls' = calls /\ late' = late
  BY DEF ensure_change, intakeVars, executionVars
<1>1. change' \in ChangeRecord /\ change'.plan = change.plan /\ ChangeGrows(change, change')
  <2>1. CASE change = NoChange
    <3>1. change' = [NoChange EXCEPT !.status = "RECEIVED", !.version = 1]
      BY <2>1 DEF ensure_change
    <3>2. change' = [status |-> "RECEIVED", version |-> 1, wf |-> FALSE, plan |-> NoPlan,
                     attention |-> FALSE]
      BY <3>1 DEF NoChange
    <3>3. "RECEIVED" \in WorkflowState /\ 1 \in Nat \ {0}
      BY DEF WorkflowState
    <3> QED
      BY <2>1, <3>2, <3>3 DEF ChangeRecord, NoChange, ChangeGrows
  <2>2. CASE change # NoChange
    BY <2>2 DEF ensure_change, IInv, TypeOK, ChangeGrows
  <2> QED
    BY <2>1, <2>2
<1>2. "analyzing" \in Points \ Ended /\ "analyzing" \notin Guarded
  BY DEF Points, Ended, Guarded
<1>3. Lands(d, "analyzing", c, m)
  BY <1>p, <1>d, <1>2, GotoLands DEF ensure_change, Documents
<1>4. Knows("analyzing", c, m, record, change.plan, approval, deadTopic)
  BY <1>k DEF Knows, Unread, Ended, Drafting, Planned, Resumed, Guarded
<1>5. LocalInv("analyzing", c, m, record, change.plan, approval, applied, deadTopic)
  BY <1>p, <1>w, <1>2, <1>4, CoroutineFacts, MovesTrue
<1>6. record # NoRecord
  BY <1>k, NoRecordFacts DEF Knows, Unread, Ended
<1>7. TypeOK'
  BY <1>o, <1>1, <1>3, <1>6 DEF IInv, TypeOK, Lands, OthersStay
<1>8. Grows
  BY <1>o, <1>1, SameRecordGrows DEF Grows
<1>9. PlanInv(record', change'.plan, approval') /\ TaskInv(record', applied')
  BY <1>o, <1>1 DEF IInv
<1>10. LocalInv("analyzing", c, m, record', change'.plan, approval', applied', deadTopic')
  BY <1>o, <1>1, <1>5
<1> QED
  BY <1>p, <1>o, <1>w, <1>3, <1>7, <1>8, <1>9, <1>10, DocumentStep

\* analyze: a plan is asked for only when the copy has none.
LEMMA analyze_step ==
  ASSUME IInv, NEW d \in Deliveries, analyze(d), UNCHANGED executionVars
  PROVE  IInv' /\ Grows
<1> DEFINE c == proc[d].rec
           m == proc[d].marks
<1>p. d \in Procs
  BY DEF Procs
<1>d. Documents
  BY TypeGivesDocuments DEF IInv
<1>w. Where(proc[d]) = "analyze" /\ NotWaiting(d)
  BY <1>p, AtPoint DEF analyze
<1>k. Knows("analyze", c, m, record, change.plan, approval, deadTopic)
  BY <1>p, <1>w, CoroutineFacts DEF LocalInv
<1>s. Still /\ deadTopic' = deadTopic
  <2>1. UNCHANGED <<change, record, approval, expired>> /\ OutsideStays
    BY DEF analyze, OutsideStays
  <2> QED
    BY <2>1, StoreStays
<1>1. CASE c.plan # NoPlan /\ Goto(d, "advance")
  <2>1. "advance" \in Points \ Ended /\ "advance" # "transition" /\ "advance" \notin Guarded
    BY DEF Points, Ended, Guarded
  <2>2. Lands(d, "advance", c, m)
    BY <1>p, <1>d, <1>1, <2>1, GotoLands DEF Documents
  <2>3. Knows("advance", c, m, record, change.plan, approval, deadTopic)
    BY <1>k, <1>1 DEF Knows, Unread, Ended, Drafting, Planned, Resumed, Guarded
  <2> QED
    BY <1>p, <1>w, <1>s, <2>1, <2>2, <2>3, MoveStep
<1>2. CASE /\ c.plan = NoPlan
           /\ \E plan \in Plans \cup {NoPlan} :
                proc' = [proc EXCEPT ![d] = [@ EXCEPT !.draft = plan, !.pc = "analyzed"]]
  <2>1. PICK plan \in Plans \cup {NoPlan} :
          proc' = [proc EXCEPT ![d] = [proc[d] EXCEPT !.draft = plan, !.pc = "analyzed"]]
    BY <1>2
  <2> DEFINE y == [proc[d] EXCEPT !.draft = plan, !.pc = "analyzed"]
  <2>2. "analyzed" \in Points /\ "analyzed" \notin Guarded /\ proc[d] \in Coroutine
    BY <1>p, CoroutineFacts DEF Points, Guarded
  <2>3. y \in Coroutine /\ y.pc = "analyzed" /\ y.rec = c /\ y.marks = m
    BY <2>2 DEF Coroutine
  <2>4. proc' = [proc EXCEPT ![d] = y]
    BY <2>1
  <2> HIDE DEF y
  <2>5. Lands(d, "analyzed", c, m)
    BY <1>p, <1>d, <2>3, <2>4 DEF Documents, Lands, OthersStay, Where
  <2>6. Knows("analyzed", c, m, record, change.plan, approval, deadTopic)
    BY <1>k, <1>2 DEF Knows, Unread, Ended, Drafting, Planned, Resumed, Guarded
  <2> QED
    BY <1>p, <1>w, <1>s, <2>2, <2>5, <2>6, MoveStep
<1>3. CASE Goto(d, "block")
  <2>1. "block" \in Points \ Ended /\ "block" # "transition" /\ "block" \notin Guarded
    BY DEF Points, Ended, Guarded
  <2>2. Lands(d, "block", c, m)
    BY <1>p, <1>d, <1>3, <2>1, GotoLands DEF Documents
  <2>3. Knows("block", c, m, record, change.plan, approval, deadTopic)
    BY <1>k, <1>3 DEF Knows, Unread, Ended, Drafting, Planned, Resumed, Guarded
  <2> QED
    BY <1>p, <1>w, <1>s, <2>1, <2>2, <2>3, MoveStep
<1>4. CASE Goto(d, "nacked")
  <2>1. "nacked" \in Ended \ {"acked"}
    BY DEF Ended
  <2> QED
    BY <1>p, <1>w, <1>s, <1>4, <2>1, EndStep
<1>5. CASE Goto(d, "dead")
  <2>1. "dead" \in Points \ Ended /\ "dead" # "transition" /\ "dead" \notin Guarded
    BY DEF Points, Ended, Guarded
  <2>2. Lands(d, "dead", c, m)
    BY <1>p, <1>d, <1>5, <2>1, GotoLands DEF Documents
  <2>3. Knows("dead", c, m, record, change.plan, approval, deadTopic)
    BY <1>k, <1>5 DEF Knows, Unread, Ended, Drafting, Planned, Resumed, Guarded
  <2> QED
    BY <1>p, <1>w, <1>s, <2>1, <2>2, <2>3, MoveStep
<1> QED
  BY <1>1, <1>2, <1>3, <1>4, <1>5 DEF analyze

\* store_plan: the first plan that is stored stays.
LEMMA store_plan_step ==
  ASSUME IInv, NEW d \in Deliveries, store_plan(d), UNCHANGED executionVars
  PROVE  IInv' /\ Grows
<1> DEFINE c == proc[d].rec
           m == proc[d].marks
<1>p. d \in Procs
  BY DEF Procs
<1>d. Documents
  BY TypeGivesDocuments DEF IInv
<1>w. Where(proc[d]) = "drafted" /\ NotWaiting(d)
  BY <1>p, AtPoint DEF store_plan
<1>k. Knows("drafted", c, m, record, change.plan, approval, deadTopic)
  BY <1>p, <1>w, CoroutineFacts DEF LocalInv
<1>1. CASE UNCHANGED <<change, record, approval, expired>> /\ Goto(d, "dead")
  <2>0. Still /\ deadTopic' = deadTopic
    <3>1. OutsideStays
      BY DEF store_plan, OutsideStays
    <3> QED
      BY <1>1, <3>1, StoreStays
  <2>1. "dead" \in Points \ Ended /\ "dead" # "transition" /\ "dead" \notin Guarded
    BY DEF Points, Ended, Guarded
  <2>2. Lands(d, "dead", c, m)
    BY <1>p, <1>d, <1>1, <2>1, GotoLands DEF Documents
  <2>3. Knows("dead", c, m, record, change.plan, approval, deadTopic)
    BY <1>k, <1>1 DEF Knows, Unread, Ended, Drafting, Planned, Resumed, Guarded
  <2> QED
    BY <1>p, <1>w, <2>0, <2>1, <2>2, <2>3, MoveStep
<1>2. CASE /\ proc[d].draft # NoPlan
           /\ update_record(d, [c EXCEPT !.plan = proc[d].draft], "advance")
  <2> DEFINE new == [c EXCEPT !.plan = proc[d].draft]
  <2>1. c \in RecordCopy /\ proc[d].draft \in Plans \cup {NoPlan}
    BY <1>p, CoroutineFacts DEF Coroutine
  <2>2. new \in RecordCopy /\ new.status = c.status /\ new.plan = proc[d].draft /\ new.tasks = c.tasks
    BY <2>1 DEF RecordCopy
  <2>3. update_record(d, new, "advance") /\ OutsideStays
    BY <1>2 DEF store_plan, OutsideStays
  <2> HIDE DEF new
  <2>4. /\ \A s \in Steps : new.tasks[s].status = "SUCCEEDED" => s \in applied
        /\ c.version = record.version =>
             \A s \in Steps :
               /\ new.tasks[s].snap \in {"NONE", "old_field"}
               /\ record.tasks[s].snap # "NONE" => new.tasks[s].snap = record.tasks[s].snap
    BY <1>p, <1>w, <2>2, CopyTasks
  <2>5. UpdateOK(d, new, "advance")
    BY <1>2, <1>k, <2>2, <2>4 DEF UpdateOK, Points, Ended, Drafting, Planned, Resumed, Guarded, Knows
  <2>6. "drafted" \notin Unread
    BY DEF Unread, Ended
  <2> QED
    BY <1>p, <1>w, <2>3, <2>5, <2>6, UpdateStep
<1> QED
  BY <1>1, <1>2 DEF store_plan

\* climb: the next transition on the way to AWAITING_APPROVAL.
LEMMA climb_step ==
  ASSUME IInv, NEW d \in Deliveries, climb(d), UNCHANGED executionVars
  PROVE  IInv' /\ Grows
<1> DEFINE c == proc[d].rec
           m == proc[d].marks
<1>p. d \in Procs
  BY DEF Procs
<1>d. Documents
  BY TypeGivesDocuments DEF IInv
<1>w. Where(proc[d]) = "climb" /\ NotWaiting(d)
  BY <1>p, AtPoint DEF climb
<1>k. Knows("climb", c, m, record, change.plan, approval, deadTopic)
  BY <1>p, <1>w, CoroutineFacts DEF LocalInv
<1>s. Still /\ deadTopic' = deadTopic
  <2>1. UNCHANGED <<change, record, approval, expired>> /\ OutsideStays
    BY DEF climb, OutsideStays
  <2> QED
    BY <2>1, StoreStays
<1>1. CASE /\ proc[d].seen \in DOMAIN Climb
           /\ begin_transition(d, Climb[proc[d].seen], "climb")
  <2>1. Climb[proc[d].seen] \in WorkflowState
    BY <1>1 DEF Climb, WorkflowState
  <2>2. "climb" \in Points \ Unread /\ "climb" # "transition" /\ c.plan # NoPlan /\ "climb" \notin Guarded
    BY <1>k DEF Points, Unread, Ended, Knows, Planned, Guarded
  <2>3. Lands(d, "climb", c, m)
    BY <1>p, <1>d, <1>1, <2>1, <2>2, BeginLands DEF Documents
  <2> QED
    BY <1>p, <1>w, <1>s, <1>k, <2>2, <2>3, MoveStep
<1>2. CASE Goto(d, "request")
  <2>1. "request" \in Points \ Ended /\ "request" # "transition" /\ "request" \notin Guarded
    BY DEF Points, Ended, Guarded
  <2>2. Lands(d, "request", c, m)
    BY <1>p, <1>d, <1>2, <2>1, GotoLands DEF Documents
  <2>3. Knows("request", c, m, record, change.plan, approval, deadTopic)
    BY <1>k, <1>2 DEF Knows, Unread, Ended, Drafting, Planned, Resumed, Guarded
  <2> QED
    BY <1>p, <1>w, <1>s, <2>1, <2>2, <2>3, MoveStep
<1>3. CASE Goto(d, "publish")
  <2>1. "publish" \in Points \ Ended /\ "publish" # "transition" /\ "publish" \notin Guarded
    BY DEF Points, Ended, Guarded
  <2>2. Lands(d, "publish", c, m)
    BY <1>p, <1>d, <1>3, <2>1, GotoLands DEF Documents
  <2>3. Knows("publish", c, m, record, change.plan, approval, deadTopic)
    BY <1>k, <1>3 DEF Knows, Unread, Ended, Drafting, Planned, Resumed, Guarded
  <2> QED
    BY <1>p, <1>w, <1>s, <2>1, <2>2, <2>3, MoveStep
<1> QED
  BY <1>1, <1>2, <1>3 DEF climb

\* request_approval: the gateway checks the plan the change is bound to.
LEMMA request_approval_step ==
  ASSUME IInv, NEW d \in Deliveries, request_approval(d), UNCHANGED executionVars
  PROVE  IInv' /\ Grows
<1> DEFINE c == proc[d].rec
           m == proc[d].marks
<1>p. d \in Procs
  BY DEF Procs
<1>d. Documents
  BY TypeGivesDocuments DEF IInv
<1>w. Where(proc[d]) = "request" /\ NotWaiting(d)
  BY <1>p, AtPoint DEF request_approval
<1>k. Knows("request", c, m, record, change.plan, approval, deadTopic)
  BY <1>p, <1>w, CoroutineFacts DEF LocalInv
<1>s. Still /\ deadTopic' = deadTopic
  <2>1. UNCHANGED <<change, record, approval, expired>> /\ OutsideStays
    BY DEF request_approval, OutsideStays
  <2> QED
    BY <2>1, StoreStays
<1>1. CASE Goto(d, "nacked")
  <2>1. "nacked" \in Ended \ {"acked"}
    BY DEF Ended
  <2> QED
    BY <1>p, <1>w, <1>s, <1>1, <2>1, EndStep
<1>2. CASE change.plan = c.plan /\ Goto(d, "create_approval")
  <2>1. "create_approval" \in Points \ Ended /\ "create_approval" # "transition" /\ "create_approval" \notin Guarded
    BY DEF Points, Ended, Guarded
  <2>2. Lands(d, "create_approval", c, m)
    BY <1>p, <1>d, <1>2, <2>1, GotoLands DEF Documents
  <2>3. Knows("create_approval", c, m, record, change.plan, approval, deadTopic)
    BY <1>k, <1>2 DEF Knows, Unread, Ended, Drafting, Planned, Resumed, Guarded
  <2> QED
    BY <1>p, <1>w, <1>s, <2>1, <2>2, <2>3, MoveStep
<1>3. CASE Goto(d, "dead")
  <2>1. "dead" \in Points \ Ended /\ "dead" # "transition" /\ "dead" \notin Guarded
    BY DEF Points, Ended, Guarded
  <2>2. Lands(d, "dead", c, m)
    BY <1>p, <1>d, <1>3, <2>1, GotoLands DEF Documents
  <2>3. Knows("dead", c, m, record, change.plan, approval, deadTopic)
    BY <1>k, <1>3 DEF Knows, Unread, Ended, Drafting, Planned, Resumed, Guarded
  <2> QED
    BY <1>p, <1>w, <1>s, <2>1, <2>2, <2>3, MoveStep
<1> QED
  BY <1>1, <1>2, <1>3 DEF request_approval

\* create_approval_request: one request, for the plan of the record.
LEMMA create_approval_request_step ==
  ASSUME IInv, NEW d \in Deliveries, create_approval_request(d), UNCHANGED executionVars
  PROVE  IInv' /\ Grows
<1> DEFINE c == proc[d].rec
           m == proc[d].marks
<1>p. d \in Procs
  BY DEF Procs
<1>d. Documents
  BY TypeGivesDocuments DEF IInv
<1>w. Where(proc[d]) = "create_approval" /\ NotWaiting(d)
  BY <1>p, AtPoint DEF create_approval_request
<1>k. Knows("create_approval", c, m, record, change.plan, approval, deadTopic)
  BY <1>p, <1>w, CoroutineFacts DEF LocalInv
<1>o. /\ change' = change /\ record' = record /\ expired' = expired
      /\ event' = event /\ deadLetters' = deadLetters /\ deadTopic' = deadTopic
      /\ forwarded' = forwarded /\ config' = config /\ applied' = applied
      /\ ledger' = ledger /\ calls' = calls /\ late' = late
  BY DEF create_approval_request, intakeVars, executionVars
<1> DEFINE wanted == [status |-> "PENDING", plan |-> c.plan]
<1>1. CASE approval' = approval /\ Goto(d, "dead")
  <2>0. Still /\ deadTopic' = deadTopic
    <3>1. UNCHANGED <<change, record, approval, expired>> /\ OutsideStays
      BY <1>1, <1>o DEF OutsideStays, intakeVars, executionVars
    <3> QED
      BY <3>1, StoreStays
  <2>1. "dead" \in Points \ Ended /\ "dead" # "transition" /\ "dead" \notin Guarded
    BY DEF Points, Ended, Guarded
  <2>2. Lands(d, "dead", c, m)
    BY <1>p, <1>d, <1>1, <2>1, GotoLands DEF Documents
  <2>3. Knows("dead", c, m, record, change.plan, approval, deadTopic)
    BY <1>k, <1>1 DEF Knows, Unread, Ended, Drafting, Planned, Resumed, Guarded
  <2> QED
    BY <1>p, <1>w, <2>0, <2>1, <2>2, <2>3, MoveStep
<1>2. CASE approval \in {NoApproval, wanted} /\ approval' = wanted /\ Goto(d, "approval_created")
  <2>1. "approval_created" \in Points \ Ended /\ "approval_created" \notin Guarded
    BY DEF Points, Ended, Guarded
  <2>2. Lands(d, "approval_created", c, m)
    BY <1>p, <1>d, <1>2, <2>1, GotoLands DEF Documents
  <2>3. /\ c.plan \in Plans /\ c.plan = record.plan /\ c.plan = change.plan
        /\ LocalInv("create_approval", c, m, record, change.plan, approval, applied, deadTopic)
    <3>1. /\ c \in RecordCopy
          /\ LocalInv("create_approval", c, m, record, change.plan, approval, applied, deadTopic)
      BY <1>p, <1>w, CoroutineFacts
    <3>2. c.plan \in Plans \cup {NoPlan} /\ c.plan # NoPlan /\ c.plan = change.plan
      BY <3>1, <1>k DEF RecordCopy, Knows, Planned
    <3> QED
      BY <3>1, <3>2 DEF LocalInv, Sync
  <2>4. approval' \in ApprovalRequestRecord /\ approval'.status = "PENDING" /\ approval'.plan = c.plan
    BY <1>2, <2>3 DEF ApprovalRequestRecord
  <2>5. ApprovalGrows(approval, approval')
    BY <1>2 DEF ApprovalGrows, NoApproval, Decided
  <2>6. Knows("approval_created", c, m, record, change.plan, approval', deadTopic)
    BY <1>k, <2>4 DEF Knows, Unread, Ended, Drafting, Planned, Resumed, Guarded
  <2>7. LocalInv("approval_created", c, m, record, change.plan, approval', applied, deadTopic)
    BY <2>1, <2>3, <2>6 DEF LocalInv, Snapshots
  <2>8. TypeOK'
    BY <1>o, <2>2, <2>4 DEF IInv, TypeOK, Lands, OthersStay
  <2>9. Grows
    BY <1>o, <2>5, SameRecordGrows DEF Grows, ChangeGrows
  <2>10. PlanInv(record', change'.plan, approval') /\ TaskInv(record', applied')
    BY <1>o, <2>3, <2>4 DEF IInv, PlanInv
  <2>11. LocalInv("approval_created", c, m, record', change'.plan, approval', applied', deadTopic')
    BY <1>o, <2>7
  <2> QED
    BY <1>p, <1>o, <1>w, <2>2, <2>8, <2>9, <2>10, <2>11, DocumentStep
<1> QED
  BY <1>1, <1>2 DEF create_approval_request

\* await_approval: the record waits for a request that exists.
LEMMA await_approval_step ==
  ASSUME IInv, NEW d \in Deliveries, await_approval(d), UNCHANGED executionVars
  PROVE  IInv' /\ Grows
<1> DEFINE c == proc[d].rec
           m == proc[d].marks
<1>p. d \in Procs
  BY DEF Procs
<1>d. Documents
  BY TypeGivesDocuments DEF IInv
<1>w. Where(proc[d]) = "approval_created" /\ NotWaiting(d)
  BY <1>p, AtPoint DEF await_approval
<1>k. Knows("approval_created", c, m, record, change.plan, approval, deadTopic)
  BY <1>p, <1>w, CoroutineFacts DEF LocalInv
<1>1. CASE set_runtime_status(d, "WAITING_APPROVAL", FALSE, "ack")
  <2>1. StatusOK(d, "WAITING_APPROVAL", "ack")
    BY <1>w, <1>k DEF StatusOK, Knows, Points, Unread, Ended, Drafting, Planned, Resumed, Guarded, RuntimeStatus, UnderWay, Terminal
  <2>2. OutsideStays
    BY DEF await_approval, OutsideStays
  <2> QED
    BY <1>p, <1>w, <1>1, <2>1, <2>2, StatusStep
<1>2. CASE UNCHANGED <<change, record, approval, expired>> /\ Goto(d, "nacked")
  <2>1. "nacked" \in Ended \ {"acked"}
    BY DEF Ended
  <2>2. OutsideStays
    BY DEF await_approval, OutsideStays
  <2>3. Still
    BY <1>2, <2>2, StoreStays
  <2> QED
    BY <1>p, <1>w, <1>2, <2>1, <2>3, EndStep
<1> QED
  BY <1>1, <1>2 DEF await_approval

\* record_dead_letter: the collection, then the topic.
LEMMA record_dead_letter_step ==
  ASSUME IInv, NEW d \in Deliveries, record_dead_letter(d), UNCHANGED executionVars
  PROVE  IInv' /\ Grows
<1> DEFINE c == proc[d].rec
           m == proc[d].marks
<1>p. d \in Procs
  BY DEF Procs
<1>d. Documents
  BY TypeGivesDocuments DEF IInv
<1>w. Where(proc[d]) = "dead_letter_record" /\ NotWaiting(d)
  BY <1>p, AtPoint DEF record_dead_letter
<1>k. Knows("dead_letter_record", c, m, record, change.plan, approval, deadTopic)
  BY <1>p, <1>w, CoroutineFacts DEF LocalInv
<1>s. Still /\ deadTopic' = deadTopic
  <2>1. expired \in BOOLEAN /\ forwarded \in BOOLEAN /\ deadTopic \in Nat
    BY DEF IInv, TypeOK
  <2> QED
    BY <2>1 DEF record_dead_letter, Still, executionVars
<1>1. Goto(d, "publish")
  BY DEF record_dead_letter
<1>2. "publish" \in Points \ Ended /\ "publish" # "transition" /\ "publish" \notin Guarded
  BY DEF Points, Ended, Guarded
<1>3. Lands(d, "publish", c, m)
  BY <1>p, <1>d, <1>1, <1>2, GotoLands DEF Documents
<1>4. Knows("publish", c, m, record, change.plan, approval, deadTopic)
  BY <1>k, <1>1 DEF Knows, Unread, Ended, Drafting, Planned, Resumed, Guarded
<1> QED
  BY <1>p, <1>w, <1>s, <1>2, <1>3, <1>4, MoveStep

\* Steps in which no coroutine moves.
LEMMA NobodyMoves ==
  ASSUME IInv, TypeOK', Grows, proc' = proc,
         PlanInv(record', change'.plan, approval'), record' = record,
         UNCHANGED <<config, applied, ledger, calls>>
  PROVE  IInv'
<1>1. Documents'
  BY TypeGivesDocuments, PTL
<1>2. Coroutines'
  BY <1>1, CoroutinesStay
<1>3. AppliedInv(record, approval, applied)' /\ Calls'
  BY GovernedStays
<1>4. SandboxInv' /\ Waiting' /\ TaskInv(record, applied)'
  BY DEF IInv, SandboxInv, Waiting
<1> QED
  BY <1>2, <1>3, <1>4 DEF IInv

\* pubsub_forward: the event goes to the dead-letter topic.
LEMMA pubsub_forward_step ==
  ASSUME IInv, pubsub_forward, UNCHANGED executionVars
  PROVE  IInv' /\ Grows
<1>o. /\ change' = change /\ record' = record /\ approval' = approval /\ expired' = expired
      /\ proc' = proc /\ event' = event /\ deadLetters' = deadLetters
      /\ config' = config /\ applied' = applied /\ ledger' = ledger /\ calls' = calls /\ late' = late
  BY DEF pubsub_forward, storeVars, executionVars
<1>1. forwarded' \in BOOLEAN /\ deadTopic' \in Nat /\ deadTopic <= deadTopic'
  <2>1. deadTopic \in Nat
    BY DEF IInv, TypeOK
  <2> QED
    BY <2>1 DEF pubsub_forward
<1>2. TypeOK'
  BY <1>o, <1>1 DEF IInv, TypeOK
<1>3. Grows
  BY <1>o, <1>1, SameRecordGrows DEF Grows, ChangeGrows
<1>4. PlanInv(record', change'.plan, approval')
  BY <1>o DEF IInv
<1> QED
  BY <1>o, <1>2, <1>3, <1>4, NobodyMoves

\* cancel_change and retry_change move the change and nothing else.
LEMMA user_transition_step ==
  ASSUME IInv, NEW target \in UserTargets, user_transition(target), OutsideStays
  PROVE  IInv' /\ Grows
<1>o. /\ record' = record /\ approval' = approval /\ expired' = expired /\ proc' = proc
      /\ event' = event /\ deadLetters' = deadLetters /\ deadTopic' = deadTopic /\ forwarded' = forwarded
      /\ config' = config /\ applied' = applied /\ ledger' = ledger /\ calls' = calls /\ late' = late
  BY DEF user_transition, OutsideStays, intakeVars, executionVars
<1>1. change # NoChange /\ change \in ChangeRecord
      /\ change' = [change EXCEPT !.status = target, !.version = change.version + 1]
  BY DEF user_transition, IInv, TypeOK
<1>2. target \in WorkflowState
  BY UserTargetsAssumption DEF WorkflowState
<1>3. change.version + 1 \in Nat \ {0}
  BY <1>1 DEF ChangeRecord
<1>4. change' \in ChangeRecord /\ change'.plan = change.plan
  BY <1>1, <1>2, <1>3 DEF ChangeRecord
<1>5. TypeOK'
  BY <1>o, <1>1, <1>4 DEF IInv, TypeOK
<1>c. ChangeGrows(change, change')
  <2>1. target # "NEEDS_ATTENTION"
    BY UserTargetsAssumption
  <2> QED
    BY <1>1, <2>1 DEF ChangeRecord, ChangeGrows
<1>6. Grows
  BY <1>o, <1>4, <1>c, SameRecordGrows DEF Grows
<1>7. PlanInv(record', change'.plan, approval')
  BY <1>o, <1>4 DEF IInv
<1> QED
  BY <1>o, <1>5, <1>6, <1>7, NobodyMoves

\* Every step of the event side.
LEMMA IntakeStep ==
  ASSUME IInv, IntakeNext, UNCHANGED executionVars
  PROVE  IInv' /\ Grows
<1>1. ASSUME NEW d \in Deliveries, process_event(d)
      PROVE  IInv' /\ Grows
  <2>1. CASE get_record(d)
    BY <2>1, get_record_step
  <2>2. CASE count_attempt(d)
    BY <2>2, count_attempt_step
  <2>3. CASE create_or_get(d)
    BY <2>3, create_or_get_step
  <2>4. CASE ensure_change(d)
    BY <2>4, ensure_change_step
  <2>5. CASE mark_analyzing(d)
    BY <2>5, mark_analyzing_step
  <2>6. CASE read_received(d)
    BY <2>6, read_received_step
  <2>7. CASE screen(d)
    BY <2>7, screen_step
  <2>8. CASE analyze(d)
    BY <2>8, analyze_step
  <2>9. CASE block(d)
    BY <2>9, block_step
  <2>10. CASE finish_blocked(d)
    BY <2>10, finish_blocked_step
  <2>11. CASE read_screening(d)
    BY <2>11, read_screening_step
  <2>12. CASE screened(d)
    BY <2>12, screened_step
  <2>13. CASE store_plan(d)
    BY <2>13, store_plan_step
  <2>14. CASE advance(d)
    BY <2>14, advance_step
  <2>15. CASE climb(d)
    BY <2>15, climb_step
  <2>16. CASE request_approval(d)
    BY <2>16, request_approval_step
  <2>17. CASE create_approval_request(d)
    BY <2>17, create_approval_request_step
  <2>18. CASE await_approval(d)
    BY <2>18, await_approval_step
  <2>19. CASE dead_letter(d)
    BY <2>19, dead_letter_step
  <2>20. CASE record_dead_letter(d)
    BY <2>20, record_dead_letter_step
  <2>21. CASE transition(d) /\ UNCHANGED intakeVars
    BY <2>21, TransitionStep DEF OutsideStays, Procs
  <2> QED
    BY <1>1, <2>1, <2>2, <2>3, <2>4, <2>5, <2>6, <2>7, <2>8, <2>9, <2>10, <2>11, <2>12, <2>13, <2>14, <2>15, <2>16, <2>17, <2>18, <2>19, <2>20, <2>21
    DEF process_event
<1>2. ASSUME NEW d \in Deliveries, deliver(d) \/ handle_message(d) \/ interrupt(d)
      PROVE  IInv' /\ Grows
  BY <1>1, <1>2, deliver_step, publish_dead_letter_step, ack_step, interrupt_step
  DEF handle_message
<1> QED
  BY <1>2, pubsub_forward_step DEF IntakeNext

-----------------------------------------------------------------------------
(* The approval side: the decision and its callback.                       *)

\* decide_approval: the decision is final.
LEMMA decide_approval_step ==
  ASSUME IInv, NEW decision \in DOMAIN Path, decide_approval(decision), UNCHANGED intakeVars
  PROVE  IInv' /\ Grows
<1>o. /\ change' = change /\ record' = record /\ expired' = expired /\ proc' = proc
      /\ event' = event /\ deadLetters' = deadLetters /\ deadTopic' = deadTopic /\ forwarded' = forwarded
      /\ config' = config /\ applied' = applied /\ ledger' = ledger /\ calls' = calls /\ late' = late
  BY DEF decide_approval, intakeVars, executionVars
<1>1. /\ approval.status = "PENDING" /\ approval \in ApprovalRequestRecord
      /\ approval' = [approval EXCEPT !.status = decision]
  BY DEF decide_approval, IInv, TypeOK, NoApproval
<1>2. approval' \in ApprovalRequestRecord /\ approval'.status = decision /\ approval'.plan = approval.plan
  BY <1>1 DEF ApprovalRequestRecord
<1>3. TypeOK'
  BY <1>o, <1>2 DEF IInv, TypeOK
<1>4. ApprovalGrows(approval, approval') /\ approval'.status # "NONE"
  BY <1>1, <1>2, DecidedIsPath DEF ApprovalGrows, Decided
<1>5. Grows
  BY <1>o, <1>4, SameRecordGrows DEF Grows, ChangeGrows
<1>6. PlanInv(record', change'.plan, approval')
  BY <1>o, <1>1, <1>2, <1>4 DEF IInv, PlanInv
<1> QED
  BY <1>o, <1>3, <1>5, <1>6, NobodyMoves

\* expire: only the clock moves.
LEMMA expire_step ==
  ASSUME IInv, expire, UNCHANGED intakeVars
  PROVE  IInv' /\ Grows
<1>o. /\ change' = change /\ record' = record /\ approval' = approval /\ expired' = TRUE /\ proc' = proc
      /\ event' = event /\ deadLetters' = deadLetters /\ deadTopic' = deadTopic /\ forwarded' = forwarded
      /\ config' = config /\ applied' = applied /\ ledger' = ledger /\ calls' = calls /\ late' = late
  BY DEF expire, intakeVars, executionVars
<1>1. TypeOK'
  BY <1>o DEF IInv, TypeOK
<1>2. Grows
  BY <1>o, SameRecordGrows DEF Grows, ChangeGrows
<1>3. PlanInv(record', change'.plan, approval')
  BY <1>o DEF IInv
<1> QED
  BY <1>o, <1>1, <1>2, <1>3, NobodyMoves

\* notify: only after a decision.
LEMMA notify_step ==
  ASSUME IInv, NEW b \in Callbacks, notify(b), UNCHANGED intakeVars
  PROVE  IInv' /\ Grows
<1> DEFINE c == proc[b].rec
           m == proc[b].marks
<1>p. b \in Procs
  BY DEF Procs
<1>d. Documents
  BY TypeGivesDocuments DEF IInv
<1>w. Where(proc[b]) = "idle" /\ NotWaiting(b)
  BY <1>p, AtPoint DEF notify
<1>k. Knows("idle", c, m, record, change.plan, approval, deadTopic)
  BY <1>p, <1>w, CoroutineFacts DEF LocalInv
<1>s. Still /\ deadTopic' = deadTopic
  <2>1. UNCHANGED <<change, record, approval, expired>> /\ OutsideStays
    BY DEF notify, OutsideStays
  <2> QED
    BY <2>1, StoreStays
<1>1. Goto(b, "get_change")
  BY DEF notify
<1>2. "get_change" \in Points \ Ended /\ "get_change" # "transition" /\ "get_change" \notin Guarded
  BY DEF Points, Ended, Guarded
<1>3. Lands(b, "get_change", c, m)
  BY <1>p, <1>d, <1>1, <1>2, GotoLands DEF Documents
<1>4. approval.status \in Decided
  BY <1>d DEF notify, Documents
<1>5. Knows("get_change", c, m, record, change.plan, approval, deadTopic)
  BY <1>k, <1>4 DEF Knows, Unread, Ended, Drafting, Planned, Resumed, Guarded
<1> QED
  BY <1>p, <1>w, <1>s, <1>2, <1>3, <1>5, MoveStep

\* get_change: the change must belong to a workflow.
LEMMA get_change_step ==
  ASSUME IInv, NEW b \in Callbacks, get_change(b), UNCHANGED intakeVars
  PROVE  IInv' /\ Grows
<1> DEFINE c == proc[b].rec
           m == proc[b].marks
<1>p. b \in Procs
  BY DEF Procs
<1>d. Documents
  BY TypeGivesDocuments DEF IInv
<1>w. Where(proc[b]) = "get_change" /\ NotWaiting(b)
  BY <1>p, AtPoint DEF get_change
<1>k. Knows("get_change", c, m, record, change.plan, approval, deadTopic)
  BY <1>p, <1>w, CoroutineFacts DEF LocalInv
<1>s. Still /\ deadTopic' = deadTopic
  <2>1. UNCHANGED <<change, record, approval, expired>> /\ OutsideStays
    BY DEF get_change, OutsideStays
  <2> QED
    BY <2>1, StoreStays
<1>1. CASE read_change(b, "get_record")
  <2>1. "get_record" \in Points /\ "get_record" # "transition" /\ "get_record" \notin Guarded
    BY DEF Points, Guarded
  <2>2. Lands(b, "get_record", c, m)
    BY <1>p, <1>d, <1>1, <2>1, ReadLands DEF Documents
  <2>3. Knows("get_record", c, m, record, change.plan, approval, deadTopic)
    BY <1>k DEF Knows, Unread, Ended, Drafting, Planned, Resumed, Guarded
  <2> QED
    BY <1>p, <1>w, <1>s, <2>1, <2>2, <2>3, MoveStep
<1>2. CASE Goto(b, "failed")
  <2>1. "failed" \in Ended \ {"acked"}
    BY DEF Ended
  <2> QED
    BY <1>p, <1>w, <1>s, <1>2, <2>1, EndStep
<1> QED
  BY <1>1, <1>2 DEF get_change, read_change

\* resume_record: the copy has a plan from here on.
LEMMA resume_record_step ==
  ASSUME IInv, NEW b \in Callbacks, resume_record(b), UNCHANGED intakeVars
  PROVE  IInv' /\ Grows
<1> DEFINE c == proc[b].rec
           m == proc[b].marks
<1>p. b \in Procs
  BY DEF Procs
<1>d. Documents
  BY TypeGivesDocuments DEF IInv
<1>w. Where(proc[b]) = "get_record" /\ NotWaiting(b)
  BY <1>p, AtPoint DEF resume_record
<1>k. Knows("get_record", c, m, record, change.plan, approval, deadTopic)
  BY <1>p, <1>w, CoroutineFacts DEF LocalInv
<1>s. Still /\ deadTopic' = deadTopic
  <2>1. UNCHANGED <<change, record, approval, expired>> /\ OutsideStays
    BY DEF resume_record, OutsideStays
  <2> QED
    BY <2>1, StoreStays
<1> DEFINE w == IF record.status \in Terminal \ {"DEAD_LETTERED"} THEN "answered"
                ELSE IF record.plan = NoPlan \/ record.plan # approval.plan THEN "failed"
                ELSE "resume"
<1>1. GotoWith(b, record, w)
  BY DEF resume_record
<1>2. w \in {"answered", "failed"} \/ (w = "resume" /\ record.plan # NoPlan)
  OBVIOUS
<1> HIDE DEF w
<1>4. record \in RecordCopy /\ record \in Records
  BY <1>d, RecordFacts DEF Documents
<1>5. CASE w \in {"answered", "failed"}
  <2>1. w \in Ended \ {"acked"}
    BY <1>5 DEF Ended
  <2>2. Goto(b, w)
    BY <1>1, <2>1 DEF Goto, GotoWith
  <2> QED
    BY <1>p, <1>w, <1>s, <2>1, <2>2, EndStep
<1>6. CASE w = "resume" /\ record.plan # NoPlan
  <2>1. w \in Points \ Ended /\ w # "transition" /\ w \notin Guarded /\ w # "snapshots"
    BY <1>6 DEF Points, Ended, Guarded
  <2>2. Lands(b, w, record, m)
    BY <1>p, <1>d, <1>1, <1>4, <2>1, GotoWithLands DEF Documents
  <2>3. record.version > 0
    BY <1>4, <1>6, RecordFacts, NoRecordFacts
  <2>4. Knows(w, record, m, record, change.plan, approval, deadTopic)
    BY <1>6, <1>k, <2>3 DEF Knows, Unread, Ended, Drafting, Planned, Resumed, Guarded
  <2>5. TaskInv(record, applied)
    BY DEF IInv
  <2>6. LocalInv(w, record, m, record, change.plan, approval, applied, deadTopic)
    BY <1>4, <2>1, <2>4, <2>5, ReadsTrue
  <2> QED
    BY <1>p, <1>w, <1>s, <2>2, <2>6, QuietStep
<1> QED
  BY <1>2, <1>5, <1>6

\* The targets a decision leads to.
LEMMA PathTargets ==
  ASSUME NEW decision \in DOMAIN Path, NEW status \in DOMAIN Path[decision]
  PROVE  Path[decision][status] \in {"APPROVED", "EXECUTING", "REJECTED", "ANALYZING"}
<1>1. CASE decision = "APPROVED"
  BY <1>1 DEF Path
<1>2. CASE decision = "REJECTED"
  BY <1>2 DEF Path
<1>3. CASE decision = "CHANGES_REQUESTED"
  BY <1>3 DEF Path
<1> QED
  BY <1>1, <1>2, <1>3, DecidedIsPath DEF Decided

\* follow_decision: the transitions of the decision, then what follows them.
LEMMA follow_decision_step ==
  ASSUME IInv, NEW b \in Callbacks, follow_decision(b), UNCHANGED intakeVars
  PROVE  IInv' /\ Grows
<1> DEFINE c == proc[b].rec
           m == proc[b].marks
<1>p. b \in Procs
  BY DEF Procs
<1>d. Documents
  BY TypeGivesDocuments DEF IInv
<1>w. Where(proc[b]) = "resume" /\ NotWaiting(b)
  BY <1>p, AtPoint DEF follow_decision
<1>k. Knows("resume", c, m, record, change.plan, approval, deadTopic)
  BY <1>p, <1>w, CoroutineFacts DEF LocalInv
<1>s. Still /\ deadTopic' = deadTopic
  <2>1. UNCHANGED <<change, record, approval, expired>> /\ OutsideStays
    BY DEF follow_decision, OutsideStays
  <2> QED
    BY <2>1, StoreStays
<1>a. approval.status \in Decided /\ c.plan # NoPlan
  BY <1>k DEF Knows, Resumed, Planned
<1>1. CASE /\ proc[b].seen \in DOMAIN Path[approval.status]
           /\ begin_transition(b, Path[approval.status][proc[b].seen], "resume")
  <2>1. Path[approval.status][proc[b].seen] \in {"APPROVED", "EXECUTING", "REJECTED", "ANALYZING"}
    BY <1>1, <1>a, PathTargets, DecidedIsPath
  <2>2. Path[approval.status][proc[b].seen] \in WorkflowState
    BY <2>1 DEF WorkflowState
  <2>3. "resume" \in Points \ Unread /\ "resume" # "transition" /\ "resume" \notin Guarded
    BY DEF Points, Unread, Ended, Guarded
  <2>4. Lands(b, "resume", c, m)
    BY <1>p, <1>d, <1>a, <1>1, <2>2, <2>3, BeginLands DEF Documents
  <2> QED
    BY <1>p, <1>w, <1>s, <1>k, <2>3, <2>4, MoveStep
<1>2. CASE Goto(b, AfterPath(b))
  <2>1. AfterPath(b) \in {"rejected", "changes_requested", "executing", "refused"}
    <3>1. CASE approval.status = "REJECTED"
      BY <3>1 DEF AfterPath
    <3>2. CASE approval.status = "CHANGES_REQUESTED"
      BY <3>2 DEF AfterPath
    <3>3. CASE approval.status = "APPROVED"
      BY <3>3 DEF AfterPath
    <3> QED
      BY <1>a, <3>1, <3>2, <3>3 DEF Decided
  <2>2. CASE AfterPath(b) = "refused"
    <3>1. "refused" \in Ended \ {"acked"}
      BY DEF Ended
    <3> QED
      BY <1>p, <1>w, <1>s, <1>2, <2>2, <3>1, EndStep
  <2>3. CASE AfterPath(b) # "refused"
    <3> DEFINE w == AfterPath(b)
    <3>1. w \in Points \ Ended /\ w # "transition" /\ w \notin Guarded /\ w # "snapshots"
      BY <2>1, <2>3 DEF Points, Ended, Guarded
    <3>2. Lands(b, w, c, m)
      BY <1>p, <1>d, <1>2, <3>1, GotoLands DEF Documents
    <3>3. Knows(w, c, m, record, change.plan, approval, deadTopic)
      BY <1>k, <2>1, <2>3 DEF Knows, Unread, Ended, Drafting, Planned, Resumed, Guarded
    <3> QED
      BY <1>p, <1>w, <1>s, <3>1, <3>2, <3>3, MoveStep
  <2> QED
    BY <2>2, <2>3
<1> QED
  BY <1>1, <1>2 DEF follow_decision

\* The statuses a callback sets.
LEMMA finish_rejected_step ==
  ASSUME IInv, NEW b \in Callbacks, finish_rejected(b), UNCHANGED intakeVars
  PROVE  IInv' /\ Grows
<1> DEFINE c == proc[b].rec
           m == proc[b].marks
<1>p. b \in Procs
  BY DEF Procs
<1>d. Documents
  BY TypeGivesDocuments DEF IInv
<1>w. Where(proc[b]) = "rejected" /\ NotWaiting(b)
  BY <1>p, AtPoint DEF finish_rejected
<1>k. Knows("rejected", c, m, record, change.plan, approval, deadTopic)
  BY <1>p, <1>w, CoroutineFacts DEF LocalInv
<1>1. StatusOK(b, "FAILED", "answered")
  BY <1>w, <1>k DEF StatusOK, Knows, Decided, Points, Unread, Ended, Drafting, Planned, Resumed, Guarded, RuntimeStatus, UnderWay, Terminal
<1>2. terminal(b, "FAILED", TRUE, "answered") /\ OutsideStays
  BY DEF finish_rejected, OutsideStays
<1> QED
  BY <1>p, <1>w, <1>1, <1>2, StatusStep

\* finish_changes_requested: the record is ANALYZING again.
LEMMA finish_changes_requested_step ==
  ASSUME IInv, NEW b \in Callbacks, finish_changes_requested(b), UNCHANGED intakeVars
  PROVE  IInv' /\ Grows
<1> DEFINE c == proc[b].rec
           m == proc[b].marks
<1>p. b \in Procs
  BY DEF Procs
<1>d. Documents
  BY TypeGivesDocuments DEF IInv
<1>w. Where(proc[b]) = "changes_requested" /\ NotWaiting(b)
  BY <1>p, AtPoint DEF finish_changes_requested
<1>k. Knows("changes_requested", c, m, record, change.plan, approval, deadTopic)
  BY <1>p, <1>w, CoroutineFacts DEF LocalInv
<1>1. StatusOK(b, "ANALYZING", "answered")
  BY <1>w, <1>k DEF StatusOK, Knows, Decided, Points, Unread, Ended, Drafting, Planned, Resumed, Guarded, RuntimeStatus, UnderWay, Terminal
<1>2. set_runtime_status(b, "ANALYZING", TRUE, "answered") /\ OutsideStays
  BY DEF finish_changes_requested, OutsideStays
<1> QED
  BY <1>p, <1>w, <1>1, <1>2, StatusStep

\* mark_executing: the record is EXECUTING.
LEMMA mark_executing_step ==
  ASSUME IInv, NEW b \in Callbacks, mark_executing(b), UNCHANGED intakeVars
  PROVE  IInv' /\ Grows
<1> DEFINE c == proc[b].rec
           m == proc[b].marks
<1>p. b \in Procs
  BY DEF Procs
<1>d. Documents
  BY TypeGivesDocuments DEF IInv
<1>w. Where(proc[b]) = "executing" /\ NotWaiting(b)
  BY <1>p, AtPoint DEF mark_executing
<1>k. Knows("executing", c, m, record, change.plan, approval, deadTopic)
  BY <1>p, <1>w, CoroutineFacts DEF LocalInv
<1>1. StatusOK(b, "EXECUTING", "snapshots")
  BY <1>w, <1>k DEF StatusOK, Knows, Decided, Points, Unread, Ended, Drafting, Planned, Resumed, Guarded, RuntimeStatus, UnderWay, Terminal
<1>2. set_runtime_status(b, "EXECUTING", FALSE, "snapshots") /\ OutsideStays
  BY DEF mark_executing, OutsideStays
<1> QED
  BY <1>p, <1>w, <1>1, <1>2, StatusStep

\* mark_verifying: the record is VERIFYING.
LEMMA mark_verifying_step ==
  ASSUME IInv, NEW b \in Callbacks, mark_verifying(b), UNCHANGED intakeVars
  PROVE  IInv' /\ Grows
<1> DEFINE c == proc[b].rec
           m == proc[b].marks
<1>p. b \in Procs
  BY DEF Procs
<1>d. Documents
  BY TypeGivesDocuments DEF IInv
<1>w. Where(proc[b]) = "verifying" /\ NotWaiting(b)
  BY <1>p, AtPoint DEF mark_verifying
<1>k. Knows("verifying", c, m, record, change.plan, approval, deadTopic)
  BY <1>p, <1>w, CoroutineFacts DEF LocalInv
<1>1. StatusOK(b, "VERIFYING", "verify")
  BY <1>w, <1>k DEF StatusOK, Knows, Decided, Points, Unread, Ended, Drafting, Planned, Resumed, Guarded, RuntimeStatus, UnderWay, Terminal
<1>2. set_runtime_status(b, "VERIFYING", FALSE, "verify") /\ OutsideStays
  BY DEF mark_verifying, OutsideStays
<1> QED
  BY <1>p, <1>w, <1>1, <1>2, StatusStep

\* finish_completed: the record is COMPLETED.
LEMMA finish_completed_step ==
  ASSUME IInv, NEW b \in Callbacks, finish_completed(b), UNCHANGED intakeVars
  PROVE  IInv' /\ Grows
<1> DEFINE c == proc[b].rec
           m == proc[b].marks
<1>p. b \in Procs
  BY DEF Procs
<1>d. Documents
  BY TypeGivesDocuments DEF IInv
<1>w. Where(proc[b]) = "complete" /\ NotWaiting(b)
  BY <1>p, AtPoint DEF finish_completed
<1>k. Knows("complete", c, m, record, change.plan, approval, deadTopic)
  BY <1>p, <1>w, CoroutineFacts DEF LocalInv
<1>1. StatusOK(b, "COMPLETED", "answered")
  BY <1>w, <1>k DEF StatusOK, Knows, Decided, Points, Unread, Ended, Drafting, Planned, Resumed, Guarded, RuntimeStatus, UnderWay, Terminal
<1>2. terminal(b, "COMPLETED", FALSE, "answered") /\ OutsideStays
  BY DEF finish_completed, OutsideStays
<1> QED
  BY <1>p, <1>w, <1>1, <1>2, StatusStep

\* mark_rolling_back: the record is ROLLING_BACK.
LEMMA mark_rolling_back_step ==
  ASSUME IInv, NEW b \in Callbacks, mark_rolling_back(b), UNCHANGED intakeVars
  PROVE  IInv' /\ Grows
<1> DEFINE c == proc[b].rec
           m == proc[b].marks
<1>p. b \in Procs
  BY DEF Procs
<1>d. Documents
  BY TypeGivesDocuments DEF IInv
<1>w. Where(proc[b]) = "rolling_back" /\ NotWaiting(b)
  BY <1>p, AtPoint DEF mark_rolling_back
<1>k. Knows("rolling_back", c, m, record, change.plan, approval, deadTopic)
  BY <1>p, <1>w, CoroutineFacts DEF LocalInv
<1>1. StatusOK(b, "ROLLING_BACK", "restore")
  BY <1>w, <1>k DEF StatusOK, Knows, Decided, Points, Unread, Ended, Drafting, Planned, Resumed, Guarded, RuntimeStatus, UnderWay, Terminal
<1>2. set_runtime_status(b, "ROLLING_BACK", TRUE, "restore") /\ OutsideStays
  BY DEF mark_rolling_back, OutsideStays
<1> QED
  BY <1>p, <1>w, <1>1, <1>2, StatusStep

\* finish_rolled_back: the record has the outcome of the compensation.
LEMMA finish_rolled_back_step ==
  ASSUME IInv, NEW b \in Callbacks, finish_rolled_back(b), UNCHANGED intakeVars
  PROVE  IInv' /\ Grows
<1> DEFINE c == proc[b].rec
           m == proc[b].marks
<1>p. b \in Procs
  BY DEF Procs
<1>d. Documents
  BY TypeGivesDocuments DEF IInv
<1>w. Where(proc[b]) = "compensated" /\ NotWaiting(b)
  BY <1>p, AtPoint DEF finish_rolled_back
<1>k. Knows("compensated", c, m, record, change.plan, approval, deadTopic)
  BY <1>p, <1>w, CoroutineFacts DEF LocalInv
<1>0. Compensated(b) \in {"NEEDS_ATTENTION", "FAILED"}
  BY DEF Compensated
<1>1. StatusOK(b, Compensated(b), "answered")
  BY <1>0, <1>w, <1>k DEF StatusOK, Knows, Decided, Points, Unread, Ended, Drafting, Planned, Resumed, Guarded, RuntimeStatus, UnderWay, Terminal
<1>2. terminal(b, Compensated(b), TRUE, "answered") /\ OutsideStays
  BY DEF finish_rolled_back, OutsideStays
<1> QED
  BY <1>p, <1>w, <1>1, <1>2, StatusStep

\* The transitions a callback begins.
LEMMA start_verifying_step ==
  ASSUME IInv, NEW b \in Callbacks, start_verifying(b), UNCHANGED intakeVars
  PROVE  IInv' /\ Grows
<1> DEFINE c == proc[b].rec
           m == proc[b].marks
<1>p. b \in Procs
  BY DEF Procs
<1>d. Documents
  BY TypeGivesDocuments DEF IInv
<1>w. Where(proc[b]) = "executed" /\ NotWaiting(b)
  BY <1>p, AtPoint DEF start_verifying
<1>k. Knows("executed", c, m, record, change.plan, approval, deadTopic)
  BY <1>p, <1>w, CoroutineFacts DEF LocalInv
<1>s. Still /\ deadTopic' = deadTopic
  <2>1. UNCHANGED <<change, record, approval, expired>> /\ OutsideStays
    BY DEF start_verifying, OutsideStays
  <2> QED
    BY <2>1, StoreStays
<1>1. "VERIFYING" \in WorkflowState /\ "VERIFYING" # "PLAN_READY"
  BY DEF WorkflowState
<1>2. "verifying" \in Points \ Unread /\ "verifying" # "transition" /\ "verifying" # "snapshots"
  BY DEF Points, Unread, Ended
<1>3. Knows("verifying", c, m, record, change.plan, approval, deadTopic)
      /\ ("verifying" \in Guarded => "executed" \in Guarded)
  BY <1>k DEF Knows, Unread, Ended, Drafting, Planned, Resumed, Guarded
<1>4. Lands(b, "verifying", c, m)
  <2>1. begin_transition(b, "VERIFYING", "verifying")
    BY DEF start_verifying
  <2> QED
    BY <1>p, <1>d, <1>1, <1>2, <2>1, BeginLands DEF Documents
<1> QED
  BY <1>p, <1>w, <1>s, <1>2, <1>3, <1>4, MoveStep

\* start_completing: the transition to COMPLETED begins.
LEMMA start_completing_step ==
  ASSUME IInv, NEW b \in Callbacks, start_completing(b), UNCHANGED intakeVars
  PROVE  IInv' /\ Grows
<1> DEFINE c == proc[b].rec
           m == proc[b].marks
<1>p. b \in Procs
  BY DEF Procs
<1>d. Documents
  BY TypeGivesDocuments DEF IInv
<1>w. Where(proc[b]) = "verify" /\ NotWaiting(b)
  BY <1>p, AtPoint DEF start_completing
<1>k. Knows("verify", c, m, record, change.plan, approval, deadTopic)
  BY <1>p, <1>w, CoroutineFacts DEF LocalInv
<1>s. Still /\ deadTopic' = deadTopic
  <2>1. UNCHANGED <<change, record, approval, expired>> /\ OutsideStays
    BY DEF start_completing, OutsideStays
  <2> QED
    BY <2>1, StoreStays
<1>1. "COMPLETED" \in WorkflowState /\ "COMPLETED" # "PLAN_READY"
  BY DEF WorkflowState
<1>2. "complete" \in Points \ Unread /\ "complete" # "transition" /\ "complete" # "snapshots"
  BY DEF Points, Unread, Ended
<1>3. Knows("complete", c, m, record, change.plan, approval, deadTopic)
      /\ ("complete" \in Guarded => "verify" \in Guarded)
  BY <1>k DEF Knows, Unread, Ended, Drafting, Planned, Resumed, Guarded
<1>4. Lands(b, "complete", c, m)
  <2>1. begin_transition(b, "COMPLETED", "complete")
    BY DEF start_completing
  <2> QED
    BY <1>p, <1>d, <1>1, <1>2, <2>1, BeginLands DEF Documents
<1> QED
  BY <1>p, <1>w, <1>s, <1>2, <1>3, <1>4, MoveStep

\* start_rollback: the transition to ROLLING_BACK begins.
LEMMA start_rollback_step ==
  ASSUME IInv, NEW b \in Callbacks, start_rollback(b), UNCHANGED intakeVars
  PROVE  IInv' /\ Grows
<1> DEFINE c == proc[b].rec
           m == proc[b].marks
<1>p. b \in Procs
  BY DEF Procs
<1>d. Documents
  BY TypeGivesDocuments DEF IInv
<1>w. Where(proc[b]) = "roll" /\ NotWaiting(b)
  BY <1>p, AtPoint DEF start_rollback
<1>k. Knows("roll", c, m, record, change.plan, approval, deadTopic)
  BY <1>p, <1>w, CoroutineFacts DEF LocalInv
<1>s. Still /\ deadTopic' = deadTopic
  <2>1. UNCHANGED <<change, record, approval, expired>> /\ OutsideStays
    BY DEF start_rollback, OutsideStays
  <2> QED
    BY <2>1, StoreStays
<1>1. "ROLLING_BACK" \in WorkflowState /\ "ROLLING_BACK" # "PLAN_READY"
  BY DEF WorkflowState
<1>2. "rolling_back" \in Points \ Unread /\ "rolling_back" # "transition" /\ "rolling_back" # "snapshots"
  BY DEF Points, Unread, Ended
<1>3. Knows("rolling_back", c, m, record, change.plan, approval, deadTopic)
      /\ ("rolling_back" \in Guarded => "roll" \in Guarded)
  BY <1>k DEF Knows, Unread, Ended, Drafting, Planned, Resumed, Guarded
<1>4. Lands(b, "rolling_back", c, m)
  <2>1. begin_transition(b, "ROLLING_BACK", "rolling_back")
    BY DEF start_rollback
  <2> QED
    BY <1>p, <1>d, <1>1, <1>2, <2>1, BeginLands DEF Documents
<1> QED
  BY <1>p, <1>w, <1>s, <1>2, <1>3, <1>4, MoveStep

\* end_rollback: the transition to the outcome begins.
LEMMA end_rollback_step ==
  ASSUME IInv, NEW b \in Callbacks, end_rollback(b), UNCHANGED intakeVars
  PROVE  IInv' /\ Grows
<1> DEFINE c == proc[b].rec
           m == proc[b].marks
<1>p. b \in Procs
  BY DEF Procs
<1>d. Documents
  BY TypeGivesDocuments DEF IInv
<1>w. Where(proc[b]) = "rolled_back" /\ NotWaiting(b)
  BY <1>p, AtPoint DEF end_rollback
<1>k. Knows("rolled_back", c, m, record, change.plan, approval, deadTopic)
  BY <1>p, <1>w, CoroutineFacts DEF LocalInv
<1>s. Still /\ deadTopic' = deadTopic
  <2>1. UNCHANGED <<change, record, approval, expired>> /\ OutsideStays
    BY DEF end_rollback, OutsideStays
  <2> QED
    BY <2>1, StoreStays
<1>1. Compensated(b) \in WorkflowState /\ Compensated(b) # "PLAN_READY"
  BY DEF WorkflowState, Compensated
<1>2. "compensated" \in Points \ Unread /\ "compensated" # "transition" /\ "compensated" # "snapshots"
  BY DEF Points, Unread, Ended
<1>3. Knows("compensated", c, m, record, change.plan, approval, deadTopic)
      /\ ("compensated" \in Guarded => "rolled_back" \in Guarded)
  BY <1>k DEF Knows, Unread, Ended, Drafting, Planned, Resumed, Guarded
<1>4. Lands(b, "compensated", c, m)
  <2>1. begin_transition(b, Compensated(b), "compensated")
    BY DEF end_rollback
  <2> QED
    BY <1>p, <1>d, <1>1, <1>2, <2>1, BeginLands DEF Documents
<1> QED
  BY <1>p, <1>w, <1>s, <1>2, <1>3, <1>4, MoveStep

-----------------------------------------------------------------------------
(* Loops over the tasks.                                                   *)

\* A loop of the guarded part starts, ends or goes on.
LEMMA MarksTrue ==
  ASSUME NEW w \in Guarded, NEW w2 \in Guarded, NEW c, NEW m, NEW m2, NEW r, NEW cp, NEW a,
         NEW app, NEW dt, LocalInv(w, c, m, r, cp, a, app, dt)
  PROVE  LocalInv(w2, c, m2, r, cp, a, app, dt)
<1>1. Knows(w2, c, m2, r, cp, a, dt)
  BY DEF LocalInv, Knows, Unread, Ended, Drafting, Planned, Resumed, Guarded
<1>2. Snapshots(w2, c, m2, r, app)
  BY DEF LocalInv, Snapshots, Guarded
<1> QED
  BY <1>1, <1>2 DEF LocalInv

\* What a copy of the guarded part says of the stored snapshots.
LEMMA GuardedSnapshots ==
  ASSUME IInv, NEW p \in Procs, Where(proc[p]) \in Guarded
  PROVE  \A s \in Steps : proc[p].rec.tasks[s].snap = "old_field"
                          /\ record.tasks[s].snap = "old_field"
<1>1. Where(proc[p]) # "snapshots"
  BY DEF Guarded
<1> QED
  BY <1>1, CoroutineFacts DEF IInv, LocalInv, Snapshots, TaskInv

\* c2 is the copy c with another task s.
EditedCopy(c, s, task, c2) ==
  /\ c2 \in RecordCopy
  /\ c2.version = c.version /\ c2.status = c.status /\ c2.plan = c.plan
  /\ c2.tasks[s] = task
  /\ \A u \in Steps : u # s => c2.tasks[u] = c.tasks[u]

\* A copy in which one task is replaced.
LEMMA TaskEdit ==
  ASSUME NEW c \in RecordCopy, NEW s \in Steps, NEW task \in Task
  PROVE  EditedCopy(c, s, task, [c EXCEPT !.tasks = [c.tasks EXCEPT ![s] = task]])
<1> DEFINE ts == [c.tasks EXCEPT ![s] = task]
           c2 == [c EXCEPT !.tasks = ts]
<1>1. c.tasks \in [Steps -> Task]
  BY DEF RecordCopy
<1>2. ts \in [Steps -> Task] /\ ts[s] = task /\ \A u \in Steps : u # s => ts[u] = c.tasks[u]
  BY <1>1
<1>3. c2 \in RecordCopy /\ c2.version = c.version /\ c2.status = c.status /\ c2.plan = c.plan /\ c2.tasks = ts
  <2> HIDE DEF ts
  <2> QED BY <1>2 DEF RecordCopy
<1>4. EditedCopy(c, s, task, c2)
  <2> HIDE DEF c2, ts
  <2> QED BY <1>2, <1>3 DEF EditedCopy
<1> QED
  BY <1>4

\* A coroutine that has taken the snapshot of a task.
LEMMA SnapshotTaken ==
  ASSUME NEW x \in Coroutine, NEW s \in Steps, NEW v \in Configuration, NEW y,
         y = [x EXCEPT !.rec.tasks[s].snap = v, !.marks = @ \cup {s}]
  PROVE  /\ y \in Coroutine /\ y.pc = x.pc /\ y.marks = x.marks \cup {s}
         /\ \E task \in Task : /\ task.snap = v /\ task.status = x.rec.tasks[s].status
                               /\ EditedCopy(x.rec, s, task, y.rec)
<1> DEFINE task == [x.rec.tasks[s] EXCEPT !.snap = v]
           c2 == [x.rec EXCEPT !.tasks = [x.rec.tasks EXCEPT ![s] = task]]
<1>1. x.rec \in RecordCopy /\ x.marks \cup {s} \in SUBSET Steps
  BY DEF Coroutine
<1>2. task \in Task /\ task.snap = v /\ task.status = x.rec.tasks[s].status
  BY <1>1 DEF RecordCopy, Task
<1>3. y = [x EXCEPT !.rec = c2, !.marks = x.marks \cup {s}]
  OBVIOUS
<1> HIDE DEF task
<1>4. EditedCopy(x.rec, s, task, c2)
  BY <1>1, <1>2, TaskEdit, Zenon
<1> HIDE DEF c2
<1>5. c2 \in RecordCopy
  BY <1>4 DEF EditedCopy
<1>6. y \in Coroutine /\ y.pc = x.pc /\ y.marks = x.marks \cup {s} /\ y.rec = c2
  BY <1>1, <1>3, <1>5 DEF Coroutine
<1> QED
  BY <1>2, <1>4, <1>6

\* A coroutine that has set the status of a task.
LEMMA StatusTaken ==
  ASSUME NEW x \in Coroutine, NEW s \in Steps, NEW v \in TaskStatus, NEW y,
         y = [x EXCEPT !.rec.tasks[s].status = v]
  PROVE  /\ y \in Coroutine /\ y.pc = x.pc /\ y.marks = x.marks
         /\ \E task \in Task : /\ task.status = v /\ task.snap = x.rec.tasks[s].snap
                               /\ EditedCopy(x.rec, s, task, y.rec)
<1> DEFINE task == [x.rec.tasks[s] EXCEPT !.status = v]
           c2 == [x.rec EXCEPT !.tasks = [x.rec.tasks EXCEPT ![s] = task]]
<1>1. x.rec \in RecordCopy
  BY DEF Coroutine
<1>2. task \in Task /\ task.status = v /\ task.snap = x.rec.tasks[s].snap
  BY <1>1 DEF RecordCopy, Task
<1>3. y = [x EXCEPT !.rec = c2]
  OBVIOUS
<1> HIDE DEF task
<1>4. EditedCopy(x.rec, s, task, c2)
  BY <1>1, <1>2, TaskEdit, Zenon
<1> HIDE DEF c2
<1>5. c2 \in RecordCopy
  BY <1>4 DEF EditedCopy
<1>6. y \in Coroutine /\ y.pc = x.pc /\ y.marks = x.marks /\ y.rec = c2
  BY <1>1, <1>3, <1>5 DEF Coroutine
<1> QED
  BY <1>2, <1>4, <1>6

\* capture_snapshot: whoever reads a sandbox for a current copy reads it
\* before anything was applied to it.
LEMMA capture_snapshot_step ==
  ASSUME IInv, NEW b \in Callbacks, NEW s \in Steps, capture_snapshot(b, s), UNCHANGED intakeVars
  PROVE  IInv' /\ Grows
<1> DEFINE c == proc[b].rec
           m == proc[b].marks
<1>p. b \in Procs
  BY DEF Procs
<1>d. Documents
  BY TypeGivesDocuments DEF IInv
<1>w. Where(proc[b]) = "snapshots" /\ NotWaiting(b)
  BY <1>p, AtPoint DEF capture_snapshot
<1>k. Knows("snapshots", c, m, record, change.plan, approval, deadTopic)
  BY <1>p, <1>w, CoroutineFacts DEF LocalInv
<1>s. Still /\ deadTopic' = deadTopic
  <2>1. UNCHANGED <<change, record, approval, expired>> /\ OutsideStays
    BY DEF capture_snapshot, OutsideStays
  <2> QED
    BY <2>1, StoreStays
<1>x. proc[b] \in Coroutine /\ c \in RecordCopy /\ m \subseteq Steps
      /\ LocalInv("snapshots", c, m, record, change.plan, approval, applied, deadTopic)
  BY <1>p, <1>w, CoroutineFacts
<1>n. c.tasks[s].snap = "NONE" /\ config[s] \in Configuration /\ c.tasks[s] \in Task
  BY <1>x DEF capture_snapshot, Tasks, IInv, TypeOK, RecordCopy
<1>1. CASE proc' = [proc EXCEPT ![b] = [@ EXCEPT
              !.rec.tasks[s].snap = config[s], !.marks = proc[b].marks \cup {s}]]
  <2> DEFINE y == [proc[b] EXCEPT !.rec.tasks[s].snap = config[s], !.marks = @ \cup {s}]
             c2 == y.rec
  <2>2. proc' = [proc EXCEPT ![b] = y]
    BY <1>1
  <2>3. /\ y \in Coroutine /\ y.pc = proc[b].pc /\ y.marks = m \cup {s}
        /\ \E task \in Task : /\ task.snap = config[s] /\ task.status = c.tasks[s].status
                              /\ EditedCopy(c, s, task, c2)
    BY <1>x, <1>n, SnapshotTaken
  <2> HIDE DEF y
  <2>4. PICK task \in Task : /\ task.snap = config[s] /\ task.status = c.tasks[s].status
                             /\ EditedCopy(c, s, task, c2)
    BY <2>3
  <2>e. y.rec = c2 /\ c2 \in RecordCopy
    BY <2>4 DEF EditedCopy
  <2> HIDE DEF c2
  <2>5. proc[b].pc = "snapshots"
    BY DEF capture_snapshot, At
  <2>6. Lands(b, "snapshots", c2, m \cup {s})
    BY <1>p, <1>d, <2>2, <2>3, <2>e, <2>5 DEF Documents, Lands, OthersStay, Where
  <2>7. Sync(c2, record) /\ Knows("snapshots", c2, m \cup {s}, record, change.plan, approval, deadTopic)
    BY <1>x, <2>4 DEF LocalInv, Sync, Knows, EditedCopy
  <2>8. c.version = record.version => config[s] = "old_field"
    <3>1. c.version = record.version => record.tasks[s].snap = "NONE"
      BY <1>x, <1>n DEF LocalInv, Snapshots
    <3>2. record.tasks[s].snap = "NONE" => s \notin applied
      BY DEF IInv, AppliedInv
    <3>3. s \notin applied => config[s] # "new_field"
      BY DEF IInv, SandboxInv
    <3> QED
      BY <1>n, <3>1, <3>2, <3>3 DEF Configuration
  <2>9. Snapshots("snapshots", c2, m \cup {s}, record, applied)
    <3> SUFFICES ASSUME NEW u \in Steps
                 PROVE /\ u \notin m \cup {s} =>
                            /\ c2.tasks[u].snap \in {"NONE", record.tasks[u].snap}
                            /\ c2.version = record.version => c2.tasks[u].snap = record.tasks[u].snap
                       /\ (u \in m \cup {s} /\ c2.version = record.version) =>
                            c2.tasks[u].snap = "old_field"
                       /\ c2.tasks[u].status = "SUCCEEDED" => u \in applied
      BY DEF Snapshots, Guarded
    <3>1. CASE u = s
      BY <1>x, <2>4, <2>8, <3>1 DEF LocalInv, Snapshots, EditedCopy
    <3>2. CASE u # s
      BY <1>x, <2>4, <3>2 DEF LocalInv, Snapshots, EditedCopy
    <3> QED
      BY <3>1, <3>2
  <2>10. LocalInv("snapshots", c2, m \cup {s}, record, change.plan, approval, applied, deadTopic)
    BY <2>7, <2>9 DEF LocalInv
  <2> QED
    BY <1>p, <1>w, <1>s, <2>6, <2>10, QuietStep
<1>2. CASE Goto(b, "failed")
  <2>1. "failed" \in Ended \ {"acked"}
    BY DEF Ended
  <2> QED
    BY <1>p, <1>w, <1>s, <1>2, <2>1, EndStep
<1> QED
  BY <1>1, <1>2 DEF capture_snapshot

\* store_snapshots: all snapshots are stored before the first step.
LEMMA store_snapshots_step ==
  ASSUME IInv, NEW b \in Callbacks, store_snapshots(b), UNCHANGED intakeVars
  PROVE  IInv' /\ Grows
<1> DEFINE c == proc[b].rec
           m == proc[b].marks
<1>p. b \in Procs
  BY DEF Procs
<1>d. Documents
  BY TypeGivesDocuments DEF IInv
<1>w. Where(proc[b]) = "snapshots" /\ NotWaiting(b)
  BY <1>p, AtPoint DEF store_snapshots
<1>k. Knows("snapshots", c, m, record, change.plan, approval, deadTopic)
  BY <1>p, <1>w, CoroutineFacts DEF LocalInv
<1>x. c \in RecordCopy
      /\ LocalInv("snapshots", c, m, record, change.plan, approval, applied, deadTopic)
  BY <1>p, <1>w, CoroutineFacts
<1>a. \A s \in Steps : c.tasks[s].snap # "NONE"
  BY DEF store_snapshots, Tasks
<1>o. OutsideStays
  BY DEF store_snapshots, OutsideStays
<1>1. CASE m = {} /\ Goto(b, "dag") /\ UNCHANGED <<change, record, approval, expired>>
  <2>0. Still /\ deadTopic' = deadTopic
    BY <1>1, <1>o, StoreStays
  <2>1. "dag" \in Points \ Ended /\ "dag" # "transition"
    BY DEF Points, Ended
  <2>2. Lands(b, "dag", c, m)
    BY <1>p, <1>d, <1>1, <2>1, GotoLands DEF Documents
  <2>3. Knows("dag", c, m, record, change.plan, approval, deadTopic)
    BY <1>k DEF Knows, Unread, Ended, Drafting, Planned, Resumed, Guarded
  <2>4. Snapshots("dag", c, m, record, applied)
    BY <1>x, <1>a, <1>1 DEF LocalInv, Snapshots
  <2>5. LocalInv("dag", c, m, record, change.plan, approval, applied, deadTopic)
    BY <1>x, <2>3, <2>4 DEF LocalInv
  <2> QED
    BY <1>p, <1>w, <2>0, <2>2, <2>5, QuietStep
<1>2. CASE update_record(b, c, "dag")
  <2>1. /\ \A s \in Steps : c.tasks[s].status = "SUCCEEDED" => s \in applied
        /\ c.version = record.version =>
             \A s \in Steps :
               /\ c.tasks[s].snap \in {"NONE", "old_field"}
               /\ record.tasks[s].snap # "NONE" => c.tasks[s].snap = record.tasks[s].snap
    BY <1>x, <1>a DEF IInv, LocalInv, Snapshots, TaskInv
  <2>2. UpdateOK(b, c, "dag")
    BY <1>a, <1>x, <1>k, <2>1 DEF UpdateOK, Points, Ended, Drafting, Planned, Resumed, Guarded, Knows
  <2>3. "snapshots" \notin Unread
    BY DEF Unread, Ended
  <2> QED
    BY <1>p, <1>w, <1>o, <1>2, <2>2, <2>3, UpdateStep
<1> QED
  BY <1>1, <1>2 DEF store_snapshots

\* The guarded part goes on with the same copy.
LEMMA LoopStep ==
  ASSUME IInv, Still, deadTopic' = deadTopic, NEW p \in Procs, NotWaiting(p),
         Where(proc[p]) \in Guarded, NEW w \in Guarded, NEW m, Lands(p, w, proc[p].rec, m)
  PROVE  IInv' /\ Grows
<1>1. LocalInv(w, proc[p].rec, m, record, change.plan, approval, applied, deadTopic)
  BY CoroutineFacts, MarksTrue
<1> QED
  BY <1>1, QuietStep

\* The guarded part goes on with another status of a task.
LEMMA EditTrue ==
  ASSUME NEW w \in Guarded, NEW w2 \in Guarded, NEW c, NEW c2, NEW s \in Steps, NEW task,
         NEW m, NEW m2, NEW r, NEW cp, NEW a, NEW app, NEW dt,
         LocalInv(w, c, m, r, cp, a, app, dt), EditedCopy(c, s, task, c2),
         task.snap = c.tasks[s].snap, task.status = "SUCCEEDED" => s \in app
  PROVE  LocalInv(w2, c2, m2, r, cp, a, app, dt)
<1>1. Sync(c2, r)
  BY DEF LocalInv, Sync, EditedCopy
<1>2. Knows(w2, c2, m2, r, cp, a, dt)
  BY DEF LocalInv, Knows, EditedCopy, Unread, Ended, Drafting, Planned, Resumed, Guarded
<1>3. Snapshots(w2, c2, m2, r, app)
  <2> SUFFICES ASSUME NEW u \in Steps
               PROVE /\ c2.tasks[u].snap \in {"NONE", r.tasks[u].snap}
                     /\ c2.version = r.version => c2.tasks[u].snap = r.tasks[u].snap
                     /\ c2.tasks[u].snap # "NONE"
                     /\ c2.tasks[u].status = "SUCCEEDED" => u \in app
    BY DEF Snapshots, Guarded
  <2>1. CASE u = s
    BY <2>1 DEF LocalInv, Snapshots, EditedCopy, Guarded
  <2>2. CASE u # s
    BY <2>2 DEF LocalInv, Snapshots, EditedCopy, Guarded
  <2> QED
    BY <2>1, <2>2
<1> QED
  BY <1>1, <1>2, <1>3 DEF LocalInv

\* execute_dag without a new wave, verify_task and read_for_rollback go on in
\* the guarded part.
LEMMA verify_task_step ==
  ASSUME IInv, NEW b \in Callbacks, NEW s \in Steps, verify_task(b, s), UNCHANGED intakeVars
  PROVE  IInv' /\ Grows
<1> DEFINE c == proc[b].rec
           m == proc[b].marks
<1>p. b \in Procs
  BY DEF Procs
<1>d. Documents
  BY TypeGivesDocuments DEF IInv
<1>w. Where(proc[b]) = "verify" /\ NotWaiting(b)
  BY <1>p, AtPoint DEF verify_task
<1>k. Knows("verify", c, m, record, change.plan, approval, deadTopic)
  BY <1>p, <1>w, CoroutineFacts DEF LocalInv
<1>s. Still /\ deadTopic' = deadTopic
  <2>1. UNCHANGED <<change, record, approval, expired>> /\ OutsideStays
    BY DEF verify_task, OutsideStays
  <2> QED
    BY <2>1, StoreStays
<1>g. Where(proc[b]) \in Guarded /\ "verify" \in Guarded /\ "rollback" \in Guarded
  BY <1>w DEF Guarded
<1>v. "verify" \in Points /\ "verify" # "transition" /\ "rollback" \in Points /\ "rollback" # "transition"
  BY DEF Points
<1>x. m \cup {s} \in SUBSET Steps /\ {} \in SUBSET Steps
  BY <1>p, CoroutineFacts
<1>1. CASE Enter(b, "verify", m \cup {s})
  <2>1. Lands(b, "verify", c, m \cup {s})
    BY <1>p, <1>d, <1>v, <1>x, <1>1, EnterLands DEF Documents
  <2> QED
    BY <1>p, <1>w, <1>s, <1>g, <2>1, LoopStep
<1>2. CASE Enter(b, "rollback", {})
  <2>1. Lands(b, "rollback", c, {})
    BY <1>p, <1>d, <1>v, <1>x, <1>2, EnterLands DEF Documents
  <2> QED
    BY <1>p, <1>w, <1>s, <1>g, <2>1, LoopStep
<1> QED
  BY <1>1, <1>2 DEF verify_task

\* read_for_rollback: the status of the change is read again.
LEMMA read_for_rollback_step ==
  ASSUME IInv, NEW b \in Callbacks, read_for_rollback(b), UNCHANGED intakeVars
  PROVE  IInv' /\ Grows
<1> DEFINE c == proc[b].rec
           m == proc[b].marks
<1>p. b \in Procs
  BY DEF Procs
<1>d. Documents
  BY TypeGivesDocuments DEF IInv
<1>w. Where(proc[b]) = "rollback" /\ NotWaiting(b)
  BY <1>p, AtPoint DEF read_for_rollback
<1>k. Knows("rollback", c, m, record, change.plan, approval, deadTopic)
  BY <1>p, <1>w, CoroutineFacts DEF LocalInv
<1>s. Still /\ deadTopic' = deadTopic
  <2>1. UNCHANGED <<change, record, approval, expired>> /\ OutsideStays
    BY DEF read_for_rollback, OutsideStays
  <2> QED
    BY <2>1, StoreStays
<1> DEFINE w == IF change.status \in {"EXECUTING", "VERIFYING"} THEN "roll" ELSE "rolling_back"
           y == [proc[b] EXCEPT !.seen = change.status, !.marks = {}, !.pc = w]
<1>g. Where(proc[b]) \in Guarded /\ w \in Guarded /\ w \in Points /\ w # "transition"
  BY <1>w DEF Guarded, Points
<1>1. proc' = [proc EXCEPT ![b] = y]
  BY DEF read_for_rollback
<1> HIDE DEF w
<1>2. y \in Coroutine /\ y.pc = w /\ y.rec = c /\ y.marks = {}
  BY <1>p, <1>d, <1>g, CoroutineFacts DEF Documents, Coroutine
<1> HIDE DEF y
<1>3. Lands(b, w, c, {})
  BY <1>p, <1>d, <1>g, <1>1, <1>2 DEF Documents, Lands, OthersStay, Where
<1> QED
  BY <1>p, <1>w, <1>s, <1>g, <1>3, LoopStep

\* store_wave: the callback waits for nobody any more.
LEMMA store_wave_step ==
  ASSUME IInv, NEW b \in Callbacks, store_wave(b), UNCHANGED intakeVars
  PROVE  IInv' /\ Grows
<1> DEFINE c == proc[b].rec
           m == proc[b].marks
<1>p. b \in Procs
  BY DEF Procs
<1>d. Documents
  BY TypeGivesDocuments DEF IInv
<1>w. Where(proc[b]) = "wave" /\ NotWaiting(b)
  BY DEF store_wave, At, Where, NotWaiting
<1>x. c \in RecordCopy /\ Knows("wave", c, m, record, change.plan, approval, deadTopic)
  BY <1>p, <1>w, CoroutineFacts DEF LocalInv
<1>o. OutsideStays
  BY DEF store_wave, OutsideStays
<1> DEFINE failed == WithStatus(b, "FAILED") \cap m # {}
           new == [c EXCEPT !.err = failed]
           w == IF failed THEN "rollback" ELSE "dag"
<1>1. update_record(b, new, w)
  BY DEF store_wave
<1>2. w \in {"rollback", "dag"} /\ failed \in BOOLEAN
  OBVIOUS
<1> HIDE DEF w, failed
<1>3. new \in RecordCopy /\ new.status = c.status /\ new.plan = c.plan /\ new.tasks = c.tasks
  BY <1>x, <1>2 DEF RecordCopy
<1> HIDE DEF new
<1>4. "wave" \notin Unread /\ "wave" \in Guarded /\ "wave" # "snapshots"
  BY DEF Unread, Ended, Guarded
<1>5. UpdateOK(b, new, w)
  <2>1. /\ \A s \in Steps : new.tasks[s].status = "SUCCEEDED" => s \in applied
        /\ \A s \in Steps : new.tasks[s].snap # "NONE"
        /\ c.version = record.version =>
             \A s \in Steps :
               /\ new.tasks[s].snap \in {"NONE", "old_field"}
               /\ record.tasks[s].snap # "NONE" => new.tasks[s].snap = record.tasks[s].snap
    BY <1>p, <1>w, <1>3, <1>4, CopyTasks
  <2> QED
    BY <1>2, <1>3, <1>x, <2>1
    DEF UpdateOK, Points, Ended, Drafting, Planned, Resumed, Guarded, Knows
<1> QED
  BY <1>p, <1>w, <1>o, <1>1, <1>4, <1>5, UpdateStep

\* store_rollback
LEMMA store_rollback_step ==
  ASSUME IInv, NEW b \in Callbacks, store_rollback(b), UNCHANGED intakeVars
  PROVE  IInv' /\ Grows
<1> DEFINE c == proc[b].rec
           m == proc[b].marks
<1>p. b \in Procs
  BY DEF Procs
<1>d. Documents
  BY TypeGivesDocuments DEF IInv
<1>w. Where(proc[b]) = "restore" /\ NotWaiting(b)
  BY <1>p, AtPoint DEF store_rollback
<1>k. Knows("restore", c, m, record, change.plan, approval, deadTopic)
  BY <1>p, <1>w, CoroutineFacts DEF LocalInv
<1>o. OutsideStays
  BY DEF store_rollback, OutsideStays
<1>x. c \in RecordCopy
  BY <1>p, CoroutineFacts
<1>1. update_record(b, c, "rolled_back")
  BY DEF store_rollback
<1>4. "restore" \notin Unread /\ "restore" \in Guarded /\ "restore" # "snapshots"
  BY DEF Unread, Ended, Guarded
<1>5. UpdateOK(b, c, "rolled_back")
  <2>1. /\ \A s \in Steps : c.tasks[s].status = "SUCCEEDED" => s \in applied
        /\ \A s \in Steps : c.tasks[s].snap # "NONE"
        /\ c.version = record.version =>
             \A s \in Steps :
               /\ c.tasks[s].snap \in {"NONE", "old_field"}
               /\ record.tasks[s].snap # "NONE" => c.tasks[s].snap = record.tasks[s].snap
    BY <1>p, <1>w, <1>4, CopyTasks
  <2> QED
    BY <1>x, <1>k, <2>1
    DEF UpdateOK, Points, Ended, Drafting, Planned, Resumed, Guarded, Knows
<1> QED
  BY <1>p, <1>w, <1>o, <1>1, <1>4, <1>5, UpdateStep

-----------------------------------------------------------------------------
(* Effects: steps that leave the documents alone.                          *)

\* A step that leaves the change, the record and the approval alone takes nothing back.
LEMMA EffectGrows ==
  ASSUME IInv, UNCHANGED <<change, record, approval, deadTopic>>, applied \subseteq applied'
  PROVE  Grows
  BY SameRecordGrows DEF Grows, ChangeGrows

\* The parts of the invariant that such a step has to show.
LEMMA EffectStep ==
  ASSUME IInv, TypeOK', UNCHANGED <<change, record, approval, deadTopic>>,
         applied \subseteq applied', Coroutines',
         AppliedInv(record, approval, applied'), SandboxInv', Calls', Waiting'
  PROVE  IInv' /\ Grows
<1>1. TaskInv(record, applied')
  BY DEF IInv, TaskInv
<1>2. PlanInv(record, change.plan, approval)
  BY DEF IInv
<1>3. PlanInv(record, change.plan, approval)' /\ TaskInv(record, applied)'
      /\ AppliedInv(record, approval, applied)'
  BY <1>1, <1>2
<1> QED
  BY <1>3, EffectGrows DEF IInv

\* A sandbox is restored, or not.
LEMMA RestoreStep ==
  ASSUME IInv, NEW p \in Procs, NotWaiting(p), NEW w, NEW c, NEW m, Lands(p, w, c, m),
         LocalInv(w, c, m, record, change.plan, approval, applied, deadTopic), NEW s \in Steps,
         config' = config \/ config' = [config EXCEPT ![s] = "old_field"],
         UNCHANGED <<change, record, approval, expired, applied, ledger, calls, late>>,
         UNCHANGED intakeVars
  PROVE  IInv' /\ Grows
<1>u. /\ change' = change /\ record' = record /\ approval' = approval /\ expired' = expired
      /\ event' = event /\ deadLetters' = deadLetters /\ deadTopic' = deadTopic /\ forwarded' = forwarded
      /\ applied' = applied /\ ledger' = ledger /\ calls' = calls /\ late' = late
  BY DEF intakeVars
<1>1. config' \in [Steps -> Configuration]
      /\ \A u \in Steps : config'[u] = "new_field" => config[u] = "new_field"
  BY DEF IInv, TypeOK, Configuration
<1>2. TypeOK'
  BY <1>u, <1>1 DEF IInv, TypeOK, Lands, OthersStay
<1>3. Documents'
  BY <1>2, TypeGivesDocuments, PTL
<1>4. Grows
  BY <1>u, EffectGrows
<1>5. Coroutines'
  <2>1. LocalInv(w, c, m, record', change'.plan, approval', applied', deadTopic')
    BY <1>u
  <2> QED
    BY <1>3, <1>4, <2>1, CoroutinesStep
<1>6. SandboxInv'
  BY <1>u, <1>1 DEF IInv, SandboxInv
<1>7. Calls' /\ Waiting' /\ AppliedInv(record, approval, applied)'
  BY <1>4, <1>u, GovernedStays, WaitingStays DEF Lands
<1> QED
  BY <1>2, <1>5, <1>6, <1>7, <1>u, EffectStep

\* TaskRestored only changes the status of a task.
LEMMA RestoredTrue ==
  ASSUME IInv, NEW p \in Procs, Where(proc[p]) \in Guarded, NEW s \in Steps,
         NEW status \in {"ROLLED_BACK", "ROLLBACK_FAILED"}, TaskRestored(p, s, status)
  PROVE  \E c2 : /\ Lands(p, "restore", c2, proc[p].marks \cup {s})
                 /\ LocalInv("restore", c2, proc[p].marks \cup {s},
                             record, change.plan, approval, applied, deadTopic)
<1> DEFINE c == proc[p].rec
           m == proc[p].marks
           x == [proc[p] EXCEPT !.rec.tasks[s].status = status]
           y == [x EXCEPT !.marks = m \cup {s}, !.pc = "restore"]
<1>d. proc \in [Procs -> Coroutine]
  BY DEF IInv, TypeOK
<1>x. proc[p] \in Coroutine /\ m \cup {s} \in SUBSET Steps
      /\ LocalInv(Where(proc[p]), c, m, record, change.plan, approval, applied, deadTopic)
  BY CoroutineFacts
<1>1. proc' = [proc EXCEPT ![p] = y]
  BY DEF TaskRestored
<1>t. status \in TaskStatus
  BY DEF TaskStatus
<1>2. /\ x \in Coroutine
      /\ \E task \in Task : /\ task.status = status /\ task.snap = c.tasks[s].snap
                            /\ EditedCopy(c, s, task, x.rec)
  BY <1>x, <1>t, StatusTaken
<1> HIDE DEF x
<1>3. PICK task \in Task : /\ task.status = status /\ task.snap = c.tasks[s].snap
                           /\ EditedCopy(c, s, task, x.rec)
  BY <1>2
<1>4. "restore" \in Points /\ "restore" # "transition" /\ "restore" \in Guarded
  BY DEF Points, Guarded
<1>5. y \in Coroutine /\ y.pc = "restore" /\ y.rec = x.rec /\ y.marks = m \cup {s}
  BY <1>2, <1>x, <1>4 DEF Coroutine
<1> HIDE DEF y
<1>6. Lands(p, "restore", x.rec, m \cup {s})
  BY <1>d, <1>1, <1>4, <1>5 DEF Lands, OthersStay, Where
<1>7. LocalInv("restore", x.rec, m \cup {s}, record, change.plan, approval, applied, deadTopic)
  <2>1. task.status # "SUCCEEDED"
    BY <1>3
  <2> QED
    BY <1>x, <1>3, <1>4, <2>1, EditTrue
<1> QED
  BY <1>6, <1>7

\* restore: the snapshot that is written back is of the old configuration.
LEMMA restore_step ==
  ASSUME IInv, NEW b \in Callbacks, NEW s \in Steps, restore(b, s), UNCHANGED intakeVars
  PROVE  IInv' /\ Grows
<1> DEFINE c == proc[b].rec
           m == proc[b].marks
<1>p. b \in Procs
  BY DEF Procs
<1>d. Documents
  BY TypeGivesDocuments DEF IInv
<1>w. Where(proc[b]) = "restore" /\ NotWaiting(b)
  BY <1>p, AtPoint DEF restore
<1>k. Knows("restore", c, m, record, change.plan, approval, deadTopic)
  BY <1>p, <1>w, CoroutineFacts DEF LocalInv
<1>g. Where(proc[b]) \in Guarded /\ "restored" \in Guarded
  BY <1>w DEF Guarded
<1>u. UNCHANGED <<change, record, approval, expired, applied, ledger, calls, late>>
  BY DEF restore
<1>c. config' = config \/ config' = [config EXCEPT ![s] = "old_field"]
  <2>1. c.tasks[s].snap = "old_field"
    BY <1>p, <1>g, GuardedSnapshots
  <2> QED
    BY <2>1 DEF restore, Tasks
<1>1. CASE Goto(b, "restored")
  <2>1. "restored" \in Points \ Ended /\ "restored" # "transition"
    BY DEF Points, Ended
  <2>2. Lands(b, "restored", c, m)
    BY <1>p, <1>d, <1>1, <2>1, GotoLands DEF Documents
  <2>3. LocalInv("restored", c, m, record, change.plan, approval, applied, deadTopic)
    BY <1>p, <1>g, CoroutineFacts, MarksTrue
  <2> QED
    BY <1>p, <1>w, <1>u, <1>c, <2>2, <2>3, RestoreStep
<1>2. CASE TaskRestored(b, s, "ROLLBACK_FAILED")
  <2>1. PICK c2 : /\ Lands(b, "restore", c2, m \cup {s})
                  /\ LocalInv("restore", c2, m \cup {s},
                              record, change.plan, approval, applied, deadTopic)
    BY <1>p, <1>g, <1>2, RestoredTrue
  <2> QED
    BY <1>p, <1>w, <1>u, <1>c, <2>1, RestoreStep
<1> QED
  BY <1>1, <1>2 DEF restore

\* check_restored: the restored configuration is read.
LEMMA check_restored_step ==
  ASSUME IInv, NEW b \in Callbacks, NEW s \in Steps, check_restored(b, s), UNCHANGED intakeVars
  PROVE  IInv' /\ Grows
<1> DEFINE c == proc[b].rec
           m == proc[b].marks
<1>p. b \in Procs
  BY DEF Procs
<1>d. Documents
  BY TypeGivesDocuments DEF IInv
<1>w. Where(proc[b]) = "restored" /\ NotWaiting(b)
  BY <1>p, AtPoint DEF check_restored
<1>k. Knows("restored", c, m, record, change.plan, approval, deadTopic)
  BY <1>p, <1>w, CoroutineFacts DEF LocalInv
<1>g. Where(proc[b]) \in Guarded
  BY <1>w DEF Guarded
<1>u. /\ UNCHANGED <<change, record, approval, expired, applied, ledger, calls, late>>
      /\ config' = config
  BY DEF check_restored, executionVars
<1>1. PICK status \in {"ROLLED_BACK", "ROLLBACK_FAILED"} : TaskRestored(b, s, status)
  BY DEF check_restored
<1>2. PICK c2 : /\ Lands(b, "restore", c2, m \cup {s})
                /\ LocalInv("restore", c2, m \cup {s},
                            record, change.plan, approval, applied, deadTopic)
  BY <1>p, <1>g, <1>1, RestoredTrue
<1> QED
  BY <1>p, <1>w, <1>u, <1>2, RestoreStep

-----------------------------------------------------------------------------
(* Tool calls.                                                             *)

\* The variables of TypeOK that a tool call does not touch.
CallFrame ==
  /\ UNCHANGED <<change, record, approval, expired>>
  /\ UNCHANGED intakeVars

\* The gateway's ledger says SUCCEEDED of applied steps only.
LedgerOK ==
  /\ ledger' \in [Steps -> {"NONE", "RESERVED", "SUCCEEDED", "FAILED"}]
  /\ \A s \in Steps : ledger'[s] = "SUCCEEDED" => s \in applied

\* It does when the ledger stays.
LEMMA LedgerStays ==
  ASSUME IInv, ledger' = ledger
  PROVE  LedgerOK
  BY DEF IInv, TypeOK, SandboxInv, LedgerOK

\* A new tool call of a callback in the guarded part.
LEMMA NewCallFacts ==
  ASSUME IInv, NEW b \in Callbacks, Where(proc[b]) \in Guarded, NEW s \in Steps,
         DependsOn[s] \subseteq applied, NEW n \in 1..MaxAttempts
  PROVE  /\ NewCall(b, s, n) \in Call
         /\ NewCall(b, s, n).by = b
         /\ CallInv(NewCall(b, s, n), record, approval, applied)
<1> DEFINE k == NewCall(b, s, n)
<1>p. b \in Procs
  BY DEF Procs
<1>1. proc[b].rec.plan \in Plans
  <2>1. proc[b].rec \in RecordCopy
        /\ Knows(Where(proc[b]), proc[b].rec, proc[b].marks, record, change.plan, approval, deadTopic)
    BY <1>p, CoroutineFacts DEF LocalInv
  <2> QED
    BY <2>1 DEF Knows, RecordCopy, Planned, Resumed
<1>2. record.tasks[s].snap = "old_field"
  BY <1>p, GuardedSnapshots
<1>3. k \in Call /\ k.by = b /\ k.step = s /\ k.stage = "policy"
  BY <1>1 DEF NewCall, Call, Stages
<1> HIDE DEF k
<1>4. CallInv(k, record, approval, applied)
  BY <1>2, <1>3 DEF CallInv
<1> QED
  BY <1>3, <1>4 DEF k

\* Only the tool calls and the ledger change, and one coroutine moves.
LEMMA CallsStep ==
  ASSUME IInv, CallFrame, UNCHANGED <<config, applied, late>>, LedgerOK,
         NEW p \in Procs, NEW w, NEW c, NEW m, Lands(p, w, c, m),
         LocalInv(w, c, m, record, change.plan, approval, applied, deadTopic),
         calls' \subseteq Call,
         \A k \in calls' : CallInv(k, record, approval, applied), Waiting'
  PROVE  IInv' /\ Grows
<1>u. /\ change' = change /\ record' = record /\ approval' = approval /\ expired' = expired
      /\ event' = event /\ deadLetters' = deadLetters /\ deadTopic' = deadTopic /\ forwarded' = forwarded
      /\ config' = config /\ applied' = applied /\ late' = late
  BY DEF CallFrame, intakeVars
<1>1. TypeOK'
  BY <1>u DEF IInv, TypeOK, Lands, OthersStay, LedgerOK
<1>2. Documents'
  BY <1>1, TypeGivesDocuments, PTL
<1>3. Grows
  BY <1>u, EffectGrows
<1>4. Coroutines'
  <2>1. LocalInv(w, c, m, record', change'.plan, approval', applied', deadTopic')
    BY <1>u
  <2> QED
    BY <1>2, <1>3, <2>1, CoroutinesStep
<1>5. SandboxInv'
  BY <1>u DEF IInv, SandboxInv, LedgerOK
<1>6. Calls' /\ AppliedInv(record, approval, applied')
  BY <1>u DEF Calls, IInv
<1> QED
  BY <1>1, <1>4, <1>5, <1>6, <1>u, EffectStep

\* execute_dag: a step is launched when everything it depends on is applied
\* and every snapshot is stored.
LEMMA execute_dag_step ==
  ASSUME IInv, NEW b \in Callbacks, execute_dag(b), UNCHANGED intakeVars
  PROVE  IInv' /\ Grows
<1> DEFINE c == proc[b].rec
           m == proc[b].marks
<1>p. b \in Procs
  BY DEF Procs
<1>d. Documents
  BY TypeGivesDocuments DEF IInv
<1>w. Where(proc[b]) = "dag" /\ NotWaiting(b)
  BY <1>p, AtPoint DEF execute_dag
<1>k. Knows("dag", c, m, record, change.plan, approval, deadTopic)
  BY <1>p, <1>w, CoroutineFacts DEF LocalInv
<1>g. Where(proc[b]) \in Guarded
  BY <1>w DEF Guarded
<1>f. CallFrame /\ UNCHANGED <<config, applied, ledger, late>>
  BY DEF execute_dag, CallFrame
<1>1. CASE /\ Ready(b) # {}
           /\ calls' = calls \cup {NewCall(b, s, 1) : s \in Ready(b)}
           /\ Enter(b, "wave", Ready(b))
  <2>1. Ready(b) \in SUBSET Steps /\ \A s \in Ready(b) : DependsOn[s] \subseteq applied
    <3>1. WithStatus(b, "SUCCEEDED") \subseteq applied
      BY <1>p, CoroutineFacts DEF WithStatus, Tasks, LocalInv, Snapshots
    <3> QED
      BY <3>1 DEF Ready, WithStatus
  <2>2. "wave" \in Points /\ "wave" # "transition" /\ "wave" \in Guarded
    BY DEF Points, Guarded
  <2>3. Lands(b, "wave", c, Ready(b)) /\ proc'[b].pc = "wave"
    <3>1. Lands(b, "wave", c, Ready(b))
      BY <1>p, <1>d, <1>1, <2>1, <2>2, EnterLands DEF Documents
    <3> QED
      BY <1>p, <1>d, <1>1, <3>1 DEF Enter, Documents, Coroutine
  <2>4. LocalInv("wave", c, Ready(b), record, change.plan, approval, applied, deadTopic)
    BY <1>p, <1>g, <2>2, CoroutineFacts, MarksTrue
  <2>5. \A k \in calls' : k \in calls \/ (\E s \in Ready(b) : k = NewCall(b, s, 1))
    BY <1>1
  <2>6. 1 \in 1..MaxAttempts
    BY MaxAttemptsAssumption
  <2>7. \A s \in Ready(b) : /\ NewCall(b, s, 1) \in Call /\ NewCall(b, s, 1).by = b
                            /\ CallInv(NewCall(b, s, 1), record, approval, applied)
    BY <1>g, <2>1, <2>6, NewCallFacts
  <2>8. calls' \subseteq Call /\ \A k \in calls' : CallInv(k, record, approval, applied)
    BY <2>5, <2>7 DEF IInv, TypeOK, Calls
  <2>9. Waiting'
    <3> SUFFICES ASSUME NEW k \in calls', k.waited PROVE proc'[k.by].pc = "wave"
      BY DEF Waiting
    <3>1. CASE k \in calls
      <4>1. k.by # b /\ k.by \in Procs /\ proc[k.by].pc = "wave"
        BY <1>w, <3>1 DEF NotWaiting, IInv, Waiting, TypeOK, Call, Procs
      <4> QED
        BY <2>3, <4>1 DEF Lands, OthersStay
    <3>2. CASE k \notin calls
      BY <2>3, <2>5, <2>7, <3>2
    <3> QED
      BY <3>1, <3>2
  <2> QED
    BY <1>p, <1>f, <2>3, <2>4, <2>8, <2>9, LedgerStays, CallsStep
<1>s. ASSUME calls' = calls PROVE Still /\ deadTopic' = deadTopic
  <2>1. UNCHANGED <<change, record, approval, expired>> /\ OutsideStays
    BY <1>s, <1>f DEF CallFrame, OutsideStays, executionVars
  <2> QED
    BY <2>1, StoreStays
<1>2. CASE Goto(b, "failed") /\ calls' = calls
  <2>1. "failed" \in Ended \ {"acked"}
    BY DEF Ended
  <2> QED
    BY <1>p, <1>w, <1>s, <1>2, <2>1, EndStep
<1>3. CASE /\ Enter(b, IF WithStatus(b, "FAILED") # {} THEN "rollback" ELSE "executed", {})
           /\ calls' = calls
  <2> DEFINE w == IF WithStatus(b, "FAILED") # {} THEN "rollback" ELSE "executed"
  <2>1. w \in Points /\ w # "transition" /\ w \in Guarded
    BY DEF Points, Guarded
  <2>2. Enter(b, w, {}) /\ {} \in SUBSET Steps
    BY <1>3
  <2> HIDE DEF w
  <2>3. Lands(b, w, c, {})
    BY <1>p, <1>d, <2>1, <2>2, EnterLands DEF Documents
  <2> QED
    BY <1>p, <1>w, <1>s, <1>g, <1>3, <2>1, <2>3, LoopStep
<1> QED
  BY <1>1, <1>2, <1>3 DEF execute_dag

\* callback_crash: nobody waits for the calls it leaves behind.
LEMMA callback_crash_step ==
  ASSUME IInv, NEW b \in Callbacks, callback_crash(b), UNCHANGED intakeVars
  PROVE  IInv' /\ Grows
<1> DEFINE c == proc[b].rec
           m == proc[b].marks
<1>p. b \in Procs
  BY DEF Procs
<1>d. Documents
  BY TypeGivesDocuments DEF IInv
<1>f. CallFrame /\ UNCHANGED <<config, applied, ledger, late>>
  BY DEF callback_crash, CallFrame
<1>1. Goto(b, "failed")
      /\ calls' = {IF k.by = b THEN [k EXCEPT !.waited = FALSE] ELSE k : k \in calls}
  BY DEF callback_crash
<1>2. "failed" \in Ended /\ "failed" \in Points /\ "failed" # "transition" /\ "failed" # "acked"
  BY DEF Ended, Points
<1>3. Lands(b, "failed", NoRecord, {})
  BY <1>p, <1>d, <1>1, <1>2, GotoLands DEF Documents
<1>4. LocalInv("failed", NoRecord, {}, record, change.plan, approval, applied, deadTopic)
  BY <1>d, <1>2, EndsTrue DEF Documents
<1>5. \A k \in calls : [k EXCEPT !.waited = FALSE] \in Call
         /\ [k EXCEPT !.waited = FALSE].step = k.step /\ [k EXCEPT !.waited = FALSE].by = k.by
         /\ [k EXCEPT !.waited = FALSE].stage = k.stage /\ ~[k EXCEPT !.waited = FALSE].waited
  BY DEF IInv, TypeOK, Call
<1>6. ASSUME NEW k2 \in calls'
      PROVE  \E k \in calls : /\ k2 \in Call
                              /\ k2.step = k.step /\ k2.stage = k.stage /\ k2.by = k.by
                              /\ k2.waited => k.waited /\ k.by # b
  <2>1. PICK k \in calls : k2 = IF k.by = b THEN [k EXCEPT !.waited = FALSE] ELSE k
    BY <1>1
  <2>2. CASE k.by = b
    BY <1>5, <2>1, <2>2
  <2>3. CASE k.by # b
    BY <2>1, <2>3 DEF IInv, TypeOK
  <2> QED
    BY <2>2, <2>3
<1>7. calls' \subseteq Call /\ \A k \in calls' : CallInv(k, record, approval, applied)
  BY <1>6 DEF IInv, Calls, CallInv
<1>8. Waiting'
  <2> SUFFICES ASSUME NEW k2 \in calls', k2.waited PROVE proc'[k2.by].pc = "wave"
    BY DEF Waiting
  <2>1. PICK k \in calls : k2.by = k.by /\ k.waited /\ k.by # b
    BY <1>6
  <2>2. k.by \in Procs /\ proc[k.by].pc = "wave"
    BY <2>1 DEF IInv, Waiting, TypeOK, Call, Procs
  <2> QED
    BY <1>3, <2>1, <2>2 DEF Lands, OthersStay
<1> QED
  BY <1>p, <1>f, <1>3, <1>4, <1>7, <1>8, LedgerStays, CallsStep

\* A coroutine that stays where it is.
LEMMA StayLands ==
  ASSUME IInv, proc' = proc, NEW p \in Procs
  PROVE  Lands(p, Where(proc[p]), proc[p].rec, proc[p].marks)
<1>1. proc[p].pc = "transition" => Transition(proc[p])
  BY DEF IInv, Coroutines, CoroutineInv
<1> QED
  BY <1>1 DEF Lands, OthersStay, IInv, TypeOK

\* _execute_task gets the outcome of its call: the task's status, or a retry.
LEMMA OutcomeStep ==
  ASSUME IInv, CallFrame, UNCHANGED <<config, applied, late>>, LedgerOK,
         NEW k \in calls, NEW outcome, NEW rest, TaskOutcome(k, outcome, rest),
         outcome = "ok" => k.step \in applied,
         rest \subseteq (calls \ {k}) \cup {[k EXCEPT !.waited = FALSE]}
  PROVE  IInv' /\ Grows
<1> DEFINE p == k.by
           c == proc[p].rec
           m == proc[p].marks
           k0 == [k EXCEPT !.waited = FALSE]
           retry == k.waited /\ outcome = "transient" /\ k.n < MaxAttempts
<1>k. k \in Call /\ CallInv(k, record, approval, applied)
  BY DEF IInv, TypeOK, Calls
<1>t. p \in Callbacks /\ p \in Procs /\ k.step \in Steps /\ k.n \in 1..MaxAttempts
  BY <1>k DEF Call, Procs
<1>d. proc \in [Procs -> Coroutine]
  BY DEF IInv, TypeOK
<1>w. k.waited => proc[p].pc = "wave" /\ Where(proc[p]) = "wave" /\ "wave" \in Guarded
  BY DEF IInv, Waiting, Where, Guarded
<1>x. proc[p] \in Coroutine
      /\ LocalInv(Where(proc[p]), c, m, record, change.plan, approval, applied, deadTopic)
  BY <1>t, CoroutineFacts
<1>0. k0 \in Call /\ ~k0.waited /\ CallInv(k0, record, approval, applied)
  <2>1. k0 \in Call /\ ~k0.waited /\ k0.step = k.step /\ k0.stage = k.stage
    BY <1>k DEF Call
  <2> QED
    BY <1>k, <2>1 DEF CallInv
<1>1. \A k2 \in calls' : \/ k2 \in calls \/ k2 = k0
                         \/ (retry /\ k2 = NewCall(p, k.step, k.n + 1))
  BY DEF TaskOutcome
<1>2. retry => /\ NewCall(p, k.step, k.n + 1) \in Call /\ NewCall(p, k.step, k.n + 1).by = p
               /\ CallInv(NewCall(p, k.step, k.n + 1), record, approval, applied)
  <2> SUFFICES ASSUME retry
               PROVE /\ NewCall(p, k.step, k.n + 1) \in Call /\ NewCall(p, k.step, k.n + 1).by = p
                     /\ CallInv(NewCall(p, k.step, k.n + 1), record, approval, applied)
    OBVIOUS
  <2>1. k.n + 1 \in 1..MaxAttempts
    BY <1>t, MaxAttemptsAssumption
  <2>2. DependsOn[k.step] \subseteq applied
    BY <1>k DEF CallInv
  <2> QED
    BY <1>t, <1>w, <2>1, <2>2, NewCallFacts
<1>3. calls' \subseteq Call /\ \A k2 \in calls' : CallInv(k2, record, approval, applied)
  <2> HIDE DEF k0, retry
  <2> QED BY <1>0, <1>1, <1>2 DEF IInv, TypeOK, Calls
<1>4. ASSUME \A q \in Procs : proc'[q].pc = proc[q].pc
      PROVE  Waiting'
  <2> SUFFICES ASSUME NEW k2 \in calls', k2.waited PROVE proc'[k2.by].pc = "wave"
    BY DEF Waiting
  <2>1. CASE k2 \in calls
    <3>1. k2.by \in Procs /\ proc[k2.by].pc = "wave"
      BY <2>1 DEF IInv, Waiting, TypeOK, Call, Procs
    <3> QED
      BY <1>4, <3>1
  <2>2. CASE retry /\ k2 = NewCall(p, k.step, k.n + 1)
    <3>1. k2.by = p
      BY <1>2, <2>2
    <3> QED
      BY <1>4, <1>t, <1>w, <2>2, <3>1
  <2>3. k2 # k0
    BY <1>0
  <2> HIDE DEF k0, retry
  <2> QED
    BY <1>1, <2>1, <2>2, <2>3
<1>5. CASE k.waited /\ ~retry
  <2> DEFINE status == IF outcome = "ok" THEN "SUCCEEDED" ELSE "FAILED"
             y == [proc[p] EXCEPT !.rec.tasks[k.step].status = status]
  <2>1. proc' = [proc EXCEPT ![p] = y]
    BY <1>5 DEF TaskOutcome
  <2>2. status \in TaskStatus /\ (status = "SUCCEEDED" => k.step \in applied)
    BY DEF TaskStatus
  <2> HIDE DEF status
  <2>3. /\ y \in Coroutine /\ y.pc = proc[p].pc /\ y.marks = m
        /\ \E task \in Task : /\ task.status = status /\ task.snap = c.tasks[k.step].snap
                              /\ EditedCopy(c, k.step, task, y.rec)
    BY <1>x, <1>t, <2>2, StatusTaken
  <2> HIDE DEF y
  <2>4. PICK task \in Task : /\ task.status = status /\ task.snap = c.tasks[k.step].snap
                             /\ EditedCopy(c, k.step, task, y.rec)
    BY <2>3
  <2>5. LocalInv("wave", y.rec, m, record, change.plan, approval, applied, deadTopic)
    BY <1>5, <1>w, <1>t, <1>x, <2>2, <2>4, EditTrue
  <2>6. proc' \in [Procs -> Coroutine] /\ proc'[p] = y
        /\ \A q \in Procs : q # p => proc'[q] = proc[q]
    BY <1>d, <1>t, <2>1, <2>3
  <2>7. y.pc = "wave"
    BY <1>5, <1>w, <2>3
  <2>8. Lands(p, "wave", y.rec, m)
    BY <2>3, <2>6, <2>7 DEF Lands, OthersStay, Where
  <2>9. \A q \in Procs : proc'[q].pc = proc[q].pc
    BY <2>3, <2>6
  <2>10. Waiting'
    BY <1>4, <2>9
  <2> QED
    BY <1>t, <1>3, <2>5, <2>8, <2>10, CallsStep
<1>6. CASE proc' = proc
  <2>1. Lands(p, Where(proc[p]), c, m)
    BY <1>t, <1>6, StayLands
  <2>2. Waiting'
    BY <1>4, <1>6
  <2> QED
    BY <1>t, <1>x, <1>3, <2>1, <2>2, CallsStep
<1> QED
  BY <1>5, <1>6 DEF TaskOutcome

\* An answer of the gateway that leaves nothing behind.
LEMMA AnswerStep ==
  ASSUME IInv, CallFrame, UNCHANGED <<config, applied, late>>, LedgerOK,
         NEW k \in calls, NEW outcome, Answer(k, outcome), outcome = "ok" => k.step \in applied
  PROVE  IInv' /\ Grows
<1>1. TaskOutcome(k, outcome, calls \ {k})
  BY DEF Answer
<1>2. calls \ {k} \subseteq (calls \ {k}) \cup {[k EXCEPT !.waited = FALSE]}
  OBVIOUS
<1> QED
  BY <1>1, <1>2, OutcomeStep

\* The gateway takes a request one stage further.
LEMMA AdvanceStep ==
  ASSUME IInv, CallFrame, proc' = proc, NEW k \in calls, NEW stage \in Stages, Advance(k, stage),
         config' \in [Steps -> Configuration],
         ledger' \in [Steps -> {"NONE", "RESERVED", "SUCCEEDED", "FAILED"}],
         applied' \subseteq Steps, late' \subseteq Steps, applied \subseteq applied',
         SandboxInv', AppliedInv(record, approval, applied'),
         stage # "policy" => approval.status = "APPROVED", stage = "complete" => k.step \in applied'
  PROVE  IInv' /\ Grows
<1> DEFINE k1 == [k EXCEPT !.stage = stage]
<1>u. /\ change' = change /\ record' = record /\ approval' = approval /\ expired' = expired
      /\ event' = event /\ deadLetters' = deadLetters /\ deadTopic' = deadTopic /\ forwarded' = forwarded
  BY DEF CallFrame, intakeVars
<1>k. calls \subseteq Call /\ \A k2 \in calls : CallInv(k2, record, approval, applied)
  BY DEF IInv, TypeOK, Calls
<1>1. k1 \in Call /\ k1.by = k.by /\ k1.step = k.step /\ k1.waited = k.waited /\ k1.stage = stage
  BY <1>k DEF Call
<1>2. calls' \subseteq calls \cup {k1}
  BY DEF Advance
<1> HIDE DEF k1
<1>3. TypeOK'
  BY <1>u, <1>k, <1>1, <1>2 DEF IInv, TypeOK
<1>4. Documents'
  BY <1>3, TypeGivesDocuments, PTL
<1>5. Grows
  BY <1>u, EffectGrows
<1>6. Coroutines'
  BY <1>4, <1>5, CoroutinesStay
<1>7. CallInv(k1, record, approval, applied')
  BY <1>k, <1>1 DEF CallInv
<1>8. \A k2 \in calls : CallInv(k2, record, approval, applied')
  BY <1>k DEF CallInv
<1>9. Calls'
  BY <1>u, <1>2, <1>7, <1>8 DEF Calls
<1>10. Waiting'
  BY <1>1, <1>2 DEF Waiting, IInv
<1> QED
  BY <1>3, <1>5, <1>6, <1>9, <1>10, <1>u, EffectStep

\* evaluate_policy: what passes has been approved.
LEMMA evaluate_policy_step ==
  ASSUME IInv, NEW k \in calls, evaluate_policy(k), UNCHANGED intakeVars
  PROVE  IInv' /\ Grows
<1>f. CallFrame /\ UNCHANGED <<config, applied, ledger, late>>
  BY DEF evaluate_policy, CallFrame
<1>1. CASE PolicyAllows(k) /\ Advance(k, "reserve") /\ proc' = proc
  <2>1. approval.status = "APPROVED" /\ "reserve" \in Stages
    BY <1>1 DEF PolicyAllows, Stages
  <2>2. /\ config' \in [Steps -> Configuration] /\ applied' \subseteq Steps /\ late' \subseteq Steps
        /\ ledger' \in [Steps -> {"NONE", "RESERVED", "SUCCEEDED", "FAILED"}]
        /\ SandboxInv' /\ AppliedInv(record, approval, applied') /\ applied \subseteq applied'
    BY <1>f DEF IInv, TypeOK, SandboxInv
  <2> QED
    BY <1>f, <1>1, <2>1, <2>2, AdvanceStep
<1>2. CASE Answer(k, "permanent")
  BY <1>f, <1>2, LedgerStays, AnswerStep
<1> QED
  BY <1>1, <1>2 DEF evaluate_policy

\* What a stage says of its request.
LEMMA StageFacts ==
  ASSUME IInv, NEW k \in calls
  PROVE  /\ k \in Call /\ k.step \in Steps
         /\ k.stage # "policy" => approval.status = "APPROVED"
         /\ k.stage = "complete" => k.step \in applied
         /\ DependsOn[k.step] \subseteq applied
         /\ record.tasks[k.step].snap = "old_field"
  BY DEF IInv, TypeOK, Call, Calls, CallInv

\* reserve_execution: a replayed success was applied before.
LEMMA reserve_execution_step ==
  ASSUME IInv, NEW k \in calls, reserve_execution(k), UNCHANGED intakeVars
  PROVE  IInv' /\ Grows
<1>f. CallFrame /\ UNCHANGED <<config, applied, late>>
  BY DEF reserve_execution, CallFrame
<1>k. k.step \in Steps /\ approval.status = "APPROVED"
  BY StageFacts DEF reserve_execution, At_stage
<1>1. CASE ledger[k.step] = "SUCCEEDED" /\ Answer(k, "ok") /\ ledger' = ledger
  <2>1. k.step \in applied
    BY <1>1, <1>k DEF IInv, SandboxInv
  <2> QED
    BY <1>f, <1>1, <2>1, LedgerStays, AnswerStep
<1>2. CASE Answer(k, "permanent") /\ ledger' = ledger
  BY <1>f, <1>2, LedgerStays, AnswerStep
<1>3. CASE /\ ledger' = [ledger EXCEPT ![k.step] = "RESERVED"]
           /\ Advance(k, "apply") /\ proc' = proc
  <2>1. "apply" \in Stages
    BY DEF Stages
  <2>2. /\ config' \in [Steps -> Configuration] /\ applied' \subseteq Steps /\ late' \subseteq Steps
        /\ AppliedInv(record, approval, applied') /\ applied \subseteq applied'
    BY <1>f DEF IInv, TypeOK
  <2>3. /\ ledger' \in [Steps -> {"NONE", "RESERVED", "SUCCEEDED", "FAILED"}]
        /\ \A s \in Steps : ledger'[s] = "SUCCEEDED" => ledger[s] = "SUCCEEDED"
    BY <1>3 DEF IInv, TypeOK
  <2>4. SandboxInv'
    BY <1>f, <2>3 DEF IInv, SandboxInv
  <2> QED
    BY <1>f, <1>k, <1>3, <2>1, <2>2, <2>3, <2>4, AdvanceStep
<1>4. CASE Answer(k, "transient") /\ ledger' = ledger
  BY <1>f, <1>4, LedgerStays, AnswerStep
<1> QED
  BY <1>1, <1>2, <1>3, <1>4 DEF reserve_execution

\* apply_patch: the request was approved, in order and after its snapshot.
LEMMA apply_patch_step ==
  ASSUME IInv, NEW k \in calls, apply_patch(k), UNCHANGED intakeVars
  PROVE  IInv' /\ Grows
<1>f. CallFrame /\ proc' = proc /\ ledger' = ledger
  BY DEF apply_patch, CallFrame
<1>k. /\ k.step \in Steps /\ approval.status = "APPROVED"
      /\ DependsOn[k.step] \subseteq applied /\ record.tasks[k.step].snap = "old_field"
  BY StageFacts DEF apply_patch, At_stage
<1>s. "complete" \in Stages /\ "fail" \in Stages
  BY DEF Stages
<1>l. ledger' \in [Steps -> {"NONE", "RESERVED", "SUCCEEDED", "FAILED"}]
  BY <1>f DEF IInv, TypeOK
<1>1. CASE /\ config' = IF k.step \in applied THEN config
                        ELSE [config EXCEPT ![k.step] = "new_field"]
           /\ applied' = applied \cup {k.step}
           /\ late' = IF k.step \in applied \/ change.status = "EXECUTING"
                        THEN late ELSE late \cup {k.step}
           /\ Advance(k, "complete") \/ Advance(k, "fail")
  <2>1. /\ config' \in [Steps -> Configuration]
        /\ \A s \in Steps : config'[s] = "new_field" => config[s] = "new_field" \/ s = k.step
    BY <1>1, <1>k DEF IInv, TypeOK, Configuration
  <2>2. applied' \subseteq Steps /\ applied \subseteq applied' /\ k.step \in applied'
        /\ late' \subseteq Steps
    BY <1>1, <1>k DEF IInv, TypeOK
  <2>3. SandboxInv'
    BY <1>f, <2>1, <2>2 DEF IInv, SandboxInv
  <2>4. AppliedInv(record, approval, applied')
    BY <1>1, <1>k DEF IInv, AppliedInv
  <2> QED
    BY <1>f, <1>k, <1>s, <1>l, <1>1, <2>1, <2>2, <2>3, <2>4, AdvanceStep
<1>2. CASE Advance(k, "fail") /\ UNCHANGED <<config, applied, late>>
  <2>1. /\ config' \in [Steps -> Configuration] /\ applied' \subseteq Steps /\ late' \subseteq Steps
        /\ SandboxInv' /\ AppliedInv(record, approval, applied') /\ applied \subseteq applied'
    BY <1>f, <1>2 DEF IInv, TypeOK, SandboxInv
  <2> QED
    BY <1>f, <1>k, <1>s, <1>l, <1>2, <2>1, AdvanceStep
<1> QED
  BY <1>1, <1>2 DEF apply_patch

\* complete_execution: what is completed was applied.
LEMMA complete_execution_step ==
  ASSUME IInv, NEW k \in calls, complete_execution(k), UNCHANGED intakeVars
  PROVE  IInv' /\ Grows
<1>f. CallFrame /\ UNCHANGED <<config, applied, late>>
  BY DEF complete_execution, CallFrame
<1>k. k.step \in Steps /\ k.step \in applied
  BY StageFacts DEF complete_execution, At_stage
<1>1. CASE ledger' = [ledger EXCEPT ![k.step] = "SUCCEEDED"] /\ Answer(k, "ok")
  <2>1. LedgerOK
    BY <1>1, <1>k DEF IInv, TypeOK, SandboxInv, LedgerOK
  <2> QED
    BY <1>f, <1>k, <1>1, <2>1, AnswerStep
<1>2. CASE Answer(k, "permanent") /\ ledger' = ledger
  BY <1>f, <1>2, LedgerStays, AnswerStep
<1> QED
  BY <1>1, <1>2 DEF complete_execution

\* fail_execution: the reservation is given back.
LEMMA fail_execution_step ==
  ASSUME IInv, NEW k \in calls, fail_execution(k), UNCHANGED intakeVars
  PROVE  IInv' /\ Grows
<1>f. CallFrame /\ UNCHANGED <<config, applied, late>>
  BY DEF fail_execution, CallFrame
<1>k. k.step \in Steps
  BY StageFacts DEF fail_execution, At_stage
<1>1. CASE ledger' = [ledger EXCEPT ![k.step] = "FAILED"] /\ Answer(k, "transient")
  <2>1. LedgerOK
    BY <1>1, <1>k DEF IInv, TypeOK, SandboxInv, LedgerOK
  <2> QED
    BY <1>f, <1>k, <1>1, <2>1, AnswerStep
<1>2. CASE Answer(k, "permanent") /\ ledger' = ledger
  BY <1>f, <1>2, LedgerStays, AnswerStep
<1> QED
  BY <1>1, <1>2 DEF fail_execution

\* worker_crash: the reservation stays behind.
LEMMA worker_crash_step ==
  ASSUME IInv, NEW k \in calls, worker_crash(k), UNCHANGED intakeVars
  PROVE  IInv' /\ Grows
<1>f. CallFrame /\ UNCHANGED <<config, applied, ledger, late>>
  BY DEF worker_crash, CallFrame
<1> QED
  BY <1>f, LedgerStays, AnswerStep DEF worker_crash

\* client_timeout: the request goes on, and its answer will not be waited for.
LEMMA client_timeout_step ==
  ASSUME IInv, NEW k \in calls, client_timeout(k), UNCHANGED intakeVars
  PROVE  IInv' /\ Grows
<1>f. CallFrame /\ UNCHANGED <<config, applied, ledger, late>>
  BY DEF client_timeout, CallFrame
<1> DEFINE rest == (calls \ {k}) \cup {[k EXCEPT !.waited = FALSE]}
<1>1. TaskOutcome(k, "transient", rest)
  BY DEF client_timeout
<1>2. rest \subseteq (calls \ {k}) \cup {[k EXCEPT !.waited = FALSE]}
  OBVIOUS
<1> HIDE DEF rest
<1> QED
  BY <1>f, <1>1, <1>2, LedgerStays, OutcomeStep

-----------------------------------------------------------------------------
(* Every step.                                                             *)

\* Every step of resume_approval.
LEMMA ResumeStep ==
  ASSUME IInv, NEW b \in Callbacks, resume_approval(b), UNCHANGED intakeVars
  PROVE  IInv' /\ Grows
<1>1. CASE get_change(b)
  BY <1>1, get_change_step
<1>2. CASE resume_record(b)
  BY <1>2, resume_record_step
<1>3. CASE follow_decision(b)
  BY <1>3, follow_decision_step
<1>4. CASE finish_rejected(b)
  BY <1>4, finish_rejected_step
<1>5. CASE finish_changes_requested(b)
  BY <1>5, finish_changes_requested_step
<1>6. CASE mark_executing(b)
  BY <1>6, mark_executing_step
<1>7. CASE store_snapshots(b)
  BY <1>7, store_snapshots_step
<1>8. CASE execute_dag(b)
  BY <1>8, execute_dag_step
<1>9. CASE store_wave(b)
  BY <1>9, store_wave_step
<1>10. CASE start_verifying(b)
  BY <1>10, start_verifying_step
<1>11. CASE mark_verifying(b)
  BY <1>11, mark_verifying_step
<1>12. CASE start_completing(b)
  BY <1>12, start_completing_step
<1>13. CASE finish_completed(b)
  BY <1>13, finish_completed_step
<1>14. CASE read_for_rollback(b)
  BY <1>14, read_for_rollback_step
<1>15. CASE start_rollback(b)
  BY <1>15, start_rollback_step
<1>16. CASE mark_rolling_back(b)
  BY <1>16, mark_rolling_back_step
<1>17. CASE store_rollback(b)
  BY <1>17, store_rollback_step
<1>18. CASE end_rollback(b)
  BY <1>18, end_rollback_step
<1>19. CASE finish_rolled_back(b)
  BY <1>19, finish_rolled_back_step
<1>20. ASSUME NEW s \in Steps, capture_snapshot(b, s) PROVE IInv' /\ Grows
  BY <1>20, capture_snapshot_step
<1>21. ASSUME NEW s \in Steps, verify_task(b, s) PROVE IInv' /\ Grows
  BY <1>21, verify_task_step
<1>22. ASSUME NEW s \in Steps, restore(b, s) PROVE IInv' /\ Grows
  BY <1>22, restore_step
<1>23. ASSUME NEW s \in Steps, check_restored(b, s) PROVE IInv' /\ Grows
  BY <1>23, check_restored_step
<1>24. CASE transition(b) /\ UNCHANGED executionVars
  <2>1. b \in Procs /\ OutsideStays
    BY <1>24 DEF Procs, OutsideStays
  <2> QED
    BY <1>24, <2>1, TransitionStep
<1> QED
  BY <1>1, <1>2, <1>3, <1>4, <1>5, <1>6, <1>7, <1>8, <1>9, <1>10, <1>11,
     <1>12, <1>13, <1>14, <1>15, <1>16, <1>17, <1>18, <1>19, <1>20, <1>21,
     <1>22, <1>23, <1>24
  DEF resume_approval

\* Every step of the approval side.
LEMMA ExecutionStep ==
  ASSUME IInv, ExecutionNext, UNCHANGED intakeVars
  PROVE  IInv' /\ Grows
<1>1. ASSUME NEW decision \in DOMAIN Path, decide_approval(decision) PROVE IInv' /\ Grows
  BY <1>1, decide_approval_step
<1>2. CASE expire
  BY <1>2, expire_step
<1>3. ASSUME NEW b \in Callbacks, notify(b) \/ resume_approval(b) \/ callback_crash(b)
      PROVE  IInv' /\ Grows
  BY <1>3, notify_step, ResumeStep, callback_crash_step
<1>4. ASSUME NEW k \in calls, gateway_request(k) \/ client_timeout(k) \/ worker_crash(k)
      PROVE  IInv' /\ Grows
  <2>1. CASE gateway_request(k)
    BY <2>1, evaluate_policy_step, reserve_execution_step, apply_patch_step,
       complete_execution_step, fail_execution_step DEF gateway_request
  <2> QED
    BY <1>4, <2>1, client_timeout_step, worker_crash_step
<1> QED
  BY <1>1, <1>2, <1>3, <1>4 DEF ExecutionNext

\* A step keeps the invariant and takes nothing back; neither does one that
\* changes nothing.
LEMMA NextStep ==
  ASSUME IInv, [Next]_vars
  PROVE  IInv' /\ Grows
<1>1. CASE IntakeNext /\ UNCHANGED executionVars
  BY <1>1, IntakeStep
<1>2. CASE ExecutionNext /\ UNCHANGED intakeVars
  BY <1>2, ExecutionStep
<1>3. CASE /\ \E target \in UserTargets : user_transition(target)
           /\ UNCHANGED <<intakeVars, executionVars>>
  <2>1. OutsideStays
    BY <1>3 DEF OutsideStays
  <2> QED
    BY <1>3, <2>1, user_transition_step
<1>4. CASE UNCHANGED vars
  <2>u. /\ change' = change /\ record' = record /\ approval' = approval /\ expired' = expired
        /\ proc' = proc
        /\ event' = event /\ deadLetters' = deadLetters /\ deadTopic' = deadTopic /\ forwarded' = forwarded
        /\ config' = config /\ applied' = applied /\ ledger' = ledger /\ calls' = calls /\ late' = late
    BY <1>4 DEF vars, storeVars, intakeVars, executionVars
  <2>1. TypeOK'
    BY <2>u DEF IInv, TypeOK
  <2>2. Grows
    BY <2>u, EffectGrows
  <2>3. PlanInv(record', change'.plan, approval')
    BY <2>u DEF IInv
  <2> QED
    BY <2>u, <2>1, <2>2, <2>3, NobodyMoves
<1> QED
  BY <1>1, <1>2, <1>3, <1>4 DEF Next

\* The invariant holds before the event is delivered.
LEMMA InitIInv ==
  ASSUME Init
  PROVE  IInv
<1>i. /\ change = NoChange /\ record = NoRecord /\ approval = NoApproval /\ expired = FALSE
      /\ proc = [p \in Procs |-> Idle]
      /\ event \in Events /\ deadLetters = FALSE /\ deadTopic = 0 /\ forwarded = FALSE
      /\ config = [s \in Steps |-> "old_field"] /\ applied = {}
      /\ ledger = [s \in Steps |-> "NONE"] /\ calls = {} /\ late = {}
  BY DEF Init, StoreInit, IntakeInit, ExecutionInit
<1>e. "idle" \in Points /\ "idle" \in Ended /\ "idle" # "acked" /\ "idle" # "transition"
  BY DEF Points, Ended
<1>1. /\ Idle \in Coroutine /\ Idle.pc = "idle" /\ Idle.rec = NoRecord /\ Idle.marks = {}
  <2>1. Idle = [Idle EXCEPT !.pc = "idle"]
    BY DEF Idle
  <2> QED
    BY <1>e, <2>1, IdleFacts
<1>2. TypeOK
  <2>1. proc \in [Procs -> Coroutine]
    BY <1>i, <1>1
  <2>2. config \in [Steps -> Configuration]
        /\ ledger \in [Steps -> {"NONE", "RESERVED", "SUCCEEDED", "FAILED"}]
    BY <1>i DEF Configuration
  <2> QED
    BY <1>i, <2>1, <2>2 DEF TypeOK
<1>d. Documents
  BY <1>2, TypeGivesDocuments
<1>3. PlanInv(record, change.plan, approval)
  BY <1>i, NoRecordFacts DEF PlanInv, NoChange, NoApproval, UnderWay
<1>4. TaskInv(record, applied)
  BY <1>i, NoRecordFacts DEF TaskInv
<1>5. AppliedInv(record, approval, applied)
  BY <1>i DEF AppliedInv
<1>6. SandboxInv
  BY <1>i DEF SandboxInv
<1>7. Coroutines
  <2> SUFFICES ASSUME NEW p \in Procs
               PROVE CoroutineInv(proc[p], record, change.plan, approval, applied, deadTopic)
    BY DEF Coroutines
  <2>1. proc[p] = Idle
    BY <1>i
  <2>2. LocalInv("idle", NoRecord, {}, record, change.plan, approval, applied, deadTopic)
    BY <1>d, <1>e, EndsTrue DEF Documents
  <2> QED
    BY <1>1, <1>e, <2>1, <2>2 DEF CoroutineInv, Where
<1>8. Calls /\ Waiting
  BY <1>i DEF Calls, Waiting
<1> QED
  BY <1>2, <1>3, <1>4, <1>5, <1>6, <1>7, <1>8 DEF IInv

-----------------------------------------------------------------------------
(* The results.                                                            *)

\* The inductive invariant: whatever deliveries, callbacks, tool calls, users
\* and crashes do, a coroutine's copy of the record is worth what Sync and
\* Snapshots say, and it knows where it is what Knows says.
THEOREM Invariant == Spec => []IInv
<1>1. Init => IInv
  BY InitIInv
<1>2. IInv /\ [Next]_vars => IInv'
  BY NextStep
<1> QED
  BY <1>1, <1>2, PTL DEF Spec

\* Every document has the shape of its model class, and nothing is stored for
\* a workflow that was not received.
THEOREM TypeCorrect == Spec => []TypeOK
<1>1. IInv => TypeOK
  BY DEF IInv
<1> QED
  BY <1>1, Invariant, PTL

\* What NoApproval stands for in the properties.
LEMMA ApprovalExists ==
  ASSUME IInv
  PROVE  approval # NoApproval <=> approval.status # "NONE"
  BY TypeGivesDocuments DEF IInv, Documents

\* An event is never lost: when the subscriber acknowledges a message, the
\* workflow waits for an approver, is over, or is on the dead-letter topic.
THEOREM Acknowledged == Spec => []AckedMeansHandled
<1>1. IInv => AckedMeansHandled
  <2> SUFFICES ASSUME IInv, NEW d \in Deliveries, At(d, "acked")
               PROVE  approval # NoApproval \/ record.status \in Terminal \/ deadTopic > 0
    BY DEF AckedMeansHandled
  <2>1. d \in Procs /\ Where(proc[d]) = "acked"
    BY DEF Procs, At, Where
  <2>2. Handled(record, approval, deadTopic)
    BY <2>1, CoroutineFacts DEF LocalInv, Knows
  <2> QED
    BY <2>2, ApprovalExists DEF Handled
<1> QED
  BY <1>1, Invariant, PTL

\* However many deliveries draft a plan, one wins: the approver, the change
\* and the record that is executed have the same one.
THEOREM SinglePlan == Spec => []OnePlan
<1>1. IInv => OnePlan
  BY ApprovalExists DEF IInv, PlanInv, OnePlan
<1> QED
  BY <1>1, Invariant, PTL

\* ADR 0009: a snapshot of the configuration before the mutation is stored
\* before any system is mutated, whichever callback took it.
THEOREM SnapshotsFirst == Spec => []SnapshotBeforeMutation
<1>1. IInv => SnapshotBeforeMutation
  BY DEF IInv, AppliedInv, SnapshotBeforeMutation
<1> QED
  BY <1>1, Invariant, PTL

\* A system is mutated for an approved plan only, and after every system its
\* step depends on.
THEOREM Governed == Spec => []MutationIsGoverned
<1>1. IInv => MutationIsGoverned
  BY DEF IInv, AppliedInv, MutationIsGoverned
<1> QED
  BY <1>1, Invariant, PTL

\* No writer, however late, changes the plan of a record or takes its end
\* back.
THEOREM RecordMonotonic == Spec => RecordIsMonotonic
<1>1. IInv /\ [Next]_vars => [/\ record.plan # NoPlan => record'.plan = record.plan
                              /\ record.status \in Terminal => record'.status \in Terminal]_record
  BY NextStep DEF Grows, RecordGrows
<1> QED
  BY <1>1, Invariant, PTL DEF Spec, RecordIsMonotonic

\* Nothing is taken back: the version, the plan, the end and the snapshots of
\* the record, the plan the change is bound to, the decision of the approver,
\* the applied steps and the messages on the dead-letter topic.
THEOREM NothingTakenBack == Spec => [][Grows]_vars
<1>1. IInv /\ [Next]_vars => [Grows]_vars
  BY NextStep
<1> QED
  BY <1>1, Invariant, PTL DEF Spec
=============================================================================
