------------------------- MODULE CompensationProofs -------------------------
(***************************************************************************)
(* RestoredUnlessLate of WorkflowCoordinator: a change that ends as FAILED *)
(* has every system back at its old configuration, but for tool calls that *)
(* reached their sandbox after the change had left EXECUTING.              *)
(*                                                                         *)
(* Several callbacks may restore the same systems, on copies of the record *)
(* that may be out of date, and a user may put a change that needs         *)
(* attention back on its way in the meantime.  The argument:               *)
(*   - only a coroutine that stored its rollback on a current copy reports *)
(*     the outcome (Reporting), the record then says that every task is    *)
(*     rolled back, and it says so forever;                                *)
(*   - while somebody checks or restores on a current copy (InCharge), or  *)
(*     reports, the change has left EXECUTING or is VERIFYING, and nobody  *)
(*     but a reporter lets it leave that part of the graph;                *)
(*   - so there is one reporter at a time and nobody else in charge, and   *)
(*     what a reporter or a coroutine in charge has restored is changed    *)
(*     again only by a tool call that counts as late.                      *)
(*                                                                         *)
(* The second part proves that WorkflowCoordinator implements              *)
(* ChangeLifecycle: LifecycleInv says that every transition is earned, and *)
(* each action of a coroutine, a tool call, the approver or the user is    *)
(* then a step of the life cycle or a stutter.                             *)
(*                                                                         *)
(* The third part proves CompletedMeansMigrated: as long as the change has *)
(* not needed attention (AttentionInv), MigrationInv says that one         *)
(* coroutine verifies it, and that nobody restores a system before it has  *)
(* left VERIFYING for good.                                                *)
(***************************************************************************)
EXTENDS WorkflowProofs

Undone == {"ROLLED_BACK", "ROLLBACK_FAILED"}

\* Every task was rolled back, or its rollback was tried.
Rolled(t) == \A s \in Steps : t[s].status \in Undone

\* Execution is over, and may be in compensation; or it is still going on.
Stopped == {"ROLLING_BACK", "CANCELLED", "COMPLETED"}
Busy == {"EXECUTING", "VERIFYING"} \cup Stopped

\* Points of resume_approval.
Started == {"executing", "snapshots"} \cup Guarded
Checking == {"verifying", "verify", "rollback"}
Restoring == {"rolling_back", "restore", "restored"}
Looping == {"restore", "restored"}

\* The rollback is stored, and the change does not show it yet.
Reporting(x) == x.pc = "rolled_back" \/ (x.pc = "transition" /\ x.cont = "compensated")

Current(x, r) == x.rec.version = r.version
InCharge(x, r) == Current(x, r) /\ x.pc \in Checking \cup Restoring

Safe(s, cfg, lt) == cfg[s] = "old_field" \/ s \in lt

\* A current copy is the record, but for the results of the loop it is in.
Tracks(x, r) ==
  /\ \A s \in Steps :
       \/ x.rec.tasks[s].status = r.tasks[s].status
       \/ x.pc \in Looping \cup {"wave"} /\ s \in x.marks
  /\ x.pc = "wave" => \A s \in x.marks : r.tasks[s].status = "PENDING"

\* A change that was EXECUTING once is still busy, or was compensated.
Begun(st, r) == st \in Busy \/ Rolled(r.tasks)

\* What a transition asks for.
Targets(x) ==
  /\ x.to # "PARTIAL"
  /\ x.to \in {"FAILED", "NEEDS_ATTENTION"} => x.cont = "compensated"
  /\ x.cont = "verifying" => x.to = "VERIFYING"
  /\ x.cont = "rolling_back" => x.to = "ROLLING_BACK"
  /\ x.cont \notin {"wave", "verify", "rollback", "roll", "rolled_back"} \cup Looping
  /\ x.to = "FAILED" => \A s \in Steps : x.rec.tasks[s].status = "ROLLED_BACK"

\* How a coroutine x fits the status st of the change and the record r.
StatusFits(x, r, st) ==
  /\ (x.seen = "EXECUTING" \/ Where(x) \in Started) => Begun(st, r)
  /\ (Current(x, r) /\ x.pc \in Checking) => st \in Busy
  /\ (Current(x, r) /\ x.pc \in Restoring) => st \in Stopped
  /\ Reporting(x) => st \in Stopped

TasksFit(x, r) ==
  /\ Current(x, r) => Tracks(x, r)
  /\ x.pc \in Looping => \A s \in x.marks : x.rec.tasks[s].status \in Undone
  /\ (x.pc = "roll" \/ Where(x) = "rolling_back") => x.marks = {}
  /\ Reporting(x) => Rolled(x.rec.tasks) /\ Rolled(r.tasks)
  /\ x.pc = "transition" => Targets(x)

\* What it has restored is restored.
RestoredFits(x, r, cfg, lt) ==
  /\ (Current(x, r) /\ x.pc \in Looping) =>
       \A s \in x.marks : x.rec.tasks[s].status = "ROLLED_BACK" => Safe(s, cfg, lt)
  /\ Reporting(x) =>
       \A s \in Steps : x.rec.tasks[s].status = "ROLLED_BACK" => Safe(s, cfg, lt)

Fits(x, r, st, cfg, lt) ==
  StatusFits(x, r, st) /\ TasksFit(x, r) /\ RestoredFits(x, r, cfg, lt)

\* One reporter, and nobody else in charge.
OneReport ==
  \A p, q \in Procs : (p # q /\ Reporting(proc[p])) =>
    ~Reporting(proc[q]) /\ ~InCharge(proc[q], record)

\* A request somebody waits for is one of the wave's.
Carried == \A k \in calls : k.waited => k.step \in proc[k.by].marks

CompensationInv ==
  /\ \A p \in Procs : Fits(proc[p], record, change.status, config, late)
  /\ OneReport
  /\ Carried
  /\ RestoredUnlessLate

-----------------------------------------------------------------------------
(* What others do leaves a coroutine as it fits.                           *)

\* The record stays, or a later one replaces it.
RecordMoves(r, r2) ==
  r2 = r \/ (r.version < r2.version /\ (Rolled(r.tasks) => Rolled(r2.tasks)))

StatusStays(st, st2) ==
  (st \in Busy => st2 \in Busy) /\ (st \in Stopped => st2 \in Stopped)

SafeStays(st, cfg, lt, cfg2, lt2) ==
  st # "EXECUTING" => \A s \in Steps : Safe(s, cfg, lt) => Safe(s, cfg2, lt2)

\* The change may go anywhere when x is not concerned.
Unconcerned(x, r) == Rolled(r.tasks) /\ ~Reporting(x) /\ ~InCharge(x, r)

\* A coroutine that does not move goes on fitting.
LEMMA FitsOn ==
  ASSUME NEW x \in Coroutine, NEW r \in RecordCopy, NEW r2 \in RecordCopy,
         NEW st, NEW st2, NEW cfg, NEW cfg2, NEW lt, NEW lt2,
         x.rec.version <= r.version, RecordMoves(r, r2),
         StatusStays(st, st2) \/ Unconcerned(x, r),
         SafeStays(st, cfg, lt, cfg2, lt2), Fits(x, r, st, cfg, lt)
  PROVE  Fits(x, r2, st2, cfg2, lt2)
<1>v. x.rec.version \in Nat /\ r.version \in Nat /\ r2.version \in Nat /\ x.marks \subseteq Steps
  BY DEF Coroutine, RecordCopy
<1>1. Current(x, r2) => r2 = r
  BY <1>v DEF Current, RecordMoves
<1>2. Rolled(r.tasks) => Rolled(r2.tasks)
  BY DEF RecordMoves
<1>3. StatusFits(x, r2, st2)
  BY <1>1, <1>2 DEF Fits, StatusFits, Begun, StatusStays, Unconcerned, InCharge
<1>4. TasksFit(x, r2)
  BY <1>1, <1>2 DEF Fits, TasksFit
<1>5. RestoredFits(x, r2, cfg2, lt2)
  <2>1. (Current(x, r) /\ x.pc \in Looping) \/ Reporting(x) => st # "EXECUTING"
    BY DEF Fits, StatusFits, Looping, Restoring, Stopped
  <2> QED
    BY <1>1, <1>v, <2>1 DEF Fits, RestoredFits, SafeStays
<1> QED
  BY <1>3, <1>4, <1>5 DEF Fits

\* The parts of the invariant that the steps have to show.
LEMMA Assembled ==
  ASSUME IInv, IInv', CompensationInv,
         RecordMoves(record, record'), StatusStays(change.status, change'.status),
         SafeStays(change.status, config, late, config', late'),
         change'.status = "FAILED" => change.status = "FAILED",
         \A q \in Procs : \/ proc'[q] = proc[q]
                          \/ Fits(proc'[q], record', change'.status, config', late'),
         OneReport', Carried'
  PROVE  CompensationInv'
<1>1. record \in RecordCopy /\ record' \in RecordCopy
  <2>1. Documents /\ Documents'
    BY TypeGivesDocuments, PTL DEF IInv
  <2> QED
    BY <2>1, RecordFacts DEF Documents
<1>2. ASSUME NEW q \in Procs
      PROVE  Fits(proc'[q], record', change'.status, config', late')
  <2>1. CASE proc'[q] = proc[q]
    <3>1. proc[q] \in Coroutine /\ proc[q].rec.version <= record.version
      BY CoroutineFacts DEF LocalInv, Sync
    <3>2. Fits(proc[q], record, change.status, config, late)
      BY DEF CompensationInv
    <3>3. Fits(proc[q], record', change'.status, config', late')
      BY <1>1, <3>1, <3>2, FitsOn
    <3> QED
      BY <2>1, <3>3
  <2> QED
    BY <2>1
<1>3. RestoredUnlessLate'
  <2> SUFFICES ASSUME change'.status = "FAILED", NEW s \in Steps \ late'
               PROVE  config'[s] = "old_field"
    BY DEF RestoredUnlessLate
  <2>1. Safe(s, config, late)
    BY DEF CompensationInv, RestoredUnlessLate, Safe
  <2> QED
    BY <2>1 DEF SafeStays, Safe
<1> QED
  BY <1>2, <1>3 DEF CompensationInv

\* Somebody who reports has stopped the change and rolled the record back.
LEMMA NobodyReports ==
  ASSUME CompensationInv, change.status \notin Stopped \/ ~Rolled(record.tasks)
  PROVE  \A q \in Procs : ~Reporting(proc[q])
  BY DEF CompensationInv, Fits, StatusFits, TasksFit

\* p may become the reporter by storing what it is in charge of, and may take
\* charge when nobody reports.
Succeeds(p) ==
  /\ Reporting(proc'[p]) =>
       \/ Reporting(proc[p])
       \/ InCharge(proc[p], record) /\ record.version < record'.version
  /\ InCharge(proc'[p], record') =>
       InCharge(proc[p], record) \/ \A q \in Procs : ~Reporting(proc[q])

\* There is one reporter at most after such a step of p.
LEMMA OneReportKept ==
  ASSUME IInv, IInv', CompensationInv, NEW p \in Procs, OthersStay(p), Succeeds(p),
         RecordMoves(record, record')
  PROVE  OneReport'
<1>v. record.version \in Nat /\ record'.version \in Nat
      /\ \A q \in Procs : proc[q].rec.version \in Nat /\ proc[q].rec.version <= record.version
  <2>1. Documents /\ Documents'
    BY TypeGivesDocuments, PTL DEF IInv
  <2>2. record \in RecordCopy /\ record' \in RecordCopy
    BY <2>1, RecordFacts DEF Documents
  <2> QED
    BY <2>2, CoroutineFacts DEF LocalInv, Sync, RecordCopy
<1>1. \A q \in Procs : q # p => /\ Reporting(proc'[q]) <=> Reporting(proc[q])
                                /\ InCharge(proc'[q], record') => InCharge(proc[q], record)
                                /\ record.version < record'.version => ~InCharge(proc'[q], record')
  <2> SUFFICES ASSUME NEW q \in Procs, q # p
               PROVE  /\ Reporting(proc'[q]) <=> Reporting(proc[q])
                      /\ InCharge(proc'[q], record') => InCharge(proc[q], record)
                      /\ record.version < record'.version => ~InCharge(proc'[q], record')
    OBVIOUS
  <2>1. proc'[q] = proc[q]
    BY DEF OthersStay
  <2> QED
    BY <1>v, <2>1 DEF InCharge, Current, RecordMoves
<1>2. OneReport
  BY DEF CompensationInv
<1> SUFFICES ASSUME NEW x \in Procs, NEW y \in Procs, x # y, Reporting(proc'[x])
             PROVE  ~Reporting(proc'[y]) /\ ~InCharge(proc'[y], record')
  BY DEF OneReport
<1>3. CASE x # p /\ y # p
  BY <1>1, <1>2, <1>3 DEF OneReport
<1>4. CASE x = p
  <2>1. CASE Reporting(proc[p])
    BY <1>1, <1>2, <1>4, <2>1 DEF OneReport
  <2>2. CASE InCharge(proc[p], record) /\ record.version < record'.version
    BY <1>1, <1>2, <1>4, <2>2 DEF OneReport
  <2> QED
    BY <1>4, <2>1, <2>2 DEF Succeeds
<1>5. CASE y = p
  <2>1. Reporting(proc[x])
    BY <1>1, <1>5
  <2>2. ~Reporting(proc[p]) /\ ~InCharge(proc[p], record)
    BY <1>2, <1>5, <2>1 DEF OneReport
  <2> QED
    BY <1>5, <2>1, <2>2 DEF Succeeds
<1> QED
  BY <1>3, <1>4, <1>5

\* The calls stay, and p waits for none.
LEMMA CarriedStays ==
  ASSUME IInv, CompensationInv, NEW p \in Procs, OthersStay(p), NotWaiting(p), calls' = calls
  PROVE  Carried'
<1> SUFFICES ASSUME NEW k \in calls, k.waited PROVE k.step \in proc'[k.by].marks
  BY DEF Carried
<1>1. k.by \in Procs /\ k.by # p
  BY DEF IInv, TypeOK, Call, Procs, NotWaiting
<1> QED
  BY <1>1 DEF CompensationInv, Carried, OthersStay

\* One coroutine moves.
LEMMA OneMoves ==
  ASSUME IInv, IInv', CompensationInv, NEW p \in Procs, OthersStay(p), Succeeds(p),
         RecordMoves(record, record'), StatusStays(change.status, change'.status),
         SafeStays(change.status, config, late, config', late'),
         change'.status = "FAILED" => change.status = "FAILED",
         Fits(proc'[p], record', change'.status, config', late'), Carried'
  PROVE  CompensationInv'
<1>1. OneReport'
  BY OneReportKept
<1>2. \A q \in Procs : \/ proc'[q] = proc[q]
                       \/ Fits(proc'[q], record', change'.status, config', late')
  BY DEF OthersStay
<1> QED
  BY <1>1, <1>2, Assembled

-----------------------------------------------------------------------------
(* How a coroutine moves.                                                  *)

\* It has ended; or it goes on at pc.
Over(y) == y.pc \in Ended /\ y.rec = NoRecord /\ y.marks = {} /\ y.seen = "NONE"
Onto(y, pc, rec, marks, seen) ==
  y.pc = pc /\ y.rec = rec /\ y.marks = marks /\ y.seen = seen

\* It begins a transition.
Asks(y, to, cont, x) ==
  /\ y.pc = "transition" /\ y.to = to /\ y.cont = cont
  /\ y.rec = x.rec /\ y.marks = x.marks /\ y.seen = "NONE"

Moved(p, pc, rec) ==
  /\ OthersStay(p)
  /\ pc \in Ended => Over(proc'[p])
  /\ pc \notin Ended => Onto(proc'[p], pc, rec, proc[p].marks, proc[p].seen)

\* A coroutine that has ended keeps nothing.
LEMMA OverFacts ==
  ASSUME NEW pc \in Ended
  PROVE  Over([Idle EXCEPT !.pc = pc]) /\ [Idle EXCEPT !.pc = pc] \in Coroutine
<1>1. pc \in Points
  BY DEF Points
<1>2. [Idle EXCEPT !.pc = pc].seen = "NONE"
  BY DEF Idle
<1> QED
  BY <1>1, <1>2, IdleFacts DEF Over

\* One entry of proc is replaced.
LEMMA Replaces ==
  ASSUME proc \in [Procs -> Coroutine], NEW p \in Procs, NEW y \in Coroutine,
         proc' = [proc EXCEPT ![p] = y]
  PROVE  OthersStay(p) /\ proc'[p] = y
  BY DEF OthersStay

\* What GotoWith does to the coroutines.
LEMMA GotoWithMoves ==
  ASSUME proc \in [Procs -> Coroutine], NEW p \in Procs, NEW rec \in RecordCopy,
         NEW pc \in Points, GotoWith(p, rec, pc)
  PROVE  Moved(p, pc, rec)
<1>x. proc[p] \in Coroutine
  OBVIOUS
<1>1. CASE pc \in Ended
  <2> DEFINE y == [Idle EXCEPT !.pc = pc]
  <2>1. proc' = [proc EXCEPT ![p] = y]
    BY <1>1 DEF GotoWith
  <2>2. Over(y) /\ y \in Coroutine
    BY <1>1, OverFacts
  <2> HIDE DEF y
  <2>3. OthersStay(p) /\ proc'[p] = y
    BY <2>1, <2>2, Replaces
  <2> QED
    BY <1>1, <2>2, <2>3 DEF Moved
<1>2. CASE pc \notin Ended
  <2> DEFINE y == [proc[p] EXCEPT !.pc = pc, !.rec = rec]
  <2>1. proc' = [proc EXCEPT ![p] = y]
    BY <1>2 DEF GotoWith
  <2>2. y \in Coroutine /\ Onto(y, pc, rec, proc[p].marks, proc[p].seen)
    BY <1>x DEF Coroutine, Onto
  <2> HIDE DEF y
  <2>3. OthersStay(p) /\ proc'[p] = y
    BY <2>1, <2>2, Replaces
  <2> QED
    BY <1>2, <2>2, <2>3 DEF Moved
<1> QED
  BY <1>1, <1>2

\* What Goto does to them.
LEMMA GotoMoves ==
  ASSUME proc \in [Procs -> Coroutine], NEW p \in Procs, NEW pc \in Points, Goto(p, pc)
  PROVE  Moved(p, pc, proc[p].rec)
<1>x. proc[p] \in Coroutine
  OBVIOUS
<1>1. CASE pc \in Ended
  <2> DEFINE y == [Idle EXCEPT !.pc = pc]
  <2>1. proc' = [proc EXCEPT ![p] = y]
    BY <1>1 DEF Goto
  <2>2. Over(y) /\ y \in Coroutine
    BY <1>1, OverFacts
  <2> HIDE DEF y
  <2>3. OthersStay(p) /\ proc'[p] = y
    BY <2>1, <2>2, Replaces
  <2> QED
    BY <1>1, <2>2, <2>3 DEF Moved
<1>2. CASE pc \notin Ended
  <2> DEFINE y == [proc[p] EXCEPT !.pc = pc]
  <2>1. proc' = [proc EXCEPT ![p] = y]
    BY <1>2 DEF Goto
  <2>2. y \in Coroutine /\ Onto(y, pc, proc[p].rec, proc[p].marks, proc[p].seen)
    BY <1>x DEF Coroutine, Onto
  <2> HIDE DEF y
  <2>3. OthersStay(p) /\ proc'[p] = y
    BY <2>1, <2>2, Replaces
  <2> QED
    BY <1>2, <2>2, <2>3 DEF Moved
<1> QED
  BY <1>1, <1>2

\* What begin_transition does to them.
LEMMA BeginMoves ==
  ASSUME proc \in [Procs -> Coroutine], NEW p \in Procs, change.version \in Nat,
         NEW target \in WorkflowState, NEW cont \in Points, begin_transition(p, target, cont)
  PROVE  OthersStay(p) /\ Asks(proc'[p], target, cont, proc[p])
<1>x. proc[p] \in Coroutine
  OBVIOUS
<1> DEFINE y == [proc[p] EXCEPT !.pc = "transition", !.to = target,
                   !.exp = change.version, !.cont = cont, !.seen = "NONE"]
<1>1. proc' = [proc EXCEPT ![p] = y]
  BY DEF begin_transition
<1>0. "transition" \in Points
  BY DEF Points
<1>2. y \in Coroutine /\ Asks(y, target, cont, proc[p])
  BY <1>0, <1>x DEF Coroutine, Asks
<1> HIDE DEF y
<1>3. OthersStay(p) /\ proc'[p] = y
  BY <1>1, <1>2, Replaces
<1> QED
  BY <1>2, <1>3

\* A step that keeps what it sees of the change.
LEMMA ReadMoves ==
  ASSUME proc \in [Procs -> Coroutine], NEW p \in Procs, NEW pc \in Points,
         change.status \in WorkflowState \cup {"NONE"}, read_change(p, pc)
  PROVE  OthersStay(p) /\ Onto(proc'[p], pc, proc[p].rec, proc[p].marks, change.status)
<1>x. proc[p] \in Coroutine
  OBVIOUS
<1> DEFINE y == [proc[p] EXCEPT !.seen = change.status, !.pc = pc]
<1>1. proc' = [proc EXCEPT ![p] = y]
  BY DEF read_change
<1>2. y \in Coroutine /\ Onto(y, pc, proc[p].rec, proc[p].marks, change.status)
  BY <1>x DEF Coroutine, Onto
<1> HIDE DEF y
<1>3. OthersStay(p) /\ proc'[p] = y
  BY <1>1, <1>2, Replaces
<1> QED
  BY <1>2, <1>3

\* What Enter does to them.
LEMMA EnterMoves ==
  ASSUME proc \in [Procs -> Coroutine], NEW p \in Procs, NEW pc \in Points,
         NEW marks \in SUBSET Steps, Enter(p, pc, marks)
  PROVE  OthersStay(p) /\ Onto(proc'[p], pc, proc[p].rec, marks, proc[p].seen)
<1>x. proc[p] \in Coroutine
  OBVIOUS
<1> DEFINE y == [proc[p] EXCEPT !.pc = pc, !.marks = marks]
<1>1. proc' = [proc EXCEPT ![p] = y]
  BY DEF Enter
<1>2. y \in Coroutine /\ Onto(y, pc, proc[p].rec, marks, proc[p].seen)
  BY <1>x DEF Coroutine, Onto
<1> HIDE DEF y
<1>3. OthersStay(p) /\ proc'[p] = y
  BY <1>1, <1>2, Replaces
<1> QED
  BY <1>2, <1>3

-----------------------------------------------------------------------------
(* Steps outside of execution and compensation.                            *)

\* Where nothing but the copy matters.
Plain(y) ==
  /\ y.pc \notin Started
  /\ y.pc = "transition" => /\ y.cont \notin Started
                            /\ y.to \notin {"FAILED", "NEEDS_ATTENTION", "PARTIAL"}

SameStatus(t, t2) == \A s \in Steps : t[s].status = t2[s].status

\* A coroutine at a plain point fits, and concerns nobody.
LEMMA PlainFits ==
  ASSUME NEW y \in Coroutine, NEW r \in RecordCopy, NEW st, NEW cfg, NEW lt, Plain(y),
         y.seen = "EXECUTING" => Begun(st, r),
         Current(y, r) => SameStatus(y.rec.tasks, r.tasks)
  PROVE  Fits(y, r, st, cfg, lt) /\ ~Reporting(y) /\ ~InCharge(y, r)
<1>1. /\ y.pc \notin {"executing", "snapshots", "dag", "wave", "executed", "verifying", "verify",
                       "complete", "rollback", "roll", "rolling_back", "restore", "restored",
                       "rolled_back", "compensated"}
      /\ y.pc = "transition" =>
           y.cont \notin {"executing", "snapshots", "dag", "wave", "executed", "verifying", "verify",
                          "complete", "rollback", "roll", "rolling_back", "restore", "restored",
                          "rolled_back", "compensated"}
  BY DEF Plain, Started, Guarded
<1>2. ~Reporting(y) /\ y.pc \notin Checking \cup Restoring \cup Looping
  BY <1>1 DEF Reporting, Checking, Restoring, Looping
<1>3. Where(y) \notin Started /\ Where(y) # "rolling_back" /\ y.pc # "roll"
  BY <1>1 DEF Where, Started, Guarded
<1>4. StatusFits(y, r, st)
  BY <1>2, <1>3 DEF StatusFits
<1>5. TasksFit(y, r)
  <2>1. y.pc = "transition" => Targets(y)
    BY <1>1 DEF Plain, Targets, Looping
  <2>2. Current(y, r) => Tracks(y, r)
    BY <1>1 DEF Tracks, SameStatus
  <2> QED
    BY <1>2, <1>3, <2>1, <2>2 DEF TasksFit
<1>6. RestoredFits(y, r, cfg, lt)
  BY <1>2 DEF RestoredFits
<1> QED
  BY <1>2, <1>4, <1>5, <1>6 DEF Fits, InCharge

\* A coroutine moves to a plain point with the copy it has, the record or
\* none.
PlainMoves(p) ==
  /\ OthersStay(p)
  /\ Plain(proc'[p])
  /\ \/ proc'[p].rec = proc[p].rec /\ proc[p].pc \notin Looping \cup {"wave"}
     \/ proc'[p].rec = record'
     \/ proc'[p].rec = NoRecord
  /\ proc'[p].seen \in {proc[p].seen, change.status, "NONE"}

\* The facts about versions and types that the steps use.
Versions ==
  /\ Documents
  /\ record \in RecordCopy /\ record.version \in Nat
  /\ record.version = 0 => record = NoRecord
  /\ \A p \in Procs : /\ proc[p] \in Coroutine /\ proc[p].rec \in RecordCopy
                      /\ proc[p].rec.version \in Nat
                      /\ proc[p].rec.version <= record.version
                      /\ proc[p].marks \subseteq Steps

\* They follow from the invariant of WorkflowProofs.
LEMMA VersionFacts == IInv => Versions
<1> SUFFICES ASSUME IInv PROVE Versions
  OBVIOUS
<1>1. Documents
  BY TypeGivesDocuments DEF IInv
<1>2. record \in RecordCopy /\ (record.version = 0 => record = NoRecord)
  BY <1>1, RecordFacts DEF Documents
<1>3. \A p \in Procs : /\ proc[p] \in Coroutine /\ proc[p].rec \in RecordCopy
                       /\ proc[p].rec.version <= record.version
                       /\ proc[p].marks \subseteq Steps
  BY CoroutineFacts DEF LocalInv, Sync
<1> QED
  BY <1>1, <1>2, <1>3 DEF RecordCopy, Versions

\* A move to a plain point keeps the invariant.
LEMMA PlainStep ==
  ASSUME IInv, IInv', CompensationInv, NEW p \in Procs, PlainMoves(p), Carried',
         RecordMoves(record, record'), StatusStays(change.status, change'.status),
         change'.status = "FAILED" => change.status = "FAILED",
         config' = config, late' = late
  PROVE  CompensationInv'
<1> DEFINE x == proc[p]
           y == proc'[p]
<1>x. /\ record \in RecordCopy /\ record.version \in Nat
      /\ x \in Coroutine /\ x.rec.version \in Nat /\ x.rec.version <= record.version
  BY VersionFacts DEF Versions
<1>y. /\ record' \in RecordCopy /\ record'.version \in Nat
      /\ record'.version = 0 => record' = NoRecord
      /\ y \in Coroutine
  <2>1. Versions'
    BY VersionFacts, PTL
  <2> QED
    BY <2>1 DEF Versions
<1>f. Fits(x, record, change.status, config, late)
  BY DEF CompensationInv
<1>1. Current(y, record') => SameStatus(y.rec.tasks, record'.tasks)
  <2> SUFFICES ASSUME Current(y, record') PROVE SameStatus(y.rec.tasks, record'.tasks)
    OBVIOUS
  <2>1. CASE y.rec = record'
    BY <2>1 DEF SameStatus
  <2>2. CASE y.rec = NoRecord
    <3>1. record'.version = 0
      BY <2>2, NoRecordFacts DEF Current
    <3> QED
      BY <1>y, <2>2, <3>1 DEF SameStatus
  <2>3. CASE y.rec = x.rec /\ x.pc \notin Looping \cup {"wave"}
    <3>1. record' = record /\ Current(x, record)
      BY <1>x, <1>y, <2>3 DEF Current, RecordMoves
    <3>2. Tracks(x, record)
      BY <1>f, <3>1 DEF Fits, TasksFit
    <3> QED
      BY <2>3, <3>1, <3>2 DEF Tracks, SameStatus
  <2> QED
    BY <2>1, <2>2, <2>3 DEF PlainMoves
<1>2. y.seen = "EXECUTING" => Begun(change'.status, record')
  <2>1. y.seen = "EXECUTING" => Begun(change.status, record)
    BY <1>f DEF PlainMoves, Fits, StatusFits, Begun, Busy
  <2> QED
    BY <2>1 DEF Begun, StatusStays, RecordMoves
<1>3. Fits(y, record', change'.status, config', late') /\ ~Reporting(y) /\ ~InCharge(y, record')
  <2>1. Plain(y)
    BY DEF PlainMoves
  <2> HIDE DEF y
  <2> QED
    BY <1>y, <1>1, <1>2, <2>1, PlainFits
<1>4. SafeStays(change.status, config, late, config', late')
  BY DEF SafeStays
<1>5. OthersStay(p) /\ Succeeds(p)
  BY <1>3 DEF PlainMoves, Succeeds
<1> QED
  BY <1>3, <1>4, <1>5, OneMoves

\* The same when the documents stay.
LEMMA PlainQuietStep ==
  ASSUME IInv, IInv', CompensationInv, NEW p \in Procs, NotWaiting(p), PlainMoves(p),
         UNCHANGED <<change, record, config, late, calls>>
  PROVE  CompensationInv'
<1>1. Carried'
  BY CarriedStays DEF PlainMoves
<1>2. RecordMoves(record, record') /\ StatusStays(change.status, change'.status)
  BY DEF RecordMoves, StatusStays
<1> QED
  BY <1>1, <1>2, PlainStep

\* A coroutine that ends, wherever it is.
LEMMA OverIsPlain ==
  ASSUME NEW p \in Procs, OthersStay(p), Over(proc'[p])
  PROVE  PlainMoves(p)
<1>1. \A e \in Ended : e \notin Started /\ e # "transition"
  BY DEF Ended, Started, Guarded
<1> QED
  BY <1>1 DEF Over, PlainMoves, Plain

\* A coroutine that goes on with its copy at a plain point.
LEMMA OntoIsPlain ==
  ASSUME NEW p \in Procs, OthersStay(p), NEW pc, pc \notin Started \cup {"transition"},
         NEW seen \in {proc[p].seen, change.status, "NONE"}, NEW rec, NEW m,
         rec = record' \/ (rec = proc[p].rec /\ proc[p].pc \notin Looping \cup {"wave"}),
         Onto(proc'[p], pc, rec, m, seen)
  PROVE  PlainMoves(p)
  BY DEF Onto, PlainMoves, Plain

\* A coroutine that ends or goes on at a plain point.
LEMMA MovedIsPlain ==
  ASSUME NEW p \in Procs, NEW pc, pc \notin Started \cup {"transition"}, NEW rec,
         rec = record' \/ (rec = proc[p].rec /\ proc[p].pc \notin Looping \cup {"wave"}),
         Moved(p, pc, rec)
  PROVE  PlainMoves(p)
<1>1. CASE pc \in Ended
  BY <1>1, OverIsPlain DEF Moved
<1>2. CASE pc \notin Ended
  BY <1>2, OntoIsPlain DEF Moved
<1> QED
  BY <1>1, <1>2

\* A coroutine that begins a transition outside of the execution.
LEMMA AsksIsPlain ==
  ASSUME NEW p \in Procs, OthersStay(p), NEW to, NEW cont, cont \notin Started,
         to \notin {"FAILED", "NEEDS_ATTENTION", "PARTIAL"},
         proc[p].pc \notin Looping \cup {"wave"}, Asks(proc'[p], to, cont, proc[p])
  PROVE  PlainMoves(p)
<1>1. "transition" \notin Started
  BY DEF Started, Guarded
<1> QED
  BY <1>1 DEF Asks, PlainMoves, Plain

-----------------------------------------------------------------------------
(* Writes of the record.                                                   *)

\* The copy replaces the record it is of, or the write fails.
Written(p, cont) ==
  \/ record' = record /\ OthersStay(p) /\ Over(proc'[p])
  \/ /\ Current(proc[p], record)
     /\ record.version < record'.version
     /\ record'.tasks = proc[p].rec.tasks
     /\ Moved(p, cont, record')

\* There is nothing to write.
Kept(p, cont) == record' = record /\ Moved(p, cont, proc[p].rec)

\* What is rolled back stays so in a current copy.
LEMMA CopyRolled ==
  ASSUME CompensationInv, NEW p \in Procs, Current(proc[p], record), Rolled(record.tasks)
  PROVE  Rolled(proc[p].rec.tasks)
<1>1. TasksFit(proc[p], record) /\ Tracks(proc[p], record)
  BY DEF CompensationInv, Fits, TasksFit
<1> SUFFICES ASSUME NEW s \in Steps PROVE proc[p].rec.tasks[s].status \in Undone
  BY DEF Rolled
<1>2. record.tasks[s].status \in Undone /\ record.tasks[s].status # "PENDING"
  BY DEF Rolled, Undone
<1> QED
  BY <1>1, <1>2 DEF Tracks, TasksFit

\* What update_record does: the record only moves forward.
LEMMA UpdateWrites ==
  ASSUME IInv, CompensationInv, NEW p \in Procs, NEW new \in RecordCopy,
         new.tasks = proc[p].rec.tasks, NEW cont \in Points, update_record(p, new, cont)
  PROVE  Written(p, cont) /\ RecordMoves(record, record') /\ change' = change
<1>v. Versions
  BY VersionFacts
<1>d. proc \in [Procs -> Coroutine] /\ record.version \in Nat
  BY <1>v DEF Versions, Documents
<1>c. change' = change
  BY DEF update_record
<1>1. CASE ~UpdateAllowed(p, new)
  <2>1. Goto(p, Raised(p)) /\ record' = record
    BY <1>1 DEF update_record
  <2>2. Raised(p) \in Ended /\ Raised(p) \in Points
    BY RaisedEnds DEF Points
  <2>3. Moved(p, Raised(p), proc[p].rec)
    BY <1>d, <2>1, <2>2, GotoMoves
  <2> QED
    BY <1>c, <2>1, <2>2, <2>3 DEF Moved, Written, RecordMoves
<1>2. CASE UpdateAllowed(p, new)
  <2>1. record' = [new EXCEPT !.version = record.version + 1] /\ GotoWith(p, record', cont)
    BY <1>2 DEF update_record
  <2>2. record' \in RecordCopy /\ record'.tasks = new.tasks /\ record'.version = record.version + 1
    BY <1>d, <2>1 DEF RecordCopy
  <2>3. record.version < record'.version
    BY <1>d, <2>2
  <2>4. Moved(p, cont, record')
    BY <1>d, <2>1, <2>2, GotoWithMoves
  <2>5. Current(proc[p], record)
    BY <1>2 DEF UpdateAllowed, Current
  <2>6. Rolled(record.tasks) => Rolled(record'.tasks)
    BY <2>2, <2>5, CopyRolled
  <2> QED
    BY <1>c, <2>2, <2>3, <2>4, <2>5, <2>6 DEF Written, RecordMoves
<1> QED
  BY <1>1, <1>2

\* _set_runtime_status and _terminal.
LEMMA StatusWrites ==
  ASSUME IInv, CompensationInv, NEW p \in Procs, NEW status \in RuntimeStatus,
         NEW err \in BOOLEAN, NEW cont \in Points,
         set_runtime_status(p, status, err, cont) \/ terminal(p, status, err, cont)
  PROVE  (Written(p, cont) \/ Kept(p, cont)) /\ RecordMoves(record, record') /\ change' = change
<1> DEFINE c == proc[p].rec
<1>v. Versions
  BY VersionFacts
<1>d. proc \in [Procs -> Coroutine] /\ c \in RecordCopy
  BY <1>v DEF Versions, Documents
<1>1. CASE Goto(p, cont) /\ UNCHANGED <<change, record>>
  <2>1. Moved(p, cont, c)
    BY <1>1, <1>d, GotoMoves
  <2> QED
    BY <1>1, <2>1 DEF Kept, RecordMoves
<1>2. CASE update_record(p, [c EXCEPT !.status = status, !.err = err], cont)
  <2> DEFINE new == [c EXCEPT !.status = status, !.err = err]
  <2>1. new \in RecordCopy /\ new.tasks = c.tasks
    BY <1>d DEF RecordCopy
  <2>2. update_record(p, new, cont)
    BY <1>2
  <2> HIDE DEF new
  <2> QED
    BY <2>1, <2>2, UpdateWrites
<1>3. (Goto(p, cont) /\ UNCHANGED <<change, record>>)
      \/ update_record(p, [c EXCEPT !.status = status, !.err = err], cont)
  BY DEF set_runtime_status, terminal
<1> QED
  BY <1>1, <1>2, <1>3

\* A write that leads to a plain point.
LEMMA PlainSave ==
  ASSUME IInv, IInv', CompensationInv, NEW p \in Procs, NotWaiting(p), NEW cont,
         cont \notin Started \cup {"transition"},
         \/ Written(p, cont)
         \/ Kept(p, cont) /\ proc[p].pc \notin Looping \cup {"wave"},
         RecordMoves(record, record'), UNCHANGED <<change, config, late, calls>>
  PROVE  CompensationInv'
<1>1. PlainMoves(p)
  <2>1. CASE record' = record /\ OthersStay(p) /\ Over(proc'[p])
    BY <2>1, OverIsPlain
  <2>2. CASE Moved(p, cont, record')
    BY <2>2, MovedIsPlain
  <2>3. CASE Kept(p, cont) /\ proc[p].pc \notin Looping \cup {"wave"}
    BY <2>3, MovedIsPlain DEF Kept
  <2> QED
    BY <2>1, <2>2, <2>3 DEF Written
<1>2. Carried'
  BY <1>1, CarriedStays DEF PlainMoves
<1>3. StatusStays(change.status, change'.status)
  BY DEF StatusStays
<1> QED
  BY <1>1, <1>2, <1>3, PlainStep

-----------------------------------------------------------------------------
(* Transitions of the change.                                              *)

\* Where the graph leads from a busy change.
LEMMA BusyTargets ==
  ASSUME NEW st \in Busy, NEW to, can_transition(st, to),
         to \notin {"FAILED", "NEEDS_ATTENTION", "PARTIAL"}
  PROVE  /\ to \in Busy
         /\ st \in Stopped => to = "CANCELLED"
<1>1. AllowedTransitions["EXECUTING"] =
        {"VERIFYING", "ROLLING_BACK", "FAILED", "PARTIAL", "NEEDS_ATTENTION"}
  BY DEF AllowedTransitions, WorkflowState
<1>2. AllowedTransitions["VERIFYING"] =
        {"COMPLETED", "ROLLING_BACK", "FAILED", "PARTIAL", "NEEDS_ATTENTION"}
  BY DEF AllowedTransitions, WorkflowState
<1>3. AllowedTransitions["ROLLING_BACK"] = {"FAILED", "PARTIAL", "CANCELLED", "NEEDS_ATTENTION"}
  BY DEF AllowedTransitions, WorkflowState
<1>4. AllowedTransitions["CANCELLED"] = {} /\ AllowedTransitions["COMPLETED"] = {}
  BY DEF AllowedTransitions, WorkflowState
<1> QED
  BY <1>1, <1>2, <1>3, <1>4 DEF can_transition, allowed_targets, Busy, Stopped

\* A transition that succeeds.
LEMMA Transits ==
  ASSUME IInv, NEW p \in Procs, transition(p), TransitionAllowed(p)
  PROVE  /\ OthersStay(p) /\ record' = record /\ change'.status = proc[p].to
         /\ can_transition(change.status, proc[p].to)
         /\ Onto(proc'[p], proc[p].cont, proc[p].rec, proc[p].marks, proc[p].to)
         /\ proc[p].pc = "transition" /\ proc[p].cont # "transition"
<1>v. Versions
  BY VersionFacts
<1>d. proc \in [Procs -> Coroutine] /\ proc[p] \in Coroutine
  BY <1>v DEF Versions, Documents
<1>t. proc[p].pc = "transition" /\ Transition(proc[p])
  BY DEF transition, At, IInv, Coroutines, CoroutineInv
<1> DEFINE y == [proc[p] EXCEPT !.pc = proc[p].cont, !.seen = proc[p].to,
                   !.to = "NONE", !.exp = 0, !.cont = "idle"]
<1>1. /\ change' = Transitioned(p) /\ record' = record
      /\ proc' = [proc EXCEPT ![p] = y]
  BY DEF transition
<1>2. y \in Coroutine /\ Onto(y, proc[p].cont, proc[p].rec, proc[p].marks, proc[p].to)
  BY <1>d DEF Coroutine, Onto, Points, Ended
<1> HIDE DEF y
<1>3. OthersStay(p) /\ proc'[p] = y
  BY <1>1, <1>2, <1>d, Replaces
<1>4. change'.status = proc[p].to
  BY <1>1 DEF Transitioned
<1> QED
  BY <1>1, <1>2, <1>3, <1>4, <1>t DEF TransitionAllowed, Transition

\* A transition by somebody who does not report leaves a busy change busy.
LEMMA OrdinaryTransition ==
  ASSUME IInv, IInv', CompensationInv, NEW p \in Procs, transition(p), TransitionAllowed(p),
         ~Reporting(proc[p]), UNCHANGED executionVars
  PROVE  CompensationInv'
<1> DEFINE x == proc[p]
           y == proc'[p]
           st == change.status
           to == proc[p].to
<1>t. /\ OthersStay(p) /\ record' = record /\ change'.status = to
      /\ can_transition(st, to)
      /\ Onto(y, x.cont, x.rec, x.marks, to)
      /\ x.pc = "transition" /\ x.cont # "transition"
  BY Transits
<1>u. config' = config /\ late' = late /\ calls' = calls
  BY DEF executionVars
<1>f. Fits(x, record, st, config, late)
  BY DEF CompensationInv
<1>1. Targets(x) /\ to \notin {"FAILED", "NEEDS_ATTENTION", "PARTIAL"} /\ x.cont # "compensated"
  BY <1>f, <1>t DEF Fits, TasksFit, Targets, Reporting
<1>2. StatusStays(st, to) /\ (st \in Stopped => to = "CANCELLED")
  <2>1. st \in Busy => to \in Busy /\ (st \in Stopped => to = "CANCELLED")
    BY <1>t, <1>1, BusyTargets
  <2> QED
    BY <2>1 DEF StatusStays, Busy, Stopped
<1>3. Fits(y, record, to, config, late)
  <2>1. y.pc \notin {"wave", "verify", "rollback", "roll", "rolled_back", "transition", "compensated"} \cup Looping
        /\ y.pc = x.cont /\ Where(y) = x.cont /\ Where(x) = x.cont
    BY <1>1, <1>t DEF Targets, Onto, Where
  <2>2. ~Reporting(y)
    BY <2>1 DEF Reporting
  <2>3. Begun(st, record) => Begun(to, record)
    BY <1>2 DEF Begun, StatusStays
  <2>4. StatusFits(y, record, to)
    <3>1. (y.seen = "EXECUTING" \/ Where(y) \in Started) => Begun(to, record)
      BY <1>f, <1>t, <2>1, <2>3 DEF Fits, StatusFits, Onto, Begun, Busy
    <3>2. (y.pc \in Checking => to \in Busy) /\ (y.pc \in Restoring => to \in Stopped)
      BY <1>1, <2>1 DEF Checking, Restoring, Looping, Targets, Busy, Stopped
    <3> QED
      BY <2>2, <3>1, <3>2 DEF StatusFits
  <2>5. TasksFit(y, record)
    <3>1. Current(y, record) => Tracks(y, record)
      BY <1>f, <1>t, <2>1 DEF Fits, TasksFit, Current, Tracks, Onto, Looping
    <3>2. Where(y) = "rolling_back" => y.marks = {}
      BY <1>f, <1>t, <2>1 DEF Fits, TasksFit, Onto
    <3> QED
      BY <2>1, <2>2, <3>1, <3>2 DEF TasksFit
  <2>6. RestoredFits(y, record, config, late)
    BY <2>1, <2>2 DEF RestoredFits
  <2> QED
    BY <2>4, <2>5, <2>6 DEF Fits
<1>4. Succeeds(p)
  <2>1. ~Reporting(y)
    BY <1>1, <1>t DEF Reporting, Onto, Targets
  <2>2. y.pc \in Checking \cup Restoring => to \in {"VERIFYING", "ROLLING_BACK"}
    BY <1>1, <1>t DEF Onto, Targets, Checking, Restoring, Looping
  <2>3. to \in {"VERIFYING", "ROLLING_BACK"} => st \notin Stopped
    BY <1>2
  <2> QED
    BY <2>1, <2>2, <2>3, NobodyReports DEF Succeeds, InCharge
<1>5. Carried'
  <2>1. NotWaiting(p)
    BY <1>t, OnlyWavesWait
  <2> QED
    BY <1>t, <1>u, <2>1, CarriedStays
<1>6. RecordMoves(record, record') /\ SafeStays(st, config, late, config', late')
  BY <1>t, <1>u DEF RecordMoves, SafeStays
<1> QED
  BY <1>t, <1>u, <1>1, <1>2, <1>3, <1>4, <1>5, <1>6, OneMoves

\* The report itself: nobody else is concerned, and FAILED is said only when
\* every system was restored.
LEMMA ReportTransition ==
  ASSUME IInv, IInv', CompensationInv, NEW p \in Procs, transition(p), TransitionAllowed(p),
         Reporting(proc[p]), UNCHANGED executionVars
  PROVE  CompensationInv'
<1> DEFINE x == proc[p]
           y == proc'[p]
           to == proc[p].to
<1>t. /\ OthersStay(p) /\ record' = record /\ change'.status = to
      /\ Onto(y, x.cont, x.rec, x.marks, to)
      /\ x.pc = "transition"
  BY Transits
<1>u. config' = config /\ late' = late /\ calls' = calls
  BY DEF executionVars
<1>v. Versions
  BY VersionFacts
<1>f. Fits(x, record, change.status, config, late)
  BY DEF CompensationInv
<1>1. x.cont = "compensated" /\ Rolled(record.tasks) /\ Targets(x)
      /\ \A s \in Steps : x.rec.tasks[s].status = "ROLLED_BACK" => Safe(s, config, late)
  BY <1>f, <1>t DEF Fits, TasksFit, RestoredFits, Reporting
<1>2. y.pc = "compensated" /\ ~Reporting(y) /\ ~InCharge(y, record)
      /\ y.pc \notin Checking \cup Restoring \cup Looping
  BY <1>1, <1>t DEF Onto, Reporting, InCharge, Checking, Restoring, Looping
<1>3. Fits(y, record, to, config, late)
  <2>1. StatusFits(y, record, to)
    BY <1>1, <1>2 DEF StatusFits, Begun
  <2>2. TasksFit(y, record)
    <3>1. Current(y, record) => Tracks(y, record)
      BY <1>f, <1>t, <1>2 DEF Fits, TasksFit, Current, Tracks, Onto, Looping
    <3> QED
      BY <1>2, <3>1 DEF TasksFit, Where
  <2>3. RestoredFits(y, record, config, late)
    BY <1>2 DEF RestoredFits
  <2> QED
    BY <2>1, <2>2, <2>3 DEF Fits
<1>4. ASSUME NEW q \in Procs
      PROVE  Fits(proc'[q], record', change'.status, config', late')
  <2>1. CASE q = p
    BY <1>3, <1>t, <1>u, <2>1
  <2>2. CASE q # p
    <3>1. proc'[q] = proc[q]
      BY <1>t, <2>2 DEF OthersStay
    <3>2. Unconcerned(proc[q], record)
      BY <1>1, <2>2 DEF CompensationInv, OneReport, Unconcerned
    <3>3. /\ proc[q] \in Coroutine /\ record \in RecordCopy
          /\ proc[q].rec.version <= record.version
          /\ Fits(proc[q], record, change.status, config, late)
      BY <1>v DEF Versions, CompensationInv
    <3>4. RecordMoves(record, record) /\ SafeStays(change.status, config, late, config, late)
      BY DEF RecordMoves, SafeStays
    <3>5. Fits(proc[q], record, to, config, late)
      BY <3>2, <3>3, <3>4, FitsOn
    <3> QED
      BY <1>t, <1>u, <3>1, <3>5
  <2> QED
    BY <2>1, <2>2
<1>5. OneReport'
  <2>1. Succeeds(p)
    BY <1>2, <1>t DEF Succeeds
  <2>2. RecordMoves(record, record')
    BY <1>t DEF RecordMoves
  <2> QED
    BY <1>t, <2>1, <2>2, OneReportKept
<1>6. Carried'
  <2>1. NotWaiting(p)
    BY <1>t, OnlyWavesWait
  <2> QED
    BY <1>t, <1>u, <2>1, CarriedStays
<1>7. RestoredUnlessLate'
  BY <1>1, <1>t, <1>u DEF RestoredUnlessLate, Targets, Safe
<1> QED
  BY <1>4, <1>5, <1>6, <1>7 DEF CompensationInv

\* Every transition of a coroutine, the refused ones included.
LEMMA TransitionKeeps ==
  ASSUME IInv, IInv', CompensationInv, NEW p \in Procs, transition(p), UNCHANGED executionVars
  PROVE  CompensationInv'
<1>1. CASE TransitionAllowed(p)
  BY <1>1, OrdinaryTransition, ReportTransition
<1>2. CASE ~TransitionAllowed(p)
  <2>1. Goto(p, Raised(p)) /\ change' = change /\ record' = record /\ proc[p].pc = "transition"
    BY <1>2 DEF transition, At
  <2>2. Raised(p) \in Ended /\ Raised(p) \in Points
    BY RaisedEnds DEF Points
  <2>3. Moved(p, Raised(p), proc[p].rec)
    BY <2>1, <2>2, GotoMoves, VersionFacts DEF Versions, Documents
  <2>4. PlainMoves(p)
    BY <2>2, <2>3, OverIsPlain DEF Moved
  <2>5. NotWaiting(p)
    BY <2>1, OnlyWavesWait
  <2> QED
    BY <2>1, <2>4, <2>5, PlainQuietStep DEF executionVars
<1> QED
  BY <1>1, <1>2

\* Steps that leave every coroutine, the record and the sandboxes alone.
LEMMA NobodyConcerned ==
  ASSUME IInv, IInv', CompensationInv, UNCHANGED <<record, proc>>,
         StatusStays(change.status, change'.status),
         SafeStays(change.status, config, late, config', late'),
         change'.status = "FAILED" => change.status = "FAILED", Carried'
  PROVE  CompensationInv'
<1>1. OneReport'
  BY DEF CompensationInv, OneReport
<1>2. RecordMoves(record, record')
  BY DEF RecordMoves
<1> QED
  BY <1>1, <1>2, Assembled

\* A user cancels or retries.
LEMMA UserKeeps ==
  ASSUME IInv, IInv', CompensationInv, NEW target \in UserTargets, user_transition(target),
         UNCHANGED executionVars
  PROVE  CompensationInv'
<1>1. /\ target \in {"CANCELLED", "SCREENING"}
      /\ target = "SCREENING" => change.status \in {"BLOCKED", "NEEDS_ATTENTION"}
      /\ can_transition(change.status, target)
      /\ record' = record /\ proc' = proc
      /\ change' = [change EXCEPT !.status = target, !.version = @ + 1]
      /\ change # NoChange
  BY UserTargetsAssumption DEF user_transition
<1>2. change'.status = target
  <2>1. change \in ChangeRecord
    BY <1>1 DEF IInv, TypeOK
  <2> QED
    BY <1>1, <2>1 DEF ChangeRecord
<1>3. StatusStays(change.status, change'.status)
  <2>1. change.status \in Busy => target \in Busy /\ (change.status \in Stopped => target = "CANCELLED")
    BY <1>1, BusyTargets
  <2> QED
    BY <1>2, <2>1 DEF StatusStays, Busy, Stopped
<1>4. SafeStays(change.status, config, late, config', late') /\ Carried'
  BY <1>1 DEF executionVars, SafeStays, CompensationInv, Carried
<1> QED
  BY <1>1, <1>2, <1>3, <1>4, NobodyConcerned

-----------------------------------------------------------------------------
(* The event side.                                                         *)

\* The premises at a point of the code.
Placed(d, w) ==
  /\ d \in Procs /\ proc[d].pc = w /\ NotWaiting(d)
  /\ proc \in [Procs -> Coroutine] /\ change.version \in Nat
  /\ change.status \in WorkflowState \cup {"NONE"}
  /\ record \in RecordCopy /\ proc[d].rec \in RecordCopy
  /\ proc[d].pc \notin Looping \cup {"wave"}

\* They hold outside of the waves and of the restoring loop.
LEMMA AtPlace ==
  ASSUME IInv, NEW d \in Procs, NEW w, w \notin Looping \cup {"wave"}, At(d, w)
  PROVE  Placed(d, w)
<1>1. Versions
  BY VersionFacts
<1>2. proc[d].pc = w /\ NotWaiting(d)
  BY OnlyWavesWait DEF At
<1> QED
  BY <1>1, <1>2 DEF Versions, Documents, Placed

\* Points of the message handler, of process_event, and of resume_approval
\* before the execution.
PlainPoints ==
  {"get", "create", "attempt", "ensure", "analyzing", "screening", "screen", "analyze",
   "block", "blocked", "analyzed", "screened", "drafted", "advance", "climb", "request",
   "create_approval", "approval_created", "dead", "dead_letter_record", "publish", "ack",
   "get_change", "get_record", "resume", "rejected", "changes_requested"}
  \cup Ended

\* All of them are plain.
LEMMA PlainPointsFacts ==
  \A w \in PlainPoints : w \in Points /\ w \notin Started \cup {"transition"} \cup Looping \cup {"wave"}
  BY DEF PlainPoints, Points, Ended, Started, Guarded, Looping

\* Steps that leave the documents alone and lead to a plain point.
LEMMA QuietMoves ==
  ASSUME IInv, IInv', CompensationInv, NEW d \in Procs, NEW w, Placed(d, w),
         UNCHANGED <<change, record, config, late, calls>>,
         \/ \E pc \in PlainPoints : Goto(d, pc) \/ GotoWith(d, record, pc) \/ read_change(d, pc)
         \/ \E pc \in PlainPoints, to \in WorkflowState \ {"FAILED", "NEEDS_ATTENTION", "PARTIAL"} :
              begin_transition(d, to, pc)
  PROVE  CompensationInv'
<1>p. /\ proc \in [Procs -> Coroutine] /\ change.version \in Nat /\ record \in RecordCopy
      /\ change.status \in WorkflowState \cup {"NONE"} /\ NotWaiting(d)
      /\ proc[d].pc \notin Looping \cup {"wave"}
  BY DEF Placed
<1>1. ASSUME NEW pc \in PlainPoints, Goto(d, pc) PROVE PlainMoves(d)
  BY <1>p, <1>1, PlainPointsFacts, GotoMoves, MovedIsPlain
<1>2. ASSUME NEW pc \in PlainPoints, GotoWith(d, record, pc) PROVE PlainMoves(d)
  BY <1>p, <1>2, PlainPointsFacts, GotoWithMoves, MovedIsPlain
<1>3. ASSUME NEW pc \in PlainPoints, read_change(d, pc) PROVE PlainMoves(d)
  BY <1>p, <1>3, PlainPointsFacts, ReadMoves, OntoIsPlain
<1>4. ASSUME NEW pc \in PlainPoints, NEW to \in WorkflowState \ {"FAILED", "NEEDS_ATTENTION", "PARTIAL"},
             begin_transition(d, to, pc)
      PROVE  PlainMoves(d)
  <2>1. OthersStay(d) /\ Asks(proc'[d], to, pc, proc[d])
    BY <1>p, <1>4, PlainPointsFacts, BeginMoves
  <2> QED
    BY <1>p, <2>1, <1>4, PlainPointsFacts, AsksIsPlain
<1> QED
  BY <1>p, <1>1, <1>2, <1>3, <1>4, PlainQuietStep

\* The steps that only read, call out or begin a transition.
LEMMA EventQuiet ==
  ASSUME IInv, IInv', CompensationInv, NEW d \in Procs, UNCHANGED executionVars,
         \/ deliver(d) \/ ack(d) \/ publish_dead_letter(d) \/ record_dead_letter(d)
         \/ get_record(d) \/ read_received(d) \/ screen(d) \/ block(d) \/ read_screening(d)
         \/ screened(d) \/ advance(d) \/ climb(d) \/ request_approval(d)
         \/ create_approval_request(d)
  PROVE  CompensationInv'
<1>u. config' = config /\ late' = late /\ calls' = calls
  BY DEF executionVars
<1> DEFINE Quietly ==
             /\ UNCHANGED <<change, record>>
             /\ \/ \E pc \in PlainPoints : Goto(d, pc) \/ GotoWith(d, record, pc) \/ read_change(d, pc)
                \/ \E pc \in PlainPoints, to \in WorkflowState \ {"FAILED", "NEEDS_ATTENTION", "PARTIAL"} :
                     begin_transition(d, to, pc)
<1>e. /\ {"get", "create", "attempt", "screen", "analyze", "screened", "drafted", "climb", "request",
          "create_approval", "approval_created", "dead", "publish", "ack", "acked", "nacked",
          "blocked"} \subseteq PlainPoints
      /\ {"SCREENING", "BLOCKED", "ANALYZING", "PLAN_READY", "AWAITING_APPROVAL"}
           \subseteq WorkflowState \ {"FAILED", "NEEDS_ATTENTION", "PARTIAL"}
  BY DEF PlainPoints, Ended, WorkflowState
<1>q. ASSUME NEW w, w \notin Looping \cup {"wave"}, At(d, w), Quietly
      PROVE  CompensationInv'
  <2>1. Placed(d, w)
    BY <1>q, AtPlace
  <2> QED
    BY <1>u, <1>q, <2>1, QuietMoves
<1>l. {"idle", "ack", "publish", "dead_letter_record", "get", "screening", "screen", "block",
       "analyzed", "screened", "advance", "climb", "request", "create_approval"}
        \cap (Looping \cup {"wave"}) = {}
  BY DEF Looping
<1>1. CASE deliver(d)
  <2>1. Quietly /\ At(d, "idle")
    BY <1>1, <1>e DEF deliver
  <2> QED
    BY <1>q, <1>l, <2>1
<1>2. CASE ack(d)
  <2>1. Quietly /\ At(d, "ack")
    BY <1>2, <1>e DEF ack
  <2> QED
    BY <1>q, <1>l, <2>1
<1>3. CASE publish_dead_letter(d)
  <2>1. Quietly /\ At(d, "publish")
    BY <1>3, <1>e DEF publish_dead_letter
  <2> QED
    BY <1>q, <1>l, <2>1
<1>4. CASE record_dead_letter(d)
  <2>1. Quietly /\ At(d, "dead_letter_record")
    BY <1>4, <1>e DEF record_dead_letter
  <2> QED
    BY <1>q, <1>l, <2>1
<1>5. CASE get_record(d)
  <2>1. Quietly /\ At(d, "get")
    BY <1>5, <1>e DEF get_record, Returned
  <2> QED
    BY <1>q, <1>l, <2>1
<1>6. CASE read_received(d)
  <2>1. Quietly /\ At(d, "screening")
    BY <1>6, <1>e DEF read_received
  <2> QED
    BY <1>q, <1>l, <2>1
<1>7. CASE screen(d)
  <2>1. Quietly /\ At(d, "screen")
    BY <1>7, <1>e DEF screen
  <2> QED
    BY <1>q, <1>l, <2>1
<1>8. CASE block(d)
  <2>1. Quietly /\ At(d, "block")
    BY <1>8, <1>e DEF block
  <2> QED
    BY <1>q, <1>l, <2>1
<1>9. CASE read_screening(d)
  <2>1. Quietly /\ At(d, "analyzed")
    BY <1>9, <1>e DEF read_screening
  <2> QED
    BY <1>q, <1>l, <2>1
<1>10. CASE screened(d)
  <2>1. Quietly /\ At(d, "screened")
    BY <1>10, <1>e DEF screened
  <2> QED
    BY <1>q, <1>l, <2>1
<1>11. CASE advance(d)
  <2>1. Quietly /\ At(d, "advance")
    BY <1>11, <1>e DEF advance
  <2> QED
    BY <1>q, <1>l, <2>1
<1>12. CASE climb(d)
  <2>1. DOMAIN Climb = {"SCREENING", "ANALYZING", "PLAN_READY"}
        /\ \A w \in DOMAIN Climb : Climb[w] \in {"ANALYZING", "PLAN_READY", "AWAITING_APPROVAL"}
    BY DEF Climb
  <2>2. Quietly /\ At(d, "climb")
    BY <1>12, <1>e, <2>1 DEF climb
  <2> QED
    BY <1>q, <1>l, <2>2
<1>13. CASE request_approval(d)
  <2>1. Quietly /\ At(d, "request")
    BY <1>13, <1>e DEF request_approval
  <2> QED
    BY <1>q, <1>l, <2>1
<1>14. CASE create_approval_request(d)
  <2>1. Quietly /\ At(d, "create_approval")
    BY <1>14, <1>e DEF create_approval_request
  <2> QED
    BY <1>q, <1>l, <2>1
<1> QED
  BY <1>1, <1>2, <1>3, <1>4, <1>5, <1>6, <1>7, <1>8, <1>9, <1>10, <1>11, <1>12, <1>13, <1>14

\* The fleet's answer.
LEMMA EventAnalyzed ==
  ASSUME IInv, IInv', CompensationInv, NEW d \in Procs, UNCHANGED executionVars, analyze(d)
  PROVE  CompensationInv'
<1>u. config' = config /\ late' = late /\ calls' = calls /\ change' = change /\ record' = record
  BY DEF executionVars, analyze
<1>p. Placed(d, "analyze")
  <2>1. "analyze" \notin Looping \cup {"wave"} /\ At(d, "analyze")
    BY DEF Looping, analyze
  <2> QED
    BY <2>1, AtPlace
<1>1. CASE \E pc \in {"advance", "block", "nacked", "dead"} : Goto(d, pc)
  <2>1. {"advance", "block", "nacked", "dead"} \subseteq PlainPoints
    BY DEF PlainPoints, Ended
  <2> QED
    BY <1>u, <1>p, <1>1, <2>1, QuietMoves
<1>2. ASSUME NEW plan \in Plans \cup {NoPlan},
             proc' = [proc EXCEPT ![d] = [@ EXCEPT !.draft = plan, !.pc = "analyzed"]]
      PROVE  CompensationInv'
  <2> DEFINE y == [proc[d] EXCEPT !.draft = plan, !.pc = "analyzed"]
  <2>1. proc \in [Procs -> Coroutine] /\ proc[d] \in Coroutine
        /\ proc[d].pc \notin Looping \cup {"wave"} /\ NotWaiting(d)
    BY <1>p DEF Placed
  <2>2. "analyzed" \in Points /\ "analyzed" \notin Started \cup {"transition"}
    BY PlainPointsFacts DEF PlainPoints
  <2>3. y \in Coroutine /\ Onto(y, "analyzed", proc[d].rec, proc[d].marks, proc[d].seen)
    BY <2>1, <2>2 DEF Coroutine, Onto
  <2>4. proc' = [proc EXCEPT ![d] = y]
    BY <1>2
  <2> HIDE DEF y
  <2>5. OthersStay(d) /\ Onto(proc'[d], "analyzed", proc[d].rec, proc[d].marks, proc[d].seen)
    BY <2>1, <2>3, <2>4, Replaces
  <2>6. PlainMoves(d)
    BY <2>1, <2>2, <2>5, OntoIsPlain
  <2> QED
    BY <1>u, <2>1, <2>6, PlainQuietStep
<1> QED
  BY <1>1, <1>2 DEF analyze

\* A delivery dies.
LEMMA EventInterrupted ==
  ASSUME IInv, IInv', CompensationInv, NEW d \in Deliveries, UNCHANGED executionVars, interrupt(d)
  PROVE  CompensationInv'
<1>1. d \in Procs /\ NotWaiting(d)
  BY ProcsAssumption DEF Procs, NotWaiting, IInv, TypeOK, Call
<1>2. Goto(d, "nacked") /\ change' = change /\ record' = record
      /\ config' = config /\ late' = late /\ calls' = calls
  BY DEF interrupt, executionVars
<1>3. "nacked" \in Ended /\ "nacked" \in Points
  BY DEF Points, Ended
<1>4. OthersStay(d) /\ Over(proc'[d])
  BY <1>1, <1>2, <1>3, GotoMoves, VersionFacts DEF Versions, Documents, Moved
<1> QED
  BY <1>1, <1>2, <1>4, OverIsPlain, PlainQuietStep

\* The writes of a delivery.
LEMMA EventWrites ==
  ASSUME IInv, IInv', CompensationInv, NEW d \in Procs, UNCHANGED executionVars,
         \/ count_attempt(d) \/ mark_analyzing(d) \/ finish_blocked(d) \/ store_plan(d)
         \/ await_approval(d) \/ dead_letter(d)
  PROVE  CompensationInv'
<1>u. config' = config /\ late' = late /\ calls' = calls
  BY DEF executionVars
<1>s. ASSUME NEW w, Placed(d, w), NEW cont \in PlainPoints, NEW status \in RuntimeStatus,
             NEW err \in BOOLEAN,
             set_runtime_status(d, status, err, cont) \/ terminal(d, status, err, cont)
      PROVE  CompensationInv'
  <2>1. cont \in Points /\ cont \notin Started \cup {"transition"}
    BY PlainPointsFacts
  <2>2. (Written(d, cont) \/ Kept(d, cont)) /\ RecordMoves(record, record') /\ change' = change
    BY <1>s, <2>1, StatusWrites
  <2>3. NotWaiting(d) /\ proc[d].pc \notin Looping \cup {"wave"}
    BY <1>s DEF Placed
  <2> QED
    BY <1>u, <2>1, <2>2, <2>3, PlainSave
<1>w. ASSUME NEW w, Placed(d, w), NEW cont \in PlainPoints, NEW new \in RecordCopy,
             new.tasks = proc[d].rec.tasks, update_record(d, new, cont)
      PROVE  CompensationInv'
  <2>1. cont \in Points /\ cont \notin Started \cup {"transition"}
    BY PlainPointsFacts
  <2>2. Written(d, cont) /\ RecordMoves(record, record') /\ change' = change
    BY <1>w, <2>1, UpdateWrites
  <2>3. NotWaiting(d)
    BY <1>w DEF Placed
  <2> QED
    BY <1>u, <2>1, <2>2, <2>3, PlainSave
<1>e. /\ {"ensure", "dead", "screening", "ack", "advance", "dead_letter_record", "nacked"}
           \subseteq PlainPoints
      /\ {"ANALYZING", "FAILED", "WAITING_APPROVAL", "DEAD_LETTERED"} \subseteq RuntimeStatus
  BY DEF PlainPoints, Ended, RuntimeStatus, Terminal
<1>l. {"attempt", "analyzing", "blocked", "drafted", "approval_created", "dead"}
        \cap (Looping \cup {"wave"}) = {}
  BY DEF Looping
<1>1. CASE count_attempt(d)
  <2>1. Placed(d, "attempt")
    BY <1>1, <1>l, AtPlace DEF count_attempt
  <2>2. update_record(d, proc[d].rec, Supported) /\ Supported \in PlainPoints
    BY <1>1, <1>e DEF count_attempt, Supported
  <2>3. proc[d].rec \in RecordCopy
    BY <2>1 DEF Placed
  <2> QED
    BY <1>w, <2>1, <2>2, <2>3
<1>2. CASE mark_analyzing(d)
  <2>1. Placed(d, "analyzing") /\ set_runtime_status(d, "ANALYZING", FALSE, "screening")
    BY <1>2, <1>l, AtPlace DEF mark_analyzing
  <2> QED
    BY <1>s, <1>e, <2>1
<1>3. CASE finish_blocked(d)
  <2>1. Placed(d, "blocked") /\ terminal(d, "FAILED", TRUE, "ack")
    BY <1>3, <1>l, AtPlace DEF finish_blocked
  <2> QED
    BY <1>s, <1>e, <2>1
<1>4. CASE store_plan(d)
  <2>1. Placed(d, "drafted")
    BY <1>4, <1>l, AtPlace DEF store_plan
  <2>2. CASE Goto(d, "dead") /\ UNCHANGED <<change, record>>
    BY <1>u, <1>e, <2>1, <2>2, QuietMoves
  <2>3. CASE update_record(d, [proc[d].rec EXCEPT !.plan = proc[d].draft], "advance")
    <3> DEFINE new == [proc[d].rec EXCEPT !.plan = proc[d].draft]
    <3>1. proc[d] \in Coroutine /\ proc[d].rec \in RecordCopy
      BY <2>1 DEF Placed
    <3>2. new \in RecordCopy /\ new.tasks = proc[d].rec.tasks
      BY <3>1 DEF Coroutine, RecordCopy
    <3>3. update_record(d, new, "advance")
      BY <2>3
    <3> HIDE DEF new
    <3> QED
      BY <1>w, <1>e, <2>1, <3>2, <3>3
  <2> QED
    BY <1>4, <2>2, <2>3 DEF store_plan
<1>5. CASE await_approval(d)
  <2>1. Placed(d, "approval_created")
    BY <1>5, <1>l, AtPlace DEF await_approval
  <2>2. CASE set_runtime_status(d, "WAITING_APPROVAL", FALSE, "ack")
    BY <1>s, <1>e, <2>1, <2>2
  <2>3. CASE Goto(d, "nacked") /\ UNCHANGED <<change, record>>
    BY <1>u, <1>e, <2>1, <2>3, QuietMoves
  <2> QED
    BY <1>5, <2>2, <2>3 DEF await_approval
<1>6. CASE dead_letter(d)
  <2>1. Placed(d, "dead") /\ terminal(d, "DEAD_LETTERED", TRUE, "dead_letter_record")
    BY <1>6, <1>l, AtPlace DEF dead_letter
  <2> QED
    BY <1>s, <1>e, <2>1
<1> QED
  BY <1>1, <1>2, <1>3, <1>4, <1>5, <1>6

\* create_or_get and ensure_change: the first documents.
LEMMA EventCreates ==
  ASSUME IInv, IInv', CompensationInv, NEW d \in Procs, UNCHANGED executionVars,
         create_or_get(d) \/ ensure_change(d)
  PROVE  CompensationInv'
<1>u. config' = config /\ late' = late /\ calls' = calls
  BY DEF executionVars
<1>v. Versions /\ Versions'
  BY VersionFacts, PTL
<1>e. "create" \notin Looping \cup {"wave"} /\ "ensure" \notin Looping \cup {"wave"}
  BY DEF Looping
<1>1. CASE create_or_get(d)
  <2>1. Placed(d, "create") /\ change' = change /\ GotoWith(d, record', Supported)
    BY <1>1, <1>e, AtPlace DEF create_or_get
  <2>2. Supported \in PlainPoints /\ Supported \in Points /\ Supported \notin Started \cup {"transition"}
    BY PlainPointsFacts DEF Supported, PlainPoints
  <2>3. Moved(d, Supported, record')
    BY <1>v, <2>1, <2>2, GotoWithMoves DEF Placed, Versions
  <2>4. PlainMoves(d)
    BY <2>2, <2>3, MovedIsPlain
  <2>5. RecordMoves(record, record')
    <3>1. CASE record = NoRecord
      <4>1. record' = [NoRecord EXCEPT !.status = "RECEIVED", !.version = 1]
        BY <1>1, <3>1 DEF create_or_get
      <4>2. record'.version = 1 /\ record'.tasks = record.tasks /\ record.version = 0
        BY <3>1, <4>1 DEF NoRecord
      <4> QED
        BY <4>2 DEF RecordMoves
    <3>2. CASE record # NoRecord
      BY <1>1, <3>2 DEF create_or_get, RecordMoves
    <3> QED
      BY <3>1, <3>2
  <2>6. Carried' /\ StatusStays(change.status, change'.status)
    BY <1>u, <2>1, <2>4, CarriedStays DEF Placed, PlainMoves, StatusStays
  <2> QED
    BY <1>u, <2>1, <2>4, <2>5, <2>6, PlainStep
<1>2. CASE ensure_change(d)
  <2>1. Placed(d, "ensure") /\ record' = record /\ Goto(d, "analyzing")
    BY <1>2, <1>e, AtPlace DEF ensure_change
  <2>2. "analyzing" \in Points /\ "analyzing" \notin Started \cup {"transition"}
    BY PlainPointsFacts DEF PlainPoints
  <2>3. PlainMoves(d)
    BY <2>1, <2>2, GotoMoves, MovedIsPlain DEF Placed
  <2>4. StatusStays(change.status, change'.status)
        /\ (change'.status = "FAILED" => change.status = "FAILED")
    <3>1. CASE change = NoChange
      BY <1>2, <3>1 DEF ensure_change, NoChange, StatusStays, Busy, Stopped
    <3>2. CASE change # NoChange
      BY <1>2, <3>2 DEF ensure_change, StatusStays
    <3> QED
      BY <3>1, <3>2
  <2>5. Carried' /\ RecordMoves(record, record')
    BY <1>u, <2>1, <2>3, CarriedStays DEF Placed, PlainMoves, RecordMoves
  <2> QED
    BY <1>u, <2>3, <2>4, <2>5, PlainStep
<1> QED
  BY <1>1, <1>2

\* Every step of the event side.
LEMMA IntakeKeeps ==
  ASSUME IInv, IInv', CompensationInv, IntakeNext, UNCHANGED executionVars
  PROVE  CompensationInv'
<1>1. ASSUME NEW d \in Deliveries, deliver(d) \/ handle_message(d) \/ interrupt(d)
      PROVE  CompensationInv'
  <2>1. d \in Procs
    BY DEF Procs
  <2>2. CASE interrupt(d)
    BY <2>2, EventInterrupted
  <2>3. CASE handle_message(d)
    <3>1. CASE process_event(d)
      <4>1. CASE transition(d) /\ UNCHANGED intakeVars
        BY <2>1, <4>1, TransitionKeeps
      <4>2. CASE analyze(d)
        BY <2>1, <4>2, EventAnalyzed
      <4>3. CASE create_or_get(d) \/ ensure_change(d)
        BY <2>1, <4>3, EventCreates
      <4>4. CASE \/ count_attempt(d) \/ mark_analyzing(d) \/ finish_blocked(d) \/ store_plan(d)
                 \/ await_approval(d) \/ dead_letter(d)
        BY <2>1, <4>4, EventWrites
      <4>5. CASE \/ record_dead_letter(d)
                 \/ get_record(d) \/ read_received(d) \/ screen(d) \/ block(d) \/ read_screening(d)
                 \/ screened(d) \/ advance(d) \/ climb(d) \/ request_approval(d)
                 \/ create_approval_request(d)
        BY <2>1, <4>5, EventQuiet
      <4> QED
        BY <3>1, <4>1, <4>2, <4>3, <4>4, <4>5 DEF process_event
    <3>2. CASE publish_dead_letter(d) \/ ack(d)
      BY <2>1, <3>2, EventQuiet
    <3> QED
      BY <2>3, <3>1, <3>2 DEF handle_message
  <2> QED
    BY <1>1, <2>1, <2>2, <2>3, EventQuiet
<1>2. CASE pubsub_forward
  <2>1. UNCHANGED <<change, record, proc, config, late, calls>>
    BY <1>2 DEF pubsub_forward, storeVars, executionVars
  <2>2. StatusStays(change.status, change'.status) /\ Carried'
        /\ SafeStays(change.status, config, late, config', late')
    BY <2>1 DEF StatusStays, SafeStays, CompensationInv, Carried
  <2> QED
    BY <2>1, <2>2, NobodyConcerned
<1> QED
  BY <1>1, <1>2 DEF IntakeNext

-----------------------------------------------------------------------------
(* The callback up to the execution.                                       *)

\* A callback and where it is.
LEMMA CallbackPlaced ==
  ASSUME IInv, NEW b \in Callbacks, NEW w, w \notin Looping \cup {"wave"}, At(b, w)
  PROVE  b \in Procs /\ Placed(b, w)
<1>1. b \in Procs
  BY DEF Procs
<1> QED
  BY <1>1, AtPlace

\* The reads of resume_approval and the transitions of the decision.
LEMMA CallbackQuiet ==
  ASSUME IInv, IInv', CompensationInv, NEW b \in Callbacks, UNCHANGED executionVars,
         notify(b) \/ get_change(b) \/ resume_record(b)
  PROVE  CompensationInv'
<1>u. config' = config /\ late' = late /\ calls' = calls /\ change' = change /\ record' = record
  BY DEF executionVars, notify, get_change, resume_record
<1>l. {"idle", "get_change", "get_record"} \cap (Looping \cup {"wave"}) = {}
  BY DEF Looping
<1>e. {"get_change", "get_record", "resume", "answered", "failed"} \subseteq PlainPoints
  BY DEF PlainPoints, Ended
<1>1. CASE notify(b)
  <2>1. b \in Procs /\ Placed(b, "idle")
    BY <1>1, <1>l, CallbackPlaced DEF notify
  <2>2. Goto(b, "get_change")
    BY <1>1 DEF notify
  <2> QED
    BY <1>u, <1>e, <2>1, <2>2, QuietMoves
<1>2. CASE get_change(b)
  <2>1. b \in Procs /\ Placed(b, "get_change")
    BY <1>2, <1>l, CallbackPlaced DEF get_change
  <2>2. read_change(b, "get_record") \/ Goto(b, "failed")
    BY <1>2 DEF get_change, read_change
  <2> QED
    BY <1>u, <1>e, <2>1, <2>2, QuietMoves
<1>3. CASE resume_record(b)
  <2>1. b \in Procs /\ Placed(b, "get_record")
    BY <1>3, <1>l, CallbackPlaced DEF resume_record
  <2>2. \E pc \in PlainPoints : GotoWith(b, record, pc)
    BY <1>3, <1>e DEF resume_record
  <2> QED
    BY <1>u, <2>1, <2>2, QuietMoves
<1> QED
  BY <1>1, <1>2, <1>3

-----------------------------------------------------------------------------
(* Steps of the execution.                                                 *)

\* Points at which a current copy has the statuses of the record.
Exact == Started \ (Looping \cup {"wave", "rolled_back"})

\* A coroutine at such a point.
LEMMA ExactFits ==
  ASSUME NEW y \in Coroutine, NEW r \in RecordCopy, NEW st, NEW cfg, NEW lt,
         y.pc \in Exact, Begun(st, r),
         Current(y, r) => SameStatus(y.rec.tasks, r.tasks),
         y.pc \in {"roll", "rolling_back"} => y.marks = {},
         (Current(y, r) /\ y.pc \in Checking) => st \in Busy,
         (Current(y, r) /\ y.pc = "rolling_back") => st \in Stopped
  PROVE  Fits(y, r, st, cfg, lt) /\ ~Reporting(y)
<1>1. y.pc \notin Looping \cup {"wave", "rolled_back", "transition"}
  BY DEF Exact, Started, Guarded
<1>2. ~Reporting(y) /\ Where(y) = y.pc /\ (y.pc \in Restoring => y.pc = "rolling_back")
  BY <1>1 DEF Reporting, Where, Restoring, Looping
<1>3. StatusFits(y, r, st)
  BY <1>2 DEF StatusFits
<1>4. TasksFit(y, r)
  <2>1. Current(y, r) => Tracks(y, r)
    BY <1>1 DEF Tracks, SameStatus
  <2> QED
    BY <1>1, <1>2, <2>1 DEF TasksFit
<1>5. RestoredFits(y, r, cfg, lt)
  BY <1>1, <1>2 DEF RestoredFits
<1> QED
  BY <1>2, <1>3, <1>4, <1>5 DEF Fits

\* Whoever takes charge has it already, or nobody reports.
Charge(p) == InCharge(proc[p], record) \/ \A q \in Procs : ~Reporting(proc[q])

\* A coroutine moves to such a point.
LEMMA ExactStep ==
  ASSUME IInv, IInv', CompensationInv, NEW p \in Procs, OthersStay(p), Carried',
         UNCHANGED <<change, config, late>>, RecordMoves(record, record'),
         Begun(change.status, record), proc'[p].pc \in Exact,
         Current(proc'[p], record') => SameStatus(proc'[p].rec.tasks, record'.tasks),
         proc'[p].pc \in {"roll", "rolling_back"} => proc'[p].marks = {},
         InCharge(proc'[p], record') => /\ Charge(p) /\ change.status \in Busy
                                        /\ proc'[p].pc = "rolling_back" => change.status \in Stopped
  PROVE  CompensationInv'
<1> DEFINE y == proc'[p]
           st == change.status
<1>y. record' \in RecordCopy /\ y \in Coroutine
  <2>1. Versions'
    BY VersionFacts, PTL
  <2> QED
    BY <2>1 DEF Versions
<1>1. Begun(st, record')
  BY DEF Begun, RecordMoves
<1>2. (Current(y, record') /\ y.pc \in Checking) => st \in Busy
  BY DEF InCharge
<1>3. (Current(y, record') /\ y.pc = "rolling_back") => st \in Stopped
  BY DEF InCharge, Restoring
<1>4. Fits(y, record', st, config, late) /\ ~Reporting(y)
  <2> HIDE DEF y, st
  <2>1. y.pc \in Exact /\ (Current(y, record') => SameStatus(y.rec.tasks, record'.tasks))
        /\ (y.pc \in {"roll", "rolling_back"} => y.marks = {})
    BY DEF y
  <2> QED
    BY <1>y, <1>1, <1>2, <1>3, <2>1, ExactFits
<1>5. Succeeds(p)
  BY <1>4 DEF Succeeds, Charge
<1>6. StatusStays(st, change'.status) /\ SafeStays(st, config, late, config', late')
  BY DEF StatusStays, SafeStays
<1> QED
  BY <1>4, <1>5, <1>6, OneMoves

\* The statuses of a copy that is kept.
LEMMA KeptCopy ==
  ASSUME IInv, IInv', CompensationInv, NEW p \in Procs, RecordMoves(record, record'),
         proc[p].pc \notin Looping \cup {"wave"},
         proc'[p].rec.version = proc[p].rec.version,
         SameStatus(proc[p].rec.tasks, proc'[p].rec.tasks)
  PROVE  /\ Current(proc'[p], record') => Current(proc[p], record) /\ record' = record
         /\ Current(proc'[p], record') => SameStatus(proc'[p].rec.tasks, record'.tasks)
<1>v. Versions /\ Versions'
  BY VersionFacts, PTL
<1>1. /\ record.version \in Nat /\ record'.version \in Nat
      /\ proc[p].rec.version \in Nat /\ proc[p].rec.version <= record.version
  BY <1>v DEF Versions
<1>2. Current(proc'[p], record') => Current(proc[p], record) /\ record' = record
  BY <1>1 DEF Current, RecordMoves
<1>3. Current(proc[p], record) => Tracks(proc[p], record)
  BY DEF CompensationInv, Fits, TasksFit
<1>4. Current(proc[p], record) => SameStatus(proc[p].rec.tasks, record.tasks)
  BY <1>3 DEF Tracks, SameStatus
<1> QED
  BY <1>2, <1>4 DEF SameStatus

\* What a callback in the execution knows.
LEMMA StartedBegun ==
  ASSUME CompensationInv, NEW p \in Procs, proc[p].pc \in Started
  PROVE  Begun(change.status, record)
<1>1. Where(proc[p]) \in Started
  BY DEF Where, Started, Guarded
<1> QED
  BY <1>1 DEF CompensationInv, Fits, StatusFits

\* The step of a callback that goes on with its copy.
LEMMA ExactMove ==
  ASSUME IInv, IInv', CompensationInv, NEW p \in Procs, NotWaiting(p), OthersStay(p),
         UNCHANGED <<change, record, config, late, calls>>, Begun(change.status, record),
         proc[p].pc \notin Looping \cup {"wave"},
         NEW pc \in Exact, NEW m, NEW seen, Onto(proc'[p], pc, proc[p].rec, m, seen),
         pc \in {"roll", "rolling_back"} => m = {},
         (Current(proc[p], record) /\ pc \in Checking \cup Restoring) =>
           /\ Charge(p) /\ change.status \in Busy
           /\ pc = "rolling_back" => change.status \in Stopped
  PROVE  CompensationInv'
<1>1. proc'[p].pc = pc /\ proc'[p].rec = proc[p].rec /\ proc'[p].marks = m
  BY DEF Onto
<1>2. RecordMoves(record, record') /\ SameStatus(proc[p].rec.tasks, proc'[p].rec.tasks)
  BY <1>1 DEF RecordMoves, SameStatus
<1>3. /\ Current(proc'[p], record') => Current(proc[p], record)
      /\ Current(proc'[p], record') => SameStatus(proc'[p].rec.tasks, record'.tasks)
  BY <1>1, <1>2, KeptCopy
<1>4. Carried'
  BY CarriedStays
<1>5. InCharge(proc'[p], record') => Current(proc[p], record) /\ pc \in Checking \cup Restoring
  BY <1>1, <1>3 DEF InCharge
<1> QED
  BY <1>1, <1>2, <1>3, <1>4, <1>5, ExactStep

\* A write that leads to such a point.
LEMMA ExactSave ==
  ASSUME IInv, IInv', CompensationInv, NEW p \in Procs, NotWaiting(p), proc[p].pc \in Started,
         NEW cont \in Exact \ {"roll", "rolling_back"},
         \/ Written(p, cont)
         \/ Kept(p, cont) /\ proc[p].pc \notin Looping \cup {"wave"},
         RecordMoves(record, record'), UNCHANGED <<change, config, late, calls>>,
         (Current(proc[p], record) /\ cont \in Checking) => Charge(p) /\ change.status \in Busy
  PROVE  CompensationInv'
<1>b. Begun(change.status, record)
  BY StartedBegun
<1>c. cont \notin Ended /\ cont \notin Restoring /\ cont \in Exact
  BY DEF Exact, Started, Guarded, Ended, Restoring, Looping
<1>1. CASE record' = record /\ OthersStay(p) /\ Over(proc'[p])
  BY <1>1, OverIsPlain, PlainQuietStep
<1>2. CASE /\ Current(proc[p], record) /\ Moved(p, cont, record')
  <2>1. OthersStay(p) /\ Onto(proc'[p], cont, record', proc[p].marks, proc[p].seen)
    BY <1>2, <1>c DEF Moved
  <2>2. proc'[p].pc = cont /\ proc'[p].rec = record'
    BY <2>1 DEF Onto
  <2>3. Carried' /\ SameStatus(proc'[p].rec.tasks, record'.tasks)
    BY <2>1, <2>2, CarriedStays DEF SameStatus
  <2>4. InCharge(proc'[p], record') => Charge(p) /\ change.status \in Busy
    BY <1>2, <1>c, <2>2 DEF InCharge
  <2> QED
    BY <1>b, <1>c, <2>1, <2>2, <2>3, <2>4, ExactStep
<1>3. CASE Kept(p, cont) /\ proc[p].pc \notin Looping \cup {"wave"}
  <2>1. record' = record /\ OthersStay(p) /\ Onto(proc'[p], cont, proc[p].rec, proc[p].marks, proc[p].seen)
    BY <1>3, <1>c DEF Moved, Kept
  <2> QED
    BY <1>b, <1>c, <1>3, <2>1, ExactMove
<1> QED
  BY <1>1, <1>2, <1>3 DEF Written

\* follow_decision: the execution is entered with the change EXECUTING.
LEMMA DecisionFollowed ==
  ASSUME IInv, IInv', CompensationInv, NEW b \in Callbacks, UNCHANGED executionVars,
         follow_decision(b)
  PROVE  CompensationInv'
<1>u. config' = config /\ late' = late /\ calls' = calls /\ change' = change /\ record' = record
  BY DEF executionVars, follow_decision
<1>p. b \in Procs /\ Placed(b, "resume")
  <2>1. "resume" \notin Looping \cup {"wave"} /\ At(b, "resume")
    BY DEF Looping, follow_decision
  <2> QED
    BY <2>1, CallbackPlaced
<1>d. approval.status \in DOMAIN Path
  <2>1. Where(proc[b]) = "resume"
    BY <1>p DEF Placed, Where
  <2> QED
    BY <1>p, <2>1, CoroutineFacts, DecidedIsPath DEF LocalInv, Knows, Resumed
<1>e. {"resume", "rejected", "changes_requested", "refused"} \subseteq PlainPoints
  BY DEF PlainPoints, Ended
<1>1. CASE \E status \in DOMAIN Path[approval.status] :
             begin_transition(b, Path[approval.status][status], "resume")
  <2>1. PICK status \in DOMAIN Path[approval.status] :
          begin_transition(b, Path[approval.status][status], "resume")
    BY <1>1
  <2>2. Path[approval.status][status] \in WorkflowState \ {"FAILED", "NEEDS_ATTENTION", "PARTIAL"}
    BY <1>d, PathTargets DEF WorkflowState
  <2> QED
    BY <1>u, <1>p, <1>e, <2>1, <2>2, QuietMoves
<1>2. CASE Goto(b, AfterPath(b))
  <2>1. CASE AfterPath(b) = "executing" /\ proc[b].seen = "EXECUTING"
    <3>1. "executing" \in Points \ Ended /\ "executing" \in Exact
          /\ "executing" \notin Checking \cup Restoring
      BY DEF Points, Ended, Exact, Started, Checking, Restoring, Looping
    <3>2. OthersStay(b) /\ Onto(proc'[b], "executing", proc[b].rec, proc[b].marks, proc[b].seen)
      BY <1>p, <1>2, <2>1, <3>1, GotoMoves DEF Placed, Moved
    <3>3. Begun(change.status, record)
      BY <1>p, <2>1 DEF CompensationInv, Fits, StatusFits
    <3>4. NotWaiting(b) /\ proc[b].pc \notin Looping \cup {"wave"}
      BY <1>p DEF Placed
    <3> QED
      BY <1>u, <1>p, <3>1, <3>2, <3>3, <3>4, ExactMove
  <2>2. CASE AfterPath(b) \in PlainPoints
    BY <1>u, <1>p, <1>2, <2>2, QuietMoves
  <2>3. AfterPath(b) \in PlainPoints \/ (AfterPath(b) = "executing" /\ proc[b].seen = "EXECUTING")
    BY <1>d, <1>e, DecidedIsPath DEF AfterPath, Decided
  <2> QED
    BY <2>1, <2>2, <2>3
<1> QED
  BY <1>1, <1>2 DEF follow_decision

\* The writes that end a callback.
LEMMA CallbackFinishes ==
  ASSUME IInv, IInv', CompensationInv, NEW b \in Callbacks, UNCHANGED executionVars,
         \/ finish_rejected(b) \/ finish_changes_requested(b)
         \/ finish_completed(b) \/ finish_rolled_back(b)
  PROVE  CompensationInv'
<1>u. config' = config /\ late' = late /\ calls' = calls
  BY DEF executionVars
<1>1. \E w \in {"rejected", "changes_requested", "complete", "compensated"} : At(b, w)
  BY DEF finish_rejected, finish_changes_requested, finish_completed, finish_rolled_back
<1>2. b \in Procs /\ NotWaiting(b) /\ proc[b].pc \notin Looping \cup {"wave"}
  <2>1. PICK w \in {"rejected", "changes_requested", "complete", "compensated"} : At(b, w)
    BY <1>1
  <2>2. w \notin Looping \cup {"wave"}
    BY DEF Looping
  <2> QED
    BY <2>1, <2>2, CallbackPlaced DEF Placed
<1>3. \E status \in RuntimeStatus, err \in BOOLEAN :
        set_runtime_status(b, status, err, "answered") \/ terminal(b, status, err, "answered")
  <2>1. Compensated(b) \in RuntimeStatus
        /\ {"FAILED", "ANALYZING", "COMPLETED"} \subseteq RuntimeStatus
    BY DEF Compensated, RuntimeStatus, Terminal
  <2> QED
    BY <2>1 DEF finish_rejected, finish_changes_requested, finish_completed, finish_rolled_back
<1>4. "answered" \in Points /\ "answered" \notin Started \cup {"transition"}
  BY PlainPointsFacts DEF PlainPoints, Ended
<1>5. /\ Written(b, "answered") \/ Kept(b, "answered")
      /\ RecordMoves(record, record') /\ change' = change
  BY <1>2, <1>3, <1>4, StatusWrites
<1> QED
  BY <1>u, <1>2, <1>4, <1>5, PlainSave

\* _set_runtime_status when the execution and the verification begin.
LEMMA CallbackMarks ==
  ASSUME IInv, IInv', CompensationInv, NEW b \in Callbacks, UNCHANGED executionVars,
         mark_executing(b) \/ mark_verifying(b)
  PROVE  CompensationInv'
<1>u. config' = config /\ late' = late /\ calls' = calls
  BY DEF executionVars
<1>1. CASE mark_executing(b)
  <2>1. At(b, "executing") /\ set_runtime_status(b, "EXECUTING", FALSE, "snapshots")
    BY <1>1 DEF mark_executing
  <2>2. "executing" \notin Looping \cup {"wave"} /\ "executing" \in Started
        /\ "snapshots" \in Exact \ {"roll", "rolling_back"} /\ "snapshots" \notin Checking
        /\ "snapshots" \in Points /\ "EXECUTING" \in RuntimeStatus
    BY DEF Looping, Started, Exact, Checking, Points, RuntimeStatus
  <2>3. b \in Procs /\ Placed(b, "executing")
    BY <2>1, <2>2, CallbackPlaced
  <2>4. /\ Written(b, "snapshots") \/ Kept(b, "snapshots")
        /\ RecordMoves(record, record') /\ change' = change
    BY <2>1, <2>2, <2>3, StatusWrites
  <2>5. NotWaiting(b) /\ proc[b].pc \in Started /\ proc[b].pc \notin Looping \cup {"wave"}
    BY <2>2, <2>3 DEF Placed
  <2> QED
    BY <1>u, <2>2, <2>3, <2>4, <2>5, ExactSave
<1>2. CASE mark_verifying(b)
  <2>1. At(b, "verifying") /\ set_runtime_status(b, "VERIFYING", FALSE, "verify")
    BY <1>2 DEF mark_verifying
  <2>2. "verifying" \notin Looping \cup {"wave"} /\ "verifying" \in Started
        /\ "verify" \in Exact \ {"roll", "rolling_back"} /\ "verifying" \in Checking
        /\ "verify" \in Points /\ "VERIFYING" \in RuntimeStatus
    BY DEF Looping, Started, Guarded, Exact, Checking, Points, RuntimeStatus
  <2>3. b \in Procs /\ Placed(b, "verifying")
    BY <2>1, <2>2, CallbackPlaced
  <2>4. /\ Written(b, "verify") \/ Kept(b, "verify")
        /\ RecordMoves(record, record') /\ change' = change
    BY <2>1, <2>2, <2>3, StatusWrites
  <2>5. NotWaiting(b) /\ proc[b].pc \in Started /\ proc[b].pc \notin Looping \cup {"wave"}
        /\ proc[b].pc \in Checking
    BY <2>2, <2>3 DEF Placed
  <2>6. Current(proc[b], record) => Charge(b) /\ change.status \in Busy
    BY <2>3, <2>5 DEF Charge, InCharge, CompensationInv, Fits, StatusFits
  <2> QED
    BY <1>u, <2>2, <2>3, <2>4, <2>5, <2>6, ExactSave
<1> QED
  BY <1>1, <1>2

\* The snapshots are stored.
LEMMA SnapshotsStored ==
  ASSUME IInv, IInv', CompensationInv, NEW b \in Callbacks, UNCHANGED executionVars,
         store_snapshots(b)
  PROVE  CompensationInv'
<1>u. config' = config /\ late' = late /\ calls' = calls
  BY DEF executionVars
<1>e. "snapshots" \notin Looping \cup {"wave"} /\ "snapshots" \in Started
      /\ "dag" \in Exact \ {"roll", "rolling_back"} /\ "dag" \notin Checking \cup Restoring
      /\ "dag" \in Points \ Ended
  BY DEF Looping, Started, Guarded, Exact, Checking, Restoring, Points, Ended
<1>p. b \in Procs /\ Placed(b, "snapshots")
  BY <1>e, CallbackPlaced DEF store_snapshots
<1>q. /\ NotWaiting(b) /\ proc[b].pc \in Started /\ proc[b].pc \notin Looping \cup {"wave"}
      /\ proc \in [Procs -> Coroutine] /\ proc[b].rec \in RecordCopy
  BY <1>e, <1>p DEF Placed
<1>1. CASE Goto(b, "dag") /\ UNCHANGED <<change, record>>
  <2>1. Kept(b, "dag") /\ RecordMoves(record, record')
    BY <1>1, <1>e, <1>p, <1>q, GotoMoves DEF Kept, RecordMoves
  <2> QED
    BY <1>1, <1>u, <1>e, <1>p, <1>q, <2>1, ExactSave
<1>2. CASE update_record(b, proc[b].rec, "dag")
  <2>1. Written(b, "dag") /\ RecordMoves(record, record') /\ change' = change
    BY <1>2, <1>e, <1>p, <1>q, UpdateWrites
  <2> QED
    BY <1>u, <1>e, <1>p, <1>q, <2>1, ExactSave
<1> QED
  BY <1>1, <1>2 DEF store_snapshots

\* A record with a failed task is not rolled back, so nobody reports and the
\* change has not left the execution.
LEMMA FailedTask ==
  ASSUME CompensationInv, NEW p \in Procs, proc[p].pc \in Started \ Looping,
         Current(proc[p], record),
         NEW s \in Steps, proc[p].rec.tasks[s].status = "FAILED"
  PROVE  Charge(p) /\ change.status \in Busy
<1>1. Tracks(proc[p], record)
  BY DEF CompensationInv, Fits, TasksFit
<1>2. record.tasks[s].status \in {"FAILED", "PENDING"}
  BY <1>1 DEF Tracks
<1>3. ~Rolled(record.tasks)
  BY <1>2 DEF Rolled, Undone
<1>4. Begun(change.status, record)
  BY StartedBegun
<1> QED
  BY <1>3, <1>4, NobodyReports DEF Begun, Charge

\* The results of a wave are stored.
LEMMA WaveStored ==
  ASSUME IInv, IInv', CompensationInv, NEW b \in Callbacks, UNCHANGED executionVars,
         store_wave(b)
  PROVE  CompensationInv'
<1>u. config' = config /\ late' = late /\ calls' = calls
  BY DEF executionVars
<1>p. b \in Procs /\ proc[b].pc = "wave" /\ NotWaiting(b)
  BY DEF Procs, store_wave, At, NotWaiting
<1>e. /\ "wave" \in Started \ Looping
      /\ {"dag", "rollback"} \subseteq Exact \ {"roll", "rolling_back"} /\ "dag" \notin Checking
      /\ {"dag", "rollback"} \subseteq Points
  BY DEF Looping, Started, Guarded, Exact, Checking, Points
<1>v. proc[b].rec \in RecordCopy
  BY <1>p, VersionFacts DEF Versions
<1> DEFINE failed == WithStatus(b, "FAILED") \cap proc[b].marks # {}
           new == [proc[b].rec EXCEPT !.err = failed]
           cont == IF failed THEN "rollback" ELSE "dag"
<1>1. update_record(b, new, cont)
  BY DEF store_wave
<1>2. new \in RecordCopy /\ new.tasks = proc[b].rec.tasks
  <2>1. failed \in BOOLEAN
    OBVIOUS
  <2> HIDE DEF failed
  <2> QED
    BY <1>v, <2>1 DEF RecordCopy
<1>3. cont \in Exact \ {"roll", "rolling_back"} /\ cont \in Points
  BY <1>e
<1>4. (Current(proc[b], record) /\ cont \in Checking) => Charge(b) /\ change.status \in Busy
  <2> SUFFICES ASSUME Current(proc[b], record), cont \in Checking
               PROVE  Charge(b) /\ change.status \in Busy
    OBVIOUS
  <2>1. failed
    BY <1>e
  <2>2. PICK s \in Steps : proc[b].rec.tasks[s].status = "FAILED"
    BY <2>1 DEF WithStatus, Tasks
  <2> QED
    BY <1>p, <1>e, <2>2, FailedTask
<1> HIDE DEF new, cont
<1>5. Written(b, cont) /\ RecordMoves(record, record') /\ change' = change
  BY <1>1, <1>2, <1>3, <1>p, UpdateWrites
<1> QED
  BY <1>u, <1>p, <1>e, <1>3, <1>4, <1>5, ExactSave

\* A callback that dies or gives up.
LEMMA CallbackStops ==
  ASSUME IInv, IInv', CompensationInv, NEW b \in Callbacks, NotWaiting(b), Goto(b, "failed"),
         UNCHANGED <<change, record, config, late, calls>>
  PROVE  CompensationInv'
<1>1. b \in Procs /\ "failed" \in Ended /\ "failed" \in Points
  BY DEF Procs, Points, Ended
<1>2. OthersStay(b) /\ Over(proc'[b])
  BY <1>1, GotoMoves, VersionFacts DEF Versions, Documents, Moved
<1> QED
  BY <1>1, <1>2, OverIsPlain, PlainQuietStep

\* A snapshot changes no status.
LEMMA SnapshotCaptured ==
  ASSUME IInv, IInv', CompensationInv, NEW b \in Callbacks, NEW s \in Steps,
         capture_snapshot(b, s), UNCHANGED executionVars
  PROVE  CompensationInv'
<1>u. config' = config /\ late' = late /\ calls' = calls /\ change' = change /\ record' = record
  BY DEF executionVars, capture_snapshot
<1>e. "snapshots" \notin Looping \cup {"wave"} /\ "snapshots" \in Started /\ "snapshots" \in Exact
      /\ "snapshots" \notin Checking \cup Restoring \cup {"roll", "rolling_back"}
  BY DEF Looping, Started, Exact, Checking, Restoring
<1>p. b \in Procs /\ Placed(b, "snapshots")
  BY <1>e, CallbackPlaced DEF capture_snapshot
<1>q. NotWaiting(b) /\ proc[b].pc = "snapshots" /\ proc \in [Procs -> Coroutine]
      /\ proc[b] \in Coroutine
  BY <1>p DEF Placed
<1>1. CASE Goto(b, "failed")
  BY <1>u, <1>1, <1>q, CallbackStops
<1>2. CASE proc' = [proc EXCEPT ![b] = [@ EXCEPT
              !.rec.tasks[s].snap = config[s], !.marks = proc[b].marks \cup {s}]]
  <2> DEFINE y == [proc[b] EXCEPT !.rec.tasks[s].snap = config[s], !.marks = @ \cup {s}]
  <2>1. proc' = [proc EXCEPT ![b] = y]
    BY <1>2
  <2>2. config[s] \in Configuration
    BY DEF IInv, TypeOK
  <2>3. /\ y \in Coroutine /\ y.pc = proc[b].pc /\ y.marks = proc[b].marks \cup {s}
        /\ \E task \in Task : /\ task.snap = config[s] /\ task.status = proc[b].rec.tasks[s].status
                              /\ EditedCopy(proc[b].rec, s, task, y.rec)
    BY <1>q, <2>2, SnapshotTaken
  <2> HIDE DEF y
  <2>4. OthersStay(b) /\ proc'[b] = y
    BY <1>p, <1>q, <2>1, <2>3, Replaces
  <2>5. y.rec.version = proc[b].rec.version /\ SameStatus(proc[b].rec.tasks, y.rec.tasks)
    BY <2>3 DEF EditedCopy, SameStatus
  <2>6. RecordMoves(record, record') /\ Carried' /\ Begun(change.status, record)
    BY <1>u, <1>e, <1>p, <1>q, <2>4, CarriedStays, StartedBegun DEF RecordMoves
  <2>7. Current(proc'[b], record') => SameStatus(proc'[b].rec.tasks, record'.tasks)
    BY <1>e, <1>p, <1>q, <2>4, <2>5, <2>6, KeptCopy
  <2>8. proc'[b].pc = "snapshots" /\ ~InCharge(proc'[b], record')
    BY <1>e, <1>q, <2>3, <2>4 DEF InCharge
  <2> QED
    BY <1>u, <1>e, <1>p, <2>4, <2>6, <2>7, <2>8, ExactStep
<1> QED
  BY <1>1, <1>2 DEF capture_snapshot

\* A coroutine that waits for a wave of steps that were pending.
LEMMA WaveFits ==
  ASSUME NEW y \in Coroutine, NEW r \in RecordCopy, NEW st, NEW cfg, NEW lt,
         y.pc = "wave", Begun(st, r), Current(y, r) => Tracks(y, r)
  PROVE  Fits(y, r, st, cfg, lt) /\ ~Reporting(y) /\ ~InCharge(y, r)
<1>1. ~Reporting(y) /\ Where(y) = "wave" /\ y.pc \notin Checking \cup Restoring \cup Looping
  BY DEF Reporting, Where, Checking, Restoring, Looping
<1>2. StatusFits(y, r, st)
  BY <1>1 DEF StatusFits
<1>3. TasksFit(y, r)
  BY <1>1 DEF TasksFit
<1>4. RestoredFits(y, r, cfg, lt)
  BY <1>1 DEF RestoredFits
<1> QED
  BY <1>1, <1>2, <1>3, <1>4 DEF Fits, InCharge

\* A step of a coroutine that waits then.
LEMMA WaveStep ==
  ASSUME IInv, IInv', CompensationInv, NEW p \in Procs, OthersStay(p), Carried',
         UNCHANGED <<change, record, config, late>>, proc[p].pc \in Started,
         proc'[p].pc = "wave", Current(proc'[p], record) => Tracks(proc'[p], record)
  PROVE  CompensationInv'
<1>y. record \in RecordCopy /\ proc'[p] \in Coroutine
  <2>1. Versions /\ Versions'
    BY VersionFacts, PTL
  <2> QED
    BY <2>1 DEF Versions
<1>1. Begun(change.status, record)
  BY StartedBegun
<1>2. Fits(proc'[p], record, change.status, config, late)
      /\ ~Reporting(proc'[p]) /\ ~InCharge(proc'[p], record)
  BY <1>y, <1>1, WaveFits
<1>3. /\ Succeeds(p) /\ RecordMoves(record, record')
      /\ StatusStays(change.status, change'.status)
      /\ SafeStays(change.status, config, late, config', late')
  BY <1>2 DEF Succeeds, RecordMoves, StatusStays, SafeStays
<1> QED
  BY <1>2, <1>3, OneMoves

\* One round of _execute_dag.
LEMMA DagExecuted ==
  ASSUME IInv, IInv', CompensationInv, NEW b \in Callbacks, execute_dag(b)
  PROVE  CompensationInv'
<1>u. config' = config /\ late' = late /\ change' = change /\ record' = record
  BY DEF execute_dag
<1>e. /\ "dag" \notin Looping \cup {"wave"} /\ "dag" \in Started
      /\ {"rollback", "executed"} \subseteq Exact \ {"roll", "rolling_back"}
      /\ "executed" \notin Checking \cup Restoring /\ "rollback" \notin Restoring
      /\ "wave" \in Points /\ {"rollback", "executed"} \subseteq Points
  BY DEF Looping, Started, Guarded, Exact, Checking, Restoring, Points
<1>p. b \in Procs /\ Placed(b, "dag")
  BY <1>e, CallbackPlaced DEF execute_dag
<1>q. NotWaiting(b) /\ proc[b].pc = "dag" /\ proc \in [Procs -> Coroutine]
  BY <1>p DEF Placed
<1>1. CASE Goto(b, "failed") /\ calls' = calls
  BY <1>u, <1>1, <1>q, CallbackStops
<1>2. CASE /\ Enter(b, IF WithStatus(b, "FAILED") # {} THEN "rollback" ELSE "executed", {})
           /\ calls' = calls
  <2> DEFINE w == IF WithStatus(b, "FAILED") # {} THEN "rollback" ELSE "executed"
  <2>1. w \in Exact \ {"roll", "rolling_back"} /\ w \in Points
    BY <1>e
  <2>2. OthersStay(b) /\ Onto(proc'[b], w, proc[b].rec, {}, proc[b].seen)
    <3>1. Enter(b, w, {})
      BY <1>2
    <3> HIDE DEF w
    <3> QED
      BY <1>p, <1>q, <2>1, <3>1, EnterMoves
  <2>3. (Current(proc[b], record) /\ w \in Checking \cup Restoring) =>
          /\ Charge(b) /\ change.status \in Busy
          /\ w = "rolling_back" => change.status \in Stopped
    <3> SUFFICES ASSUME Current(proc[b], record), w \in Checking \cup Restoring
                 PROVE  Charge(b) /\ change.status \in Busy /\ w # "rolling_back"
      OBVIOUS
    <3>1. WithStatus(b, "FAILED") # {}
      BY <1>e
    <3>2. PICK s \in Steps : proc[b].rec.tasks[s].status = "FAILED"
      BY <3>1 DEF WithStatus, Tasks
    <3> QED
      BY <1>p, <1>q, <1>e, <2>1, <3>2, FailedTask
  <2>4. Begun(change.status, record)
    BY <1>p, <1>q, <1>e, StartedBegun
  <2> HIDE DEF w
  <2> QED
    BY <1>u, <1>2, <1>p, <1>q, <1>e, <2>1, <2>2, <2>3, <2>4, ExactMove
<1>3. CASE /\ calls' = calls \cup {NewCall(b, s, 1) : s \in Ready(b)}
           /\ Enter(b, "wave", Ready(b))
  <2>1. Ready(b) \in SUBSET Steps
        /\ \A s \in Ready(b) : proc[b].rec.tasks[s].status = "PENDING"
    BY DEF Ready, WithStatus, Tasks
  <2>2. OthersStay(b) /\ Onto(proc'[b], "wave", proc[b].rec, Ready(b), proc[b].seen)
    BY <1>3, <1>p, <1>q, <1>e, <2>1, EnterMoves
  <2>3. proc'[b].pc = "wave" /\ proc'[b].rec = proc[b].rec /\ proc'[b].marks = Ready(b)
    BY <2>2 DEF Onto
  <2>4. Current(proc'[b], record) => Tracks(proc'[b], record)
    <3>1. Current(proc[b], record) => Tracks(proc[b], record)
      BY <1>p DEF CompensationInv, Fits, TasksFit
    <3> QED
      BY <1>q, <1>e, <2>1, <2>3, <3>1 DEF Tracks, Current
  <2>5. Carried'
    <3> SUFFICES ASSUME NEW k \in calls', k.waited PROVE k.step \in proc'[k.by].marks
      BY DEF Carried
    <3>1. CASE k \in calls
      <4>1. k.by # b /\ k.by \in Procs /\ k.step \in proc[k.by].marks
        BY <1>q, <3>1 DEF NotWaiting, IInv, TypeOK, Call, Procs, CompensationInv, Carried
      <4> QED
        BY <2>2, <4>1 DEF OthersStay
    <3>2. CASE k \notin calls
      <4>1. PICK s \in Ready(b) : k = NewCall(b, s, 1)
        BY <1>3, <3>2
      <4>2. k.by = b /\ k.step = s
        BY <4>1 DEF NewCall
      <4> QED
        BY <2>3, <4>2
    <3> QED
      BY <3>1, <3>2
  <2> QED
    BY <1>u, <1>p, <1>q, <1>e, <2>2, <2>3, <2>4, <2>5, WaveStep
<1> QED
  BY <1>1, <1>2, <1>3 DEF execute_dag

\* A callback dies; nobody waits for its calls any more.
LEMMA CallbackCrashed ==
  ASSUME IInv, IInv', CompensationInv, NEW b \in Callbacks, callback_crash(b)
  PROVE  CompensationInv'
<1>u. config' = config /\ late' = late /\ change' = change /\ record' = record
  BY DEF callback_crash
<1>1. b \in Procs /\ "failed" \in Ended /\ "failed" \in Points
  BY DEF Procs, Points, Ended
<1>2. OthersStay(b) /\ Over(proc'[b])
  BY <1>1, GotoMoves, VersionFacts DEF Versions, Documents, Moved, callback_crash
<1>3. Carried'
  <2> SUFFICES ASSUME NEW k2 \in calls', k2.waited PROVE k2.step \in proc'[k2.by].marks
    BY DEF Carried
  <2>1. PICK k \in calls : k2 = IF k.by = b THEN [k EXCEPT !.waited = FALSE] ELSE k
    BY DEF callback_crash
  <2>2. k \in Call
    BY DEF IInv, TypeOK
  <2>3. ~[k EXCEPT !.waited = FALSE].waited
    BY <2>2 DEF Call
  <2>4. k2 = k /\ k.by # b
    BY <2>1, <2>3
  <2>5. k.by \in Procs /\ k.step \in proc[k.by].marks
    BY <2>2, <2>4 DEF Call, Procs, CompensationInv, Carried
  <2> QED
    BY <1>2, <2>4, <2>5 DEF OthersStay
<1>4. PlainMoves(b)
  BY <1>1, <1>2, OverIsPlain
<1>5. RecordMoves(record, record') /\ StatusStays(change.status, change'.status)
  BY <1>u DEF RecordMoves, StatusStays
<1> QED
  BY <1>u, <1>1, <1>3, <1>4, <1>5, PlainStep

\* A transition of the execution begins.
LEMMA AskStep ==
  ASSUME IInv, IInv', CompensationInv, NEW p \in Procs, NotWaiting(p), OthersStay(p),
         UNCHANGED <<change, record, config, late, calls>>,
         proc[p].pc \in Exact, NEW to, NEW cont,
         Asks(proc'[p], to, cont, proc[p]),
         \/ cont = "verifying" /\ to = "VERIFYING"
         \/ cont = "complete" /\ to = "COMPLETED"
         \/ cont = "rolling_back" /\ to = "ROLLING_BACK" /\ proc[p].marks = {}
  PROVE  CompensationInv'
<1> DEFINE x == proc[p]
           y == proc'[p]
<1>a. y.pc = "transition" /\ y.to = to /\ y.cont = cont /\ y.rec = x.rec /\ y.marks = x.marks
      /\ y.seen = "NONE"
  BY DEF Asks
<1>1. ~Reporting(y) /\ ~InCharge(y, record) /\ y.pc \notin Checking \cup Restoring \cup Looping
      /\ Where(y) = cont
  BY <1>a DEF Reporting, InCharge, Checking, Restoring, Looping, Where
<1>2. Begun(change.status, record)
  BY StartedBegun DEF Exact
<1>3. Targets(y)
  BY <1>a DEF Targets, Looping
<1>4. Current(y, record) => Tracks(y, record)
  <2>1. Current(x, record) => Tracks(x, record)
    BY DEF CompensationInv, Fits, TasksFit
  <2> QED
    BY <1>a, <2>1 DEF Current, Tracks, Exact
<1>5. Fits(y, record, change.status, config, late)
  <2>1. StatusFits(y, record, change.status)
    BY <1>1, <1>2 DEF StatusFits
  <2>2. TasksFit(y, record)
    BY <1>a, <1>1, <1>3, <1>4 DEF TasksFit
  <2>3. RestoredFits(y, record, config, late)
    BY <1>1 DEF RestoredFits
  <2> QED
    BY <2>1, <2>2, <2>3 DEF Fits
<1>6. /\ Succeeds(p) /\ RecordMoves(record, record') /\ Carried'
      /\ StatusStays(change.status, change'.status)
      /\ SafeStays(change.status, config, late, config', late')
  BY <1>1, CarriedStays DEF Succeeds, RecordMoves, StatusStays, SafeStays
<1> QED
  BY <1>5, <1>6, OneMoves

\* start_verifying, start_completing and start_rollback.
LEMMA ExecutionAsks ==
  ASSUME IInv, IInv', CompensationInv, NEW b \in Callbacks, UNCHANGED executionVars,
         start_verifying(b) \/ start_completing(b) \/ start_rollback(b)
  PROVE  CompensationInv'
<1>u. config' = config /\ late' = late /\ calls' = calls /\ change' = change /\ record' = record
  BY DEF executionVars, start_verifying, start_completing, start_rollback
<1>e. \A w \in {"executed", "verify", "roll"} : w \notin Looping \cup {"wave"} /\ w \in Exact
  BY DEF Looping, Exact, Started, Guarded
<1>c. {"verifying", "complete", "rolling_back"} \subseteq Points
      /\ {"VERIFYING", "COMPLETED", "ROLLING_BACK"} \subseteq WorkflowState
  BY DEF Points, WorkflowState
<1>1. PICK w \in {"executed", "verify", "roll"} : At(b, w)
  BY DEF start_verifying, start_completing, start_rollback
<1>p. b \in Procs /\ Placed(b, w) /\ proc[b].pc = w
  BY <1>1, <1>e, CallbackPlaced DEF At
<1>q. /\ NotWaiting(b) /\ proc[b].pc \in Exact
      /\ proc \in [Procs -> Coroutine] /\ change.version \in Nat
  BY <1>p, <1>e DEF Placed
<1>2. CASE start_verifying(b)
  <2>1. OthersStay(b) /\ Asks(proc'[b], "VERIFYING", "verifying", proc[b])
    BY <1>2, <1>c, <1>p, <1>q, BeginMoves DEF start_verifying
  <2> QED
    BY <1>u, <1>p, <1>q, <2>1, AskStep
<1>3. CASE start_completing(b)
  <2>1. OthersStay(b) /\ Asks(proc'[b], "COMPLETED", "complete", proc[b])
    BY <1>3, <1>c, <1>p, <1>q, BeginMoves DEF start_completing
  <2> QED
    BY <1>u, <1>p, <1>q, <2>1, AskStep
<1>4. CASE start_rollback(b)
  <2>1. OthersStay(b) /\ Asks(proc'[b], "ROLLING_BACK", "rolling_back", proc[b])
    BY <1>4, <1>c, <1>p, <1>q, BeginMoves DEF start_rollback
  <2>2. proc[b].marks = {}
    BY <1>4, <1>p DEF start_rollback, At, CompensationInv, Fits, TasksFit
  <2> QED
    BY <1>u, <1>p, <1>q, <2>1, <2>2, AskStep
<1> QED
  BY <1>2, <1>3, <1>4

\* Every system is checked, or the change is condemned.
LEMMA TaskVerified ==
  ASSUME IInv, IInv', CompensationInv, NEW b \in Callbacks, NEW s \in Steps,
         verify_task(b, s), UNCHANGED executionVars
  PROVE  CompensationInv'
<1>u. config' = config /\ late' = late /\ calls' = calls /\ change' = change /\ record' = record
  BY DEF executionVars, verify_task
<1>e. /\ "verify" \notin Looping \cup {"wave"} /\ "verify" \in Checking
      /\ {"verify", "rollback"} \subseteq Points
      /\ {"verify", "rollback"} \subseteq Exact /\ Exact \subseteq Started
  BY DEF Looping, Checking, Points, Exact, Started, Guarded
<1>p. b \in Procs /\ Placed(b, "verify")
  BY <1>e, CallbackPlaced DEF verify_task
<1>q. NotWaiting(b) /\ proc[b].pc = "verify" /\ proc \in [Procs -> Coroutine]
  BY <1>p DEF Placed
<1>1. PICK w \in {"verify", "rollback"}, m \in SUBSET Steps : Enter(b, w, m)
  <2>1. proc[b].marks \cup {s} \in SUBSET Steps
    BY <1>p, VersionFacts DEF Versions
  <2> QED
    BY <2>1 DEF verify_task
<1>2. OthersStay(b) /\ Onto(proc'[b], w, proc[b].rec, m, proc[b].seen)
  BY <1>1, <1>p, <1>q, <1>e, EnterMoves
<1>3. Current(proc[b], record) => Charge(b) /\ change.status \in Busy
  BY <1>p, <1>q, <1>e DEF Charge, InCharge, CompensationInv, Fits, StatusFits
<1>4. Begun(change.status, record)
  BY <1>p, <1>q, <1>e, StartedBegun
<1> QED
  BY <1>u, <1>p, <1>q, <1>e, <1>2, <1>3, <1>4, ExactMove

\* Compensation begins: a change that is still busy and not in the middle of
\* its execution has stopped.
LEMMA RollbackRead ==
  ASSUME IInv, IInv', CompensationInv, NEW b \in Callbacks, read_for_rollback(b),
         UNCHANGED executionVars
  PROVE  CompensationInv'
<1>u. config' = config /\ late' = late /\ calls' = calls /\ change' = change /\ record' = record
  BY DEF executionVars, read_for_rollback
<1>e. /\ "rollback" \notin Looping \cup {"wave"} /\ "rollback" \in Checking /\ "rollback" \in Started
      /\ {"roll", "rolling_back"} \subseteq Points \cap Exact /\ "roll" \notin Checking \cup Restoring
  BY DEF Looping, Checking, Restoring, Points, Exact, Started, Guarded
<1>p. b \in Procs /\ Placed(b, "rollback")
  BY <1>e, CallbackPlaced DEF read_for_rollback
<1>q. /\ NotWaiting(b) /\ proc[b].pc = "rollback" /\ proc \in [Procs -> Coroutine]
      /\ proc[b] \in Coroutine /\ change.status \in WorkflowState \cup {"NONE"}
  BY <1>p DEF Placed
<1> DEFINE w == IF change.status \in {"EXECUTING", "VERIFYING"} THEN "roll" ELSE "rolling_back"
           y == [proc[b] EXCEPT !.seen = change.status, !.marks = {}, !.pc = w]
<1>1. proc' = [proc EXCEPT ![b] = y]
  BY DEF read_for_rollback
<1>2. w \in Points /\ w \in Exact /\ (w = "rolling_back" <=> change.status \notin {"EXECUTING", "VERIFYING"})
      /\ w \in {"roll", "rolling_back"}
  BY <1>e
<1> HIDE DEF w
<1>3. y \in Coroutine /\ Onto(y, w, proc[b].rec, {}, change.status)
  BY <1>q, <1>2 DEF Coroutine, Onto
<1> HIDE DEF y
<1>4. OthersStay(b) /\ Onto(proc'[b], w, proc[b].rec, {}, change.status)
  BY <1>p, <1>q, <1>1, <1>3, Replaces
<1>5. Current(proc[b], record) => Charge(b) /\ change.status \in Busy
  BY <1>p, <1>q, <1>e DEF Charge, InCharge, CompensationInv, Fits, StatusFits
<1>6. (Current(proc[b], record) /\ w = "rolling_back") => change.status \in Stopped
  BY <1>2, <1>5 DEF Busy
<1>7. Begun(change.status, record)
  BY <1>p, <1>q, <1>e, StartedBegun
<1> QED
  BY <1>u, <1>p, <1>q, <1>e, <1>2, <1>4, <1>5, <1>6, <1>7, ExactMove

-----------------------------------------------------------------------------
(* The compensation.                                                       *)

\* A coroutine in the loop that restores the systems.
LEMMA LoopFits ==
  ASSUME NEW y \in Coroutine, NEW r \in RecordCopy, NEW st, NEW cfg, NEW lt,
         y.pc \in Looping, Begun(st, r),
         \A s \in y.marks : y.rec.tasks[s].status \in Undone,
         Current(y, r) =>
           /\ Tracks(y, r) /\ st \in Stopped
           /\ \A s \in y.marks : y.rec.tasks[s].status = "ROLLED_BACK" => Safe(s, cfg, lt)
  PROVE  Fits(y, r, st, cfg, lt) /\ ~Reporting(y)
<1>1. y.pc \notin {"transition", "rolled_back", "roll", "rolling_back"} \cup Checking
  BY DEF Looping, Checking
<1>2. ~Reporting(y) /\ Where(y) = y.pc
  BY <1>1 DEF Reporting, Where
<1>3. StatusFits(y, r, st)
  BY <1>1, <1>2 DEF StatusFits
<1>4. TasksFit(y, r)
  BY <1>1, <1>2 DEF TasksFit
<1>5. RestoredFits(y, r, cfg, lt)
  BY <1>2 DEF RestoredFits
<1> QED
  BY <1>2, <1>3, <1>4, <1>5 DEF Fits

\* A step that leads into the loop or stays in it.
LEMMA RestoringStep ==
  ASSUME IInv, IInv', CompensationInv, NEW p \in Procs, OthersStay(p), NotWaiting(p),
         UNCHANGED <<change, calls>>, RecordMoves(record, record'),
         SafeStays(change.status, config, late, config', late'),
         proc[p].pc \in Started, proc'[p].pc \in Looping,
         \A s \in proc'[p].marks : proc'[p].rec.tasks[s].status \in Undone,
         Current(proc'[p], record') =>
           /\ Tracks(proc'[p], record') /\ InCharge(proc[p], record) /\ proc[p].pc \in Restoring
           /\ \A s \in proc'[p].marks :
                proc'[p].rec.tasks[s].status = "ROLLED_BACK" => Safe(s, config', late')
  PROVE  CompensationInv'
<1>y. record' \in RecordCopy /\ proc'[p] \in Coroutine
  <2>1. Versions'
    BY VersionFacts, PTL
  <2> QED
    BY <2>1 DEF Versions
<1>1. Begun(change.status, record')
  BY StartedBegun DEF Begun, RecordMoves
<1>2. Current(proc'[p], record') => change.status \in Stopped
  BY DEF InCharge, CompensationInv, Fits, StatusFits
<1>3. Fits(proc'[p], record', change.status, config', late') /\ ~Reporting(proc'[p])
  BY <1>y, <1>1, <1>2, LoopFits
<1>4. Succeeds(p) /\ Carried' /\ StatusStays(change.status, change'.status)
  <2>1. InCharge(proc'[p], record') => Current(proc'[p], record')
    BY DEF InCharge
  <2> QED
    BY <1>3, <2>1, CarriedStays DEF Succeeds, StatusStays
<1> QED
  BY <1>3, <1>4, OneMoves

\* mark_rolling_back: the loop begins with nothing restored.
LEMMA RollbackMarked ==
  ASSUME IInv, IInv', CompensationInv, NEW b \in Callbacks, mark_rolling_back(b),
         UNCHANGED executionVars
  PROVE  CompensationInv'
<1>u. config' = config /\ late' = late /\ calls' = calls
  BY DEF executionVars
<1>e. /\ "rolling_back" \notin Looping \cup {"wave"} /\ "rolling_back" \in Restoring \cap Started
      /\ "restore" \in Points \ Ended /\ "restore" \in Looping /\ "ROLLING_BACK" \in RuntimeStatus
  BY DEF Looping, Restoring, Points, Ended, Started, Guarded, RuntimeStatus
<1>p. b \in Procs /\ Placed(b, "rolling_back")
  BY <1>e, CallbackPlaced DEF mark_rolling_back
<1>q. NotWaiting(b) /\ proc[b].pc = "rolling_back"
  BY <1>p DEF Placed
<1>m. proc[b].marks = {}
  <2>1. Where(proc[b]) = "rolling_back"
    BY <1>q DEF Where
  <2> QED
    BY <1>p, <2>1 DEF CompensationInv, Fits, TasksFit
<1>1. /\ Written(b, "restore") \/ Kept(b, "restore")
      /\ RecordMoves(record, record') /\ change' = change
  BY <1>e, <1>p, StatusWrites DEF mark_rolling_back
<1>s. SafeStays(change.status, config, late, config', late')
  BY <1>u DEF SafeStays
<1>2. CASE record' = record /\ OthersStay(b) /\ Over(proc'[b])
  BY <1>u, <1>1, <1>2, <1>p, <1>q, OverIsPlain, PlainQuietStep
<1>3. CASE Current(proc[b], record) /\ Moved(b, "restore", record')
  <2>1. OthersStay(b) /\ Onto(proc'[b], "restore", record', {}, proc[b].seen)
    BY <1>3, <1>e, <1>m DEF Moved
  <2>2. proc'[b].pc = "restore" /\ proc'[b].rec = record' /\ proc'[b].marks = {}
    BY <2>1 DEF Onto
  <2>3. Tracks(proc'[b], record') /\ InCharge(proc[b], record) /\ proc[b].pc \in Restoring
    BY <1>3, <1>e, <1>q, <2>2 DEF Tracks, InCharge
  <2> QED
    BY <1>u, <1>s, <1>1, <1>e, <1>p, <1>q, <2>1, <2>2, <2>3, RestoringStep
<1>4. CASE Kept(b, "restore")
  <2>1. /\ record' = record /\ OthersStay(b)
        /\ Onto(proc'[b], "restore", proc[b].rec, {}, proc[b].seen)
    BY <1>4, <1>e, <1>m DEF Moved, Kept
  <2>2. proc'[b].pc = "restore" /\ proc'[b].rec = proc[b].rec /\ proc'[b].marks = {}
    BY <2>1 DEF Onto
  <2>3. Current(proc'[b], record') => SameStatus(proc'[b].rec.tasks, record'.tasks)
    BY <1>1, <1>p, <1>q, <1>e, <2>2, KeptCopy DEF SameStatus
  <2>4. Current(proc'[b], record') =>
          Tracks(proc'[b], record') /\ InCharge(proc[b], record) /\ proc[b].pc \in Restoring
    BY <1>e, <1>q, <2>1, <2>2, <2>3 DEF Tracks, InCharge, Current, SameStatus
  <2> QED
    BY <1>u, <1>s, <1>1, <1>e, <1>p, <1>q, <2>1, <2>2, <2>4, RestoringStep
<1> QED
  BY <1>1, <1>2, <1>3, <1>4 DEF Written

\* The loop has one task more in its copy.
Recorded(p, s, status) ==
  /\ OthersStay(p)
  /\ proc'[p].pc = "restore" /\ proc'[p].marks = proc[p].marks \cup {s}
  /\ proc'[p].rec.version = proc[p].rec.version
  /\ proc'[p].rec.tasks[s].status = status
  /\ \A u \in Steps : u # s => proc'[p].rec.tasks[u] = proc[p].rec.tasks[u]

\* That is what TaskRestored does.
LEMMA TaskIsRecorded ==
  ASSUME proc \in [Procs -> Coroutine], NEW p \in Procs, NEW s \in Steps, NEW status \in Undone,
         TaskRestored(p, s, status)
  PROVE  Recorded(p, s, status)
<1> DEFINE x == [proc[p] EXCEPT !.rec.tasks[s].status = status]
           y == [x EXCEPT !.marks = proc[p].marks \cup {s}, !.pc = "restore"]
<1>x. proc[p] \in Coroutine /\ proc[p].marks \cup {s} \in SUBSET Steps
  BY DEF Coroutine
<1>1. proc' = [proc EXCEPT ![p] = y]
  BY DEF TaskRestored
<1>t. status \in TaskStatus
  BY DEF TaskStatus, Undone
<1>2. /\ x \in Coroutine /\ x.pc = proc[p].pc /\ x.marks = proc[p].marks
      /\ \E task \in Task : /\ task.status = status /\ task.snap = proc[p].rec.tasks[s].snap
                            /\ EditedCopy(proc[p].rec, s, task, x.rec)
  BY <1>x, <1>t, StatusTaken
<1> HIDE DEF x
<1>4. "restore" \in Points
  BY DEF Points
<1>5. y \in Coroutine /\ y.pc = "restore" /\ y.rec = x.rec /\ y.marks = proc[p].marks \cup {s}
  BY <1>2, <1>x, <1>4 DEF Coroutine
<1> HIDE DEF y
<1>6. OthersStay(p) /\ proc'[p] = y
  BY <1>1, <1>5, Replaces
<1> QED
  BY <1>2, <1>5, <1>6 DEF Recorded, EditedCopy

\* A coroutine in the loop, and what the loop has done.
LEMMA LoopFacts ==
  ASSUME IInv, CompensationInv, NEW b \in Callbacks, proc[b].pc \in Looping
  PROVE  /\ b \in Procs /\ NotWaiting(b) /\ proc \in [Procs -> Coroutine]
         /\ proc[b].pc \in Started \cap Restoring /\ proc[b].marks \subseteq Steps
         /\ \A s \in Steps : proc[b].rec.tasks[s].snap = "old_field"
         /\ \A s \in proc[b].marks : proc[b].rec.tasks[s].status \in Undone
         /\ Current(proc[b], record) =>
              /\ Tracks(proc[b], record) /\ change.status \in Stopped
              /\ \A s \in proc[b].marks :
                   proc[b].rec.tasks[s].status = "ROLLED_BACK" => Safe(s, config, late)
<1>1. b \in Procs
  BY DEF Procs
<1>2. proc[b].pc # "wave" /\ proc[b].pc \in Started \cap Restoring /\ Where(proc[b]) \in Guarded
  BY DEF Looping, Started, Restoring, Guarded, Where
<1>3. NotWaiting(b) /\ proc \in [Procs -> Coroutine] /\ proc[b].marks \subseteq Steps
  BY <1>1, <1>2, OnlyWavesWait, VersionFacts DEF Versions, Documents
<1>4. \A s \in Steps : proc[b].rec.tasks[s].snap = "old_field"
  BY <1>1, <1>2, GuardedSnapshots
<1> QED
  BY <1>1, <1>2, <1>3, <1>4 DEF CompensationInv, Fits, TasksFit, StatusFits, RestoredFits

\* One more task is done with, and if it was rolled back its system is.
LEMMA RecordedStep ==
  ASSUME IInv, IInv', CompensationInv, NEW b \in Callbacks, proc[b].pc \in Looping,
         UNCHANGED <<change, record, calls>>,
         \A u \in Steps : Safe(u, config, late) => Safe(u, config', late'),
         NEW s \in Steps, NEW status \in Undone, Recorded(b, s, status),
         status = "ROLLED_BACK" => Safe(s, config', late')
  PROVE  CompensationInv'
<1> DEFINE x == proc[b]
           y == proc'[b]
<1>x. /\ b \in Procs /\ NotWaiting(b)
      /\ x.pc \in Started \cap Restoring /\ x.marks \subseteq Steps
      /\ \A u \in x.marks : x.rec.tasks[u].status \in Undone
      /\ Current(x, record) =>
           /\ Tracks(x, record)
           /\ \A u \in x.marks : x.rec.tasks[u].status = "ROLLED_BACK" => Safe(u, config, late)
  BY LoopFacts
<1>y. /\ OthersStay(b) /\ y.pc = "restore" /\ y.marks = x.marks \cup {s}
      /\ y.rec.version = x.rec.version /\ y.rec.tasks[s].status = status
      /\ \A u \in Steps : u # s => y.rec.tasks[u] = x.rec.tasks[u]
  BY DEF Recorded
<1>1. \A u \in y.marks : y.rec.tasks[u].status \in Undone
  BY <1>x, <1>y
<1>2. ASSUME Current(y, record')
      PROVE  /\ Tracks(y, record') /\ InCharge(x, record)
             /\ \A u \in y.marks : y.rec.tasks[u].status = "ROLLED_BACK" => Safe(u, config', late')
  <2>1. Current(x, record) /\ Tracks(x, record) /\ InCharge(x, record)
    BY <1>2, <1>x, <1>y DEF Current, InCharge
  <2>2. Tracks(y, record')
    <3>1. x.pc # "wave"
      BY DEF Looping
    <3>2. y.pc \in Looping /\ y.pc # "wave"
      BY <1>y DEF Looping
    <3> QED
      BY <1>y, <2>1, <3>1, <3>2 DEF Tracks
  <2> QED
    BY <1>x, <1>y, <2>1, <2>2
<1>3. y.pc \in Looping /\ RecordMoves(record, record')
      /\ SafeStays(change.status, config, late, config', late')
  BY <1>y DEF Looping, RecordMoves, SafeStays
<1> QED
  BY <1>x, <1>y, <1>1, <1>2, <1>3, RestoringStep

\* The snapshot of a task is written back.
LEMMA TaskIsRestored ==
  ASSUME IInv, IInv', CompensationInv, NEW b \in Callbacks, NEW s \in Steps, restore(b, s)
  PROVE  CompensationInv'
<1>u. late' = late /\ calls' = calls /\ change' = change /\ record' = record
  BY DEF restore
<1>p. proc[b].pc = "restore" /\ proc[b].pc \in Looping
  BY DEF restore, At, Looping
<1>x. /\ b \in Procs /\ NotWaiting(b) /\ proc \in [Procs -> Coroutine]
      /\ proc[b].pc \in Started \cap Restoring /\ proc[b].marks \subseteq Steps
      /\ \A u \in Steps : proc[b].rec.tasks[u].snap = "old_field"
      /\ \A u \in proc[b].marks : proc[b].rec.tasks[u].status \in Undone
      /\ Current(proc[b], record) =>
           /\ Tracks(proc[b], record)
           /\ \A u \in proc[b].marks :
                proc[b].rec.tasks[u].status = "ROLLED_BACK" => Safe(u, config, late)
  BY <1>p, LoopFacts
<1>c. config' = config \/ config' = [config EXCEPT ![s] = "old_field"]
  BY <1>x DEF restore, Tasks
<1>s. \A u \in Steps : Safe(u, config, late) => Safe(u, config', late')
  <2>1. config \in [Steps -> Configuration]
    BY DEF IInv, TypeOK
  <2> QED
    BY <1>u, <1>c, <2>1 DEF Safe
<1>1. CASE TaskRestored(b, s, "ROLLBACK_FAILED")
  <2>1. "ROLLBACK_FAILED" \in Undone /\ "ROLLBACK_FAILED" # "ROLLED_BACK"
    BY DEF Undone
  <2>2. Recorded(b, s, "ROLLBACK_FAILED")
    BY <1>1, <1>x, <2>1, TaskIsRecorded
  <2> QED
    BY <1>u, <1>p, <1>s, <2>1, <2>2, RecordedStep
<1>2. CASE Goto(b, "restored")
  <2>1. "restored" \in Points \ Ended /\ "restored" \in Looping
    BY DEF Points, Ended, Looping
  <2>2. OthersStay(b) /\ Onto(proc'[b], "restored", proc[b].rec, proc[b].marks, proc[b].seen)
    BY <1>2, <1>x, <2>1, GotoMoves DEF Moved
  <2>3. proc'[b].pc = "restored" /\ proc'[b].rec = proc[b].rec /\ proc'[b].marks = proc[b].marks
    BY <2>2 DEF Onto
  <2>4. Current(proc'[b], record') =>
          /\ Tracks(proc'[b], record') /\ InCharge(proc[b], record)
          /\ \A u \in proc'[b].marks :
               proc'[b].rec.tasks[u].status = "ROLLED_BACK" => Safe(u, config', late')
    BY <1>u, <1>p, <1>x, <1>s, <2>1, <2>3 DEF Current, Tracks, InCharge
  <2>5. RecordMoves(record, record') /\ SafeStays(change.status, config, late, config', late')
    BY <1>u, <1>s DEF RecordMoves, SafeStays
  <2> QED
    BY <1>u, <1>x, <2>1, <2>2, <2>3, <2>4, <2>5, RestoringStep
<1> QED
  BY <1>1, <1>2 DEF restore

\* The restored configuration is compared with the snapshot.
LEMMA RestoreChecked ==
  ASSUME IInv, IInv', CompensationInv, NEW b \in Callbacks, NEW s \in Steps, check_restored(b, s)
  PROVE  CompensationInv'
<1>u. config' = config /\ late' = late /\ calls' = calls /\ change' = change /\ record' = record
  BY DEF check_restored, executionVars
<1>p. proc[b].pc \in Looping
  BY DEF check_restored, At, Looping
<1>x. /\ b \in Procs /\ proc \in [Procs -> Coroutine]
      /\ \A u \in Steps : proc[b].rec.tasks[u].snap = "old_field"
  BY <1>p, LoopFacts
<1>1. PICK status \in Undone : /\ TaskRestored(b, s, status)
                               /\ status = "ROLLED_BACK" => config[s] = Tasks(b)[s].snap
  BY DEF check_restored, Undone
<1>2. Recorded(b, s, status)
  BY <1>1, <1>x, TaskIsRecorded
<1>3. status = "ROLLED_BACK" => Safe(s, config', late')
  BY <1>u, <1>1, <1>x DEF Tasks, Safe
<1>4. \A u \in Steps : Safe(u, config, late) => Safe(u, config', late')
  BY <1>u
<1> QED
  BY <1>u, <1>p, <1>2, <1>3, <1>4, RecordedStep

\* The rollback is stored: whoever was in charge reports.
LEMMA RollbackStored ==
  ASSUME IInv, IInv', CompensationInv, NEW b \in Callbacks, store_rollback(b),
         UNCHANGED executionVars
  PROVE  CompensationInv'
<1>u. config' = config /\ late' = late /\ calls' = calls
  BY DEF executionVars
<1>p. proc[b].pc \in Looping /\ proc[b].marks = Steps /\ update_record(b, proc[b].rec, "rolled_back")
  BY DEF store_rollback, At, Looping
<1>x. /\ b \in Procs /\ NotWaiting(b)
      /\ proc[b].pc \in Started \cap Restoring
      /\ \A s \in Steps : proc[b].rec.tasks[s].status \in Undone
      /\ Current(proc[b], record) =>
           /\ change.status \in Stopped
           /\ \A s \in Steps : proc[b].rec.tasks[s].status = "ROLLED_BACK" => Safe(s, config, late)
  BY <1>p, LoopFacts
<1>v. proc[b].rec \in RecordCopy
  BY <1>x, VersionFacts DEF Versions
<1>e. "rolled_back" \in Points \ Ended /\ "rolled_back" \notin Checking \cup Restoring \cup Looping
      /\ "rolled_back" \in Started
  BY DEF Points, Ended, Checking, Restoring, Looping, Started, Guarded
<1>1. Written(b, "rolled_back") /\ RecordMoves(record, record') /\ change' = change
  BY <1>p, <1>x, <1>v, <1>e, UpdateWrites
<1>2. CASE record' = record /\ OthersStay(b) /\ Over(proc'[b])
  BY <1>u, <1>1, <1>2, <1>x, OverIsPlain, PlainQuietStep
<1>3. CASE /\ Current(proc[b], record) /\ record.version < record'.version
           /\ record'.tasks = proc[b].rec.tasks /\ Moved(b, "rolled_back", record')
  <2> DEFINE y == proc'[b]
  <2>1. OthersStay(b) /\ y.pc = "rolled_back" /\ y.rec = record'
    BY <1>3, <1>e DEF Moved, Onto
  <2>2. Rolled(record'.tasks) /\ change.status \in Stopped
        /\ \A s \in Steps : record'.tasks[s].status = "ROLLED_BACK" => Safe(s, config, late)
    BY <1>3, <1>x DEF Rolled
  <2>3. Fits(y, record', change.status, config, late)
    <3>1. StatusFits(y, record', change.status)
      BY <1>e, <2>1, <2>2 DEF StatusFits, Begun
    <3>2. TasksFit(y, record')
      BY <1>e, <2>1, <2>2 DEF TasksFit, Tracks, Where
    <3>3. RestoredFits(y, record', config, late)
      BY <1>e, <2>1, <2>2 DEF RestoredFits
    <3> QED
      BY <3>1, <3>2, <3>3 DEF Fits
  <2>4. Succeeds(b)
    BY <1>3, <1>x, <1>e, <2>1 DEF Succeeds, InCharge
  <2>5. /\ Carried' /\ StatusStays(change.status, change'.status)
        /\ SafeStays(change.status, config, late, config', late')
    BY <1>u, <1>1, <1>x, <2>1, CarriedStays DEF StatusStays, SafeStays
  <2> QED
    BY <1>u, <1>1, <1>x, <2>1, <2>3, <2>4, <2>5, OneMoves
<1> QED
  BY <1>1, <1>2, <1>3 DEF Written

\* The report begins.
LEMMA RollbackEnded ==
  ASSUME IInv, IInv', CompensationInv, NEW b \in Callbacks, end_rollback(b),
         UNCHANGED executionVars
  PROVE  CompensationInv'
<1>u. config' = config /\ late' = late /\ calls' = calls /\ change' = change /\ record' = record
  BY DEF executionVars, end_rollback
<1>e. "rolled_back" \notin Looping \cup {"wave"} /\ "rolled_back" \in Started
      /\ "compensated" \in Points /\ Compensated(b) \in WorkflowState
  BY DEF Looping, Started, Guarded, Points, Compensated, WorkflowState
<1>p. b \in Procs /\ Placed(b, "rolled_back")
  BY <1>e, CallbackPlaced DEF end_rollback
<1>q. /\ NotWaiting(b) /\ proc[b].pc = "rolled_back"
      /\ proc \in [Procs -> Coroutine] /\ change.version \in Nat
  BY <1>p DEF Placed
<1> DEFINE x == proc[b]
           y == proc'[b]
<1>a. OthersStay(b) /\ Asks(y, Compensated(b), "compensated", x)
  BY <1>p, <1>q, <1>e, BeginMoves DEF end_rollback
<1>y. /\ y.pc = "transition" /\ y.to = Compensated(b) /\ y.cont = "compensated"
      /\ y.rec = x.rec /\ y.marks = x.marks /\ y.seen = "NONE"
  BY <1>a DEF Asks
<1>f. Fits(x, record, change.status, config, late) /\ Reporting(x)
  BY <1>p, <1>q DEF CompensationInv, Reporting
<1>1. Reporting(y) /\ y.pc \notin Checking \cup Restoring \cup Looping
      /\ Where(y) = "compensated"
  BY <1>y DEF Reporting, Checking, Restoring, Looping, Where
<1>2. Targets(y)
  <2>1. y.to = "FAILED" => WithStatus(b, "ROLLBACK_FAILED") = {}
    BY <1>y DEF Compensated
  <2>2. Rolled(x.rec.tasks)
    BY <1>f DEF Fits, TasksFit
  <2>3. y.to = "FAILED" => \A s \in Steps : y.rec.tasks[s].status = "ROLLED_BACK"
    BY <1>y, <2>1, <2>2 DEF WithStatus, Tasks, Rolled, Undone
  <2>4. y.to \in {"FAILED", "NEEDS_ATTENTION"}
    BY <1>y DEF Compensated
  <2> QED
    BY <1>y, <2>3, <2>4 DEF Targets, Looping
<1>3. Fits(y, record, change.status, config, late)
  <2>1. StatusFits(y, record, change.status)
    BY <1>f, <1>1, <1>y DEF Fits, StatusFits, Begun, TasksFit
  <2>2. TasksFit(y, record)
    <3>1. Current(y, record) => Tracks(y, record)
      BY <1>f, <1>y, <1>q, <1>e DEF Fits, TasksFit, Current, Tracks
    <3> QED
      BY <1>f, <1>1, <1>2, <1>y, <3>1 DEF Fits, TasksFit
  <2>3. RestoredFits(y, record, config, late)
    BY <1>f, <1>1, <1>y DEF Fits, RestoredFits
  <2> QED
    BY <2>1, <2>2, <2>3 DEF Fits
<1>4. Succeeds(b)
  BY <1>f, <1>1 DEF Succeeds, InCharge
<1>5. /\ Carried' /\ RecordMoves(record, record') /\ StatusStays(change.status, change'.status)
      /\ SafeStays(change.status, config, late, config', late')
  BY <1>u, <1>p, <1>q, <1>a, CarriedStays DEF RecordMoves, StatusStays, SafeStays
<1> QED
  BY <1>u, <1>p, <1>a, <1>3, <1>4, <1>5, OneMoves

\* Every step of resume_approval.
LEMMA ResumeKeeps ==
  ASSUME IInv, IInv', CompensationInv, NEW b \in Callbacks, resume_approval(b)
  PROVE  CompensationInv'
<1>p. b \in Procs
  BY DEF Procs
<1>1. CASE get_change(b) \/ resume_record(b)
  <2>1. UNCHANGED executionVars
    BY <1>1 DEF get_change, resume_record
  <2> QED
    BY <1>1, <2>1, CallbackQuiet
<1>2. CASE follow_decision(b)
  <2>1. UNCHANGED executionVars
    BY <1>2 DEF follow_decision
  <2> QED
    BY <1>2, <2>1, DecisionFollowed
<1>3. CASE finish_rejected(b) \/ finish_changes_requested(b) \/ finish_completed(b) \/ finish_rolled_back(b)
  <2>1. UNCHANGED executionVars
    BY <1>3 DEF finish_rejected, finish_changes_requested, finish_completed, finish_rolled_back
  <2> QED
    BY <1>3, <2>1, CallbackFinishes
<1>4. CASE mark_executing(b) \/ mark_verifying(b)
  <2>1. UNCHANGED executionVars
    BY <1>4 DEF mark_executing, mark_verifying
  <2> QED
    BY <1>4, <2>1, CallbackMarks
<1>5. ASSUME NEW s \in Steps,
             capture_snapshot(b, s) \/ verify_task(b, s) \/ restore(b, s) \/ check_restored(b, s)
      PROVE  CompensationInv'
  <2>1. CASE capture_snapshot(b, s)
    <3>1. UNCHANGED executionVars
      BY <2>1 DEF capture_snapshot
    <3> QED
      BY <2>1, <3>1, SnapshotCaptured
  <2>2. CASE verify_task(b, s)
    <3>1. UNCHANGED executionVars
      BY <2>2 DEF verify_task
    <3> QED
      BY <2>2, <3>1, TaskVerified
  <2> QED
    BY <1>5, <2>1, <2>2, TaskIsRestored, RestoreChecked
<1>6. CASE store_snapshots(b) \/ store_wave(b) \/ store_rollback(b)
  <2>1. UNCHANGED executionVars
    BY <1>6 DEF store_snapshots, store_wave, store_rollback
  <2> QED
    BY <1>6, <2>1, SnapshotsStored, WaveStored, RollbackStored
<1>7. CASE execute_dag(b)
  BY <1>7, DagExecuted
<1>8. CASE start_verifying(b) \/ start_completing(b) \/ start_rollback(b)
  <2>1. UNCHANGED executionVars
    BY <1>8 DEF start_verifying, start_completing, start_rollback
  <2> QED
    BY <1>8, <2>1, ExecutionAsks
<1>9. CASE read_for_rollback(b) \/ mark_rolling_back(b) \/ end_rollback(b)
  <2>1. UNCHANGED executionVars
    BY <1>9 DEF read_for_rollback, mark_rolling_back, end_rollback
  <2> QED
    BY <1>9, <2>1, RollbackRead, RollbackMarked, RollbackEnded
<1>10. CASE transition(b) /\ UNCHANGED executionVars
  BY <1>10, <1>p, TransitionKeeps
<1> QED
  BY <1>1, <1>2, <1>3, <1>4, <1>5, <1>6, <1>7, <1>8, <1>9, <1>10 DEF resume_approval

-----------------------------------------------------------------------------
(* Approvals and tool calls.                                               *)

\* The documents a tool call leaves alone; what somebody waits for is still
\* one of the wave's.
LEMMA CallsMove ==
  ASSUME IInv, IInv', CompensationInv, UNCHANGED <<change, record, proc>>,
         \A s \in Steps : Safe(s, config, late) => Safe(s, config', late')
                          \/ change.status = "EXECUTING",
         \A k2 \in calls' : k2.waited =>
           \E k \in calls : k.waited /\ k2.by = k.by /\ k2.step = k.step
  PROVE  CompensationInv'
<1>1. Carried'
  <2> SUFFICES ASSUME NEW k2 \in calls', k2.waited PROVE k2.step \in proc'[k2.by].marks
    BY DEF Carried
  <2>1. PICK k \in calls : k.waited /\ k2.by = k.by /\ k2.step = k.step
    OBVIOUS
  <2> QED
    BY <2>1 DEF CompensationInv, Carried
<1>2. StatusStays(change.status, change'.status)
      /\ SafeStays(change.status, config, late, config', late')
  BY DEF StatusStays, SafeStays
<1> QED
  BY <1>1, <1>2, NobodyConcerned

\* A request goes one stage further.
LEMMA AdvanceKeeps ==
  ASSUME IInv, IInv', CompensationInv, UNCHANGED <<change, record, proc>>,
         NEW k \in calls, NEW stage, Advance(k, stage),
         \A s \in Steps : Safe(s, config, late) => Safe(s, config', late')
                          \/ change.status = "EXECUTING"
  PROVE  CompensationInv'
<1> DEFINE k1 == [k EXCEPT !.stage = stage]
<1>1. k \in Call
  BY DEF IInv, TypeOK
<1>2. k1.by = k.by /\ k1.step = k.step /\ k1.waited = k.waited
  BY <1>1 DEF Call
<1>3. \A k2 \in calls' : k2 \in calls \/ k2 = k1
  BY DEF Advance
<1> HIDE DEF k1
<1>4. \A k2 \in calls' : k2.waited =>
        \E k3 \in calls : k3.waited /\ k2.by = k3.by /\ k2.step = k3.step
  BY <1>2, <1>3
<1> QED
  BY <1>4, CallsMove

\* The outcome of a call: the result of a task of the wave, or a retry.
LEMMA OutcomeKeeps ==
  ASSUME IInv, IInv', CompensationInv, UNCHANGED <<change, record, config, late>>,
         NEW k \in calls, NEW outcome, NEW rest, TaskOutcome(k, outcome, rest),
         rest \subseteq (calls \ {k}) \cup {[k EXCEPT !.waited = FALSE]}
  PROVE  CompensationInv'
<1> DEFINE p == k.by
           k0 == [k EXCEPT !.waited = FALSE]
           retry == k.waited /\ outcome = "transient" /\ k.n < MaxAttempts
<1>k. k \in Call /\ p \in Procs /\ k.step \in Steps
  BY DEF IInv, TypeOK, Call, Procs
<1>0. ~k0.waited
  BY <1>k DEF Call
<1>n. NewCall(p, k.step, k.n + 1).by = p /\ NewCall(p, k.step, k.n + 1).step = k.step
  BY DEF NewCall
<1>1. \A k2 \in calls' : \/ k2 \in calls \/ k2 = k0
                         \/ (retry /\ k2 = NewCall(p, k.step, k.n + 1))
  BY DEF TaskOutcome
<1>2. \A k2 \in calls' : k2.waited =>
        \E k3 \in calls : k3.waited /\ k2.by = k3.by /\ k2.step = k3.step
  <2>1. retry => k.waited
    OBVIOUS
  <2> HIDE DEF k0, retry
  <2> QED
    BY <1>0, <1>1, <1>n, <2>1
<1>3. CASE proc' = proc
  <2>1. \A s \in Steps : Safe(s, config, late) => Safe(s, config', late')
                         \/ change.status = "EXECUTING"
    OBVIOUS
  <2> QED
    BY <1>2, <1>3, <2>1, CallsMove
<1>4. CASE k.waited /\ ~retry
  <2> DEFINE status == IF outcome = "ok" THEN "SUCCEEDED" ELSE "FAILED"
             y == [proc[p] EXCEPT !.rec.tasks[k.step].status = status]
  <2>1. proc' = [proc EXCEPT ![p] = y]
    BY <1>4 DEF TaskOutcome
  <2>2. status \in TaskStatus
    BY DEF TaskStatus
  <2> HIDE DEF status
  <2>x. proc[p] \in Coroutine /\ proc \in [Procs -> Coroutine] /\ proc[p].marks \subseteq Steps
    BY <1>k, VersionFacts DEF Versions, Documents
  <2>3. /\ y \in Coroutine /\ y.pc = proc[p].pc /\ y.marks = proc[p].marks
        /\ \E task \in Task : /\ task.status = status /\ task.snap = proc[p].rec.tasks[k.step].snap
                              /\ EditedCopy(proc[p].rec, k.step, task, y.rec)
    BY <1>k, <2>x, <2>2, StatusTaken
  <2> HIDE DEF y
  <2>4. OthersStay(p) /\ proc'[p] = y
    BY <1>k, <2>x, <2>1, <2>3, Replaces
  <2>5. proc[p].pc = "wave" /\ k.step \in proc[p].marks /\ "wave" \in Started
    BY <1>4 DEF IInv, Waiting, CompensationInv, Carried, Started, Guarded
  <2>6. Current(proc'[p], record) => Tracks(proc'[p], record)
    <3>1. Current(proc[p], record) => Tracks(proc[p], record)
      BY <1>k DEF CompensationInv, Fits, TasksFit
    <3>2. /\ y.rec.version = proc[p].rec.version
          /\ \A u \in Steps : u # k.step => y.rec.tasks[u] = proc[p].rec.tasks[u]
      BY <2>3 DEF EditedCopy
    <3> QED
      BY <2>3, <2>4, <2>5, <3>1, <3>2 DEF Current, Tracks
  <2>7. Carried'
    <3> SUFFICES ASSUME NEW k2 \in calls', k2.waited PROVE k2.step \in proc'[k2.by].marks
      BY DEF Carried
    <3>1. PICK k3 \in calls : k3.waited /\ k2.by = k3.by /\ k2.step = k3.step
      BY <1>2
    <3>2. k3.by \in Procs /\ k3.step \in proc[k3.by].marks
      BY <3>1 DEF IInv, TypeOK, Call, Procs, CompensationInv, Carried
    <3> QED
      BY <2>3, <2>4, <3>1, <3>2 DEF OthersStay
  <2>8. proc'[p].pc = "wave"
    BY <2>3, <2>4, <2>5
  <2> HIDE DEF p
  <2> QED
    BY <1>k, <2>4, <2>5, <2>6, <2>7, <2>8, WaveStep
<1> QED
  BY <1>3, <1>4 DEF TaskOutcome

\* An answer that leaves nothing behind.
LEMMA AnswerKeeps ==
  ASSUME IInv, IInv', CompensationInv, UNCHANGED <<change, record, config, late>>,
         NEW k \in calls, NEW outcome, Answer(k, outcome)
  PROVE  CompensationInv'
<1>1. TaskOutcome(k, outcome, calls \ {k})
  BY DEF Answer
<1>2. calls \ {k} \subseteq (calls \ {k}) \cup {[k EXCEPT !.waited = FALSE]}
  OBVIOUS
<1> QED
  BY <1>1, <1>2, OutcomeKeeps

\* The sandbox: what is changed after EXECUTING counts as late.
LEMMA PatchKeeps ==
  ASSUME IInv, IInv', CompensationInv, NEW k \in calls, apply_patch(k)
  PROVE  CompensationInv'
<1>u. change' = change /\ record' = record /\ proc' = proc
  BY DEF apply_patch
<1>1. PICK stage : Advance(k, stage)
  BY DEF apply_patch
<1>2. \A s \in Steps : Safe(s, config, late) => Safe(s, config', late')
                       \/ change.status = "EXECUTING"
  <2> SUFFICES ASSUME NEW s \in Steps, Safe(s, config, late), change.status # "EXECUTING"
               PROVE  Safe(s, config', late')
    OBVIOUS
  <2>1. config \in [Steps -> Configuration]
    BY DEF IInv, TypeOK
  <2>2. CASE config' = config /\ late' = late
    BY <2>2
  <2>3. CASE /\ k.step \notin applied
             /\ config' = [config EXCEPT ![k.step] = "new_field"]
             /\ late' = late \cup {k.step}
    BY <2>1, <2>3 DEF Safe
  <2> QED
    BY <2>2, <2>3 DEF apply_patch
<1> QED
  BY <1>u, <1>1, <1>2, AdvanceKeeps

\* Everything a request goes through.
LEMMA RequestKeeps ==
  ASSUME IInv, IInv', CompensationInv, NEW k \in calls,
         gateway_request(k) \/ client_timeout(k) \/ worker_crash(k)
  PROVE  CompensationInv'
<1>s. ASSUME UNCHANGED <<config, late>>
      PROVE  \A s \in Steps : Safe(s, config, late) => Safe(s, config', late')
                              \/ change.status = "EXECUTING"
  BY <1>s
<1>1. CASE evaluate_policy(k)
  <2>1. UNCHANGED <<change, record, config, late>>
    BY <1>1 DEF evaluate_policy
  <2>2. CASE Advance(k, "reserve") /\ proc' = proc
    BY <1>s, <2>1, <2>2, AdvanceKeeps
  <2> QED
    BY <1>1, <2>1, <2>2, AnswerKeeps DEF evaluate_policy
<1>2. CASE reserve_execution(k)
  <2>1. UNCHANGED <<change, record, config, late>>
    BY <1>2 DEF reserve_execution
  <2>2. CASE Advance(k, "apply") /\ proc' = proc
    BY <1>s, <2>1, <2>2, AdvanceKeeps
  <2> QED
    BY <1>2, <2>1, <2>2, AnswerKeeps DEF reserve_execution
<1>3. CASE complete_execution(k)
  BY <1>3, AnswerKeeps DEF complete_execution
<1>4. CASE fail_execution(k)
  BY <1>4, AnswerKeeps DEF fail_execution
<1>5. CASE worker_crash(k)
  BY <1>5, AnswerKeeps DEF worker_crash
<1>6. CASE client_timeout(k)
  <2> DEFINE rest == (calls \ {k}) \cup {[k EXCEPT !.waited = FALSE]}
  <2>1. TaskOutcome(k, "transient", rest) /\ UNCHANGED <<change, record, config, late>>
    BY <1>6 DEF client_timeout
  <2>2. rest \subseteq (calls \ {k}) \cup {[k EXCEPT !.waited = FALSE]}
    OBVIOUS
  <2> HIDE DEF rest
  <2> QED
    BY <2>1, <2>2, OutcomeKeeps
<1> QED
  BY <1>1, <1>2, <1>3, <1>4, <1>5, <1>6, PatchKeeps DEF gateway_request

-----------------------------------------------------------------------------
(* Every step, and the results.                                            *)

\* Steps that change none of what the invariant is about.
LEMMA ElsewhereKeeps ==
  ASSUME IInv, IInv', CompensationInv, UNCHANGED <<change, record, proc, config, late, calls>>
  PROVE  CompensationInv'
<1>1. /\ StatusStays(change.status, change'.status) /\ Carried'
      /\ SafeStays(change.status, config, late, config', late')
  BY DEF StatusStays, SafeStays, CompensationInv, Carried
<1> QED
  BY <1>1, NobodyConcerned

\* The approval side.
LEMMA ExecutionKeeps ==
  ASSUME IInv, IInv', CompensationInv, ExecutionNext
  PROVE  CompensationInv'
<1>1. ASSUME NEW decision \in DOMAIN Path, decide_approval(decision) PROVE CompensationInv'
  BY <1>1, ElsewhereKeeps DEF decide_approval, executionVars
<1>2. CASE expire
  BY <1>2, ElsewhereKeeps DEF expire, executionVars
<1>3. ASSUME NEW b \in Callbacks, notify(b) \/ resume_approval(b) \/ callback_crash(b)
      PROVE  CompensationInv'
  <2>1. CASE notify(b)
    <3>1. UNCHANGED executionVars
      BY <2>1 DEF notify
    <3> QED
      BY <2>1, <3>1, CallbackQuiet
  <2> QED
    BY <1>3, <2>1, ResumeKeeps, CallbackCrashed
<1>4. ASSUME NEW k \in calls, gateway_request(k) \/ client_timeout(k) \/ worker_crash(k)
      PROVE  CompensationInv'
  BY <1>4, RequestKeeps
<1> QED
  BY <1>1, <1>2, <1>3, <1>4 DEF ExecutionNext

\* No step breaks the invariant.
LEMMA NextKeeps ==
  ASSUME IInv, CompensationInv, [Next]_vars
  PROVE  CompensationInv'
<1>i. IInv'
  BY NextStep
<1>1. CASE IntakeNext /\ UNCHANGED executionVars
  BY <1>i, <1>1, IntakeKeeps
<1>2. CASE ExecutionNext
  BY <1>i, <1>2, ExecutionKeeps
<1>3. CASE /\ \E target \in UserTargets : user_transition(target)
           /\ UNCHANGED <<intakeVars, executionVars>>
  <2>1. UNCHANGED executionVars
    BY <1>3
  <2> QED
    BY <1>i, <1>3, <2>1, UserKeeps
<1>4. CASE UNCHANGED vars
  BY <1>i, <1>4, ElsewhereKeeps DEF vars, storeVars, executionVars
<1> QED
  BY <1>1, <1>2, <1>3, <1>4 DEF Next

\* It holds when the event has not been delivered yet.
LEMMA InitCompensation ==
  ASSUME Init
  PROVE  CompensationInv
<1>i. /\ change = NoChange /\ record = NoRecord /\ proc = [p \in Procs |-> Idle]
      /\ config = [s \in Steps |-> "old_field"] /\ calls = {}
  BY DEF Init, StoreInit, ExecutionInit
<1>e. "idle" \in Ended /\ "idle" \notin Started \cup {"transition"}
  BY PlainPointsFacts DEF PlainPoints, Ended
<1>1. Idle \in Coroutine /\ Idle.pc = "idle" /\ Idle.rec = NoRecord /\ Idle.seen = "NONE"
  <2>1. Idle = [Idle EXCEPT !.pc = "idle"]
    BY DEF Idle
  <2>2. Idle \in Coroutine /\ Over(Idle)
    BY <1>e, <2>1, OverFacts
  <2>3. Idle.pc = "idle"
    BY DEF Idle
  <2> QED
    BY <2>2, <2>3 DEF Over
<1>2. Plain(Idle) /\ SameStatus(Idle.rec.tasks, record.tasks) /\ record \in RecordCopy
  BY <1>i, <1>e, <1>1, NoRecordFacts DEF Plain, SameStatus
<1>3. \A p \in Procs : /\ Fits(proc[p], record, change.status, config, late)
                       /\ ~Reporting(proc[p])
  <2>1. Fits(Idle, record, change.status, config, late) /\ ~Reporting(Idle)
    BY <1>1, <1>2, PlainFits
  <2> QED
    BY <1>i, <2>1
<1>4. OneReport /\ Carried /\ RestoredUnlessLate
  BY <1>i, <1>3 DEF OneReport, Carried, RestoredUnlessLate
<1> QED
  BY <1>3, <1>4 DEF CompensationInv

\* One reporter at a time: whatever callbacks, late requests, users and crashes
\* do, the outcome of a compensation is reported by a callback that stored it
\* on a current copy, while no other callback is in charge of the change, and
\* what it says of the systems is still true.
THEOREM CompensationInvariant == Spec => []CompensationInv
<1>1. Init => IInv /\ CompensationInv
  BY InitIInv, InitCompensation
<1>2. IInv /\ CompensationInv /\ [Next]_vars => IInv' /\ CompensationInv'
  BY NextStep, NextKeeps
<1> QED
  BY <1>1, <1>2, PTL DEF Spec

\* A change that ends as FAILED is restored: _rollback leaves no system with
\* the new field, but for tool calls that reached their sandbox after the
\* change had left EXECUTING.
THEOREM FailedIsRestored == Spec => []RestoredUnlessLate
<1>1. CompensationInv => RestoredUnlessLate
  BY DEF CompensationInv
<1> QED
  BY <1>1, CompensationInvariant, PTL

-----------------------------------------------------------------------------
(* The life cycle.  Every transition of a change is earned: whoever makes  *)
(* it has seen what ChangeLifecycle asks for, and since decisions, plans   *)
(* and applied steps are never taken back, it still holds when the change  *)
(* shows it, however much later that is.                                   *)

\* Statuses a change shows only for an approved plan, and only with a plan.
OfApproved ==
  {"APPROVED", "EXECUTING", "VERIFYING", "ROLLING_BACK", "NEEDS_ATTENTION", "COMPLETED", "FAILED"}
OfPlanned == {"PLAN_READY", "AWAITING_APPROVAL"}

\* What a change with status st, and whoever asks for st or has seen it, may
\* rely on; cp is the plan of the change, a the approval, app the applied steps.
Earned(st, cp, a, app) ==
  /\ st \in OfApproved => a.status = "APPROVED"
  /\ st = "REJECTED" => a.status \in {"REJECTED", "CHANGES_REQUESTED"}
  /\ st \in OfPlanned => cp # NoPlan
  /\ st = "COMPLETED" => app = Steps

\* Points before there is a change, and those of the verification.
Unopened == Unread \cup {"attempt", "ensure", "dead", "dead_letter_record"}
Verified == {"executed", "verifying", "verify"}

\* What a coroutine x may rely on.
Rightful(x, st, cp, a, app) ==
  /\ Earned(x.seen, cp, a, app)
  /\ x.pc = "transition" /\ x.to # "PLAN_READY" => Earned(x.to, cp, a, app)
  /\ Where(x) \in Started => a.status = "APPROVED"
  /\ Where(x) \in Verified => x.marks \subseteq app
  /\ (x.pc = "transition" \/ Where(x) \notin Unopened) => st # "NONE"

LifecycleInv ==
  /\ Earned(change.status, change.plan, approval, applied)
  /\ \A p \in Procs : Rightful(proc[p], change.status, change.plan, approval, applied)


\* What is earned stays earned.
LEMMA EarnedOn ==
  ASSUME NEW st, NEW cp, NEW cp2, NEW a, NEW a2, NEW app, NEW app2,
         Earned(st, cp, a, app), cp # NoPlan => cp2 = cp, ApprovalGrows(a, a2),
         app \subseteq app2, app2 \subseteq Steps
  PROVE  Earned(st, cp2, a2, app2)
<1>1. a.status \in {"APPROVED", "REJECTED", "CHANGES_REQUESTED"} => a2.status = a.status
  BY DEF ApprovalGrows, Decided
<1> QED
  BY <1>1 DEF Earned

\* A coroutine that does not move may rely on what it could rely on.
LEMMA RightfulOn ==
  ASSUME NEW x, NEW st, NEW st2, NEW cp, NEW cp2, NEW a, NEW a2, NEW app, NEW app2,
         Rightful(x, st, cp, a, app), cp # NoPlan => cp2 = cp, ApprovalGrows(a, a2),
         app \subseteq app2, app2 \subseteq Steps, st # "NONE" => st2 # "NONE"
  PROVE  Rightful(x, st2, cp2, a2, app2)
<1>1. Earned(x.seen, cp2, a2, app2)
  BY EarnedOn DEF Rightful
<1>2. x.pc = "transition" /\ x.to # "PLAN_READY" => Earned(x.to, cp2, a2, app2)
  BY EarnedOn DEF Rightful
<1>3. a.status = "APPROVED" => a2.status = "APPROVED"
  BY DEF ApprovalGrows, Decided
<1> QED
  BY <1>1, <1>2, <1>3 DEF Rightful

\* What a step keeps for those who do not move.
Forward ==
  /\ change.plan # NoPlan => change'.plan = change.plan
  /\ ApprovalGrows(approval, approval')
  /\ applied \subseteq applied' /\ applied' \subseteq Steps
  /\ change.status # "NONE" => change'.status # "NONE"
  /\ Earned(change'.status, change'.plan, approval', applied')

\* A step is forward if it leaves the change alone.
LEMMA ChangeStays ==
  ASSUME LifecycleInv, IInv', Grows, change' = change
  PROVE  Forward
<1>1. applied' \subseteq Steps
  BY DEF IInv, TypeOK
<1>2. Earned(change.status, change'.plan, approval', applied')
  BY <1>1, EarnedOn DEF LifecycleInv, Grows
<1> QED
  BY <1>1, <1>2 DEF Grows, Forward

\* The invariant after a step in which p moves at most.
LEMMA LifecycleStep ==
  ASSUME LifecycleInv, Forward, NEW p \in Procs, OthersStay(p),
         Rightful(proc'[p], change'.status, change'.plan, approval', applied')
  PROVE  LifecycleInv'
<1> SUFFICES ASSUME NEW q \in Procs
             PROVE  Rightful(proc'[q], change'.status, change'.plan, approval', applied')
  BY DEF LifecycleInv, Forward
<1>1. CASE q = p
  BY <1>1
<1>2. CASE q # p
  <2>1. proc'[q] = proc[q]
    BY <1>2 DEF OthersStay
  <2> QED
    BY <2>1, RightfulOn DEF LifecycleInv, Forward
<1> QED
  BY <1>1, <1>2

\* Nobody moves.
LEMMA LifecycleStays ==
  ASSUME LifecycleInv, Forward, proc' = proc
  PROVE  LifecycleInv'
<1> SUFFICES ASSUME NEW q \in Procs
             PROVE  Rightful(proc'[q], change'.status, change'.plan, approval', applied')
  BY DEF LifecycleInv, Forward
<1> QED
  BY RightfulOn DEF LifecycleInv, Forward

-----------------------------------------------------------------------------
(* How p moves.                                                            *)

\* From w, pc can be reached without anything new to rely on.
Reaches(w, pc) ==
  /\ pc # "transition"
  /\ pc \in Started => w \in Started \/ approval.status = "APPROVED"
  /\ pc \notin Unopened => w \notin Unopened \/ change.status # "NONE"
Follows(w, pc) == Reaches(w, pc) /\ (pc \in Verified => w \in Verified)

\* The end of a coroutine can always be reached.
LEMMA EndFollows ==
  \A w, pc : pc \in Ended => Follows(w, pc) /\ pc \in Points
  BY DEF Ended, Follows, Reaches, Started, Guarded, Verified, Unopened, Unread, Points

\* A coroutine ends.
LEMMA OverIsRightful ==
  ASSUME NEW y, NEW st, NEW cp, NEW a, NEW app, Over(y)
  PROVE  Rightful(y, st, cp, a, app)
<1>1. /\ y.pc \in Unopened /\ y.pc # "transition" /\ y.pc \notin Started
      /\ y.pc \notin Verified
  BY DEF Over, Ended, Unopened, Unread, Started, Guarded, Verified
<1>2. Earned("NONE", cp, a, app)
  BY DEF Earned, OfApproved, OfPlanned
<1> QED
  BY <1>1, <1>2 DEF Over, Rightful, Where

\* A coroutine goes on.
LEMMA OntoIsRightful ==
  ASSUME NEW y, NEW pc, NEW rec, NEW m, NEW seen, Onto(y, pc, rec, m, seen),
         NEW st, NEW cp, NEW a, NEW app, pc # "transition",
         Earned(seen, cp, a, app),
         pc \in Started => a.status = "APPROVED",
         pc \in Verified => m \subseteq app,
         pc \notin Unopened => st # "NONE"
  PROVE  Rightful(y, st, cp, a, app)
  BY DEF Onto, Rightful, Where

\* A coroutine asks for a transition.
LEMMA AsksIsRightful ==
  ASSUME NEW y, NEW to, NEW cont, NEW x, Asks(y, to, cont, x), NEW w, w = x.pc,
         NEW st, NEW cp, NEW a, NEW app, Rightful(x, st, cp, a, app),
         w \notin Unopened \cup {"transition"},
         cont \in Started => w \in Started \/ a.status = "APPROVED",
         cont \in Verified => w \in Verified,
         to # "PLAN_READY" => Earned(to, cp, a, app)
  PROVE  Rightful(y, st, cp, a, app)
<1>1. Earned("NONE", cp, a, app)
  BY DEF Earned, OfApproved, OfPlanned
<1> QED
  BY <1>1 DEF Asks, Rightful, Where


\* p jumps to pc, with its copy, a new one or the status it sees.
Jumps(p, pc) ==
  Goto(p, pc) \/ GotoWith(p, record, pc) \/ GotoWith(p, record', pc) \/ read_change(p, pc)

\* p goes on at a point it can reach.
LEMMA LandKeeps ==
  ASSUME IInv', LifecycleInv, Grows, change' = change, NEW p \in Procs,
         NEW w, w # "transition", At(p, w), OthersStay(p), NEW pc, Reaches(w, pc),
         NEW rec, NEW m, NEW seen, seen \in {proc[p].seen, change.status},
         Onto(proc'[p], pc, rec, m, seen), pc \in Verified => m \subseteq applied
  PROVE  LifecycleInv'
<1>f. Forward
  BY ChangeStays
<1>w. proc[p].pc = w
  BY DEF At
<1>r. Rightful(proc[p], change'.status, change'.plan, approval', applied')
  BY <1>f, RightfulOn DEF LifecycleInv, Forward
<1>a. approval.status = "APPROVED" => approval'.status = "APPROVED"
  BY DEF Grows, ApprovalGrows, Decided
<1>1. Earned(seen, change'.plan, approval', applied')
  BY <1>r, <1>f DEF Rightful, Forward
<1>2. /\ pc # "transition"
      /\ pc \in Started => approval'.status = "APPROVED"
      /\ pc \in Verified => m \subseteq applied'
      /\ pc \notin Unopened => change'.status # "NONE"
  BY <1>w, <1>r, <1>a DEF Rightful, Where, Reaches, Grows
<1>3. Rightful(proc'[p], change'.status, change'.plan, approval', applied')
  BY <1>1, <1>2, OntoIsRightful
<1> QED
  BY <1>f, <1>3, LifecycleStep

\* p ends.
LEMMA EndKeeps ==
  ASSUME IInv, IInv', LifecycleInv, Grows, change' = change, NEW p \in Procs,
         NEW pc \in Ended, Goto(p, pc)
  PROVE  LifecycleInv'
<1>1. pc \in Points
  BY DEF Points
<1>2. OthersStay(p) /\ Over(proc'[p])
  BY <1>1, GotoMoves, VersionFacts DEF Versions, Documents, Moved
<1> QED
  BY <1>2, ChangeStays, OverIsRightful, LifecycleStep

\* A jump needs nothing new to rely on.
LEMMA JumpKeeps ==
  ASSUME IInv, IInv', LifecycleInv, Grows, change' = change, NEW p \in Procs,
         NEW w, w # "transition", At(p, w), NEW pc \in Points, Follows(w, pc), Jumps(p, pc)
  PROVE  LifecycleInv'
<1>v. /\ proc \in [Procs -> Coroutine] /\ record \in RecordCopy
      /\ change.status \in WorkflowState \cup {"NONE"}
  BY VersionFacts DEF Versions, Documents
<1>v2. record' \in RecordCopy
  BY RecordFacts DEF IInv, TypeOK, Records
<1>1. \/ OthersStay(p) /\ Over(proc'[p])
      \/ /\ OthersStay(p)
         /\ \E rec, seen : /\ Onto(proc'[p], pc, rec, proc[p].marks, seen)
                           /\ seen \in {proc[p].seen, change.status}
  <2>1. ASSUME NEW rec, Moved(p, pc, rec)
        PROVE  \/ OthersStay(p) /\ Over(proc'[p])
               \/ OthersStay(p) /\ Onto(proc'[p], pc, rec, proc[p].marks, proc[p].seen)
    BY <2>1 DEF Moved
  <2>2. CASE Goto(p, pc)
    BY <1>v, <2>1, <2>2, GotoMoves
  <2>3. CASE GotoWith(p, record, pc)
    BY <1>v, <2>1, <2>3, GotoWithMoves
  <2>4. CASE GotoWith(p, record', pc)
    BY <1>v, <1>v2, <2>1, <2>4, GotoWithMoves
  <2>5. CASE read_change(p, pc)
    BY <1>v, <2>5, ReadMoves
  <2> QED
    BY <2>2, <2>3, <2>4, <2>5 DEF Jumps
<1>2. CASE OthersStay(p) /\ Over(proc'[p])
  BY <1>2, ChangeStays, OverIsRightful, LifecycleStep
<1>3. ASSUME OthersStay(p), NEW rec, NEW seen, seen \in {proc[p].seen, change.status},
             Onto(proc'[p], pc, rec, proc[p].marks, seen)
      PROVE  LifecycleInv'
  <2>1. Reaches(w, pc) /\ (pc \in Verified => proc[p].marks \subseteq applied)
    BY DEF At, LifecycleInv, Rightful, Where, Follows
  <2> QED
    BY <1>3, <2>1, LandKeeps
<1> QED
  BY <1>1, <1>2, <1>3

\* p begins a transition it may ask for.
LEMMA AskKeeps ==
  ASSUME IInv, IInv', LifecycleInv, Grows, change' = change, NEW p \in Procs,
         NEW w, w \notin Unopened \cup {"transition"}, At(p, w), NEW to \in WorkflowState, NEW cont \in Points,
         Follows(w, cont), begin_transition(p, to, cont),
         to # "PLAN_READY" => Earned(to, change.plan, approval, applied)
  PROVE  LifecycleInv'
<1>f. Forward
  BY ChangeStays
<1>v. proc \in [Procs -> Coroutine] /\ change.version \in Nat
  BY VersionFacts DEF Versions, Documents
<1>r. Rightful(proc[p], change'.status, change'.plan, approval', applied')
  BY <1>f, RightfulOn DEF LifecycleInv, Forward
<1>e. to # "PLAN_READY" => Earned(to, change'.plan, approval', applied')
  BY <1>f, EarnedOn DEF Forward
<1>1. OthersStay(p) /\ Asks(proc'[p], to, cont, proc[p])
  BY <1>v, BeginMoves
<1>2. Rightful(proc'[p], change'.status, change'.plan, approval', applied')
  <2>1. /\ cont \in Started => w \in Started \/ approval'.status = "APPROVED"
        /\ cont \in Verified => w \in Verified
    BY DEF Follows, Reaches, Grows, ApprovalGrows, Decided
  <2> QED
    BY <1>1, <1>r, <1>e, <2>1, AsksIsRightful DEF At
<1> QED
  BY <1>f, <1>1, <1>2, LifecycleStep

\* p writes the record, or finds that it need not or may not.
Saves(p, cont) ==
  \/ \E new : update_record(p, new, cont)
  \/ \E status, err : set_runtime_status(p, status, err, cont) \/ terminal(p, status, err, cont)

\* It then goes on, or raises.
LEMMA SaveKeeps ==
  ASSUME IInv, IInv', LifecycleInv, Grows, NEW p \in Procs,
         NEW w, w # "transition", At(p, w), NEW cont \in Points, Follows(w, cont), Saves(p, cont)
  PROVE  LifecycleInv'
<1>1. ASSUME NEW new, update_record(p, new, cont)
      PROVE  change' = change /\ (Jumps(p, cont) \/ Jumps(p, Raised(p)))
  BY <1>1 DEF update_record, Jumps
<1>2. ASSUME NEW status, NEW err,
             set_runtime_status(p, status, err, cont) \/ terminal(p, status, err, cont)
      PROVE  change' = change /\ (Jumps(p, cont) \/ Jumps(p, Raised(p)))
  <2>1. \/ Goto(p, cont) /\ change' = change
        \/ update_record(p, [proc[p].rec EXCEPT !.status = status, !.err = err], cont)
    BY <1>2 DEF set_runtime_status, terminal
  <2> QED
    BY <1>1, <2>1 DEF Jumps
<1>3. change' = change /\ (Jumps(p, cont) \/ Jumps(p, Raised(p)))
  BY <1>1, <1>2 DEF Saves
<1>4. Raised(p) \in Points /\ Follows(w, Raised(p))
  BY RaisedEnds, EndFollows
<1> QED
  BY <1>3, <1>4, JumpKeeps


\* A transition shows what it was asked for.
LEMMA TransitionShows ==
  ASSUME IInv, IInv', LifecycleInv, Grows, NEW p \in Procs, transition(p)
  PROVE  LifecycleInv'
<1>1. CASE TransitionAllowed(p)
  <2> DEFINE x == proc[p]
  <2>t. /\ OthersStay(p) /\ change'.status = x.to
        /\ Onto(proc'[p], x.cont, x.rec, x.marks, x.to)
        /\ x.pc = "transition" /\ x.cont # "transition"
    BY <1>1, Transits
  <2>s. x.to \in WorkflowState /\ (x.to = "PLAN_READY" => x.rec.plan # NoPlan)
    BY <2>t DEF IInv, Coroutines, CoroutineInv, Transition
  <2>n. x.to # "NONE"
    BY <2>s DEF WorkflowState
  <2>p. x.to = "PLAN_READY" => change'.plan # NoPlan
    BY <1>1, <2>s DEF transition, Transitioned
  <2>r. Rightful(x, change.status, change.plan, approval, applied)
    BY DEF LifecycleInv
  <2>a. applied' \subseteq Steps
    BY DEF IInv, TypeOK
  <2>g. /\ change.plan # NoPlan => change'.plan = change.plan
        /\ ApprovalGrows(approval, approval') /\ applied \subseteq applied'
    BY DEF Grows
  <2>e. Earned(x.to, change'.plan, approval', applied')
    <3>1. CASE x.to = "PLAN_READY"
      BY <3>1, <2>p DEF Earned, OfApproved
    <3>2. CASE x.to # "PLAN_READY"
      BY <3>2, <2>r, <2>t, <2>a, <2>g, EarnedOn DEF Rightful
    <3> QED
      BY <3>1, <3>2
  <2>f. Forward
    BY <2>e, <2>g, <2>a, <2>t, <2>n DEF Forward
  <2>q. Rightful(x, change'.status, change'.plan, approval', applied')
    BY <2>r, <2>f, RightfulOn DEF Forward
  <2>y. Rightful(proc'[p], change'.status, change'.plan, approval', applied')
    <3>1. Where(x) = x.cont
      BY <2>t DEF Where
    <3>2. /\ x.cont \in Started => approval'.status = "APPROVED"
          /\ x.cont \in Verified => x.marks \subseteq applied'
          /\ change'.status # "NONE"
      BY <3>1, <2>q, <2>t, <2>n DEF Rightful
    <3> QED
      BY <3>2, <2>e, <2>t, OntoIsRightful
  <2> QED
    BY <2>f, <2>t, <2>y, LifecycleStep
<1>2. CASE ~TransitionAllowed(p)
  <2>1. Goto(p, Raised(p)) /\ change' = change
    BY <1>2 DEF transition
  <2> QED
    BY <2>1, RaisedEnds, EndKeeps
<1> QED
  BY <1>1, <1>2

-----------------------------------------------------------------------------
(* The event side keeps it.                                                *)

\* The points of the event side.
Early == {"get", "create", "attempt", "ensure", "dead", "dead_letter_record", "publish", "ack"}
Later ==
  {"analyzing", "screening", "screen", "analyze", "block", "blocked", "analyzed", "screened",
   "drafted", "advance", "climb", "request", "create_approval", "approval_created"}

\* From an early point one goes to early points, from a later one anywhere.
LEMMA EventFollows ==
  /\ \A w, pc : pc \in Early \cup Ended => Follows(w, pc) /\ pc \in Points
  /\ \A w \in Later, pc \in Later : Follows(w, pc) /\ pc \in Points
  /\ Later \cap Unopened = {}
  /\ "transition" \notin Early \cup Later \cup Ended
  BY DEF Early, Later, Ended, Follows, Reaches, Started, Guarded, Verified, Unopened, Unread, Points

\* Steps that read, call out or end.
LEMMA EventJumps ==
  ASSUME IInv, IInv', LifecycleInv, Grows, NEW d \in Procs,
         \/ deliver(d) \/ ack(d) \/ publish_dead_letter(d) \/ record_dead_letter(d)
         \/ interrupt(d) \/ get_record(d) \/ create_or_get(d) \/ read_received(d)
         \/ read_screening(d) \/ advance(d) \/ request_approval(d) \/ create_approval_request(d)
  PROVE  LifecycleInv'
<1>e. ASSUME NEW w, w # "transition", At(d, w), change' = change,
             \E pc \in Early \cup Ended : Jumps(d, pc)
      PROVE  LifecycleInv'
  BY <1>e, EventFollows, JumpKeeps
<1>l. ASSUME NEW w \in Later, At(d, w), change' = change,
             \E pc \in Early \cup Later \cup Ended : Jumps(d, pc)
      PROVE  LifecycleInv'
  BY <1>l, EventFollows, JumpKeeps
<1>1. CASE deliver(d) \/ ack(d) \/ publish_dead_letter(d) \/ record_dead_letter(d) \/ get_record(d)
  <2>1. /\ \E w \in {"idle", "ack", "publish", "dead_letter_record", "get"} : At(d, w)
        /\ change' = change /\ \E pc \in Early \cup Ended : Jumps(d, pc)
    BY <1>1 DEF deliver, ack, publish_dead_letter, record_dead_letter, get_record, Returned,
                Early, Ended, Jumps
  <2> QED
    BY <1>e, <2>1
<1>2. CASE create_or_get(d)
  <2>1. At(d, "create") /\ change' = change /\ \E pc \in Early \cup Ended : Jumps(d, pc)
    BY <1>2 DEF create_or_get, Supported, Early, Jumps
  <2> QED
    BY <1>e, <2>1
<1>3. CASE read_received(d) \/ read_screening(d) \/ advance(d) \/ request_approval(d)
           \/ create_approval_request(d)
  <2>1. /\ \E w \in Later : At(d, w)
        /\ change' = change /\ \E pc \in Early \cup Later \cup Ended : Jumps(d, pc)
    BY <1>3 DEF read_received, read_screening, advance, request_approval, create_approval_request,
                Early, Later, Ended, Jumps
  <2> QED
    BY <1>l, <2>1
<1>4. CASE interrupt(d)
  <2>1. change' = change /\ Goto(d, "nacked") /\ "nacked" \in Ended
    BY <1>4 DEF interrupt, Ended
  <2> QED
    BY <2>1, EndKeeps
<1> QED
  BY <1>1, <1>2, <1>3, <1>4

\* Steps that write the record.
LEMMA EventSaves ==
  ASSUME IInv, IInv', LifecycleInv, Grows, NEW d \in Procs,
         \/ count_attempt(d) \/ mark_analyzing(d) \/ finish_blocked(d) \/ store_plan(d)
         \/ await_approval(d) \/ dead_letter(d)
  PROVE  LifecycleInv'
<1>1. CASE count_attempt(d) \/ dead_letter(d)
  <2>1. /\ \E w \in {"attempt", "dead"} : At(d, w)
        /\ \E pc \in Early : Saves(d, pc)
    BY <1>1 DEF count_attempt, dead_letter, Supported, Saves, Early
  <2> QED
    BY <2>1, EventFollows, SaveKeeps
<1>2. CASE mark_analyzing(d) \/ finish_blocked(d) \/ store_plan(d) \/ await_approval(d)
  <2>1. /\ \E w \in Later : At(d, w)
        /\ \/ \E pc \in Early \cup Later : Saves(d, pc)
           \/ change' = change /\ \E pc \in Early \cup Ended : Jumps(d, pc)
    BY <1>2 DEF mark_analyzing, finish_blocked, store_plan, await_approval, Saves, Jumps, Early, Later,
                Ended
  <2> QED
    BY <2>1, EventFollows, SaveKeeps, JumpKeeps
<1> QED
  BY <1>1, <1>2

\* Steps that ask for a transition: the ladder asks for AWAITING_APPROVAL when
\* it has seen PLAN_READY, which has a plan.
LEMMA EventAsks ==
  ASSUME IInv, IInv', LifecycleInv, Grows, NEW d \in Procs,
         screen(d) \/ block(d) \/ screened(d) \/ climb(d)
  PROVE  LifecycleInv'
<1>s. {"SCREENING", "BLOCKED", "ANALYZING", "PLAN_READY", "AWAITING_APPROVAL"} \subseteq WorkflowState
  BY DEF WorkflowState
<1>a. ASSUME NEW w \in Later, At(d, w), change' = change, NEW cont \in Later,
             NEW to \in WorkflowState, begin_transition(d, to, cont),
             to # "PLAN_READY" => Earned(to, change.plan, approval, applied)
      PROVE  LifecycleInv'
  BY <1>a, EventFollows, AskKeeps
<1>t. \A to \in {"SCREENING", "BLOCKED", "ANALYZING"} : Earned(to, change.plan, approval, applied)
  BY DEF Earned, OfApproved, OfPlanned
<1>1. CASE screen(d) \/ block(d) \/ screened(d)
  <2>1. /\ \E w \in Later : At(d, w)
        /\ change' = change
        /\ \E cont \in Later, to \in {"SCREENING", "BLOCKED", "ANALYZING"} :
             begin_transition(d, to, cont)
    BY <1>1 DEF screen, block, screened, Later
  <2> QED
    BY <1>a, <1>s, <1>t, <2>1
<1>2. CASE climb(d)
  <2>1. At(d, "climb") /\ change' = change /\ "climb" \in Later
    BY <1>2 DEF climb, Later
  <2>2. CASE proc[d].seen \in DOMAIN Climb /\ begin_transition(d, Climb[proc[d].seen], "climb")
    <3> DEFINE to == Climb[proc[d].seen]
    <3>1. /\ to \in {"ANALYZING", "PLAN_READY", "AWAITING_APPROVAL"}
          /\ to = "AWAITING_APPROVAL" => proc[d].seen = "PLAN_READY"
      BY <2>2 DEF Climb
    <3>2. Earned(proc[d].seen, change.plan, approval, applied)
      BY DEF LifecycleInv, Rightful
    <3>3. to # "PLAN_READY" => Earned(to, change.plan, approval, applied)
      <4>1. to = "AWAITING_APPROVAL" => change.plan # NoPlan
        BY <3>1, <3>2 DEF Earned, OfPlanned
      <4> HIDE DEF to
      <4> QED
        BY <3>1, <4>1 DEF Earned, OfApproved, OfPlanned
    <3> HIDE DEF to
    <3>4. begin_transition(d, to, "climb")
      BY <2>2 DEF to
    <3> QED
      BY <1>a, <1>s, <2>1, <3>1, <3>3, <3>4
  <2>3. CASE \E pc \in {"request", "publish"} : Goto(d, pc)
    <3>1. {"request", "publish"} \subseteq Early \cup Later
      BY DEF Early, Later
    <3> QED
      BY <2>1, <2>3, <3>1, EventFollows, JumpKeeps DEF Jumps
  <2> QED
    BY <1>2, <2>2, <2>3 DEF climb
<1> QED
  BY <1>1, <1>2


\* The fleet's answer.
LEMMA AnalyzeKeeps ==
  ASSUME IInv, IInv', LifecycleInv, Grows, NEW d \in Procs, analyze(d)
  PROVE  LifecycleInv'
<1>1. At(d, "analyze") /\ change' = change /\ "analyze" \in Later /\ "analyzed" \in Later
  BY DEF analyze, Later
<1>2. CASE \E pc \in {"advance", "block", "nacked", "dead"} : Goto(d, pc)
  <2>1. {"advance", "block", "nacked", "dead"} \subseteq Early \cup Later \cup Ended
    BY DEF Early, Later, Ended
  <2> QED
    BY <1>1, <1>2, <2>1, EventFollows, JumpKeeps DEF Jumps
<1>3. ASSUME NEW plan \in Plans \cup {NoPlan},
             proc' = [proc EXCEPT ![d] = [@ EXCEPT !.draft = plan, !.pc = "analyzed"]]
      PROVE  LifecycleInv'
  <2> DEFINE y == [proc[d] EXCEPT !.draft = plan, !.pc = "analyzed"]
  <2>v. proc \in [Procs -> Coroutine] /\ proc[d] \in Coroutine
    BY VersionFacts DEF Versions, Documents
  <2>0. "analyzed" \in Points
    BY DEF Points
  <2>1. y \in Coroutine /\ Onto(y, "analyzed", proc[d].rec, proc[d].marks, proc[d].seen)
    BY <2>v, <2>0 DEF Coroutine, Onto
  <2>2. proc' = [proc EXCEPT ![d] = y]
    BY <1>3
  <2> HIDE DEF y
  <2>3. OthersStay(d) /\ proc'[d] = y
    BY <2>v, <2>1, <2>2, Replaces
  <2>4. Reaches("analyze", "analyzed") /\ "analyzed" \notin Verified /\ "analyze" # "transition"
    BY <1>1, EventFollows DEF Follows, Verified
  <2> QED
    BY <1>1, <2>1, <2>3, <2>4, LandKeeps
<1> QED
  BY <1>2, <1>3 DEF analyze

\* A change that exists has a status.
LEMMA ChangeHasStatus ==
  ASSUME IInv
  PROVE  change # NoChange <=> change.status # "NONE"
  BY DEF IInv, TypeOK, ChangeRecord, NoChange, WorkflowState

\* The change is created.
LEMMA EnsureKeeps ==
  ASSUME IInv, IInv', LifecycleInv, Grows, NEW d \in Procs, ensure_change(d)
  PROVE  LifecycleInv'
<1>1. Goto(d, "analyzing") /\ At(d, "ensure")
  BY DEF ensure_change
<1>2. /\ change'.status # "NONE"
      /\ change'.status = "RECEIVED" \/ change' = change
  BY ChangeHasStatus DEF ensure_change, NoChange
<1>3. Forward
  <2>1. CASE change' = change
    BY <2>1, ChangeStays
  <2>2. CASE change'.status = "RECEIVED"
    <3>1. Earned("RECEIVED", change'.plan, approval', applied')
      BY DEF Earned, OfApproved, OfPlanned
    <3>2. applied' \subseteq Steps
      BY DEF IInv, TypeOK
    <3> QED
      BY <1>2, <2>2, <3>1, <3>2 DEF Grows, Forward
  <2> QED
    BY <1>2, <2>1, <2>2
<1>4. "analyzing" \in Points /\ "analyzing" \notin Ended \cup Started \cup Verified \cup {"transition"}
  BY DEF Points, Ended, Started, Guarded, Verified
<1>5. OthersStay(d) /\ Onto(proc'[d], "analyzing", proc[d].rec, proc[d].marks, proc[d].seen)
  BY <1>1, <1>4, GotoMoves, VersionFacts DEF Versions, Documents, Moved
<1>6. Rightful(proc[d], change'.status, change'.plan, approval', applied')
  BY <1>3, RightfulOn DEF LifecycleInv, Forward
<1>7. Rightful(proc'[d], change'.status, change'.plan, approval', applied')
  <2>1. Earned(proc[d].seen, change'.plan, approval', applied')
    BY <1>6 DEF Rightful
  <2> QED
    BY <1>2, <1>4, <1>5, <2>1, OntoIsRightful
<1> QED
  BY <1>3, <1>5, <1>7, LifecycleStep

\* The event side as a whole.
LEMMA IntakeLifecycle ==
  ASSUME IInv, IInv', LifecycleInv, Grows, IntakeNext
  PROVE  LifecycleInv'
<1>1. ASSUME NEW d \in Deliveries, deliver(d) \/ handle_message(d) \/ interrupt(d)
      PROVE  LifecycleInv'
  <2>1. d \in Procs
    BY DEF Procs
  <2>2. CASE handle_message(d)
    <3>1. CASE process_event(d)
      BY <3>1, <2>1, EventJumps, EventSaves, EventAsks, AnalyzeKeeps, EnsureKeeps, TransitionShows
         DEF process_event
    <3> QED
      BY <2>1, <2>2, <3>1, EventJumps DEF handle_message
  <2> QED
    BY <1>1, <2>1, <2>2, EventJumps
<1>2. CASE pubsub_forward
  <2>1. change' = change /\ proc' = proc
    BY <1>2 DEF pubsub_forward, storeVars
  <2> QED
    BY <2>1, ChangeStays, LifecycleStays
<1> QED
  BY <1>1, <1>2 DEF IntakeNext

\* A user cancels or retries.
LEMMA UserLifecycle ==
  ASSUME IInv, IInv', LifecycleInv, Grows, NEW target \in UserTargets, user_transition(target)
  PROVE  LifecycleInv'
<1>1. /\ target \in {"CANCELLED", "SCREENING"} /\ proc' = proc /\ change # NoChange
      /\ change' = [change EXCEPT !.status = target, !.version = @ + 1]
  BY UserTargetsAssumption DEF user_transition
<1>2. change'.status = target
  BY <1>1 DEF IInv, TypeOK, ChangeRecord
<1>3. Earned(target, change'.plan, approval', applied') /\ target # "NONE"
  BY <1>1 DEF Earned, OfApproved, OfPlanned
<1>4. applied' \subseteq Steps
  BY DEF IInv, TypeOK
<1>5. Forward
  BY <1>2, <1>3, <1>4 DEF Grows, Forward
<1> QED
  BY <1>1, <1>5, LifecycleStays


-----------------------------------------------------------------------------
(* The approval side keeps it.                                             *)

\* Callbacks are coroutines.
LEMMA CallbackIsProc == \A b \in Callbacks : b \in Procs
  BY DEF Procs

\* The reads at the start: a decided approval is about a change that exists.
LEMMA CallbackReads ==
  ASSUME IInv, IInv', LifecycleInv, Grows, NEW b \in Procs,
         notify(b) \/ get_change(b) \/ resume_record(b)
  PROVE  LifecycleInv'
<1>e. \A w, pc : pc \in {"get_change", "get_record"} \cup Ended => Follows(w, pc) /\ pc \in Points
  BY DEF Ended, Follows, Reaches, Started, Guarded, Verified, Unopened, Unread, Points
<1>1. CASE notify(b) \/ get_change(b)
  <2>1. /\ \E w \in {"idle", "get_change"} : At(b, w)
        /\ change' = change
        /\ \E pc \in {"get_change", "get_record", "failed"} : Jumps(b, pc)
    BY <1>1 DEF notify, get_change, read_change, Jumps
  <2>2. "failed" \in Ended
    BY DEF Ended
  <2> QED
    BY <1>e, <2>1, <2>2, JumpKeeps
<1>2. CASE resume_record(b)
  <2>1. /\ At(b, "get_record") /\ change' = change
        /\ \E pc \in {"answered", "failed", "resume"} : Jumps(b, pc)
    BY <1>2 DEF resume_record, Jumps
  <2>2. approval.status \in Decided
    BY <2>1 DEF At, IInv, Coroutines, CoroutineInv, LocalInv, Knows, Where
  <2>3. change.status # "NONE"
    <3>1. change.plan # NoPlan
      BY <2>2, VersionFacts, NoPlanPlansAssumption DEF Versions, Documents, IInv, PlanInv, Decided
    <3> QED
      BY <3>1, ChangeHasStatus DEF NoChange
  <2>4. Follows("get_record", "resume") /\ "resume" \in Points
    BY <2>3 DEF Follows, Reaches, Started, Guarded, Verified, Points
  <2>5. {"answered", "failed"} \subseteq Ended
    BY DEF Ended
  <2> QED
    BY <1>e, <2>1, <2>4, <2>5, JumpKeeps
<1> QED
  BY <1>1, <1>2

\* A decision earns the transitions on its path.
LEMMA PathIsEarned ==
  ASSUME NEW decision \in Decided, NEW status \in DOMAIN Path[decision]
  PROVE  /\ Path[decision][status] \in {"APPROVED", "EXECUTING", "REJECTED", "ANALYZING"}
         /\ Path[decision][status] \in {"APPROVED", "EXECUTING"} => decision = "APPROVED"
         /\ Path[decision][status] = "REJECTED" => decision \in {"REJECTED", "CHANGES_REQUESTED"}
<1>1. CASE decision = "APPROVED"
  BY <1>1 DEF Path
<1>2. CASE decision = "REJECTED"
  BY <1>2 DEF Path
<1>3. CASE decision = "CHANGES_REQUESTED"
  BY <1>3 DEF Path
<1> QED
  BY <1>1, <1>2, <1>3 DEF Decided

\* The callback follows the decision.
LEMMA FollowKeeps ==
  ASSUME IInv, IInv', LifecycleInv, Grows, NEW b \in Procs, follow_decision(b)
  PROVE  LifecycleInv'
<1>1. At(b, "resume") /\ change' = change
  BY DEF follow_decision
<1>2. approval.status \in Decided
  BY <1>1 DEF At, IInv, Coroutines, CoroutineInv, LocalInv, Knows, Where, Resumed
<1>3. CASE /\ proc[b].seen \in DOMAIN Path[approval.status]
           /\ begin_transition(b, Path[approval.status][proc[b].seen], "resume")
  <2> DEFINE to == Path[approval.status][proc[b].seen]
  <2>1. /\ to \in {"APPROVED", "EXECUTING", "REJECTED", "ANALYZING"}
        /\ to \in {"APPROVED", "EXECUTING"} => approval.status = "APPROVED"
        /\ to = "REJECTED" => approval.status \in {"REJECTED", "CHANGES_REQUESTED"}
    BY <1>2, <1>3, PathIsEarned
  <2>2. begin_transition(b, to, "resume")
    BY <1>3
  <2> HIDE DEF to
  <2>3. Earned(to, change.plan, approval, applied) /\ to \in WorkflowState
    BY <2>1 DEF Earned, OfApproved, OfPlanned, WorkflowState
  <2>4. Follows("resume", "resume") /\ "resume" \in Points
        /\ "resume" \notin Unopened \cup {"transition"}
    BY DEF Unopened, Unread, Ended, Follows, Reaches, Started, Guarded, Verified, Points
  <2> QED
    BY <1>1, <2>2, <2>3, <2>4, AskKeeps
<1>4. CASE Goto(b, AfterPath(b))
  <2>1. /\ AfterPath(b) \in {"rejected", "changes_requested", "executing", "refused"}
        /\ AfterPath(b) = "executing" => approval.status = "APPROVED"
    BY <1>2 DEF AfterPath, Decided
  <2>2. Follows("resume", AfterPath(b)) /\ AfterPath(b) \in Points
    BY <2>1 DEF Follows, Reaches, Started, Guarded, Verified, Unopened, Unread, Ended, Points
  <2> QED
    BY <1>1, <1>4, <2>2, JumpKeeps DEF Jumps
<1> QED
  BY <1>3, <1>4 DEF follow_decision

\* The points of the execution can be reached from one another, but for those
\* of the verification.
LEMMA StartedFollows ==
  /\ \A w \in Started, pc \in Started \ Verified : Follows(w, pc)
  /\ \A w \in Started, pc \in Started : Reaches(w, pc)
  /\ \A w \in Verified, pc \in Verified : Follows(w, pc)
  /\ Started \subseteq Points /\ Verified \subseteq Started
  /\ Started \cap (Unopened \cup {"transition"}) = {}
  BY DEF Follows, Reaches, Started, Guarded, Verified, Unopened, Unread, Ended, Points

\* Steps that write the record.
LEMMA CallbackSaves ==
  ASSUME IInv, IInv', LifecycleInv, Grows, NEW b \in Procs,
         \/ finish_rejected(b) \/ finish_changes_requested(b) \/ finish_completed(b)
         \/ finish_rolled_back(b) \/ mark_executing(b) \/ mark_verifying(b) \/ mark_rolling_back(b)
         \/ store_snapshots(b) \/ store_wave(b) \/ store_rollback(b)
  PROVE  LifecycleInv'
<1>1. CASE finish_rejected(b) \/ finish_changes_requested(b) \/ finish_completed(b)
           \/ finish_rolled_back(b)
  <2>1. /\ \E w \in {"rejected", "changes_requested", "complete", "compensated"} : At(b, w)
        /\ Saves(b, "answered") /\ "answered" \in Ended
    BY <1>1 DEF finish_rejected, finish_changes_requested, finish_completed, finish_rolled_back,
                Saves, Ended
  <2> QED
    BY <2>1, EndFollows, SaveKeeps
<1>2. CASE mark_executing(b) \/ mark_rolling_back(b) \/ store_wave(b) \/ store_rollback(b)
  <2>1. /\ \E w \in Started : At(b, w)
        /\ \E pc \in Started \ Verified : Saves(b, pc)
    BY <1>2 DEF mark_executing, mark_rolling_back, store_wave, store_rollback, Saves, Started,
                Guarded, Verified
  <2> QED
    BY <2>1, StartedFollows, SaveKeeps
<1>3. CASE mark_verifying(b)
  <2>1. /\ At(b, "verifying") /\ Saves(b, "verify")
        /\ "verifying" \in Verified /\ "verify" \in Verified
    BY <1>3 DEF mark_verifying, Saves, Verified
  <2> QED
    BY <2>1, StartedFollows, SaveKeeps
<1>4. CASE store_snapshots(b)
  <2>1. /\ At(b, "snapshots") /\ (Saves(b, "dag") \/ (Jumps(b, "dag") /\ change' = change))
        /\ "snapshots" \in Started /\ "dag" \in Started \ Verified
    BY <1>4 DEF store_snapshots, Saves, Jumps, Started, Guarded, Verified
  <2> QED
    BY <2>1, StartedFollows, SaveKeeps, JumpKeeps
<1> QED
  BY <1>1, <1>2, <1>3, <1>4


\* The transitions of execution, verification and compensation: whoever asks
\* for COMPLETED has seen every system with its new field, so every step was
\* applied.
LEMMA CallbackAsks ==
  ASSUME IInv, IInv', LifecycleInv, Grows, NEW b \in Procs,
         start_verifying(b) \/ start_completing(b) \/ start_rollback(b) \/ end_rollback(b)
  PROVE  LifecycleInv'
<1>r. Rightful(proc[b], change.status, change.plan, approval, applied)
  BY DEF LifecycleInv
<1>v. applied \subseteq Steps
  BY DEF IInv, TypeOK
<1>c. Compensated(b) \in {"NEEDS_ATTENTION", "FAILED"}
  BY DEF Compensated
<1>1. PICK w \in {"executed", "verify", "roll", "rolled_back"},
           to \in {"VERIFYING", "COMPLETED", "ROLLING_BACK", "NEEDS_ATTENTION", "FAILED"},
           cont \in {"verifying", "complete", "rolling_back", "compensated"} :
        /\ At(b, w) /\ change' = change /\ begin_transition(b, to, cont)
        /\ cont = "verifying" => w = "executed"
        /\ to = "COMPLETED" => w = "verify" /\ proc[b].marks = Steps
  BY <1>c DEF start_verifying, start_completing, start_rollback, end_rollback
<1>2. w \in Started /\ cont \in Started /\ (cont \in Verified => w \in Verified) /\ cont \in Points
  BY <1>1 DEF Started, Guarded, Verified, Points
<1>3. Follows(w, cont) /\ w \notin Unopened \cup {"transition"}
  BY <1>2, StartedFollows DEF Follows
<1>4. approval.status = "APPROVED"
  BY <1>1, <1>2, <1>3, <1>r DEF Rightful, Where, At
<1>5. to = "COMPLETED" => applied = Steps
  BY <1>1, <1>r, <1>v DEF Rightful, Where, At, Verified
<1>6. to \in WorkflowState
  BY DEF WorkflowState
<1>7. Earned(to, change.plan, approval, applied)
  BY <1>4, <1>5 DEF Earned, OfPlanned
<1> QED
  BY <1>1, <1>2, <1>3, <1>6, <1>7, AskKeeps

\* The loops: a system is marked as verified when it has its new field.
LEMMA CallbackLoops ==
  ASSUME IInv, IInv', LifecycleInv, Grows, NEW b \in Procs,
         execute_dag(b) \/ read_for_rollback(b) \/ \E s \in Steps : verify_task(b, s)
  PROVE  LifecycleInv'
<1>r. Rightful(proc[b], change.status, change.plan, approval, applied)
  BY DEF LifecycleInv
<1>v. /\ proc \in [Procs -> Coroutine] /\ proc[b] \in Coroutine
      /\ change.status \in WorkflowState \cup {"NONE"} /\ proc[b].marks \subseteq Steps
  BY VersionFacts DEF Versions, Documents
<1>l. ASSUME NEW w \in Started, At(b, w), change' = change, OthersStay(b), NEW pc \in Started,
             NEW m, NEW seen \in {proc[b].seen, change.status},
             Onto(proc'[b], pc, proc[b].rec, m, seen), pc \in Verified => m \subseteq applied
      PROVE  LifecycleInv'
  BY <1>l, StartedFollows, LandKeeps
<1>e. ASSUME NEW w \in Started, At(b, w), change' = change, NEW pc \in Started,
             NEW m \in SUBSET Steps, Enter(b, pc, m), pc \in Verified => m \subseteq applied
      PROVE  LifecycleInv'
  <2>1. OthersStay(b) /\ Onto(proc'[b], pc, proc[b].rec, m, proc[b].seen)
    BY <1>e, <1>v, StartedFollows, EnterMoves
  <2> QED
    BY <1>e, <1>l, <2>1
<1>1. CASE execute_dag(b)
  <2>1. At(b, "dag") /\ change' = change
    BY <1>1 DEF execute_dag
  <2>2. {"dag", "wave", "rollback", "executed"} \subseteq Started /\ "wave" \notin Verified
        /\ "failed" \in Ended
    BY DEF Started, Guarded, Verified, Ended
  <2>3. CASE Enter(b, "wave", Ready(b))
    <3>1. Ready(b) \in SUBSET Steps
      BY DEF Ready, WithStatus
    <3> QED
      BY <1>e, <2>1, <2>2, <2>3, <3>1
  <2>4. CASE Goto(b, "failed")
    BY <2>1, <2>2, <2>4, EndKeeps
  <2>5. CASE \E pc \in {"rollback", "executed"} : Enter(b, pc, {})
    BY <1>e, <2>1, <2>2, <2>5
  <2> QED
    BY <1>1, <2>3, <2>4, <2>5 DEF execute_dag
<1>2. ASSUME NEW s \in Steps, verify_task(b, s) PROVE LifecycleInv'
  <2>1. At(b, "verify") /\ change' = change
    BY <1>2 DEF verify_task
  <2>2. {"verify", "rollback"} \subseteq Started /\ "verify" \in Verified /\ "rollback" \notin Verified
    BY DEF Started, Guarded, Verified
  <2>3. CASE config[s] = "new_field" /\ Enter(b, "verify", proc[b].marks \cup {s})
    <3>1. s \in applied
      BY <2>3 DEF IInv, SandboxInv
    <3>2. proc[b].marks \subseteq applied
      BY <1>r, <2>1, <2>2 DEF Rightful, Where, At
    <3>3. proc[b].marks \cup {s} \in SUBSET Steps /\ proc[b].marks \cup {s} \subseteq applied
      BY <1>v, <3>1, <3>2
    <3> QED
      BY <1>e, <2>1, <2>2, <2>3, <3>3
  <2>4. CASE Enter(b, "rollback", {})
    BY <1>e, <2>1, <2>2, <2>4
  <2> QED
    BY <1>2, <2>3, <2>4 DEF verify_task
<1>3. CASE read_for_rollback(b)
  <2> DEFINE pc == IF change.status \in {"EXECUTING", "VERIFYING"} THEN "roll" ELSE "rolling_back"
             y == [proc[b] EXCEPT !.seen = change.status, !.marks = {}, !.pc = pc]
  <2>1. At(b, "rollback") /\ change' = change /\ proc' = [proc EXCEPT ![b] = y]
    BY <1>3 DEF read_for_rollback
  <2>2. {"rollback", pc} \subseteq Started /\ pc \in Points
    BY DEF Started, Guarded, Points
  <2> HIDE DEF pc
  <2>3. y \in Coroutine /\ Onto(y, pc, proc[b].rec, {}, change.status)
    BY <1>v, <2>2 DEF Coroutine, Onto
  <2> HIDE DEF y
  <2>4. OthersStay(b) /\ proc'[b] = y
    BY <1>v, <2>1, <2>3, Replaces
  <2> QED
    BY <1>l, <2>1, <2>2, <2>3, <2>4
<1> QED
  BY <1>1, <1>2, <1>3

\* p edits its copy, at a point of the execution that is not of the
\* verification.
LEMMA EditKeeps ==
  ASSUME IInv, IInv', LifecycleInv, Grows, change' = change, NEW p \in Procs,
         NEW w \in Started, At(p, w), NEW pc \in Started \ Verified,
         NEW y \in Coroutine, y.pc = pc, y.seen = proc[p].seen,
         proc' = [proc EXCEPT ![p] = y]
  PROVE  LifecycleInv'
<1>1. OthersStay(p) /\ proc'[p] = y
  BY Replaces, VersionFacts DEF Versions, Documents
<1>2. Onto(proc'[p], pc, y.rec, y.marks, proc[p].seen)
  BY <1>1 DEF Onto
<1> QED
  BY <1>1, <1>2, StartedFollows, LandKeeps

\* A coroutine that has taken a snapshot.
LEMMA SnapshotEdit ==
  ASSUME NEW x \in Coroutine, NEW s \in Steps, NEW v \in Configuration
  PROVE  LET y == [x EXCEPT !.rec.tasks[s].snap = v, !.marks = @ \cup {s}] IN
         /\ y \in Coroutine /\ y.pc = x.pc /\ y.marks = x.marks \cup {s}
         /\ \E task \in Task : /\ task.snap = v /\ task.status = x.rec.tasks[s].status
                               /\ EditedCopy(x.rec, s, task, y.rec)
  BY SnapshotTaken

\* Snapshots and restored tasks.
LEMMA CallbackEdits ==
  ASSUME IInv, IInv', LifecycleInv, Grows, NEW b \in Procs, NEW s \in Steps,
         capture_snapshot(b, s) \/ restore(b, s) \/ check_restored(b, s)
  PROVE  LifecycleInv'
<1>v. proc \in [Procs -> Coroutine] /\ proc[b] \in Coroutine
  BY VersionFacts DEF Versions, Documents
<1>s. {"snapshots", "restore", "restored"} \subseteq Started \ Verified
  BY DEF Started, Guarded, Verified
<1>t. ASSUME NEW w \in Started, At(b, w), change' = change, NEW status \in Undone,
             TaskRestored(b, s, status)
      PROVE  LifecycleInv'
  <2> DEFINE x == [proc[b] EXCEPT !.rec.tasks[s].status = status]
             y == [x EXCEPT !.marks = proc[b].marks \cup {s}, !.pc = "restore"]
  <2>1. proc' = [proc EXCEPT ![b] = y]
    BY <1>t DEF TaskRestored
  <2>2. status \in TaskStatus
    BY DEF Undone, TaskStatus
  <2>3. x \in Coroutine
    BY <1>v, <2>2, StatusTaken
  <2>4. x.seen = proc[b].seen
    BY <1>v DEF Coroutine
  <2> HIDE DEF x
  <2>5. proc[b].marks \cup {s} \in SUBSET Steps /\ "restore" \in Points
    BY <1>v DEF Coroutine, Points
  <2>6. y \in Coroutine /\ y.pc = "restore" /\ y.seen = proc[b].seen
    BY <2>3, <2>4, <2>5 DEF Coroutine
  <2> HIDE DEF y
  <2> QED
    BY <1>t, <1>s, <2>1, <2>6, EditKeeps
<1>1. CASE capture_snapshot(b, s)
  <2>1. At(b, "snapshots") /\ change' = change
    BY <1>1 DEF capture_snapshot
  <2>2. CASE proc' = [proc EXCEPT ![b] = [@ EXCEPT
               !.rec.tasks[s].snap = config[s], !.marks = proc[b].marks \cup {s}]]
    <3> DEFINE y == [proc[b] EXCEPT !.rec.tasks[s].snap = config[s], !.marks = @ \cup {s}]
    <3>1. config[s] \in Configuration
      BY DEF IInv, TypeOK
    <3>2. y \in Coroutine /\ y.pc = proc[b].pc
      BY <1>v, <3>1, SnapshotEdit
    <3>3. y.seen = proc[b].seen
      BY <1>v DEF Coroutine
    <3>4. proc' = [proc EXCEPT ![b] = y]
      BY <2>2
    <3> HIDE DEF y
    <3>5. y.pc = "snapshots"
      BY <2>1, <3>2 DEF At
    <3> QED
      BY <1>s, <2>1, <3>2, <3>3, <3>4, <3>5, EditKeeps
  <2>3. CASE Goto(b, "failed")
    BY <2>1, <2>3, EndKeeps DEF Ended
  <2> QED
    BY <1>1, <2>2, <2>3 DEF capture_snapshot
<1>2. CASE restore(b, s)
  <2>1. /\ At(b, "restore") /\ change' = change
        /\ Goto(b, "restored") \/ TaskRestored(b, s, "ROLLBACK_FAILED")
    BY <1>2 DEF restore
  <2>2. CASE Goto(b, "restored")
    BY <1>s, <2>1, <2>2, StartedFollows, JumpKeeps DEF Jumps
  <2>3. CASE TaskRestored(b, s, "ROLLBACK_FAILED")
    BY <1>s, <1>t, <2>1, <2>3 DEF Undone
  <2> QED
    BY <2>1, <2>2, <2>3
<1>3. CASE check_restored(b, s)
  <2>1. /\ At(b, "restored") /\ change' = change
        /\ \E status \in Undone : TaskRestored(b, s, status)
    BY <1>3 DEF check_restored, Undone
  <2> QED
    BY <1>s, <1>t, <2>1
<1> QED
  BY <1>1, <1>2, <1>3

\* The callback as a whole.
LEMMA ResumeLifecycle ==
  ASSUME IInv, IInv', LifecycleInv, Grows, NEW b \in Procs, resume_approval(b)
  PROVE  LifecycleInv'
  BY CallbackReads, FollowKeeps, CallbackSaves, CallbackAsks, CallbackLoops, CallbackEdits,
     TransitionShows DEF resume_approval


\* A tool call: its outcome is a result in the copy of whoever waits for it.
LEMMA CallLifecycle ==
  ASSUME IInv, IInv', LifecycleInv, Grows, NEW k \in calls,
         gateway_request(k) \/ client_timeout(k) \/ worker_crash(k)
  PROVE  LifecycleInv'
<1>k. k \in Call /\ k.by \in Procs /\ k.step \in Steps
  BY DEF IInv, TypeOK, Call, Procs
<1>c. change' = change
  BY DEF gateway_request, evaluate_policy, reserve_execution, apply_patch, complete_execution,
         fail_execution, client_timeout, worker_crash
<1>1. ASSUME NEW outcome, NEW rest, TaskOutcome(k, outcome, rest) PROVE LifecycleInv'
  <2> DEFINE p == k.by
             status == IF outcome = "ok" THEN "SUCCEEDED" ELSE "FAILED"
             y == [proc[p] EXCEPT !.rec.tasks[k.step].status = status]
  <2>1. proc' = proc \/ (k.waited /\ proc' = [proc EXCEPT ![p] = y])
    BY <1>1 DEF TaskOutcome
  <2>2. CASE k.waited /\ proc' = [proc EXCEPT ![p] = y]
    <3>v. proc[p] \in Coroutine
      BY <1>k, VersionFacts DEF Versions, Documents
    <3>1. At(p, "wave") /\ "wave" \in Started \ Verified
      BY <2>2 DEF IInv, Waiting, At, Started, Guarded, Verified
    <3>2. status \in TaskStatus
      BY DEF TaskStatus
    <3> HIDE DEF status
    <3>3. /\ y \in Coroutine /\ y.pc = proc[p].pc /\ y.marks = proc[p].marks
          /\ \E task \in Task : /\ task.status = status /\ task.snap = proc[p].rec.tasks[k.step].snap
                                /\ EditedCopy(proc[p].rec, k.step, task, y.rec)
      BY <1>k, <3>v, <3>2, StatusTaken
    <3>4. y.seen = proc[p].seen
      BY <3>v DEF Coroutine
    <3> HIDE DEF y
    <3>5. y.pc = "wave"
      BY <3>1, <3>3 DEF At
    <3> HIDE DEF p
    <3>6. p \in Procs
      BY <1>k DEF p
    <3> QED
      BY <1>c, <2>2, <3>1, <3>3, <3>4, <3>5, <3>6, EditKeeps
  <2> QED
    BY <1>c, <2>1, <2>2, ChangeStays, LifecycleStays
<1>2. proc' = proc \/ \E outcome, rest : TaskOutcome(k, outcome, rest)
  BY DEF gateway_request, evaluate_policy, reserve_execution, apply_patch, complete_execution,
         fail_execution, client_timeout, worker_crash, Answer
<1> QED
  BY <1>c, <1>1, <1>2, ChangeStays, LifecycleStays

\* No step breaks it.
LEMMA NextLifecycle ==
  ASSUME IInv, LifecycleInv, [Next]_vars
  PROVE  LifecycleInv'
<1>i. IInv' /\ Grows
  BY NextStep
<1>1. CASE IntakeNext
  BY <1>i, <1>1, IntakeLifecycle
<1>2. CASE ExecutionNext
  <2>1. ASSUME NEW decision \in DOMAIN Path, decide_approval(decision) PROVE LifecycleInv'
    <3>1. change' = change /\ proc' = proc
      BY <2>1 DEF decide_approval
    <3> QED
      BY <1>i, <3>1, ChangeStays, LifecycleStays
  <2>2. CASE expire
    <3>1. change' = change /\ proc' = proc
      BY <2>2 DEF expire
    <3> QED
      BY <1>i, <3>1, ChangeStays, LifecycleStays
  <2>3. ASSUME NEW b \in Callbacks, notify(b) \/ resume_approval(b) \/ callback_crash(b)
        PROVE  LifecycleInv'
    <3>1. b \in Procs
      BY CallbackIsProc
    <3>2. CASE callback_crash(b)
      <4>1. change' = change /\ Goto(b, "failed") /\ "failed" \in Ended
        BY <3>2 DEF callback_crash, Ended
      <4> QED
        BY <1>i, <3>1, <4>1, EndKeeps
    <3> QED
      BY <1>i, <2>3, <3>1, <3>2, CallbackReads, ResumeLifecycle
  <2>4. ASSUME NEW k \in calls, gateway_request(k) \/ client_timeout(k) \/ worker_crash(k)
        PROVE  LifecycleInv'
    BY <1>i, <2>4, CallLifecycle
  <2> QED
    BY <1>2, <2>1, <2>2, <2>3, <2>4 DEF ExecutionNext
<1>3. CASE \E target \in UserTargets : user_transition(target)
  BY <1>i, <1>3, UserLifecycle
<1>4. CASE UNCHANGED vars
  <2>1. change' = change /\ proc' = proc
    BY <1>4 DEF vars, storeVars
  <2> QED
    BY <1>i, <2>1, ChangeStays, LifecycleStays
<1> QED
  BY <1>1, <1>2, <1>3, <1>4 DEF Next

\* It holds before the event is delivered.
LEMMA InitLifecycle ==
  ASSUME Init
  PROVE  LifecycleInv
<1>i. change.status = "NONE" /\ \A p \in Procs : proc[p] = Idle
  BY DEF Init, StoreInit, NoChange
<1>1. Earned("NONE", change.plan, approval, applied)
  BY DEF Earned, OfApproved, OfPlanned
<1>2. Idle.pc = "idle" /\ Idle.rec = NoRecord /\ Idle.marks = {} /\ Idle.seen = "NONE"
  BY DEF Idle
<1>3. Over(Idle)
  BY <1>2 DEF Over, Ended
<1> QED
  BY <1>i, <1>1, <1>3, OverIsRightful DEF LifecycleInv


\* Every transition is earned: whatever stale copies, repeated callbacks and
\* late deliveries do, a change is approved, executed, verified, compensated or
\* ended only for a plan its approver has approved, is rejected only if its
\* approver did not approve, and is COMPLETED only when every step was applied.
THEOREM TransitionsAreEarned == Spec => []LifecycleInv
<1>1. Init => IInv /\ LifecycleInv
  BY InitIInv, InitLifecycle
<1>2. IInv /\ LifecycleInv /\ [Next]_vars => IInv' /\ LifecycleInv'
  BY NextStep, NextLifecycle
<1> QED
  BY <1>1, <1>2, PTL DEF Spec

-----------------------------------------------------------------------------
(* The coordinator implements ChangeLifecycle.                             *)

\* What ChangeLifecycle sees.
Seen == <<change.status, change.plan, approval, config, applied, late>>

\* A step it does not see is a stutter of it.
LEMMA UnseenStutters ==
  ASSUME UNCHANGED Seen
  PROVE  UNCHANGED Lifecycle!vars
  BY DEF Seen, Lifecycle!vars, Lifecycle!systems

\* An approval that is there is about the plan of the change.
LEMMA ApprovedPlan ==
  ASSUME IInv, approval.status = "APPROVED"
  PROVE  Lifecycle!Approved
  BY DEF IInv, PlanInv, Lifecycle!Approved

\* Both follow the same graph.
LEMMA SameGraph == \A st, to : Lifecycle!can_transition(st, to) <=> can_transition(st, to)
  BY DEF can_transition, allowed_targets, AllowedTransitions, WorkflowState,
         Lifecycle!can_transition, Lifecycle!allowed_targets, Lifecycle!AllowedTransitions,
         Lifecycle!WorkflowState

\* No transition leads back to RECEIVED.
LEMMA NeverReceivedAgain == \A st \in WorkflowState : ~can_transition(st, "RECEIVED")
  BY DEF can_transition, allowed_targets, AllowedTransitions, WorkflowState

\* What a transition asks for is what ChangeLifecycle allows.
LEMMA TransitionRefines ==
  ASSUME IInv, CompensationInv, CompensationInv', LifecycleInv, NEW p \in Procs, transition(p),
         UNCHANGED <<config, applied, late>>
  PROVE  [Lifecycle!Next]_(Lifecycle!vars)
<1> DEFINE x == proc[p]
           to == proc[p].to
<1>u. approval' = approval
  BY DEF transition
<1>1. CASE TransitionAllowed(p)
  <2>t. /\ change'.status = to /\ can_transition(change.status, to)
        /\ x.pc = "transition" /\ x.cont # "transition"
    BY <1>1, Transits
  <2>r. Rightful(x, change.status, change.plan, approval, applied)
    BY DEF LifecycleInv
  <2>s. /\ to \in WorkflowState /\ x.cont \notin Unread
        /\ to = "PLAN_READY" => x.rec.plan # NoPlan
        /\ x.rec.plan # NoPlan => x.rec.plan = record.plan
    BY <2>t DEF IInv, Coroutines, CoroutineInv, Transition, LocalInv, Sync
  <2>n. change.status # "NONE" /\ change.status \in WorkflowState
    BY <2>r, <2>t, VersionFacts DEF Rightful, Versions, Documents
  <2>c. to \notin {"PARTIAL", "RECEIVED"}
    BY <2>t, <2>n, NeverReceivedAgain DEF CompensationInv, Fits, TasksFit, Targets
  <2>m. Lifecycle!Move(to)
    BY <1>u, <2>t, <2>n, SameGraph DEF Lifecycle!Move, Lifecycle!systems
  <2>p. change'.plan = IF to = "PLAN_READY" THEN x.rec.plan ELSE change.plan
    BY <1>1 DEF transition, Transitioned
  <2>e. to # "PLAN_READY" => Earned(to, change.plan, approval, applied)
    BY <2>r, <2>t DEF Rightful
  <2>1. CASE to \in {"SCREENING", "BLOCKED", "ANALYZING", "CANCELLED"}
    <3>1. Lifecycle!Analyse
      BY <2>1, <2>m, <2>p DEF Lifecycle!Analyse
    <3> QED
      BY <3>1 DEF Lifecycle!Next
  <2>2. CASE to = "PLAN_READY"
    <3>1. x.rec.plan \in Plans
      <4>1. x.rec \in RecordCopy
        BY VersionFacts DEF Versions
      <4> QED
        BY <4>1, <2>2, <2>s DEF RecordCopy
    <3>2. change.plan \in {NoPlan, x.rec.plan}
      BY <2>2, <2>s DEF IInv, PlanInv
    <3>3. Lifecycle!Propose
      BY <2>2, <2>m, <2>p, <3>1, <3>2 DEF Lifecycle!Propose
    <3> QED
      BY <3>3 DEF Lifecycle!Next
  <2>3. CASE to = "AWAITING_APPROVAL"
    <3>1. Lifecycle!AwaitApproval
      BY <2>3, <2>m, <2>p, <2>e DEF Lifecycle!AwaitApproval, Earned, OfPlanned
    <3> QED
      BY <3>1 DEF Lifecycle!Next
  <2>4. CASE to = "REJECTED"
    <3>1. Lifecycle!Reject
      BY <2>4, <2>m, <2>p, <2>e DEF Lifecycle!Reject, Earned
    <3> QED
      BY <3>1 DEF Lifecycle!Next
  <2>5. CASE to \in OfApproved
    <3>1. Lifecycle!Approved
      BY <2>5, <2>e, ApprovedPlan DEF Earned, OfApproved
    <3>2. change'.plan = change.plan
      BY <2>5, <2>p DEF OfApproved
    <3>3. CASE to = "COMPLETED"
      <4>1. Lifecycle!Complete
        BY <3>1, <3>2, <3>3, <2>m, <2>e DEF Lifecycle!Complete, Earned
      <4> QED
        BY <4>1 DEF Lifecycle!Next
    <3>4. CASE to = "FAILED"
      <4>1. Lifecycle!Restored
        BY <3>4, <2>t DEF CompensationInv, RestoredUnlessLate, Lifecycle!Restored
      <4>2. Lifecycle!Fail
        BY <3>1, <3>2, <3>4, <4>1, <2>m DEF Lifecycle!Fail
      <4> QED
        BY <4>2 DEF Lifecycle!Next
    <3>5. CASE to \notin {"COMPLETED", "FAILED"}
      <4>1. Lifecycle!Execute
        BY <3>1, <3>2, <3>5, <2>5, <2>m DEF Lifecycle!Execute, OfApproved
      <4> QED
        BY <4>1 DEF Lifecycle!Next
    <3> QED
      BY <3>3, <3>4, <3>5
  <2> QED
    BY <2>s, <2>c, <2>1, <2>2, <2>3, <2>4, <2>5 DEF WorkflowState, OfApproved
<1>2. CASE ~TransitionAllowed(p)
  <2>1. UNCHANGED Seen
    BY <1>2 DEF transition, Seen
  <2> QED
    BY <2>1, UnseenStutters
<1> QED
  BY <1>1, <1>2

\* A user's command is one of the unconditional moves.
LEMMA UserRefines ==
  ASSUME IInv, NEW target \in UserTargets, user_transition(target), UNCHANGED executionVars
  PROVE  Lifecycle!Next
<1>1. /\ target \in {"CANCELLED", "SCREENING"} /\ change # NoChange /\ approval' = approval
      /\ can_transition(change.status, target)
      /\ change' = [change EXCEPT !.status = target, !.version = @ + 1]
  BY UserTargetsAssumption DEF user_transition
<1>2. change'.status = target /\ change'.plan = change.plan /\ change.status # "NONE"
  BY <1>1, ChangeHasStatus DEF IInv, TypeOK, ChangeRecord
<1>3. Lifecycle!Move(target)
  BY <1>1, <1>2, SameGraph DEF Lifecycle!Move, Lifecycle!systems, executionVars
<1>4. Lifecycle!Analyse
  BY <1>1, <1>2, <1>3 DEF Lifecycle!Analyse
<1> QED
  BY <1>4 DEF Lifecycle!Next

\* The change is received once.
LEMMA EnsureRefines ==
  ASSUME IInv, NEW d, ensure_change(d), UNCHANGED executionVars
  PROVE  [Lifecycle!Next]_(Lifecycle!vars)
<1>1. CASE change = NoChange
  <2>1. /\ change.status = "NONE" /\ change'.status = "RECEIVED" /\ change'.plan = change.plan
        /\ UNCHANGED <<approval, config, applied, late>>
    BY <1>1 DEF ensure_change, NoChange, executionVars
  <2>2. Lifecycle!Receive
    BY <2>1 DEF Lifecycle!Receive, Lifecycle!systems
  <2> QED
    BY <2>2 DEF Lifecycle!Next
<1>2. CASE change # NoChange
  <2>1. UNCHANGED Seen
    BY <1>2 DEF ensure_change, Seen, executionVars
  <2> QED
    BY <2>1, UnseenStutters
<1> QED
  BY <1>1, <1>2

\* The approver is asked once, about the plan the change is bound to.
LEMMA RequestRefines ==
  ASSUME IInv, NEW d \in Procs, create_approval_request(d), UNCHANGED executionVars
  PROVE  [Lifecycle!Next]_(Lifecycle!vars)
<1>1. CASE approval = NoApproval /\ approval' = [status |-> "PENDING", plan |-> proc[d].rec.plan]
  <2>1. change.plan = proc[d].rec.plan /\ change.plan # NoPlan
    BY DEF create_approval_request, At, IInv, Coroutines, CoroutineInv, LocalInv, Knows, Where, Planned
  <2>2. approval.status = "NONE" /\ UNCHANGED <<change, config, applied, late>>
    BY <1>1 DEF create_approval_request, NoApproval, executionVars
  <2>3. Lifecycle!RequestApproval
    BY <1>1, <2>1, <2>2 DEF Lifecycle!RequestApproval, Lifecycle!systems
  <2> QED
    BY <2>3 DEF Lifecycle!Next
<1>2. CASE approval' = approval
  <2>1. UNCHANGED Seen
    BY <1>2 DEF create_approval_request, Seen, executionVars
  <2> QED
    BY <2>1, UnseenStutters
<1> QED
  BY <1>1, <1>2 DEF create_approval_request

\* The decision.
LEMMA DecideRefines ==
  ASSUME IInv, NEW decision \in DOMAIN Path, decide_approval(decision)
  PROVE  Lifecycle!Next
<1>1. decision \in {"APPROVED", "REJECTED", "CHANGES_REQUESTED"}
  BY DecidedIsPath DEF Decided
<1>2. Lifecycle!Decide
  BY <1>1 DEF decide_approval, Lifecycle!Decide, Lifecycle!systems, executionVars
<1> QED
  BY <1>2 DEF Lifecycle!Next

\* A system is changed for an approved plan, after those it depends on; a
\* repeated request changes nothing.
LEMMA PatchRefines ==
  ASSUME IInv, NEW k \in calls, apply_patch(k)
  PROVE  [Lifecycle!Next]_(Lifecycle!vars)
<1> DEFINE s == k.step
<1>k. s \in Steps /\ approval.status = "APPROVED" /\ DependsOn[s] \subseteq applied
  BY StageFacts DEF apply_patch, At_stage
<1>u. change' = change /\ approval' = approval
  BY DEF apply_patch
<1>1. CASE UNCHANGED <<config, applied, late>>
  BY <1>u, <1>1, UnseenStutters DEF Seen
<1>2. CASE /\ s \in applied \/ config[s] = "old_field"
           /\ config' = IF s \in applied THEN config ELSE [config EXCEPT ![s] = "new_field"]
           /\ applied' = applied \cup {s}
           /\ late' = IF s \in applied \/ change.status = "EXECUTING" THEN late ELSE late \cup {s}
  <2>1. CASE s \in applied
    <3>1. applied' = applied /\ config' = config /\ late' = late
      BY <1>2, <2>1
    <3> QED
      BY <1>1, <3>1
  <2>2. CASE s \notin applied
    <3>1. Lifecycle!Approved
      BY <1>k, ApprovedPlan
    <3>2. Lifecycle!Apply(s)
      BY <1>k, <1>u, <1>2, <2>2, <3>1 DEF Lifecycle!Apply
    <3> QED
      BY <1>k, <3>2 DEF Lifecycle!Next
  <2> QED
    BY <2>1, <2>2
<1> QED
  BY <1>1, <1>2 DEF apply_patch

\* A restore brings the old configuration back, which is what a snapshot is of.
LEMMA RestoreRefines ==
  ASSUME IInv, LifecycleInv, NEW b \in Procs, NEW s \in Steps, restore(b, s)
  PROVE  [Lifecycle!Next]_(Lifecycle!vars)
<1>u. UNCHANGED <<change, approval, applied, late>>
  BY DEF restore
<1>1. CASE config' = config
  BY <1>u, <1>1, UnseenStutters DEF Seen
<1>2. CASE Tasks(b)[s].snap # "NONE" /\ config' = [config EXCEPT ![s] = Tasks(b)[s].snap]
  <2>1. At(b, "restore") /\ "restore" \in Started /\ "restore" \notin {"transition", "snapshots"}
    BY DEF restore, Started, Guarded
  <2>2. approval.status = "APPROVED"
    BY <2>1 DEF LifecycleInv, Rightful, Where, At
  <2>3. Tasks(b)[s].snap = "old_field"
    BY <1>2, <2>1 DEF Tasks, At, IInv, Coroutines, CoroutineInv, LocalInv, Snapshots, Where, TaskInv
  <2>4. Lifecycle!Approved
    BY <2>2, ApprovedPlan
  <2>5. Lifecycle!Restore(s)
    BY <1>u, <1>2, <2>3, <2>4 DEF Lifecycle!Restore
  <2> QED
    BY <2>5 DEF Lifecycle!Next
<1> QED
  BY <1>1, <1>2 DEF restore

\* The event side: everything but the transitions, the creation of the change
\* and the request is out of sight.
LEMMA IntakeRefines ==
  ASSUME IInv, CompensationInv, CompensationInv', LifecycleInv, IntakeNext, UNCHANGED executionVars
  PROVE  [Lifecycle!Next]_(Lifecycle!vars)
<1>u. UNCHANGED <<config, applied, late>>
  BY DEF executionVars
<1>s. ASSUME NEW p, \E new, cont : update_record(p, new, cont)
      PROVE  UNCHANGED <<change, approval>>
  BY <1>s DEF update_record
<1>t. ASSUME NEW p, \E status, err, cont : set_runtime_status(p, status, err, cont)
                                           \/ terminal(p, status, err, cont)
      PROVE  UNCHANGED <<change, approval>>
  BY <1>t, <1>s DEF set_runtime_status, terminal
<1>1. CASE \E d \in Deliveries : transition(d) \/ ensure_change(d) \/ create_approval_request(d)
  BY <1>u, <1>1, TransitionRefines, EnsureRefines, RequestRefines DEF Procs
<1>2. CASE \/ UNCHANGED <<change, approval>>
           \/ pubsub_forward
  <2>1. UNCHANGED Seen
    BY <1>u, <1>2 DEF Seen, pubsub_forward, storeVars
  <2> QED
    BY <2>1, UnseenStutters
<1>3. ASSUME NEW d \in Deliveries, deliver(d) \/ handle_message(d) \/ interrupt(d),
             ~(transition(d) \/ ensure_change(d) \/ create_approval_request(d))
      PROVE  UNCHANGED <<change, approval>>
  <2>1. CASE process_event(d)
    <3>1. CASE \/ count_attempt(d) \/ mark_analyzing(d) \/ finish_blocked(d) \/ store_plan(d)
               \/ await_approval(d) \/ dead_letter(d)
      BY <3>1, <1>s, <1>t DEF count_attempt, mark_analyzing, finish_blocked, store_plan,
                              await_approval, dead_letter
    <3>2. CASE \/ get_record(d) \/ create_or_get(d) \/ read_received(d) \/ screen(d) \/ analyze(d)
               \/ block(d) \/ read_screening(d) \/ screened(d) \/ advance(d) \/ climb(d)
               \/ request_approval(d) \/ record_dead_letter(d)
      BY <3>2 DEF get_record, create_or_get, read_received, screen, analyze, block, read_screening,
                  screened, advance, climb, request_approval, record_dead_letter
    <3> QED
      BY <1>3, <2>1, <3>1, <3>2 DEF process_event
  <2>2. CASE deliver(d) \/ publish_dead_letter(d) \/ ack(d) \/ interrupt(d)
    BY <2>2 DEF deliver, publish_dead_letter, ack, interrupt
  <2> QED
    BY <1>3, <2>1, <2>2 DEF handle_message
<1> QED
  BY <1>1, <1>2, <1>3 DEF IntakeNext

\* The approval side: likewise for transitions, decisions, tool calls that reach
\* their sandbox and restores.
LEMMA ExecutionRefines ==
  ASSUME IInv, CompensationInv, CompensationInv', LifecycleInv, ExecutionNext
  PROVE  [Lifecycle!Next]_(Lifecycle!vars)
<1>s. ASSUME NEW p, \E new, cont : update_record(p, new, cont)
      PROVE  UNCHANGED <<change, approval>>
  BY <1>s DEF update_record
<1>t. ASSUME NEW p, \E status, err, cont : set_runtime_status(p, status, err, cont)
                                           \/ terminal(p, status, err, cont)
      PROVE  UNCHANGED <<change, approval>>
  BY <1>t, <1>s DEF set_runtime_status, terminal
<1>1. ASSUME NEW decision \in DOMAIN Path, decide_approval(decision)
      PROVE  [Lifecycle!Next]_(Lifecycle!vars)
  BY <1>1, DecideRefines
<1>2. CASE expire
  <2>1. UNCHANGED Seen
    BY <1>2 DEF expire, Seen, executionVars
  <2> QED
    BY <2>1, UnseenStutters
<1>3. ASSUME NEW b \in Callbacks, notify(b) \/ resume_approval(b) \/ callback_crash(b)
      PROVE  [Lifecycle!Next]_(Lifecycle!vars)
  <2>p. b \in Procs
    BY CallbackIsProc
  <2>1. CASE transition(b) /\ UNCHANGED executionVars
    BY <2>p, <2>1, TransitionRefines DEF executionVars
  <2>2. CASE \E s \in Steps : restore(b, s)
    BY <2>p, <2>2, RestoreRefines
  <2>3. CASE \/ finish_rejected(b) \/ finish_changes_requested(b) \/ mark_executing(b)
             \/ store_snapshots(b) \/ store_wave(b) \/ mark_verifying(b) \/ finish_completed(b)
             \/ mark_rolling_back(b) \/ store_rollback(b) \/ finish_rolled_back(b)
    <3>1. UNCHANGED executionVars
      BY <2>3 DEF finish_rejected, finish_changes_requested, mark_executing, store_snapshots,
                  store_wave, mark_verifying, finish_completed, mark_rolling_back, store_rollback,
                  finish_rolled_back
    <3>2. UNCHANGED <<change, approval>>
      BY <2>3, <1>s, <1>t DEF finish_rejected, finish_changes_requested, mark_executing,
                  store_snapshots, store_wave, mark_verifying, finish_completed, mark_rolling_back,
                  store_rollback, finish_rolled_back
    <3>3. UNCHANGED Seen
      BY <3>1, <3>2 DEF executionVars, Seen
    <3> QED
      BY <3>3, UnseenStutters
  <2>4. CASE \/ notify(b) \/ callback_crash(b) \/ get_change(b) \/ resume_record(b)
             \/ follow_decision(b) \/ execute_dag(b) \/ start_verifying(b) \/ start_completing(b)
             \/ read_for_rollback(b) \/ start_rollback(b) \/ end_rollback(b)
             \/ \E s \in Steps : capture_snapshot(b, s) \/ verify_task(b, s) \/ check_restored(b, s)
    <3>1. UNCHANGED Seen
      BY <2>4 DEF notify, callback_crash, get_change, resume_record, follow_decision, execute_dag,
                  start_verifying, start_completing, read_for_rollback, start_rollback, end_rollback,
                  capture_snapshot, verify_task, check_restored, executionVars, Seen
    <3> QED
      BY <3>1, UnseenStutters
  <2> QED
    BY <1>3, <2>1, <2>2, <2>3, <2>4 DEF resume_approval
<1>4. ASSUME NEW k \in calls, gateway_request(k) \/ client_timeout(k) \/ worker_crash(k)
      PROVE  [Lifecycle!Next]_(Lifecycle!vars)
  <2>1. CASE apply_patch(k)
    BY <2>1, PatchRefines
  <2>2. CASE \/ evaluate_policy(k) \/ reserve_execution(k) \/ complete_execution(k)
             \/ fail_execution(k) \/ client_timeout(k) \/ worker_crash(k)
    <3>1. UNCHANGED Seen
      BY <2>2 DEF evaluate_policy, reserve_execution, complete_execution, fail_execution,
                  client_timeout, worker_crash, Seen
    <3> QED
      BY <3>1, UnseenStutters
  <2> QED
    BY <1>4, <2>1, <2>2 DEF gateway_request
<1> QED
  BY <1>1, <1>2, <1>3, <1>4 DEF ExecutionNext

\* The coordinator implements the life cycle, for any number of deliveries,
\* callbacks, steps, attempts and plans: no interleaving of process_event,
\* resume_approval, tool calls, crashes and user commands shows an approver or
\* the owner of a system anything that ChangeLifecycle does not.
THEOREM CoordinatorImplementsLifecycle == Spec => ImplementsLifecycle
<1>1. Init => Lifecycle!Init
  BY DEF Init, StoreInit, ExecutionInit, NoChange, NoApproval, Lifecycle!Init
<1>2. IInv /\ CompensationInv /\ LifecycleInv /\ CompensationInv' /\ [Next]_vars
        => [Lifecycle!Next]_(Lifecycle!vars)
  <2> SUFFICES ASSUME IInv, CompensationInv, LifecycleInv, CompensationInv', [Next]_vars
               PROVE  [Lifecycle!Next]_(Lifecycle!vars)
    OBVIOUS
  <2>1. CASE IntakeNext /\ UNCHANGED executionVars
    BY <2>1, IntakeRefines
  <2>2. CASE ExecutionNext
    BY <2>2, ExecutionRefines
  <2>3. CASE /\ \E target \in UserTargets : user_transition(target)
             /\ UNCHANGED <<intakeVars, executionVars>>
    <3>1. UNCHANGED executionVars
      BY <2>3
    <3> QED
      BY <2>3, <3>1, UserRefines
  <2>4. CASE UNCHANGED vars
    <3>1. UNCHANGED Seen
      BY <2>4 DEF vars, storeVars, executionVars, Seen
    <3> QED
      BY <3>1, UnseenStutters
  <2> QED
    BY <2>1, <2>2, <2>3, <2>4 DEF Next
<1> QED
  BY <1>1, <1>2, Invariant, CompensationInvariant, TransitionsAreEarned, PTL
     DEF Spec, ImplementsLifecycle, Lifecycle!Spec

-----------------------------------------------------------------------------
(* Completion.  A change that never needs attention is executed, verified  *)
(* and compensated at most once.  Then one coroutine at a time verifies    *)
(* it, and nobody restores a system before the change has left VERIFYING   *)
(* for good.                                                               *)

\* The change after execution began, and once it will not complete any more.
Entered == {"EXECUTING", "VERIFYING", "ROLLING_BACK", "CANCELLED", "COMPLETED", "FAILED"}
Closed == {"ROLLING_BACK", "CANCELLED", "FAILED"}

\* Every task has a result, and none failed.
Done(t) == \A s \in Steps : t[s].status \notin {"PENDING", "FAILED"}

\* On the way to a restore, and past it.
Condemning == {"rollback", "roll", "rolling_back"}
Undoing == {"restore", "restored", "rolled_back", "compensated"}

\* x is checking the systems or has found them all migrated; x has moved the
\* change to VERIFYING, and the change does not show its verdict yet.
Verifies(x) == x.pc = "verify" \/ (x.pc = "transition" /\ x.cont = "complete")
Holds(x) ==
  Verifies(x) \/ x.pc = "verifying" \/ (Where(x) \in Condemning /\ x.rec.status = "VERIFYING")

\* The transitions of an execution, and where they go on.
Aims(x) ==
  /\ x.to = "COMPLETED" <=> x.cont = "complete"
  /\ x.to = "VERIFYING" <=> x.cont = "verifying"
  /\ x.cont = "complete" => x.marks = Steps
  /\ x.to = "EXECUTING" => x.cont = "resume"
  /\ x.cont \in Undoing => x.to \in {"FAILED", "NEEDS_ATTENTION"}
  /\ x.cont \notin {"verify", "rollback", "roll", "restore", "restored", "rolled_back"}

\* What a coroutine's copy says where it is.
Copies(x) ==
  /\ Where(x) \in {"snapshots", "dag", "wave", "executed", "verifying"} => x.rec.status = "EXECUTING"
  /\ Verifies(x) => x.rec.status = "VERIFYING"
  /\ Where(x) \in Condemning => x.rec.status \in {"EXECUTING", "VERIFYING"}
  /\ Where(x) \in {"executed", "verifying"} => Done(x.rec.tasks) /\ x.marks = {}
  /\ x.pc = "wave" => x.marks # {}
  /\ x.pc = "transition" => Aims(x)

\* How a coroutine x stands to the status st of the change, the record r and
\* the systems.
Stands(x, r, st, cfg) ==
  /\ (x.seen = "EXECUTING" \/ Where(x) \in Started) => st \in Entered
  /\ Where(x) \in Undoing => st \in Closed
  /\ x.pc = "rolling_back" => st \in Closed \cup {"COMPLETED"}
  /\ Holds(x) => st \in Closed \cup {"VERIFYING"}
  /\ (Current(x, r) /\ Where(x) \in Condemning /\ x.rec.status # "VERIFYING") => ~Done(r.tasks)
  /\ (Verifies(x) /\ st = "VERIFYING") =>
       Done(r.tasks) /\ \A s \in x.marks : cfg[s] = "new_field"

OneHolder == \A p, q \in Procs : (Holds(proc[p]) /\ Holds(proc[q])) => p = q

Migrated == \A s \in Steps : config[s] = "new_field"

MigrationInv ==
  /\ \A p \in Procs : Copies(proc[p]) /\ Stands(proc[p], record, change.status, config)
  /\ OneHolder
  /\ change.status = "COMPLETED" => Done(record.tasks) /\ Migrated

-----------------------------------------------------------------------------
(* What others do leaves a coroutine as it stands.                         *)

\* The change does not need attention now.
Calm == change.status # "NEEDS_ATTENTION"

\* The change goes on from st to st2 without leaving what it has entered.
GoesOn(st, st2) ==
  /\ st \in Entered => st2 \in Entered
  /\ st \in Closed => st2 \in Closed
  /\ st = "COMPLETED" => st2 = "COMPLETED"
  /\ st = "VERIFYING" => st2 # "EXECUTING"

\* What was done and migrated when the change was verified stays so.
WorkStays ==
  change.status \in {"VERIFYING", "COMPLETED"} =>
    /\ Done(record.tasks) => Done(record'.tasks)
    /\ \A s \in Steps : config[s] = "new_field" => config'[s] = "new_field"

\* The record stays, or a later one replaces it.
RecordFollows == record' = record \/ record.version < record'.version

\* A coroutine that does not move stands as it stood.
LEMMA StandsOn ==
  ASSUME NEW x, x.marks \subseteq Steps, x.rec.version \in Nat, record.version \in Nat,
         record'.version \in Nat, x.rec.version <= record.version,
         Stands(x, record, change.status, config), RecordFollows, WorkStays,
         GoesOn(change.status, change'.status),
         Holds(x) => change'.status # "COMPLETED" \/ change.status = "COMPLETED"
  PROVE  Stands(x, record', change'.status, config')
<1> DEFINE st == change.status
           st2 == change'.status
<1>g. GoesOn(st, st2)
  OBVIOUS
<1>c. Current(x, record') => record' = record
  BY DEF Current, RecordFollows
<1>1. (x.seen = "EXECUTING" \/ Where(x) \in Started) => st2 \in Entered
  BY <1>g DEF Stands, GoesOn
<1>2. Where(x) \in Undoing => st2 \in Closed
  BY <1>g DEF Stands, GoesOn
<1>3. x.pc = "rolling_back" => st2 \in Closed \cup {"COMPLETED"}
  BY <1>g DEF Stands, GoesOn
<1>4. Holds(x) => st2 \in Closed \cup {"VERIFYING"}
  <2> SUFFICES ASSUME Holds(x) PROVE st2 \in Closed \cup {"VERIFYING"}
    OBVIOUS
  <2>1. st \in Closed \cup {"VERIFYING"}
    BY DEF Stands
  <2>2. CASE st \in Closed
    BY <1>g, <2>2 DEF GoesOn
  <2>3. CASE st = "VERIFYING"
    BY <1>g, <2>3 DEF GoesOn, Entered, Closed
  <2> QED
    BY <2>1, <2>2, <2>3
<1>5. (Current(x, record') /\ Where(x) \in Condemning /\ x.rec.status # "VERIFYING")
        => ~Done(record'.tasks)
  BY <1>c DEF Stands
<1>6. (Verifies(x) /\ st2 = "VERIFYING") =>
        Done(record'.tasks) /\ \A s \in x.marks : config'[s] = "new_field"
  <2> SUFFICES ASSUME Verifies(x), st2 = "VERIFYING"
               PROVE  Done(record'.tasks) /\ \A s \in x.marks : config'[s] = "new_field"
    OBVIOUS
  <2>1. st \in Closed \cup {"VERIFYING"}
    BY DEF Stands, Holds
  <2>2. st = "VERIFYING"
    BY <1>g, <2>1 DEF GoesOn, Closed
  <2> QED
    BY <2>2 DEF Stands, WorkStays
<1> QED
  BY <1>1, <1>2, <1>3, <1>4, <1>5, <1>6 DEF Stands

\* Nobody verifies a change that is EXECUTING.
LEMMA NobodyHolds ==
  ASSUME MigrationInv, change.status = "EXECUTING"
  PROVE  \A q \in Procs : ~Holds(proc[q])
  BY DEF MigrationInv, Stands, Closed

\* What the steps have to show: p moves at most, and takes over the
\* verification only from an execution.
LEMMA MigrationStep ==
  ASSUME IInv, IInv', MigrationInv, RecordFollows, WorkStays,
         GoesOn(change.status, change'.status),
         NEW p \in Procs, OthersStay(p),
         Copies(proc'[p]), Stands(proc'[p], record', change'.status, config'),
         Holds(proc'[p]) => Holds(proc[p]) \/ change.status = "EXECUTING",
         change'.status = "COMPLETED" =>
           \/ change.status = "COMPLETED"
           \/ Holds(proc[p]) /\ Done(record'.tasks) /\ Migrated'
  PROVE  MigrationInv'
<1>v. Versions /\ Versions'
  BY VersionFacts, PTL
<1>1. ASSUME NEW q \in Procs
      PROVE  Copies(proc'[q]) /\ Stands(proc'[q], record', change'.status, config')
  <2>1. CASE q = p
    BY <2>1
  <2>2. CASE q # p
    <3>1. proc'[q] = proc[q]
      BY <2>2 DEF OthersStay
    <3>2. Copies(proc[q]) /\ Stands(proc[q], record, change.status, config)
      BY DEF MigrationInv
    <3>3. Holds(proc[q]) => change'.status # "COMPLETED" \/ change.status = "COMPLETED"
      BY <2>2 DEF MigrationInv, OneHolder
    <3>4. Stands(proc[q], record', change'.status, config')
      BY <1>v, <3>2, <3>3, StandsOn DEF Versions
    <3> QED
      BY <3>1, <3>2, <3>4
  <2> QED
    BY <2>1, <2>2
<1>2. OneHolder'
  <2> SUFFICES ASSUME NEW q \in Procs, NEW r \in Procs, Holds(proc'[q]), Holds(proc'[r])
               PROVE  q = r
    BY DEF OneHolder
  <2>1. \A o \in Procs : o # p => proc'[o] = proc[o]
    BY DEF OthersStay
  <2>2. change.status = "EXECUTING" => \A o \in Procs : ~Holds(proc[o])
    BY NobodyHolds
  <2> QED
    BY <2>1, <2>2 DEF MigrationInv, OneHolder
<1>3. change'.status = "COMPLETED" => Done(record'.tasks) /\ Migrated'
  <2>1. CASE change.status = "COMPLETED"
    <3>1. Done(record.tasks) /\ Migrated
      BY <2>1 DEF MigrationInv
    <3> QED
      BY <2>1, <3>1 DEF WorkStays, Migrated
  <2> QED
    BY <2>1
<1> QED
  BY <1>1, <1>2, <1>3 DEF MigrationInv

\* Nobody moves.
LEMMA MigrationStays ==
  ASSUME IInv, IInv', MigrationInv, proc' = proc, RecordFollows, WorkStays,
         GoesOn(change.status, change'.status),
         change'.status = "COMPLETED" => change.status = "COMPLETED"
  PROVE  MigrationInv'
<1>v. Versions /\ Versions'
  BY VersionFacts, PTL
<1>1. ASSUME NEW q \in Procs
      PROVE  Copies(proc'[q]) /\ Stands(proc'[q], record', change'.status, config')
  <2>1. Copies(proc[q]) /\ Stands(proc[q], record, change.status, config)
    BY DEF MigrationInv
  <2>2. Stands(proc[q], record', change'.status, config')
    BY <1>v, <2>1, StandsOn DEF Versions
  <2> QED
    BY <2>1, <2>2
<1>2. OneHolder'
  BY DEF MigrationInv, OneHolder
<1>3. change'.status = "COMPLETED" => Done(record'.tasks) /\ Migrated'
  BY DEF MigrationInv, WorkStays, Migrated
<1> QED
  BY <1>1, <1>2, <1>3 DEF MigrationInv

-----------------------------------------------------------------------------
(* Steps that leave the change alone.                                      *)

\* p stores its copy, if it is current, or leaves the record alone.
Stores(p) ==
  \/ record' = record
  \/ /\ Current(proc[p], record) /\ record.version < record'.version
     /\ record'.tasks = proc[p].rec.tasks

\* A copy never takes back what was done: results are missing in the record
\* of whoever stores results, and a rollback is stored for a closed change.
LEMMA StoredWorkStays ==
  ASSUME IInv, CompensationInv, MigrationInv, NEW p \in Procs, Stores(p), config' = config
  PROVE  WorkStays /\ RecordFollows
<1> DEFINE x == proc[p]
<1>f. /\ Copies(x) /\ Stands(x, record, change.status, config)
      /\ Current(x, record) => Tracks(x, record)
  BY DEF MigrationInv, CompensationInv, Fits, TasksFit
<1>m. x.marks \subseteq Steps
  BY VersionFacts DEF Versions
<1>1. RecordFollows
  BY DEF Stores, RecordFollows
<1>2. ASSUME change.status \in {"VERIFYING", "COMPLETED"}, Done(record.tasks)
      PROVE  Done(record'.tasks)
  <2>1. CASE record' = record
    BY <1>2, <2>1
  <2>2. CASE Current(x, record) /\ record'.tasks = x.rec.tasks
    <3>1. x.pc \notin Looping
      BY <1>f, <1>2 DEF Stands, Where, Looping, Undoing, Closed
    <3>2. x.pc # "wave"
      <4>1. x.pc = "wave" => \E s \in x.marks : record.tasks[s].status = "PENDING"
        BY <1>f, <2>2 DEF Copies, Tracks
      <4> QED
        BY <1>m, <1>2, <4>1 DEF Done
    <3>3. \A s \in Steps : x.rec.tasks[s].status = record.tasks[s].status
      BY <1>f, <2>2, <3>1, <3>2 DEF Tracks
    <3> QED
      BY <1>2, <2>2, <3>3 DEF Done
  <2> QED
    BY <2>1, <2>2 DEF Stores
<1> QED
  BY <1>1, <1>2 DEF WorkStays

\* p moves, and may store its copy.
LEMMA SteadyStep ==
  ASSUME IInv, IInv', CompensationInv, MigrationInv, NEW p \in Procs, OthersStay(p),
         Stores(p), change' = change, config' = config,
         Copies(proc'[p]), Stands(proc'[p], record', change.status, config),
         Holds(proc'[p]) => Holds(proc[p])
  PROVE  MigrationInv'
<1>1. WorkStays /\ RecordFollows
  BY StoredWorkStays
<1>2. GoesOn(change.status, change'.status)
  BY DEF GoesOn
<1> QED
  BY <1>1, <1>2, MigrationStep

\* A coroutine that has ended stands.
LEMMA OverStands ==
  ASSUME NEW y, Over(y), NEW r, NEW st, NEW cfg
  PROVE  Copies(y) /\ Stands(y, r, st, cfg) /\ ~Holds(y)
<1>1. y.pc \in {"idle", "acked", "nacked", "answered", "refused", "failed"} /\ y.seen = "NONE"
  BY DEF Over, Ended
<1>2. Where(y) = y.pc
  BY <1>1 DEF Where
<1>3. ~Verifies(y) /\ Where(y) \notin Condemning \cup Undoing \cup Started
  BY <1>1, <1>2 DEF Verifies, Condemning, Undoing, Started, Guarded
<1>4. ~Holds(y)
  BY <1>1, <1>3 DEF Holds
<1> QED
  BY <1>1, <1>2, <1>3, <1>4 DEF Copies, Stands

\* So does one at a plain point that saw the change EXECUTING, if the change
\* has been executed.
LEMMA OntoStands ==
  ASSUME NEW y, NEW pc \in PlainPoints, NEW rec, NEW m, NEW seen, Onto(y, pc, rec, m, seen),
         NEW r, NEW st, NEW cfg, seen = "EXECUTING" => st \in Entered
  PROVE  Copies(y) /\ Stands(y, r, st, cfg) /\ ~Holds(y)
<1>1. y.pc = pc /\ Where(y) = pc /\ pc \notin Started \cup {"transition"} /\ y.seen = seen
  BY PlainPointsFacts DEF Onto, Where
<1>2. pc \notin {"snapshots", "dag", "wave", "executed", "verifying", "verify", "rolling_back"}
      /\ pc \notin Condemning \cup Undoing
  BY <1>1 DEF Started, Guarded, Condemning, Undoing
<1>3. ~Verifies(y)
  BY <1>1, <1>2 DEF Verifies
<1>4. ~Holds(y)
  BY <1>1, <1>2, <1>3 DEF Holds
<1> QED
  BY <1>1, <1>2, <1>3, <1>4 DEF Copies, Stands

\* Statuses that are asked for before an execution.
Before == WorkflowState \ {"FAILED", "NEEDS_ATTENTION", "PARTIAL", "VERIFYING", "COMPLETED"}

\* So does one that asks for such a status.
LEMMA AsksStands ==
  ASSUME NEW y, NEW to \in Before, NEW cont \in PlainPoints, NEW x, Asks(y, to, cont, x),
         to = "EXECUTING" => cont = "resume", NEW r, NEW st, NEW cfg
  PROVE  Copies(y) /\ Stands(y, r, st, cfg) /\ ~Holds(y)
<1>1. y.pc = "transition" /\ Where(y) = cont /\ cont \notin Started /\ y.seen = "NONE"
      /\ y.to = to /\ y.cont = cont
  BY PlainPointsFacts DEF Asks, Where
<1>2. cont \notin {"snapshots", "dag", "wave", "executed", "verifying", "complete", "verify"}
      /\ cont \notin Condemning \cup Undoing
  BY <1>1 DEF Started, Guarded, Condemning, Undoing
<1>3. ~Verifies(y)
  BY <1>1, <1>2 DEF Verifies
<1>4. ~Holds(y)
  BY <1>1, <1>2, <1>3 DEF Holds
<1>5. Aims(y)
  BY <1>1, <1>2 DEF Aims, Before, Condemning, Undoing
<1> QED
  BY <1>1, <1>2, <1>3, <1>4, <1>5 DEF Copies, Stands

\* What p has seen EXECUTING has been executed.
LEMMA SeenEntered ==
  ASSUME MigrationInv, NEW p \in Procs
  PROVE  \A seen \in {proc[p].seen, change.status} : seen = "EXECUTING" => change.status \in Entered
  BY DEF MigrationInv, Stands, Entered

\* Steps that lead to a plain point.
LEMMA PlainKeeps ==
  ASSUME IInv, IInv', CompensationInv, MigrationInv, NEW p \in Procs,
         UNCHANGED <<change, record, config>>,
         \/ \E pc \in PlainPoints : Jumps(p, pc)
         \/ \E pc \in PlainPoints, to \in Before :
              begin_transition(p, to, pc) /\ (to = "EXECUTING" => pc = "resume")
  PROVE  MigrationInv'
<1>v. /\ proc \in [Procs -> Coroutine] /\ record \in RecordCopy /\ change.version \in Nat
      /\ change.status \in WorkflowState \cup {"NONE"} /\ record' \in RecordCopy
  BY VersionFacts DEF Versions, Documents
<1>s. Stores(p)
  BY DEF Stores
<1>1. ASSUME NEW pc \in PlainPoints, Jumps(p, pc) PROVE MigrationInv'
  <2>p. pc \in Points
    BY PlainPointsFacts
  <2>1. \/ OthersStay(p) /\ Over(proc'[p])
        \/ /\ OthersStay(p)
           /\ \E rec, seen : /\ Onto(proc'[p], pc, rec, proc[p].marks, seen)
                             /\ seen \in {proc[p].seen, change.status}
    <3>1. ASSUME NEW rec, Moved(p, pc, rec)
          PROVE  \/ OthersStay(p) /\ Over(proc'[p])
                 \/ OthersStay(p) /\ Onto(proc'[p], pc, rec, proc[p].marks, proc[p].seen)
      BY <3>1 DEF Moved
    <3>2. CASE Goto(p, pc)
      BY <1>v, <2>p, <3>1, <3>2, GotoMoves
    <3>3. CASE GotoWith(p, record, pc)
      BY <1>v, <2>p, <3>1, <3>3, GotoWithMoves
    <3>4. CASE GotoWith(p, record', pc)
      BY <1>v, <2>p, <3>1, <3>4, GotoWithMoves
    <3>5. CASE read_change(p, pc)
      BY <1>v, <2>p, <3>5, ReadMoves
    <3> QED
      BY <1>1, <3>2, <3>3, <3>4, <3>5 DEF Jumps
  <2>2. OthersStay(p) /\ Copies(proc'[p]) /\ Stands(proc'[p], record', change.status, config)
        /\ ~Holds(proc'[p])
    BY <1>1, <2>1, SeenEntered, OverStands, OntoStands
  <2> QED
    BY <1>s, <2>2, SteadyStep
<1>2. ASSUME NEW pc \in PlainPoints, NEW to \in Before, begin_transition(p, to, pc),
             to = "EXECUTING" => pc = "resume"
      PROVE  MigrationInv'
  <2>1. to \in WorkflowState /\ pc \in Points
    BY PlainPointsFacts DEF Before
  <2>2. OthersStay(p) /\ Asks(proc'[p], to, pc, proc[p])
    BY <1>v, <1>2, <2>1, BeginMoves
  <2>3. Copies(proc'[p]) /\ Stands(proc'[p], record', change.status, config) /\ ~Holds(proc'[p])
    BY <1>2, <2>2, AsksStands
  <2> QED
    BY <1>s, <2>2, <2>3, SteadyStep
<1> QED
  BY <1>1, <1>2

\* p ends.
LEMMA EndMigrates ==
  ASSUME IInv, IInv', CompensationInv, MigrationInv, NEW p \in Procs,
         UNCHANGED <<change, record, config>>, NEW pc \in Ended, Goto(p, pc)
  PROVE  MigrationInv'
<1>1. pc \in PlainPoints
  BY DEF PlainPoints
<1> QED
  BY <1>1, PlainKeeps DEF Jumps

\* Writes that lead to a plain point.
LEMMA StoreKeeps ==
  ASSUME IInv, IInv', CompensationInv, MigrationInv, NEW p \in Procs, change' = change,
         config' = config, NEW cont \in PlainPoints, Written(p, cont) \/ Kept(p, cont)
  PROVE  MigrationInv'
<1>1. Stores(p)
  BY DEF Stores, Written, Kept
<1>2. OthersStay(p)
  BY DEF Written, Kept, Moved
<1>3. Over(proc'[p]) \/ \E rec : Onto(proc'[p], cont, rec, proc[p].marks, proc[p].seen)
  BY DEF Written, Kept, Moved
<1>4. Copies(proc'[p]) /\ Stands(proc'[p], record', change.status, config) /\ ~Holds(proc'[p])
  BY <1>3, SeenEntered, OverStands, OntoStands
<1> QED
  BY <1>1, <1>2, <1>4, SteadyStep

-----------------------------------------------------------------------------
(* The event side, and users.                                              *)

\* Where the graph leads from a change that was executed.
LEMMA EnteredTargets ==
  /\ AllowedTransitions["EXECUTING"] =
       {"VERIFYING", "ROLLING_BACK", "FAILED", "PARTIAL", "NEEDS_ATTENTION"}
  /\ AllowedTransitions["VERIFYING"] =
       {"COMPLETED", "ROLLING_BACK", "FAILED", "PARTIAL", "NEEDS_ATTENTION"}
  /\ AllowedTransitions["ROLLING_BACK"] = {"FAILED", "PARTIAL", "CANCELLED", "NEEDS_ATTENTION"}
  /\ \A st \in {"CANCELLED", "COMPLETED", "FAILED"} : AllowedTransitions[st] = {}
<1>1. AllowedTransitions["EXECUTING"] =
        {"VERIFYING", "ROLLING_BACK", "FAILED", "PARTIAL", "NEEDS_ATTENTION"}
  BY DEF AllowedTransitions, WorkflowState
<1>2. AllowedTransitions["VERIFYING"] =
        {"COMPLETED", "ROLLING_BACK", "FAILED", "PARTIAL", "NEEDS_ATTENTION"}
  BY DEF AllowedTransitions, WorkflowState
<1>3. AllowedTransitions["ROLLING_BACK"] = {"FAILED", "PARTIAL", "CANCELLED", "NEEDS_ATTENTION"}
  BY DEF AllowedTransitions, WorkflowState
<1>4. /\ AllowedTransitions["CANCELLED"] = {} /\ AllowedTransitions["COMPLETED"] = {}
      /\ AllowedTransitions["FAILED"] = {}
  BY DEF AllowedTransitions, WorkflowState
<1> QED
  BY <1>1, <1>2, <1>3, <1>4

\* A change that was executed goes on, unless it is given up.
LEMMA EnteredGoesOn ==
  ASSUME NEW st, NEW to, can_transition(st, to), to \notin {"NEEDS_ATTENTION", "PARTIAL"}
  PROVE  GoesOn(st, to)
  BY EnteredTargets DEF can_transition, allowed_targets, GoesOn, Entered, Closed

\* Steps that read, call out, end or ask for a transition.
LEMMA EventMigrates ==
  ASSUME IInv, IInv', CompensationInv, MigrationInv, NEW d \in Procs, UNCHANGED executionVars,
         \/ deliver(d) \/ ack(d) \/ publish_dead_letter(d) \/ record_dead_letter(d)
         \/ interrupt(d) \/ get_record(d) \/ read_received(d) \/ screen(d) \/ block(d)
         \/ read_screening(d) \/ screened(d) \/ advance(d) \/ climb(d) \/ request_approval(d)
         \/ create_approval_request(d)
  PROVE  MigrationInv'
<1>u. config' = config
  BY DEF executionVars
<1>e. /\ {"get", "create", "attempt", "screen", "analyze", "screened", "drafted", "climb", "request",
          "create_approval", "approval_created", "dead", "publish", "ack", "acked", "nacked",
          "blocked"} \subseteq PlainPoints
      /\ {"SCREENING", "BLOCKED", "ANALYZING", "PLAN_READY", "AWAITING_APPROVAL"} \subseteq Before
  BY DEF PlainPoints, Ended, WorkflowState, Before
<1>1. CASE \/ deliver(d) \/ ack(d) \/ publish_dead_letter(d) \/ record_dead_letter(d)
           \/ interrupt(d) \/ get_record(d) \/ read_received(d)
  <2>1. UNCHANGED <<change, record>> /\ \E pc \in PlainPoints : Jumps(d, pc)
    BY <1>1, <1>e DEF deliver, ack, publish_dead_letter, record_dead_letter, interrupt, get_record,
                      read_received, Returned, Jumps
  <2> QED
    BY <1>u, <2>1, PlainKeeps
<1>2. CASE read_screening(d) \/ advance(d) \/ request_approval(d) \/ create_approval_request(d)
  <2>1. UNCHANGED <<change, record>> /\ \E pc \in PlainPoints : Jumps(d, pc)
    BY <1>2, <1>e DEF read_screening, advance, request_approval, create_approval_request, Jumps
  <2> QED
    BY <1>u, <2>1, PlainKeeps
<1>3. CASE screen(d) \/ block(d) \/ screened(d)
  <2>1. /\ UNCHANGED <<change, record>>
        /\ \E pc \in PlainPoints, to \in Before \ {"EXECUTING"} : begin_transition(d, to, pc)
    BY <1>3, <1>e DEF screen, block, screened
  <2> QED
    BY <1>u, <2>1, PlainKeeps
<1>4. CASE climb(d)
  <2>1. DOMAIN Climb = {"SCREENING", "ANALYZING", "PLAN_READY"}
        /\ \A w \in DOMAIN Climb : Climb[w] \in {"ANALYZING", "PLAN_READY", "AWAITING_APPROVAL"}
    BY DEF Climb
  <2>2. UNCHANGED <<change, record>>
    BY <1>4 DEF climb
  <2>3. \/ \E pc \in PlainPoints : Goto(d, pc)
        \/ \E pc \in PlainPoints, to \in Before \ {"EXECUTING"} : begin_transition(d, to, pc)
    BY <1>4, <1>e, <2>1 DEF climb
  <2> QED
    BY <1>u, <2>2, <2>3, PlainKeeps DEF Jumps
<1> QED
  BY <1>1, <1>2, <1>3, <1>4

\* The fleet's answer.
LEMMA AnalyzeMigrates ==
  ASSUME IInv, IInv', CompensationInv, MigrationInv, NEW d \in Procs, UNCHANGED executionVars,
         analyze(d)
  PROVE  MigrationInv'
<1>u. config' = config /\ change' = change /\ record' = record
  BY DEF executionVars, analyze
<1>1. CASE \E pc \in {"advance", "block", "nacked", "dead"} : Goto(d, pc)
  <2>1. {"advance", "block", "nacked", "dead"} \subseteq PlainPoints
    BY DEF PlainPoints, Ended
  <2> QED
    BY <1>u, <1>1, <2>1, PlainKeeps DEF Jumps
<1>2. ASSUME NEW plan \in Plans \cup {NoPlan},
             proc' = [proc EXCEPT ![d] = [@ EXCEPT !.draft = plan, !.pc = "analyzed"]]
      PROVE  MigrationInv'
  <2> DEFINE y == [proc[d] EXCEPT !.draft = plan, !.pc = "analyzed"]
  <2>v. proc \in [Procs -> Coroutine] /\ proc[d] \in Coroutine
    BY VersionFacts DEF Versions, Documents
  <2>0. "analyzed" \in PlainPoints /\ "analyzed" \in Points
    BY DEF PlainPoints, Points
  <2>1. y \in Coroutine /\ Onto(y, "analyzed", proc[d].rec, proc[d].marks, proc[d].seen)
    BY <2>v, <2>0 DEF Coroutine, Onto
  <2>2. proc' = [proc EXCEPT ![d] = y]
    BY <1>2
  <2> HIDE DEF y
  <2>3. OthersStay(d) /\ proc'[d] = y
    BY <2>v, <2>1, <2>2, Replaces
  <2>4. Copies(y) /\ Stands(y, record', change.status, config) /\ ~Holds(y)
    BY <2>0, <2>1, SeenEntered, OntoStands
  <2> QED
    BY <1>u, <2>3, <2>4, SteadyStep DEF Stores
<1> QED
  BY <1>1, <1>2 DEF analyze

\* The writes of a delivery.
LEMMA EventStores ==
  ASSUME IInv, IInv', CompensationInv, MigrationInv, NEW d \in Procs, UNCHANGED executionVars,
         \/ count_attempt(d) \/ mark_analyzing(d) \/ finish_blocked(d) \/ store_plan(d)
         \/ await_approval(d) \/ dead_letter(d)
  PROVE  MigrationInv'
<1>u. config' = config
  BY DEF executionVars
<1>v. proc[d] \in Coroutine /\ proc[d].rec \in RecordCopy
  BY VersionFacts DEF Versions
<1>s. ASSUME NEW cont \in PlainPoints, NEW status \in RuntimeStatus, NEW err \in BOOLEAN,
             set_runtime_status(d, status, err, cont) \/ terminal(d, status, err, cont)
      PROVE  MigrationInv'
  <2>1. (Written(d, cont) \/ Kept(d, cont)) /\ change' = change
    BY <1>s, PlainPointsFacts, StatusWrites
  <2> QED
    BY <1>u, <2>1, StoreKeeps
<1>w. ASSUME NEW cont \in PlainPoints, NEW new \in RecordCopy,
             new.tasks = proc[d].rec.tasks, update_record(d, new, cont)
      PROVE  MigrationInv'
  <2>1. Written(d, cont) /\ change' = change
    BY <1>w, PlainPointsFacts, UpdateWrites
  <2> QED
    BY <1>u, <2>1, StoreKeeps
<1>e. /\ {"ensure", "dead", "screening", "ack", "advance", "dead_letter_record", "nacked"}
           \subseteq PlainPoints
      /\ {"ANALYZING", "FAILED", "WAITING_APPROVAL", "DEAD_LETTERED"} \subseteq RuntimeStatus
  BY DEF PlainPoints, Ended, RuntimeStatus, Terminal
<1>1. CASE count_attempt(d)
  <2>1. update_record(d, proc[d].rec, Supported) /\ Supported \in PlainPoints
    BY <1>1, <1>e DEF count_attempt, Supported
  <2> QED
    BY <1>v, <1>w, <2>1
<1>2. CASE mark_analyzing(d)
  BY <1>2, <1>s, <1>e DEF mark_analyzing
<1>3. CASE finish_blocked(d)
  BY <1>3, <1>s, <1>e DEF finish_blocked
<1>4. CASE store_plan(d)
  <2>1. CASE Goto(d, "dead") /\ UNCHANGED <<change, record>>
    BY <1>u, <1>e, <2>1, PlainKeeps DEF Jumps
  <2>2. CASE update_record(d, [proc[d].rec EXCEPT !.plan = proc[d].draft], "advance")
    <3> DEFINE new == [proc[d].rec EXCEPT !.plan = proc[d].draft]
    <3>1. new \in RecordCopy /\ new.tasks = proc[d].rec.tasks
      BY <1>v DEF Coroutine, RecordCopy
    <3>2. update_record(d, new, "advance")
      BY <2>2
    <3> HIDE DEF new
    <3> QED
      BY <1>w, <1>e, <3>1, <3>2
  <2> QED
    BY <1>4, <2>1, <2>2 DEF store_plan
<1>5. CASE await_approval(d)
  <2>1. CASE set_runtime_status(d, "WAITING_APPROVAL", FALSE, "ack")
    BY <1>s, <1>e, <2>1
  <2>2. CASE Goto(d, "nacked") /\ UNCHANGED <<change, record>>
    BY <1>u, <1>e, <2>2, PlainKeeps DEF Jumps
  <2> QED
    BY <1>5, <2>1, <2>2 DEF await_approval
<1>6. CASE dead_letter(d)
  BY <1>6, <1>s, <1>e DEF dead_letter
<1> QED
  BY <1>1, <1>2, <1>3, <1>4, <1>5, <1>6

\* The first documents: before them nothing was executed.
LEMMA CreateMigrates ==
  ASSUME IInv, IInv', CompensationInv, MigrationInv, NEW d \in Procs, UNCHANGED executionVars,
         create_or_get(d) \/ ensure_change(d)
  PROVE  MigrationInv'
<1>u. config' = config
  BY DEF executionVars
<1>v. proc \in [Procs -> Coroutine] /\ record' \in RecordCopy /\ record.version \in Nat
  <2>1. Versions /\ Versions'
    BY VersionFacts, PTL
  <2> QED
    BY <2>1 DEF Versions, Documents
<1>1. CASE create_or_get(d)
  <2>1. change' = change /\ GotoWith(d, record', Supported)
    BY <1>1 DEF create_or_get
  <2>2. Supported \in PlainPoints /\ Supported \in Points
    BY PlainPointsFacts DEF Supported, PlainPoints
  <2>3. Moved(d, Supported, record')
    BY <1>v, <2>1, <2>2, GotoWithMoves
  <2>4. Over(proc'[d]) \/ \E rec : Onto(proc'[d], Supported, rec, proc[d].marks, proc[d].seen)
    BY <2>3 DEF Moved
  <2>5. Copies(proc'[d]) /\ Stands(proc'[d], record', change.status, config) /\ ~Holds(proc'[d])
    BY <2>2, <2>4, SeenEntered, OverStands, OntoStands
  <2>6. RecordFollows /\ WorkStays
    <3>1. CASE record = NoRecord
      <4>1. record' = [NoRecord EXCEPT !.status = "RECEIVED", !.version = 1]
        BY <1>1, <3>1 DEF create_or_get
      <4>2. record'.version = 1 /\ record.version = 0
        BY <3>1, <4>1 DEF NoRecord
      <4>3. change.status = "NONE"
        BY <3>1 DEF IInv, TypeOK, NoChange
      <4> QED
        BY <4>2, <4>3 DEF RecordFollows, WorkStays
    <3>2. CASE record # NoRecord
      BY <1>1, <1>u, <3>2 DEF create_or_get, RecordFollows, WorkStays
    <3> QED
      BY <3>1, <3>2
  <2>7. GoesOn(change.status, change'.status) /\ OthersStay(d)
    BY <2>1, <2>3 DEF GoesOn, Moved
  <2> QED
    BY <1>u, <2>1, <2>5, <2>6, <2>7, MigrationStep
<1>2. CASE ensure_change(d)
  <2>1. record' = record /\ Goto(d, "analyzing")
    BY <1>2 DEF ensure_change
  <2>2. "analyzing" \in PlainPoints /\ "analyzing" \in Points /\ "analyzing" \notin Ended
    BY DEF PlainPoints, Points, Ended
  <2>3. OthersStay(d) /\ Onto(proc'[d], "analyzing", proc[d].rec, proc[d].marks, proc[d].seen)
    BY <1>v, <2>1, <2>2, GotoMoves DEF Moved
  <2>4. \/ change' = change
        \/ change.status = "NONE" /\ change'.status = "RECEIVED"
    BY <1>2 DEF ensure_change, NoChange
  <2>5. GoesOn(change.status, change'.status)
    BY <2>4 DEF GoesOn, Entered, Closed
  <2>6. Copies(proc'[d]) /\ Stands(proc'[d], record', change'.status, config') /\ ~Holds(proc'[d])
    <3>1. proc[d].seen = "EXECUTING" => change'.status \in Entered
      BY <2>5, SeenEntered DEF GoesOn
    <3> QED
      BY <2>2, <2>3, <3>1, OntoStands
  <2>7. RecordFollows /\ WorkStays
    BY <1>u, <2>1 DEF RecordFollows, WorkStays
  <2> QED
    BY <2>3, <2>4, <2>5, <2>6, <2>7, MigrationStep
<1> QED
  BY <1>1, <1>2

\* A user cancels or retries: a change that was executed can be cancelled when
\* it is rolling back, and not otherwise.
LEMMA UserMigrates ==
  ASSUME IInv, IInv', MigrationInv, NEW target \in UserTargets, user_transition(target),
         UNCHANGED executionVars
  PROVE  MigrationInv'
<1>1. /\ target \in {"CANCELLED", "SCREENING"}
      /\ target = "SCREENING" => change.status \in {"BLOCKED", "NEEDS_ATTENTION"}
      /\ can_transition(change.status, target)
      /\ record' = record /\ proc' = proc /\ change # NoChange
      /\ change' = [change EXCEPT !.status = target, !.version = @ + 1]
  BY UserTargetsAssumption DEF user_transition
<1>2. change'.status = target
  BY <1>1 DEF IInv, TypeOK, ChangeRecord
<1>3. GoesOn(change.status, change'.status)
  BY <1>1, <1>2, EnteredGoesOn
<1>4. RecordFollows /\ WorkStays
  BY <1>1 DEF RecordFollows, WorkStays, executionVars
<1> QED
  BY <1>1, <1>2, <1>3, <1>4, MigrationStays

-----------------------------------------------------------------------------
(* Transitions.                                                            *)

\* A coroutine that has made its transition: it was on its way where it is.
LEMMA ArrivesStanding ==
  ASSUME NEW x, NEW y, x.pc = "transition", x.cont # "transition",
         Onto(y, x.cont, x.rec, x.marks, x.to), Copies(x), Targets(x),
         NEW r, NEW st, NEW cfg, Stands(x, r, st, cfg), GoesOn(st, x.to),
         x.to # "NEEDS_ATTENTION"
  PROVE  /\ Copies(y) /\ Stands(y, r, x.to, cfg)
         /\ Holds(y) => Holds(x) \/ x.to = "VERIFYING"
<1>w. y.pc = x.cont /\ Where(y) = x.cont /\ Where(x) = x.cont /\ y.rec = x.rec /\ y.marks = x.marks
      /\ y.seen = x.to
  BY DEF Onto, Where
<1>a. Aims(x)
  BY DEF Copies
<1>1. ~Verifies(y) /\ y.pc # "wave" /\ y.pc # "transition"
  BY <1>w, <1>a DEF Verifies, Aims, Targets
<1>2. Copies(y)
  BY <1>w, <1>1 DEF Copies
<1>3. Holds(y) => \/ y.pc = "verifying" /\ x.to = "VERIFYING"
                  \/ y.pc = "rolling_back" /\ x.to = "ROLLING_BACK" /\ Holds(x)
  BY <1>w, <1>a, <1>1 DEF Holds, Aims, Condemning, Targets
<1>4. Stands(y, r, x.to, cfg)
  <2>1. (y.seen = "EXECUTING" \/ Where(y) \in Started) => x.to \in Entered
    BY <1>w DEF Stands, GoesOn, Entered
  <2>2. Where(y) \in Undoing => x.to \in Closed
    BY <1>w, <1>a DEF Aims, Closed
  <2>3. y.pc = "rolling_back" => x.to \in Closed \cup {"COMPLETED"}
    BY <1>w DEF Targets, Closed
  <2>4. Holds(y) => x.to \in Closed \cup {"VERIFYING"}
    BY <1>3 DEF Closed
  <2>5. (Current(y, r) /\ Where(y) \in Condemning /\ y.rec.status # "VERIFYING") => ~Done(r.tasks)
    BY <1>w DEF Stands, Current
  <2> QED
    BY <1>1, <2>1, <2>2, <2>3, <2>4, <2>5 DEF Stands
<1> QED
  BY <1>2, <1>3, <1>4

\* A transition that does not give the change up: only the one who verified
\* the systems completes it.
LEMMA TransitionMigrates ==
  ASSUME IInv, IInv', CompensationInv, MigrationInv, Calm', NEW p \in Procs, transition(p),
         UNCHANGED executionVars
  PROVE  MigrationInv'
<1>u. config' = config
  BY DEF executionVars
<1>1. CASE TransitionAllowed(p)
  <2> DEFINE x == proc[p]
             st == change.status
  <2>t. /\ OthersStay(p) /\ record' = record /\ change'.status = x.to
        /\ can_transition(st, x.to)
        /\ Onto(proc'[p], x.cont, x.rec, x.marks, x.to)
        /\ x.pc = "transition" /\ x.cont # "transition"
    BY <1>1, Transits
  <2>f. Copies(x) /\ Stands(x, record, st, config) /\ Targets(x) /\ Aims(x)
    BY <2>t DEF MigrationInv, CompensationInv, Fits, TasksFit, Copies
  <2>n. x.to # "NEEDS_ATTENTION" /\ x.to # "PARTIAL"
    BY <2>t, <2>f DEF Calm, Targets
  <2>g. GoesOn(st, x.to)
    BY <2>t, <2>n, EnteredGoesOn
  <2>1. /\ Copies(proc'[p]) /\ Stands(proc'[p], record, x.to, config)
        /\ Holds(proc'[p]) => Holds(x) \/ x.to = "VERIFYING"
    BY <2>t, <2>f, <2>n, <2>g, ArrivesStanding
  <2>e. x.to \in {"VERIFYING", "COMPLETED"} => st \in Entered
    <3>1. x.to \in {"VERIFYING", "COMPLETED"} => Where(x) \in {"verifying", "complete"}
      BY <2>t, <2>f DEF Aims, Where
    <3> QED
      BY <2>f, <3>1 DEF Stands, Started, Guarded
  <2>2. x.to = "VERIFYING" => st = "EXECUTING"
    BY <2>t, <2>e, EnteredTargets DEF can_transition, allowed_targets, Entered
  <2>3. x.to = "COMPLETED" => st = "VERIFYING"
    BY <2>t, <2>e, EnteredTargets DEF can_transition, allowed_targets, Entered
  <2>4. x.to = "COMPLETED" => Holds(x) /\ Done(record.tasks) /\ Migrated
    BY <2>t, <2>f, <2>3 DEF Aims, Holds, Verifies, Stands, Migrated
  <2>5. RecordFollows /\ WorkStays
    BY <1>u, <2>t DEF RecordFollows, WorkStays
  <2> QED
    BY <1>u, <2>t, <2>g, <2>1, <2>2, <2>4, <2>5, MigrationStep DEF Migrated
<1>2. CASE ~TransitionAllowed(p)
  <2>1. Goto(p, Raised(p)) /\ UNCHANGED <<change, record>> /\ Raised(p) \in Ended
    BY <1>2, RaisedEnds DEF transition
  <2> QED
    BY <1>u, <2>1, EndMigrates
<1> QED
  BY <1>1, <1>2

-----------------------------------------------------------------------------
(* The approval side.                                                      *)

\* A coroutine that executes.
LEMMA WorkingStands ==
  ASSUME NEW y, NEW r, NEW st \in Entered, NEW cfg,
         y.pc \in {"executing", "snapshots", "dag", "wave", "executed"},
         y.pc # "executing" => y.rec.status = "EXECUTING",
         y.pc = "wave" => y.marks # {},
         y.pc = "executed" => Done(y.rec.tasks) /\ y.marks = {}
  PROVE  Copies(y) /\ Stands(y, r, st, cfg) /\ ~Holds(y)
<1>1. Where(y) = y.pc /\ y.pc \notin Condemning \cup Undoing
  BY DEF Where, Condemning, Undoing
<1>2. ~Verifies(y)
  BY DEF Verifies
<1>3. ~Holds(y)
  BY <1>1, <1>2 DEF Holds
<1> QED
  BY <1>1, <1>2, <1>3 DEF Copies, Stands

\* A coroutine that has found a failure.
LEMMA CondemningStands ==
  ASSUME NEW y, NEW r, NEW st \in Entered, NEW cfg, y.pc \in Condemning,
         y.rec.status \in {"EXECUTING", "VERIFYING"},
         y.rec.status = "EXECUTING" /\ Current(y, r) => ~Done(r.tasks),
         y.rec.status = "VERIFYING" => st \in Closed \cup {"VERIFYING"},
         y.pc = "rolling_back" => st \in Closed \cup {"COMPLETED"}
  PROVE  /\ Copies(y) /\ Stands(y, r, st, cfg)
         /\ Holds(y) <=> y.rec.status = "VERIFYING"
<1>1. Where(y) = y.pc /\ y.pc \notin Undoing \cup {"transition", "verify", "verifying"}
      /\ y.pc \notin {"snapshots", "dag", "wave", "executed"}
  BY DEF Where, Condemning, Undoing
<1>2. ~Verifies(y)
  BY <1>1 DEF Verifies
<1>3. Holds(y) <=> y.rec.status = "VERIFYING"
  BY <1>1, <1>2 DEF Holds
<1> QED
  BY <1>1, <1>2, <1>3 DEF Copies, Stands

\* A coroutine that restores.
LEMMA UndoingStands ==
  ASSUME NEW y, NEW r, NEW st \in Closed, NEW cfg, y.pc \in {"restore", "restored", "rolled_back"}
  PROVE  Copies(y) /\ Stands(y, r, st, cfg) /\ ~Holds(y)
<1>1. Where(y) = y.pc /\ y.pc \notin Condemning
  BY DEF Where, Condemning
<1>2. ~Verifies(y)
  BY DEF Verifies
<1>3. ~Holds(y)
  BY <1>1, <1>2 DEF Holds
<1>4. st \in Entered
  BY DEF Closed, Entered
<1> QED
  BY <1>1, <1>2, <1>3, <1>4 DEF Copies, Stands

\* What p knows where it is.
LEMMA Standing ==
  ASSUME IInv, CompensationInv, MigrationInv, NEW p \in Procs, NEW w \in Started, At(p, w)
  PROVE  /\ proc[p].pc = w /\ Where(proc[p]) = w /\ change.status \in Entered
         /\ Copies(proc[p]) /\ Stands(proc[p], record, change.status, config)
         /\ Current(proc[p], record) => Tracks(proc[p], record)
         /\ proc[p] \in Coroutine /\ proc[p].rec \in RecordCopy /\ proc[p].marks \subseteq Steps
         /\ proc \in [Procs -> Coroutine] /\ change.version \in Nat
<1>1. proc[p].pc = w /\ Where(proc[p]) = w
  BY DEF At, Where, Started, Guarded
<1>2. Copies(proc[p]) /\ Stands(proc[p], record, change.status, config)
  BY DEF MigrationInv
<1>3. Current(proc[p], record) => Tracks(proc[p], record)
  BY DEF CompensationInv, Fits, TasksFit
<1>4. change.status \in Entered
  BY <1>1, <1>2 DEF Stands
<1> QED
  BY <1>1, <1>2, <1>3, <1>4, VersionFacts DEF Versions, Documents

\* A copy that is stored, or p raises.
LEMMA CopyStored ==
  ASSUME IInv, NEW p \in Procs, NEW new \in RecordCopy, NEW cont \in Points \ Ended,
         update_record(p, new, cont)
  PROVE  \/ Over(proc'[p])
         \/ /\ Onto(proc'[p], cont, record', proc[p].marks, proc[p].seen)
            /\ record'.status = new.status /\ record'.tasks = new.tasks
            /\ Current(proc[p], record)
<1>d. proc \in [Procs -> Coroutine] /\ record.version \in Nat
  BY VersionFacts DEF Versions, Documents
<1>1. CASE ~UpdateAllowed(p, new)
  <2>1. Goto(p, Raised(p))
    BY <1>1 DEF update_record
  <2>2. Raised(p) \in Ended /\ Raised(p) \in Points
    BY RaisedEnds DEF Points
  <2>3. Moved(p, Raised(p), proc[p].rec)
    BY <1>d, <2>1, <2>2, GotoMoves
  <2> QED
    BY <2>2, <2>3 DEF Moved
<1>2. CASE UpdateAllowed(p, new)
  <2>1. record' = [new EXCEPT !.version = record.version + 1] /\ GotoWith(p, record', cont)
    BY <1>2 DEF update_record
  <2>2. record' \in RecordCopy /\ record'.status = new.status /\ record'.tasks = new.tasks
    BY <1>d, <2>1 DEF RecordCopy
  <2>3. Moved(p, cont, record')
    BY <1>d, <2>1, <2>2, GotoWithMoves
  <2> QED
    BY <1>2, <2>2, <2>3 DEF Moved, UpdateAllowed, Current
<1> QED
  BY <1>1, <1>2

\* A status that is stored, unless the copy has it, or p raises.
LEMMA StatusStored ==
  ASSUME IInv, NEW p \in Procs, NEW status \in RuntimeStatus, NEW err \in BOOLEAN,
         NEW cont \in Points \ Ended, set_runtime_status(p, status, err, cont)
  PROVE  \/ Over(proc'[p])
         \/ /\ \E rec : Onto(proc'[p], cont, rec, proc[p].marks, proc[p].seen) /\ rec.status = status
            /\ proc[p].rec.status # status =>
                 /\ proc'[p].rec = record' /\ record'.tasks = proc[p].rec.tasks
                 /\ Current(proc[p], record)
<1> DEFINE c == proc[p].rec
           new == [c EXCEPT !.status = status, !.err = err]
<1>d. proc \in [Procs -> Coroutine] /\ c \in RecordCopy
  BY VersionFacts DEF Versions, Documents
<1>1. CASE Goto(p, cont) /\ c.status = status
  <2>1. Moved(p, cont, c)
    BY <1>d, <1>1, GotoMoves
  <2> QED
    BY <1>1, <2>1 DEF Moved
<1>2. CASE update_record(p, new, cont)
  <2>1. new \in RecordCopy /\ new.status = status /\ new.tasks = c.tasks
    BY <1>d DEF RecordCopy
  <2> HIDE DEF new
  <2>2. \/ Over(proc'[p])
        \/ /\ Onto(proc'[p], cont, record', proc[p].marks, proc[p].seen)
           /\ record'.status = status /\ record'.tasks = c.tasks /\ Current(proc[p], record)
    BY <1>2, <2>1, CopyStored
  <2> QED
    BY <2>2 DEF Onto
<1> QED
  BY <1>1, <1>2 DEF set_runtime_status

\* The steps up to the execution.
LEMMA CallbackBegins ==
  ASSUME IInv, IInv', CompensationInv, MigrationInv, NEW b \in Procs, UNCHANGED executionVars,
         notify(b) \/ get_change(b) \/ resume_record(b)
  PROVE  MigrationInv'
<1>1. {"get_change", "get_record", "resume", "answered", "failed"} \subseteq PlainPoints
  BY DEF PlainPoints, Ended
<1>2. UNCHANGED <<change, record, config>> /\ \E pc \in PlainPoints : Jumps(b, pc)
  BY <1>1 DEF notify, get_change, resume_record, read_change, Jumps, executionVars
<1> QED
  BY <1>2, PlainKeeps

\* The decision is followed: the execution starts when the change was
\* EXECUTING.
LEMMA DecisionMigrates ==
  ASSUME IInv, IInv', CompensationInv, MigrationInv, NEW b \in Procs, follow_decision(b)
  PROVE  MigrationInv'
<1>1. At(b, "resume") /\ UNCHANGED <<change, record, config>>
  BY DEF follow_decision, executionVars
<1>2. approval.status \in Decided
  BY <1>1 DEF At, IInv, Coroutines, CoroutineInv, LocalInv, Knows, Where, Resumed
<1>e. {"resume", "rejected", "changes_requested", "refused"} \subseteq PlainPoints
      /\ {"APPROVED", "EXECUTING", "REJECTED", "ANALYZING"} \subseteq Before
  BY DEF PlainPoints, Ended, Before, WorkflowState
<1>3. CASE /\ proc[b].seen \in DOMAIN Path[approval.status]
           /\ begin_transition(b, Path[approval.status][proc[b].seen], "resume")
  <2> DEFINE to == Path[approval.status][proc[b].seen]
  <2>1. to \in {"APPROVED", "EXECUTING", "REJECTED", "ANALYZING"}
    BY <1>2, <1>3, PathIsEarned
  <2>2. begin_transition(b, to, "resume")
    BY <1>3
  <2> HIDE DEF to
  <2> QED
    BY <1>1, <1>e, <2>1, <2>2, PlainKeeps
<1>4. CASE Goto(b, AfterPath(b))
  <2>1. \/ AfterPath(b) \in PlainPoints
        \/ AfterPath(b) = "executing" /\ proc[b].seen = "EXECUTING"
    BY <1>2, <1>e DEF AfterPath, Decided
  <2>2. CASE AfterPath(b) \in PlainPoints
    BY <1>1, <1>4, <2>2, PlainKeeps DEF Jumps
  <2>3. CASE AfterPath(b) = "executing" /\ proc[b].seen = "EXECUTING"
    <3>1. "executing" \in Points /\ "executing" \notin Ended
      BY DEF Points, Ended
    <3>2. OthersStay(b) /\ Onto(proc'[b], "executing", proc[b].rec, proc[b].marks, proc[b].seen)
      BY <1>4, <2>3, <3>1, GotoMoves, VersionFacts DEF Versions, Documents, Moved
    <3>3. change.status \in Entered
      BY <2>3, SeenEntered
    <3>p. proc'[b].pc = "executing"
      BY <3>2 DEF Onto
    <3>4. Copies(proc'[b]) /\ Stands(proc'[b], record', change.status, config) /\ ~Holds(proc'[b])
      BY <3>p, <3>3, WorkingStands
    <3> QED
      BY <1>1, <3>2, <3>4, SteadyStep DEF Stores
  <2> QED
    BY <2>1, <2>2, <2>3
<1> QED
  BY <1>3, <1>4 DEF follow_decision

\* The last steps.
LEMMA CallbackAnswers ==
  ASSUME IInv, IInv', CompensationInv, MigrationInv, NEW b \in Procs, UNCHANGED executionVars,
         \/ finish_rejected(b) \/ finish_changes_requested(b) \/ finish_completed(b)
         \/ finish_rolled_back(b)
  PROVE  MigrationInv'
<1>e. "answered" \in PlainPoints /\ "answered" \in Points
      /\ {"FAILED", "ANALYZING", "COMPLETED", "NEEDS_ATTENTION"} \subseteq RuntimeStatus
  BY DEF PlainPoints, Ended, Points, RuntimeStatus, Terminal
<1>c. Compensated(b) \in {"NEEDS_ATTENTION", "FAILED"}
  BY DEF Compensated
<1>1. PICK status \in RuntimeStatus, err \in BOOLEAN :
        set_runtime_status(b, status, err, "answered") \/ terminal(b, status, err, "answered")
  BY <1>e, <1>c DEF finish_rejected, finish_changes_requested, finish_completed, finish_rolled_back
<1>2. (Written(b, "answered") \/ Kept(b, "answered")) /\ change' = change
  BY <1>e, <1>1, StatusWrites
<1> QED
  BY <1>e, <1>2, StoreKeeps DEF executionVars

-----------------------------------------------------------------------------
(* Execution, verification and compensation.                               *)

\* A coroutine that verifies.
LEMMA VerifyingStands ==
  ASSUME NEW y, NEW r, NEW st \in Closed \cup {"VERIFYING"}, NEW cfg, y.pc = "verify",
         y.rec.status = "VERIFYING",
         st = "VERIFYING" => Done(r.tasks) /\ \A s \in y.marks : cfg[s] = "new_field"
  PROVE  Copies(y) /\ Stands(y, r, st, cfg)
<1>1. Where(y) = "verify" /\ "verify" \notin Condemning \cup Undoing
  BY DEF Where, Condemning, Undoing
<1>2. st \in Entered
  BY DEF Closed, Entered
<1> QED
  BY <1>1, <1>2 DEF Copies, Stands

\* A coroutine that executes, without results to store.
LEMMA ExecutingStands ==
  ASSUME NEW y, NEW r, NEW st \in Entered, NEW cfg, NEW pc \in {"snapshots", "dag"}, y.pc = pc,
         y.rec.status = "EXECUTING"
  PROVE  Copies(y) /\ Stands(y, r, st, cfg) /\ ~Holds(y)
<1>1. y.pc \in {"executing", "snapshots", "dag", "wave", "executed"}
      /\ y.pc # "wave" /\ y.pc # "executed"
  OBVIOUS
<1> QED
  BY <1>1, WorkingStands

\* A write moves p at most.
LEMMA WriteStores ==
  ASSUME NEW p, NEW cont, Written(p, cont) \/ Kept(p, cont)
  PROVE  Stores(p) /\ OthersStay(p)
  BY DEF Written, Kept, Moved, Stores

\* The record is marked EXECUTING.
LEMMA ExecutingMarked ==
  ASSUME IInv, IInv', CompensationInv, MigrationInv, NEW b \in Procs, mark_executing(b)
  PROVE  MigrationInv'
<1>1. At(b, "executing") /\ set_runtime_status(b, "EXECUTING", FALSE, "snapshots") /\ config' = config
  BY DEF mark_executing, executionVars
<1>e. "executing" \in Started /\ "snapshots" \in Points \ Ended /\ "EXECUTING" \in RuntimeStatus
  BY DEF Started, Points, Ended, RuntimeStatus
<1>2. (Written(b, "snapshots") \/ Kept(b, "snapshots")) /\ change' = change
  BY <1>1, <1>e, StatusWrites
<1>3. Stores(b) /\ OthersStay(b)
  BY <1>2, WriteStores
<1>4. change.status \in Entered
  BY <1>1, <1>e, Standing
<1>5. Over(proc'[b]) \/ (proc'[b].pc = "snapshots" /\ proc'[b].rec.status = "EXECUTING")
  <2>1. \/ Over(proc'[b])
        \/ \E rec : /\ Onto(proc'[b], "snapshots", rec, proc[b].marks, proc[b].seen)
                    /\ rec.status = "EXECUTING"
    BY <1>1, <1>e, StatusStored
  <2> QED
    BY <2>1 DEF Onto
<1>6. Copies(proc'[b]) /\ Stands(proc'[b], record', change.status, config) /\ ~Holds(proc'[b])
  <2>1. CASE Over(proc'[b])
    BY <2>1, OverStands
  <2>2. CASE proc'[b].pc = "snapshots" /\ proc'[b].rec.status = "EXECUTING"
    BY <1>4, <2>2, ExecutingStands
  <2> QED
    BY <1>5, <2>1, <2>2
<1> QED
  BY <1>1, <1>2, <1>3, <1>6, SteadyStep

\* The snapshots are stored.
LEMMA SnapshotsKept ==
  ASSUME IInv, IInv', CompensationInv, MigrationInv, NEW b \in Procs, store_snapshots(b)
  PROVE  MigrationInv'
<1> DEFINE x == proc[b]
<1>1. At(b, "snapshots") /\ config' = config
  BY DEF store_snapshots, executionVars
<1>e. "snapshots" \in Started /\ "dag" \in Points \ Ended
  BY DEF Started, Points, Ended
<1>x. /\ change.status \in Entered /\ x.rec.status = "EXECUTING" /\ x.rec \in RecordCopy
      /\ proc \in [Procs -> Coroutine]
  BY <1>1, <1>e, Standing DEF Copies
<1>2. /\ Stores(b) /\ OthersStay(b) /\ change' = change
      /\ Over(proc'[b]) \/ (proc'[b].pc = "dag" /\ proc'[b].rec.status = "EXECUTING")
  <2>1. CASE Goto(b, "dag") /\ UNCHANGED <<change, record>>
    <3>1. Moved(b, "dag", x.rec)
      BY <1>e, <1>x, <2>1, GotoMoves
    <3> QED
      BY <1>e, <1>x, <2>1, <3>1 DEF Moved, Onto, Stores
  <2>2. CASE update_record(b, x.rec, "dag")
    <3>1. Written(b, "dag") /\ change' = change
      BY <1>e, <1>x, <2>2, UpdateWrites
    <3>2. Over(proc'[b]) \/ (proc'[b].pc = "dag" /\ proc'[b].rec.status = "EXECUTING")
      BY <1>e, <1>x, <2>2, CopyStored DEF Onto
    <3> QED
      BY <3>1, <3>2, WriteStores
  <2> QED
    BY <2>1, <2>2 DEF store_snapshots
<1>3. Copies(proc'[b]) /\ Stands(proc'[b], record', change.status, config) /\ ~Holds(proc'[b])
  <2>1. CASE Over(proc'[b])
    BY <2>1, OverStands
  <2>2. CASE proc'[b].pc = "dag" /\ proc'[b].rec.status = "EXECUTING"
    BY <1>x, <2>2, ExecutingStands
  <2> QED
    BY <1>2, <2>1, <2>2
<1> QED
  BY <1>1, <1>2, <1>3, SteadyStep

\* Results are stored: one that failed condemns the change.
LEMMA ResultsKept ==
  ASSUME IInv, IInv', CompensationInv, MigrationInv, NEW b \in Procs, At(b, "wave"),
         config' = config, NEW new \in RecordCopy, new.tasks = proc[b].rec.tasks,
         new.status = proc[b].rec.status, NEW cont \in {"dag", "rollback"},
         cont = "rollback" => ~Done(new.tasks), update_record(b, new, cont)
  PROVE  MigrationInv'
<1>e. "wave" \in Started /\ cont \in Points \ Ended /\ cont \in Points
  BY DEF Started, Guarded, Points, Ended
<1>w. change.status \in Entered /\ Where(proc[b]) = "wave" /\ Copies(proc[b])
  BY <1>e, Standing
<1>x. new.status = "EXECUTING"
  BY <1>w DEF Copies
<1>2. Written(b, cont) /\ change' = change
  BY <1>e, UpdateWrites
<1>3. Stores(b) /\ OthersStay(b)
  BY <1>2, WriteStores
<1>4. \/ Over(proc'[b])
      \/ /\ Onto(proc'[b], cont, record', proc[b].marks, proc[b].seen)
         /\ record'.status = new.status /\ record'.tasks = new.tasks
  BY <1>e, CopyStored
<1>5. Copies(proc'[b]) /\ Stands(proc'[b], record', change.status, config) /\ ~Holds(proc'[b])
  <2>1. CASE Over(proc'[b])
    BY <2>1, OverStands
  <2>2. CASE /\ Onto(proc'[b], cont, record', proc[b].marks, proc[b].seen)
             /\ record'.status = new.status /\ record'.tasks = new.tasks
    <3>1. proc'[b].pc = cont /\ proc'[b].rec.status = "EXECUTING"
      BY <1>x, <2>2 DEF Onto
    <3>2. CASE cont = "dag"
      BY <1>w, <3>1, <3>2, ExecutingStands
    <3>3. CASE cont = "rollback"
      <4>1. proc'[b].pc \in Condemning /\ proc'[b].pc # "rolling_back"
        BY <3>1, <3>3 DEF Condemning
      <4>2. ~Done(record'.tasks)
        BY <2>2, <3>3
      <4> QED
        BY <1>w, <3>1, <4>1, <4>2, CondemningStands
    <3> QED
      BY <3>2, <3>3
  <2> QED
    BY <1>4, <2>1, <2>2
<1> QED
  BY <1>2, <1>3, <1>5, SteadyStep

\* The results of a wave are stored.
LEMMA WaveKept ==
  ASSUME IInv, IInv', CompensationInv, MigrationInv, NEW b \in Procs, store_wave(b)
  PROVE  MigrationInv'
<1>1. At(b, "wave") /\ config' = config
  BY DEF store_wave, executionVars
<1>x. proc[b].rec \in RecordCopy
  BY VersionFacts DEF Versions
<1>2. ASSUME NEW failed \in BOOLEAN, NEW cont \in {"dag", "rollback"},
             cont = "rollback" => ~Done(proc[b].rec.tasks),
             update_record(b, [proc[b].rec EXCEPT !.err = failed], cont)
      PROVE  MigrationInv'
  <2> DEFINE new == [proc[b].rec EXCEPT !.err = failed]
  <2>1. new \in RecordCopy /\ new.tasks = proc[b].rec.tasks /\ new.status = proc[b].rec.status
    BY <1>x DEF RecordCopy
  <2>2. update_record(b, new, cont)
    BY <1>2
  <2> HIDE DEF new
  <2> QED
    BY <1>1, <1>2, <2>1, <2>2, ResultsKept
<1> DEFINE failed == WithStatus(b, "FAILED") \cap proc[b].marks # {}
<1>3. failed \in BOOLEAN
  OBVIOUS
<1>4. failed => ~Done(proc[b].rec.tasks)
  BY DEF WithStatus, Tasks, Done
<1>5. update_record(b, [proc[b].rec EXCEPT !.err = failed], IF failed THEN "rollback" ELSE "dag")
  BY DEF store_wave
<1> HIDE DEF failed
<1>6. CASE failed
  BY <1>2, <1>3, <1>4, <1>5, <1>6
<1>7. CASE ~failed
  BY <1>2, <1>3, <1>5, <1>7
<1> QED
  BY <1>6, <1>7

\* The record is marked VERIFYING by whoever moved the change there.
LEMMA VerifyingMarked ==
  ASSUME IInv, IInv', CompensationInv, MigrationInv, NEW b \in Procs, mark_verifying(b)
  PROVE  MigrationInv'
<1> DEFINE x == proc[b]
<1>1. At(b, "verifying") /\ set_runtime_status(b, "VERIFYING", FALSE, "verify") /\ config' = config
  BY DEF mark_verifying, executionVars
<1>e. "verifying" \in Started /\ "verify" \in Points \ Ended /\ "VERIFYING" \in RuntimeStatus
  BY DEF Started, Guarded, Points, Ended, RuntimeStatus
<1>x. x.rec.status = "EXECUTING" /\ Done(x.rec.tasks) /\ x.marks = {} /\ x.pc = "verifying"
      /\ Stands(x, record, change.status, config)
  BY <1>1, <1>e, Standing DEF Copies
<1>h. Holds(x) /\ change.status \in Closed \cup {"VERIFYING"}
  BY <1>x DEF Holds, Stands
<1>2. (Written(b, "verify") \/ Kept(b, "verify")) /\ change' = change
  BY <1>1, <1>e, StatusWrites
<1>3. Stores(b) /\ OthersStay(b)
  BY <1>2, WriteStores
<1>4. \/ Over(proc'[b])
      \/ /\ proc'[b].pc = "verify" /\ proc'[b].rec.status = "VERIFYING" /\ proc'[b].marks = {}
         /\ Done(record'.tasks)
  <2>1. \/ Over(proc'[b])
        \/ /\ \E rec : /\ Onto(proc'[b], "verify", rec, proc[b].marks, proc[b].seen)
                       /\ rec.status = "VERIFYING"
           /\ proc[b].rec.status # "VERIFYING" => record'.tasks = proc[b].rec.tasks
    BY <1>1, <1>e, StatusStored
  <2> QED
    BY <1>x, <2>1 DEF Onto
<1>5. Copies(proc'[b]) /\ Stands(proc'[b], record', change.status, config)
  <2>1. CASE Over(proc'[b])
    BY <2>1, OverStands
  <2>2. CASE /\ proc'[b].pc = "verify" /\ proc'[b].rec.status = "VERIFYING" /\ proc'[b].marks = {}
             /\ Done(record'.tasks)
    BY <1>h, <2>2, VerifyingStands
  <2> QED
    BY <1>4, <2>1, <2>2
<1> QED
  BY <1>1, <1>2, <1>3, <1>5, <1>h, SteadyStep

\* The record is marked ROLLING_BACK on a current copy, and a completed change
\* has nobody with a current copy who found a failure.
LEMMA RollingBackMarked ==
  ASSUME IInv, IInv', CompensationInv, MigrationInv, NEW b \in Procs, mark_rolling_back(b)
  PROVE  MigrationInv'
<1> DEFINE x == proc[b]
<1>1. /\ At(b, "rolling_back") /\ set_runtime_status(b, "ROLLING_BACK", TRUE, "restore")
      /\ config' = config
  BY DEF mark_rolling_back, executionVars
<1>e. "rolling_back" \in Started /\ "restore" \in Points \ Ended /\ "ROLLING_BACK" \in RuntimeStatus
      /\ "rolling_back" \in Condemning
  BY DEF Started, Guarded, Points, Ended, RuntimeStatus, Condemning
<1>x. /\ x.rec.status \in {"EXECUTING", "VERIFYING"} /\ x.pc = "rolling_back"
      /\ Where(x) = "rolling_back" /\ Stands(x, record, change.status, config)
  BY <1>1, <1>e, Standing DEF Copies
<1>2. (Written(b, "restore") \/ Kept(b, "restore")) /\ change' = change
  BY <1>1, <1>e, StatusWrites
<1>3. Stores(b) /\ OthersStay(b)
  BY <1>2, WriteStores
<1>4. Over(proc'[b]) \/ (proc'[b].pc = "restore" /\ Current(x, record))
  BY <1>1, <1>e, <1>x, StatusStored DEF Onto
<1>5. Copies(proc'[b]) /\ Stands(proc'[b], record', change.status, config) /\ ~Holds(proc'[b])
  <2>1. CASE Over(proc'[b])
    BY <2>1, OverStands
  <2>2. CASE proc'[b].pc = "restore" /\ Current(x, record)
    <3>1. change.status \in Closed \cup {"COMPLETED"}
      BY <1>x DEF Stands
    <3>2. change.status # "COMPLETED"
      <4>1. CASE x.rec.status = "VERIFYING"
        BY <1>e, <1>x, <4>1 DEF Stands, Holds, Closed
      <4>2. CASE x.rec.status # "VERIFYING"
        BY <1>e, <1>x, <2>2, <4>2 DEF Stands, MigrationInv
      <4> QED
        BY <4>1, <4>2
    <3> QED
      BY <2>2, <3>1, <3>2, UndoingStands
  <2> QED
    BY <1>4, <2>1, <2>2
<1> QED
  BY <1>1, <1>2, <1>3, <1>5, SteadyStep

\* The rollback is stored.
LEMMA RollbackKept ==
  ASSUME IInv, IInv', CompensationInv, MigrationInv, NEW b \in Procs, store_rollback(b)
  PROVE  MigrationInv'
<1> DEFINE x == proc[b]
<1>1. At(b, "restore") /\ config' = config /\ update_record(b, x.rec, "rolled_back")
  BY DEF store_rollback, executionVars
<1>e. "restore" \in Started /\ "restore" \in Undoing /\ "rolled_back" \in Points \ Ended
  BY DEF Started, Guarded, Undoing, Points, Ended
<1>x. x.rec \in RecordCopy /\ change.status \in Closed
  BY <1>1, <1>e, Standing DEF Stands
<1>2. Written(b, "rolled_back") /\ change' = change
  BY <1>1, <1>e, <1>x, UpdateWrites
<1>3. Stores(b) /\ OthersStay(b)
  BY <1>2, WriteStores
<1>4. Over(proc'[b]) \/ proc'[b].pc = "rolled_back"
  BY <1>1, <1>e, <1>x, CopyStored DEF Onto
<1>5. Copies(proc'[b]) /\ Stands(proc'[b], record', change.status, config) /\ ~Holds(proc'[b])
  BY <1>x, <1>4, OverStands, UndoingStands
<1> QED
  BY <1>1, <1>2, <1>3, <1>5, SteadyStep

\* A callback asks for a transition.
LEMMA CallbackAims ==
  ASSUME IInv, IInv', CompensationInv, MigrationInv, NEW b \in Procs, config' = config,
         UNCHANGED <<change, record>>, NEW w \in Started, At(b, w),
         NEW to \in WorkflowState, NEW cont \in Points, begin_transition(b, to, cont),
         \A y : Asks(y, to, cont, proc[b]) =>
                  /\ Copies(y) /\ Stands(y, record, change.status, config)
                  /\ Holds(y) => Holds(proc[b])
  PROVE  MigrationInv'
<1>v. proc \in [Procs -> Coroutine] /\ change.version \in Nat
  BY Standing
<1>1. OthersStay(b) /\ Asks(proc'[b], to, cont, proc[b])
  BY <1>v, BeginMoves
<1>2. /\ Copies(proc'[b]) /\ Stands(proc'[b], record, change.status, config)
      /\ Holds(proc'[b]) => Holds(proc[b])
  BY <1>1
<1>3. Stores(b)
  BY DEF Stores
<1> QED
  BY <1>1, <1>2, <1>3, SteadyStep

\* The verification is asked for.
LEMMA VerificationAsked ==
  ASSUME IInv, IInv', CompensationInv, MigrationInv, NEW b \in Procs, start_verifying(b)
  PROVE  MigrationInv'
<1> DEFINE x == proc[b]
<1>1. /\ At(b, "executed") /\ begin_transition(b, "VERIFYING", "verifying")
      /\ UNCHANGED <<change, record>> /\ config' = config
  BY DEF start_verifying, executionVars
<1>e. "executed" \in Started /\ "VERIFYING" \in WorkflowState /\ "verifying" \in Points
  BY DEF Started, Guarded, WorkflowState, Points
<1>x. /\ Where(x) = "executed" /\ change.status \in Entered /\ Copies(x)
  BY <1>1, <1>e, Standing
<1>c. x.rec.status = "EXECUTING" /\ Done(x.rec.tasks) /\ x.marks = {}
  BY <1>x DEF Copies
<1>2. ASSUME NEW y, Asks(y, "VERIFYING", "verifying", x)
      PROVE  Copies(y) /\ Stands(y, record, change.status, config) /\ ~Holds(y)
  <2>1. /\ y.pc = "transition" /\ y.to = "VERIFYING" /\ y.cont = "verifying"
        /\ y.rec = x.rec /\ y.marks = x.marks /\ Where(y) = "verifying"
    BY <1>2 DEF Asks, Where
  <2>2. ~Verifies(y) /\ Where(y) \notin Condemning \cup Undoing /\ ~Holds(y) /\ Aims(y)
    BY <2>1 DEF Verifies, Holds, Condemning, Undoing, Aims
  <2>3. Copies(y)
    BY <1>c, <2>1, <2>2 DEF Copies
  <2>4. Stands(y, record, change.status, config)
    BY <1>x, <2>1, <2>2 DEF Stands
  <2> QED
    BY <2>2, <2>3, <2>4
<1> QED
  BY <1>1, <1>e, <1>2, CallbackAims

\* The completion is asked for by whoever has found every system migrated.
LEMMA CompletionAsked ==
  ASSUME IInv, IInv', CompensationInv, MigrationInv, NEW b \in Procs, start_completing(b)
  PROVE  MigrationInv'
<1> DEFINE x == proc[b]
<1>1. /\ At(b, "verify") /\ begin_transition(b, "COMPLETED", "complete") /\ x.marks = Steps
      /\ UNCHANGED <<change, record>> /\ config' = config
  BY DEF start_completing, executionVars
<1>e. "verify" \in Started /\ "COMPLETED" \in WorkflowState /\ "complete" \in Points
  BY DEF Started, Guarded, WorkflowState, Points
<1>x. /\ x.pc = "verify" /\ change.status \in Entered /\ Copies(x)
      /\ Stands(x, record, change.status, config)
  BY <1>1, <1>e, Standing
<1>c. Verifies(x) /\ Holds(x) /\ x.rec.status = "VERIFYING"
  BY <1>x DEF Verifies, Holds, Copies
<1>2. ASSUME NEW y, Asks(y, "COMPLETED", "complete", x)
      PROVE  Copies(y) /\ Stands(y, record, change.status, config) /\ Holds(x)
  <2>1. /\ y.pc = "transition" /\ y.to = "COMPLETED" /\ y.cont = "complete"
        /\ y.rec = x.rec /\ y.marks = Steps /\ y.marks = x.marks /\ Where(y) = "complete"
    BY <1>1, <1>2 DEF Asks, Where
  <2>2. Where(y) \notin Condemning \cup Undoing /\ Aims(y)
    BY <2>1 DEF Condemning, Undoing, Aims
  <2>3. Copies(y)
    BY <1>c, <2>1, <2>2 DEF Copies
  <2>4. /\ change.status \in Closed \cup {"VERIFYING"}
        /\ change.status = "VERIFYING" =>
             Done(record.tasks) /\ \A s \in x.marks : config[s] = "new_field"
    BY <1>x, <1>c DEF Stands
  <2>5. Stands(y, record, change.status, config)
    BY <1>x, <2>1, <2>2, <2>4 DEF Stands
  <2> QED
    BY <1>c, <2>3, <2>5
<1> QED
  BY <1>1, <1>e, <1>2, CallbackAims

\* The rollback is asked for.
LEMMA RollbackAsked ==
  ASSUME IInv, IInv', CompensationInv, MigrationInv, NEW b \in Procs, start_rollback(b)
  PROVE  MigrationInv'
<1> DEFINE x == proc[b]
<1>1. /\ At(b, "roll") /\ begin_transition(b, "ROLLING_BACK", "rolling_back")
      /\ UNCHANGED <<change, record>> /\ config' = config
  BY DEF start_rollback, executionVars
<1>e. "roll" \in Started /\ "ROLLING_BACK" \in WorkflowState /\ "rolling_back" \in Points
      /\ {"roll", "rolling_back"} \subseteq Condemning
  BY DEF Started, Guarded, WorkflowState, Points, Condemning
<1>x. /\ x.pc = "roll" /\ Where(x) = "roll" /\ change.status \in Entered /\ Copies(x)
      /\ Stands(x, record, change.status, config)
  BY <1>1, <1>e, Standing
<1>c. x.rec.status \in {"EXECUTING", "VERIFYING"}
  BY <1>e, <1>x DEF Copies
<1>2. ASSUME NEW y, Asks(y, "ROLLING_BACK", "rolling_back", x)
      PROVE  /\ Copies(y) /\ Stands(y, record, change.status, config)
             /\ Holds(y) => Holds(x)
  <2>1. /\ y.pc = "transition" /\ y.to = "ROLLING_BACK" /\ y.cont = "rolling_back"
        /\ y.rec = x.rec /\ y.marks = x.marks /\ Where(y) = "rolling_back"
    BY <1>2 DEF Asks, Where
  <2>2. ~Verifies(y) /\ Where(y) \notin Undoing /\ Aims(y)
    BY <2>1 DEF Verifies, Undoing, Aims
  <2>3. Copies(y)
    BY <1>c, <2>1, <2>2 DEF Copies
  <2>4. Holds(y) => x.rec.status = "VERIFYING" /\ Holds(x)
    BY <1>e, <1>x, <2>1, <2>2 DEF Holds
  <2>5. Current(y, record) <=> Current(x, record)
    BY <2>1 DEF Current
  <2>6. Stands(y, record, change.status, config)
    BY <1>e, <1>x, <2>1, <2>2, <2>4, <2>5 DEF Stands
  <2> QED
    BY <2>3, <2>4, <2>6
<1> QED
  BY <1>1, <1>e, <1>2, CallbackAims

\* The outcome of the rollback is reported.
LEMMA OutcomeAsked ==
  ASSUME IInv, IInv', CompensationInv, MigrationInv, NEW b \in Procs, end_rollback(b)
  PROVE  MigrationInv'
<1> DEFINE x == proc[b]
           to == Compensated(b)
<1>1. /\ At(b, "rolled_back") /\ begin_transition(b, to, "compensated")
      /\ UNCHANGED <<change, record>> /\ config' = config
  BY DEF end_rollback, executionVars
<1>t. to \in {"FAILED", "NEEDS_ATTENTION"}
  BY DEF Compensated
<1> HIDE DEF to
<1>e. "rolled_back" \in Started /\ to \in WorkflowState /\ "compensated" \in Points
      /\ {"rolled_back", "compensated"} \subseteq Undoing
  BY <1>t DEF Started, Guarded, WorkflowState, Points, Undoing
<1>x. /\ Where(x) = "rolled_back" /\ change.status \in Entered
      /\ Stands(x, record, change.status, config)
  BY <1>1, <1>e, Standing
<1>c. change.status \in Closed
  BY <1>e, <1>x DEF Stands
<1>2. ASSUME NEW y, Asks(y, to, "compensated", x)
      PROVE  Copies(y) /\ Stands(y, record, change.status, config) /\ ~Holds(y)
  <2>1. /\ y.pc = "transition" /\ y.to = to /\ y.cont = "compensated"
        /\ Where(y) = "compensated"
    BY <1>2 DEF Asks, Where
  <2>2. ~Verifies(y) /\ Where(y) \notin Condemning /\ ~Holds(y) /\ Aims(y)
    BY <1>t, <2>1 DEF Verifies, Holds, Condemning, Aims
  <2>3. Copies(y)
    BY <2>1, <2>2 DEF Copies
  <2>4. Stands(y, record, change.status, config)
    BY <1>x, <1>c, <2>1, <2>2 DEF Stands
  <2> QED
    BY <2>2, <2>3, <2>4
<1> QED
  BY <1>1, <1>e, <1>2, CallbackAims

\* A callback goes on with its copy.
LEMMA CallbackLands ==
  ASSUME IInv, IInv', CompensationInv, MigrationInv, NEW b \in Procs, config' = config,
         UNCHANGED <<change, record>>, OthersStay(b),
         Copies(proc'[b]), Stands(proc'[b], record, change.status, config),
         Holds(proc'[b]) => Holds(proc[b])
  PROVE  MigrationInv'
<1>1. Stores(b)
  BY DEF Stores
<1> QED
  BY <1>1, SteadyStep

\* The next wave starts, or the loop is left: for a rollback when a task has
\* failed, for the verification when every task is done.
LEMMA DagMigrates ==
  ASSUME IInv, IInv', CompensationInv, MigrationInv, NEW b \in Procs, execute_dag(b)
  PROVE  MigrationInv'
<1> DEFINE x == proc[b]
<1>1. At(b, "dag") /\ UNCHANGED <<change, record>> /\ config' = config
  BY DEF execute_dag
<1>e. "dag" \in Started /\ {"wave", "rollback", "executed"} \subseteq Points /\ "failed" \in Ended
  BY DEF Started, Guarded, Points, Ended
<1>x. /\ x.pc = "dag" /\ Where(x) = "dag" /\ change.status \in Entered /\ Copies(x)
      /\ Current(x, record) => Tracks(x, record)
      /\ proc \in [Procs -> Coroutine]
  BY <1>1, <1>e, Standing
<1>c. x.rec.status = "EXECUTING"
  BY <1>x DEF Copies
<1>2. CASE Ready(b) # {} /\ Enter(b, "wave", Ready(b))
  <2>1. Ready(b) \in SUBSET Steps
    BY DEF Ready, WithStatus
  <2>2. OthersStay(b) /\ Onto(proc'[b], "wave", x.rec, Ready(b), x.seen)
    BY <1>e, <1>x, <1>2, <2>1, EnterMoves
  <2>3. proc'[b].pc = "wave" /\ proc'[b].rec.status = "EXECUTING" /\ proc'[b].marks # {}
    BY <1>c, <1>2, <2>2 DEF Onto
  <2>4. proc'[b].pc \in {"executing", "snapshots", "dag", "wave", "executed"}
        /\ proc'[b].pc # "executed"
    BY <2>3
  <2>5. Copies(proc'[b]) /\ Stands(proc'[b], record, change.status, config) /\ ~Holds(proc'[b])
    BY <1>x, <2>3, <2>4, WorkingStands
  <2> QED
    BY <1>1, <2>2, <2>5, CallbackLands
<1>3. CASE Goto(b, "failed")
  BY <1>1, <1>e, <1>3, EndMigrates
<1>4. CASE WithStatus(b, "FAILED") # {} /\ Enter(b, "rollback", {})
  <2>2. OthersStay(b) /\ Onto(proc'[b], "rollback", x.rec, {}, x.seen)
    BY <1>e, <1>x, <1>4, EnterMoves
  <2>3. /\ proc'[b].pc \in Condemning /\ proc'[b].pc # "rolling_back" /\ proc'[b].rec = x.rec
        /\ proc'[b].rec.status = "EXECUTING"
    BY <1>c, <2>2 DEF Onto, Condemning
  <2>4. Current(proc'[b], record) => ~Done(record.tasks)
    <3> SUFFICES ASSUME Current(proc'[b], record) PROVE ~Done(record.tasks)
      OBVIOUS
    <3>1. Tracks(x, record) /\ x.pc \notin Looping \cup {"wave"}
      BY <1>x, <2>3 DEF Current, Looping
    <3>2. PICK s \in Steps : x.rec.tasks[s].status = "FAILED"
      BY <1>4 DEF WithStatus, Tasks
    <3>3. record.tasks[s].status = "FAILED"
      BY <3>1, <3>2 DEF Tracks
    <3> QED
      BY <3>3 DEF Done
  <2>5. Copies(proc'[b]) /\ Stands(proc'[b], record, change.status, config) /\ ~Holds(proc'[b])
    BY <1>x, <2>3, <2>4, CondemningStands
  <2> QED
    BY <1>1, <2>2, <2>5, CallbackLands
<1>5. CASE /\ WithStatus(b, "PENDING") = {} /\ WithStatus(b, "FAILED") = {}
           /\ Enter(b, "executed", {})
  <2>1. Done(x.rec.tasks)
    BY <1>5 DEF WithStatus, Tasks, Done
  <2>2. OthersStay(b) /\ Onto(proc'[b], "executed", x.rec, {}, x.seen)
    BY <1>e, <1>x, <1>5, EnterMoves
  <2>3. /\ proc'[b].pc = "executed" /\ proc'[b].rec.status = "EXECUTING" /\ proc'[b].marks = {}
        /\ Done(proc'[b].rec.tasks)
    BY <1>c, <2>1, <2>2 DEF Onto
  <2>4. proc'[b].pc \in {"executing", "snapshots", "dag", "wave", "executed"}
        /\ proc'[b].pc # "wave"
    BY <2>3
  <2>5. Copies(proc'[b]) /\ Stands(proc'[b], record, change.status, config) /\ ~Holds(proc'[b])
    BY <1>x, <2>3, <2>4, WorkingStands
  <2> QED
    BY <1>1, <2>2, <2>5, CallbackLands
<1> QED
  BY <1>2, <1>3, <1>4, <1>5 DEF execute_dag

\* A system is checked: it is migrated, or the change is condemned.
LEMMA CheckMigrates ==
  ASSUME IInv, IInv', CompensationInv, MigrationInv, NEW b \in Procs, NEW s \in Steps,
         verify_task(b, s)
  PROVE  MigrationInv'
<1> DEFINE x == proc[b]
           st == change.status
<1>1. At(b, "verify") /\ UNCHANGED <<change, record>> /\ config' = config
  BY DEF verify_task, executionVars
<1>e. "verify" \in Started /\ {"verify", "rollback"} \subseteq Points
  BY DEF Started, Guarded, Points
<1>x. /\ x.pc = "verify" /\ st \in Entered /\ Copies(x) /\ Stands(x, record, st, config)
      /\ proc \in [Procs -> Coroutine] /\ x.marks \subseteq Steps
  BY <1>1, <1>e, Standing
<1>c. Verifies(x) /\ Holds(x) /\ x.rec.status = "VERIFYING"
  BY <1>x DEF Verifies, Holds, Copies
<1>h. /\ st \in Closed \cup {"VERIFYING"}
      /\ st = "VERIFYING" => Done(record.tasks) /\ \A u \in x.marks : config[u] = "new_field"
  BY <1>x, <1>c DEF Stands
<1>2. CASE config[s] = "new_field" /\ Enter(b, "verify", x.marks \cup {s})
  <2>1. x.marks \cup {s} \in SUBSET Steps
    BY <1>x
  <2>2. OthersStay(b) /\ Onto(proc'[b], "verify", x.rec, x.marks \cup {s}, x.seen)
    BY <1>e, <1>x, <1>2, <2>1, EnterMoves
  <2>3. proc'[b].pc = "verify" /\ proc'[b].rec.status = "VERIFYING"
        /\ proc'[b].marks = x.marks \cup {s}
    BY <1>c, <2>2 DEF Onto
  <2>4. st = "VERIFYING" => Done(record.tasks) /\ \A u \in proc'[b].marks : config[u] = "new_field"
    BY <1>h, <1>2, <2>3
  <2>5. Copies(proc'[b]) /\ Stands(proc'[b], record, st, config)
    BY <1>h, <2>3, <2>4, VerifyingStands
  <2> QED
    BY <1>1, <1>c, <2>2, <2>5, CallbackLands
<1>3. CASE Enter(b, "rollback", {})
  <2>2. OthersStay(b) /\ Onto(proc'[b], "rollback", x.rec, {}, x.seen)
    BY <1>e, <1>x, <1>3, EnterMoves
  <2>3. proc'[b].pc \in Condemning /\ proc'[b].pc # "rolling_back"
        /\ proc'[b].rec.status = "VERIFYING"
    BY <1>c, <2>2 DEF Onto, Condemning
  <2>5. Copies(proc'[b]) /\ Stands(proc'[b], record, st, config)
    BY <1>x, <1>h, <2>3, CondemningStands
  <2> QED
    BY <1>1, <1>c, <2>2, <2>5, CallbackLands
<1> QED
  BY <1>2, <1>3 DEF verify_task

\* The change is read before it is moved to ROLLING_BACK.
LEMMA CondemnedReads ==
  ASSUME IInv, IInv', CompensationInv, MigrationInv, NEW b \in Procs, read_for_rollback(b)
  PROVE  MigrationInv'
<1> DEFINE x == proc[b]
           st == change.status
           pc == IF change.status \in {"EXECUTING", "VERIFYING"} THEN "roll" ELSE "rolling_back"
           y == [proc[b] EXCEPT !.seen = change.status, !.marks = {}, !.pc = pc]
<1>1. /\ At(b, "rollback") /\ UNCHANGED <<change, record>> /\ config' = config
      /\ proc' = [proc EXCEPT ![b] = y]
  BY DEF read_for_rollback, executionVars
<1>e. "rollback" \in Started /\ "rollback" \in Condemning
  BY DEF Started, Guarded, Condemning
<1>x. /\ x.pc = "rollback" /\ Where(x) = "rollback" /\ st \in Entered /\ Copies(x)
      /\ Stands(x, record, st, config) /\ proc \in [Procs -> Coroutine] /\ x \in Coroutine
  BY <1>1, <1>e, Standing
<1>c. /\ x.rec.status \in {"EXECUTING", "VERIFYING"}
      /\ x.rec.status = "VERIFYING" => Holds(x)
  BY <1>e, <1>x DEF Copies, Holds
<1>h. /\ Current(x, record) /\ x.rec.status = "EXECUTING" => ~Done(record.tasks)
      /\ x.rec.status = "VERIFYING" => st \in Closed \cup {"VERIFYING"}
  BY <1>e, <1>x, <1>c DEF Stands
<1>p. /\ pc \in Points /\ pc \in Condemning
      /\ pc = "rolling_back" => st \in Closed \cup {"COMPLETED"}
  BY <1>x DEF Points, Condemning, Entered, Closed
<1>w. st \in WorkflowState \cup {"NONE"}
  BY VersionFacts DEF Versions, Documents
<1> HIDE DEF pc
<1>2. y \in Coroutine /\ Onto(y, pc, x.rec, {}, st)
  BY <1>x, <1>p, <1>w DEF Coroutine, Onto
<1> HIDE DEF y
<1>3. OthersStay(b) /\ proc'[b] = y
  BY <1>1, <1>2, <1>x, Replaces
<1>4. y.pc = pc /\ y.rec = x.rec
  BY <1>2 DEF Onto
<1>5. /\ y.pc \in Condemning
      /\ y.rec.status \in {"EXECUTING", "VERIFYING"}
      /\ y.rec.status = "EXECUTING" /\ Current(y, record) => ~Done(record.tasks)
      /\ y.rec.status = "VERIFYING" => st \in Closed \cup {"VERIFYING"}
      /\ y.pc = "rolling_back" => st \in Closed \cup {"COMPLETED"}
  <2>1. Current(y, record) <=> Current(x, record)
    BY <1>4 DEF Current
  <2> QED
    BY <1>c, <1>h, <1>p, <1>4, <2>1
<1>6. /\ Copies(y) /\ Stands(y, record, st, config)
      /\ Holds(y) <=> y.rec.status = "VERIFYING"
  BY <1>x, <1>5, CondemningStands
<1> QED
  BY <1>1, <1>3, <1>4, <1>6, <1>c, CallbackLands

\* A sandbox is read for a snapshot.
LEMMA SnapshotMigrates ==
  ASSUME IInv, IInv', CompensationInv, MigrationInv, NEW b \in Procs, NEW s \in Steps,
         capture_snapshot(b, s)
  PROVE  MigrationInv'
<1> DEFINE x == proc[b]
<1>1. At(b, "snapshots") /\ UNCHANGED <<change, record>> /\ config' = config
  BY DEF capture_snapshot, executionVars
<1>e. "snapshots" \in Started /\ "failed" \in Ended
  BY DEF Started, Ended
<1>x. /\ x.pc = "snapshots" /\ Where(x) = "snapshots" /\ change.status \in Entered /\ Copies(x)
      /\ proc \in [Procs -> Coroutine] /\ x \in Coroutine
  BY <1>1, <1>e, Standing
<1>c. x.rec.status = "EXECUTING"
  BY <1>x DEF Copies
<1>2. CASE proc' = [proc EXCEPT ![b] = [@ EXCEPT
             !.rec.tasks[s].snap = config[s], !.marks = proc[b].marks \cup {s}]]
  <2> DEFINE y == [proc[b] EXCEPT !.rec.tasks[s].snap = config[s], !.marks = @ \cup {s}]
  <2>1. config[s] \in Configuration
    BY DEF IInv, TypeOK
  <2>2. /\ y \in Coroutine /\ y.pc = x.pc
        /\ \E task \in Task : EditedCopy(x.rec, s, task, y.rec)
    BY <1>x, <2>1, SnapshotEdit
  <2>3. proc' = [proc EXCEPT ![b] = y]
    BY <1>2
  <2> HIDE DEF y
  <2>4. y.pc = "snapshots" /\ y.rec.status = "EXECUTING"
    BY <1>x, <1>c, <2>2 DEF EditedCopy
  <2>5. OthersStay(b) /\ proc'[b] = y
    BY <1>x, <2>2, <2>3, Replaces
  <2>6. Copies(y) /\ Stands(y, record, change.status, config) /\ ~Holds(y)
    BY <1>x, <2>4, ExecutingStands
  <2> QED
    BY <1>1, <2>5, <2>6, CallbackLands
<1>3. CASE Goto(b, "failed")
  BY <1>1, <1>e, <1>3, EndMigrates
<1> QED
  BY <1>2, <1>3 DEF capture_snapshot

\* Systems are restored once the change is closed: it is neither verified any
\* more nor completed.
LEMMA RestoreMigrates ==
  ASSUME IInv, IInv', CompensationInv, MigrationInv, NEW b \in Procs, NEW s \in Steps,
         restore(b, s) \/ check_restored(b, s)
  PROVE  MigrationInv'
<1> DEFINE x == proc[b]
<1>1. /\ change' = change /\ record' = record
      /\ At(b, "restore") \/ At(b, "restored")
      /\ Goto(b, "restored") \/ \E status \in Undone : TaskRestored(b, s, status)
  BY DEF restore, check_restored, Undone
<1>e. {"restore", "restored"} \subseteq Started \cap Undoing /\ "restored" \in Points \ Ended
  BY DEF Started, Guarded, Undoing, Points, Ended
<1>x. /\ Where(x) \in Undoing /\ Stands(x, record, change.status, config)
      /\ proc \in [Procs -> Coroutine]
  BY <1>1, <1>e, Standing
<1>c. change.status \in Closed /\ change'.status \in Closed
  BY <1>1, <1>x DEF Stands
<1>2. OthersStay(b) /\ proc'[b].pc \in {"restore", "restored", "rolled_back"}
  <2>1. CASE Goto(b, "restored")
    BY <1>e, <1>x, <2>1, GotoMoves DEF Moved, Onto
  <2>2. ASSUME NEW status \in Undone, TaskRestored(b, s, status)
        PROVE  OthersStay(b) /\ proc'[b].pc \in {"restore", "restored", "rolled_back"}
    BY <1>x, <2>2, TaskIsRecorded DEF Recorded
  <2> QED
    BY <1>1, <2>1, <2>2
<1>3. Copies(proc'[b]) /\ Stands(proc'[b], record', change'.status, config') /\ ~Holds(proc'[b])
  BY <1>c, <1>2, UndoingStands
<1>4. RecordFollows /\ WorkStays /\ GoesOn(change.status, change'.status)
      /\ change'.status # "COMPLETED"
  BY <1>1, <1>c DEF RecordFollows, WorkStays, GoesOn, Closed
<1> QED
  BY <1>2, <1>3, <1>4, MigrationStep

\* The callback as a whole.
LEMMA ResumeMigrates ==
  ASSUME IInv, IInv', CompensationInv, MigrationInv, Calm', NEW b \in Procs, resume_approval(b)
  PROVE  MigrationInv'
<1>1. CASE get_change(b) \/ resume_record(b)
  <2>1. UNCHANGED executionVars
    BY <1>1 DEF get_change, resume_record
  <2> QED
    BY <1>1, <2>1, CallbackBegins
<1>2. CASE finish_rejected(b) \/ finish_changes_requested(b) \/ finish_completed(b)
           \/ finish_rolled_back(b)
  <2>1. UNCHANGED executionVars
    BY <1>2 DEF finish_rejected, finish_changes_requested, finish_completed, finish_rolled_back
  <2> QED
    BY <1>2, <2>1, CallbackAnswers
<1>3. CASE \/ follow_decision(b) \/ mark_executing(b) \/ store_snapshots(b) \/ store_wave(b)
           \/ mark_verifying(b) \/ mark_rolling_back(b) \/ store_rollback(b)
  BY <1>3, DecisionMigrates, ExecutingMarked, SnapshotsKept, WaveKept, VerifyingMarked,
     RollingBackMarked, RollbackKept
<1>4. CASE \/ start_verifying(b) \/ start_completing(b) \/ start_rollback(b) \/ end_rollback(b)
           \/ execute_dag(b) \/ read_for_rollback(b)
  BY <1>4, VerificationAsked, CompletionAsked, RollbackAsked, OutcomeAsked, DagMigrates,
     CondemnedReads
<1>5. ASSUME NEW s \in Steps,
             capture_snapshot(b, s) \/ verify_task(b, s) \/ restore(b, s) \/ check_restored(b, s)
      PROVE  MigrationInv'
  BY <1>5, CheckMigrates, SnapshotMigrates, RestoreMigrates
<1>6. CASE transition(b) /\ UNCHANGED executionVars
  BY <1>6, TransitionMigrates
<1> QED
  BY <1>1, <1>2, <1>3, <1>4, <1>5, <1>6 DEF resume_approval

-----------------------------------------------------------------------------
(* Tool calls, every step, and the result.                                 *)

\* A step that leaves the change, the record and the coroutines alone and
\* restores nothing.
LEMMA ElsewhereMigrates ==
  ASSUME IInv, IInv', MigrationInv, UNCHANGED <<change, record, proc>>,
         \A s \in Steps : config[s] = "new_field" => config'[s] = "new_field"
  PROVE  MigrationInv'
<1>1. RecordFollows /\ WorkStays /\ GoesOn(change.status, change'.status)
  BY DEF RecordFollows, WorkStays, GoesOn
<1> QED
  BY <1>1, MigrationStays

\* The outcome of a tool call is a result in the copy of whoever waits for it.
LEMMA OutcomeMigrates ==
  ASSUME IInv, IInv', CompensationInv, MigrationInv, UNCHANGED <<change, record, config>>,
         NEW k \in calls, NEW outcome, NEW rest, TaskOutcome(k, outcome, rest)
  PROVE  MigrationInv'
<1>k. k \in Call /\ k.by \in Procs /\ k.step \in Steps
  BY DEF IInv, TypeOK, Call, Procs
<1> DEFINE p == k.by
           status == IF outcome = "ok" THEN "SUCCEEDED" ELSE "FAILED"
           y == [proc[p] EXCEPT !.rec.tasks[k.step].status = status]
<1>1. proc' = proc \/ (k.waited /\ proc' = [proc EXCEPT ![p] = y])
  BY DEF TaskOutcome
<1>2. CASE k.waited /\ proc' = [proc EXCEPT ![p] = y]
  <2>1. At(p, "wave") /\ "wave" \in Started
    BY <1>2 DEF IInv, Waiting, At, Started, Guarded
  <2>2. status \in TaskStatus
    BY DEF TaskStatus
  <2> HIDE DEF status
  <2>v. proc[p] \in Coroutine
    BY <1>k, VersionFacts DEF Versions, Documents
  <2>3. /\ y \in Coroutine /\ y.pc = proc[p].pc /\ y.marks = proc[p].marks
        /\ \E task \in Task : /\ task.status = status /\ task.snap = proc[p].rec.tasks[k.step].snap
                              /\ EditedCopy(proc[p].rec, k.step, task, y.rec)
    BY <1>k, <2>v, <2>2, StatusTaken
  <2> HIDE DEF y
  <2>p. p \in Procs
    BY <1>k
  <2> HIDE DEF p
  <2>4. /\ proc[p].pc = "wave" /\ Where(proc[p]) = "wave" /\ change.status \in Entered
        /\ Copies(proc[p]) /\ proc \in [Procs -> Coroutine]
    BY <2>1, <2>p, Standing
  <2>5. proc[p].rec.status = "EXECUTING" /\ proc[p].marks # {}
    BY <2>4 DEF Copies
  <2>6. y.pc = "wave" /\ y.rec.status = "EXECUTING" /\ y.marks # {}
    BY <2>3, <2>4, <2>5 DEF EditedCopy
  <2>7. y.pc \in {"executing", "snapshots", "dag", "wave", "executed"} /\ y.pc # "executed"
    BY <2>6
  <2>8. Copies(y) /\ Stands(y, record, change.status, config) /\ ~Holds(y)
    BY <2>4, <2>6, <2>7, WorkingStands
  <2>9. OthersStay(p) /\ proc'[p] = y
    BY <1>2, <2>p, <2>3, <2>4, Replaces
  <2> QED
    BY <2>p, <2>8, <2>9, CallbackLands
<1>3. CASE proc' = proc
  BY <1>3, ElsewhereMigrates
<1> QED
  BY <1>1, <1>2, <1>3

\* A patch only migrates.
LEMMA PatchMigrates ==
  ASSUME IInv, IInv', MigrationInv, NEW k \in calls, apply_patch(k)
  PROVE  MigrationInv'
<1>1. UNCHANGED <<change, record, proc>>
  BY DEF apply_patch
<1>2. config' = config \/ config' = [config EXCEPT ![k.step] = "new_field"]
  BY DEF apply_patch
<1>3. config \in [Steps -> Configuration]
  BY DEF IInv, TypeOK
<1>4. \A s \in Steps : config[s] = "new_field" => config'[s] = "new_field"
  BY <1>2, <1>3
<1> QED
  BY <1>1, <1>4, ElsewhereMigrates

\* Everything a request goes through.
LEMMA CallMigrates ==
  ASSUME IInv, IInv', CompensationInv, MigrationInv, NEW k \in calls,
         gateway_request(k) \/ client_timeout(k) \/ worker_crash(k)
  PROVE  MigrationInv'
<1>1. CASE apply_patch(k)
  BY <1>1, PatchMigrates
<1>2. CASE \/ evaluate_policy(k) \/ reserve_execution(k) \/ complete_execution(k)
           \/ fail_execution(k) \/ client_timeout(k) \/ worker_crash(k)
  <2>1. UNCHANGED <<change, record, config>>
    BY <1>2 DEF evaluate_policy, reserve_execution, complete_execution, fail_execution,
                client_timeout, worker_crash
  <2>2. proc' = proc \/ \E outcome, rest : TaskOutcome(k, outcome, rest)
    BY <1>2 DEF evaluate_policy, reserve_execution, complete_execution, fail_execution,
                client_timeout, worker_crash, Answer
  <2> QED
    BY <2>1, <2>2, OutcomeMigrates, ElsewhereMigrates
<1> QED
  BY <1>1, <1>2 DEF gateway_request

\* The event side.
LEMMA IntakeMigrates ==
  ASSUME IInv, IInv', CompensationInv, MigrationInv, Calm', IntakeNext, UNCHANGED executionVars
  PROVE  MigrationInv'
<1>1. ASSUME NEW d \in Deliveries, deliver(d) \/ handle_message(d) \/ interrupt(d)
      PROVE  MigrationInv'
  <2>1. d \in Procs
    BY DEF Procs
  <2>2. CASE process_event(d)
    BY <2>1, <2>2, EventMigrates, EventStores, AnalyzeMigrates, CreateMigrates,
       TransitionMigrates DEF process_event
  <2> QED
    BY <1>1, <2>1, <2>2, EventMigrates DEF handle_message
<1>2. CASE pubsub_forward
  BY <1>2, ElsewhereMigrates DEF pubsub_forward, storeVars, executionVars
<1> QED
  BY <1>1, <1>2 DEF IntakeNext

\* No step breaks the invariant, unless the change needs attention.
LEMMA NextMigrates ==
  ASSUME IInv, CompensationInv, MigrationInv, [Next]_vars, Calm'
  PROVE  MigrationInv'
<1>i. IInv'
  BY NextStep
<1>1. CASE IntakeNext /\ UNCHANGED executionVars
  BY <1>i, <1>1, IntakeMigrates
<1>2. CASE ExecutionNext
  <2>1. ASSUME NEW decision \in DOMAIN Path, decide_approval(decision) PROVE MigrationInv'
    BY <1>i, <2>1, ElsewhereMigrates DEF decide_approval, executionVars
  <2>2. CASE expire
    BY <1>i, <2>2, ElsewhereMigrates DEF expire, executionVars
  <2>3. ASSUME NEW b \in Callbacks, notify(b) \/ resume_approval(b) \/ callback_crash(b)
        PROVE  MigrationInv'
    <3>1. b \in Procs
      BY CallbackIsProc
    <3>2. CASE callback_crash(b)
      <4>1. UNCHANGED <<change, record, config>> /\ Goto(b, "failed") /\ "failed" \in Ended
        BY <3>2 DEF callback_crash, Ended
      <4> QED
        BY <1>i, <3>1, <4>1, EndMigrates
    <3>3. CASE notify(b)
      <4>1. UNCHANGED executionVars
        BY <3>3 DEF notify
      <4> QED
        BY <1>i, <3>1, <3>3, <4>1, CallbackBegins
    <3> QED
      BY <1>i, <2>3, <3>1, <3>2, <3>3, ResumeMigrates
  <2>4. ASSUME NEW k \in calls, gateway_request(k) \/ client_timeout(k) \/ worker_crash(k)
        PROVE  MigrationInv'
    BY <1>i, <2>4, CallMigrates
  <2> QED
    BY <1>2, <2>1, <2>2, <2>3, <2>4 DEF ExecutionNext
<1>3. CASE /\ \E target \in UserTargets : user_transition(target)
           /\ UNCHANGED <<intakeVars, executionVars>>
  <2>1. UNCHANGED executionVars
    BY <1>3
  <2> QED
    BY <1>i, <1>3, <2>1, UserMigrates
<1>4. CASE UNCHANGED vars
  BY <1>i, <1>4, ElsewhereMigrates DEF vars, storeVars, executionVars
<1> QED
  BY <1>1, <1>2, <1>3, <1>4 DEF Next

\* It holds before the event is delivered.
LEMMA InitMigrates ==
  ASSUME Init
  PROVE  MigrationInv
<1>i. change.status = "NONE" /\ \A p \in Procs : proc[p] = Idle
  BY DEF Init, StoreInit, NoChange
<1>1. Idle.pc = "idle" /\ Idle.rec = NoRecord /\ Idle.marks = {} /\ Idle.seen = "NONE"
  BY DEF Idle
<1>2. Over(Idle)
  BY <1>1 DEF Over, Ended
<1>3. Copies(Idle) /\ Stands(Idle, record, change.status, config) /\ ~Holds(Idle)
  BY <1>2, OverStands
<1> QED
  BY <1>i, <1>3 DEF MigrationInv, OneHolder

\* A change that needs attention has it on its audit trail, and until then it
\* is migrated the way MigrationInv says.
AttentionInv ==
  /\ change.status = "NEEDS_ATTENTION" => change.attention
  /\ ~change.attention => MigrationInv

\* Every step keeps this: one that leaves the trail without attention started
\* without it and does not end in NEEDS_ATTENTION.
LEMMA NextAttends ==
  ASSUME IInv, CompensationInv, AttentionInv, [Next]_vars
  PROVE  AttentionInv'
<1>1. ChangeGrows(change, change')
  BY NextStep DEF Grows
<1>2. change'.status = "NEEDS_ATTENTION" => change'.attention
  BY <1>1 DEF ChangeGrows, AttentionInv
<1>3. ASSUME ~change'.attention
      PROVE  MigrationInv'
  <2>1. ~change.attention
    BY <1>1, <1>3 DEF ChangeGrows
  <2>2. Calm'
    BY <1>2, <1>3 DEF Calm
  <2> QED
    BY <2>1, <2>2, NextMigrates DEF AttentionInv
<1> QED
  BY <1>2, <1>3 DEF AttentionInv

\* A completed change is migrated, unless it has needed attention: whatever
\* overlapping callbacks, late tool calls and deliveries, crashes and a user's
\* cancel and retry do, when _verify moves a change to COMPLETED no callback
\* undoes a system any more, and none was undone since it was checked.  (A
\* change that shows NEEDS_ATTENTION on its way may be verified by one
\* callback while another is still restoring: see the README, "Further gaps".)
THEOREM CompletedIsMigrated == Spec => []CompletedMeansMigrated
<1>1. Init => AttentionInv
  <2> SUFFICES ASSUME Init PROVE AttentionInv
    OBVIOUS
  <2>1. change.status = "NONE"
    BY DEF Init, StoreInit, NoChange
  <2> QED
    BY <2>1, InitMigrates DEF AttentionInv
<1>2. IInv /\ CompensationInv /\ AttentionInv /\ [Next]_vars => AttentionInv'
  BY NextAttends
<1>3. AttentionInv => CompletedMeansMigrated
  BY DEF AttentionInv, MigrationInv, Migrated, CompletedMeansMigrated
<1> QED
  BY <1>1, <1>2, <1>3, Invariant, CompensationInvariant, PTL DEF Spec
=============================================================================
