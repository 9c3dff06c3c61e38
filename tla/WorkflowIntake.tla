--------------------------- MODULE WorkflowIntake ---------------------------
(***************************************************************************)
(* The event side of the coordinator: the Pub/Sub subscriber and           *)
(* WorkflowEngine.process_event, from a delivered event to a pending       *)
(* approval, a terminal record or the dead-letter topic.                   *)
(*                                                                         *)
(* Deliveries are at least once: each member of Deliveries may start at any *)
(* time, together with any other, and may die at any of its steps.         *)
(***************************************************************************)
EXTENDS WorkflowStores

VARIABLES
  event,         \* the payload: "api.contract.changed", another type, garbage
  deadLetters,   \* the record is in the dead-letter collection
  deadTopic,     \* messages on the Pub/Sub dead-letter topic
  forwarded      \* Pub/Sub gave up and forwarded the message itself

intakeVars == <<event, deadLetters, deadTopic, forwarded>>

Events == {"api.contract.changed", "other", "malformed"}

IntakeInit ==
  /\ event \in Events
  /\ deadLetters = FALSE
  /\ deadTopic = 0
  /\ forwarded = FALSE

\* Mutant: a record that is being analysed counts as taken care of.
Settled_early ==
  {"ANALYZING", "WAITING_APPROVAL", "EXECUTING", "VERIFYING", "ROLLING_BACK"} \cup Terminal

\* Statuses for which process_event returns the record it found.
Settled ==
  {"WAITING_APPROVAL", "EXECUTING", "VERIFYING", "ROLLING_BACK"} \cup Terminal

-----------------------------------------------------------------------------
(* The subscriber's message handler.                                       *)

deliver(d) ==
  /\ At(d, "idle")
  /\ Goto(d, IF event = "malformed" THEN "publish" ELSE "get")
  /\ UNCHANGED <<change, record, approval, expired, intakeVars>>

\* After the engine returned a record.
Returned(rec) == IF rec.status = "DEAD_LETTERED" THEN "publish" ELSE "ack"

\* Mutant: the message is acknowledged although the publish failed.
publish_dead_letter_unchecked(d) ==
  /\ At(d, "publish")
  /\ deadTopic' \in {deadTopic, deadTopic + 1}
  /\ Goto(d, "ack")
  /\ UNCHANGED <<change, record, approval, expired, event, deadLetters, forwarded>>

\* A publish that fails leaves the message unacknowledged.
publish_dead_letter(d) ==
  /\ At(d, "publish")
  /\ \/ /\ deadTopic' = deadTopic + 1
        /\ Goto(d, "ack")
     \/ /\ Goto(d, "nacked")
        /\ UNCHANGED deadTopic
  /\ UNCHANGED <<change, record, approval, expired, event, deadLetters, forwarded>>

ack(d) ==
  /\ At(d, "ack")
  /\ Goto(d, "acked")
  /\ UNCHANGED <<change, record, approval, expired, intakeVars>>

\* The coordinator dies, or the handler gives up after its 300 s and cancels
\* the coroutine: Pub/Sub will deliver again.
interrupt(d) ==
  /\ Running(d)
  /\ Goto(d, "nacked")
  /\ UNCHANGED <<change, record, approval, expired, intakeVars>>

\* The dead_letter_policy of the subscription, once every delivery failed.
pubsub_forward ==
  /\ \A d \in Deliveries : At(d, "nacked")
  /\ ~forwarded
  /\ forwarded' = TRUE
  /\ deadTopic' = deadTopic + 1
  /\ UNCHANGED <<storeVars, event, deadLetters>>

-----------------------------------------------------------------------------
(* process_event: find or create the record.                               *)

get_record(d) ==
  /\ At(d, "get")
  /\ GotoWith(d, record, IF record = NoRecord THEN "create"
                         ELSE IF record.status \in Settled THEN Returned(record)
                         ELSE "attempt")
  /\ UNCHANGED <<change, record, approval, expired, intakeVars>>

\* Only "api.contract.changed" has a workflow.
Supported == IF event = "api.contract.changed" THEN "ensure" ELSE "dead"

\* delivery_attempts + 1
count_attempt(d) ==
  /\ At(d, "attempt")
  /\ update_record(d, proc[d].rec, Supported)
  /\ UNCHANGED intakeVars

\* The record another delivery created meanwhile is used whatever its status.
create_or_get(d) ==
  /\ At(d, "create")
  /\ record' = IF record = NoRecord
                 THEN [NoRecord EXCEPT !.status = "RECEIVED", !.version = 1]
                 ELSE record
  /\ GotoWith(d, record', Supported)
  /\ UNCHANGED <<change, approval, expired, intakeVars>>

ensure_change(d) ==
  /\ At(d, "ensure")
  /\ change' = IF change = NoChange
                 THEN [NoChange EXCEPT !.status = "RECEIVED", !.version = 1]
                 ELSE change
  /\ Goto(d, "analyzing")
  /\ UNCHANGED <<record, approval, expired, intakeVars>>

mark_analyzing(d) ==
  /\ At(d, "analyzing")
  /\ set_runtime_status(d, "ANALYZING", FALSE, "screening")
  /\ UNCHANGED intakeVars

-----------------------------------------------------------------------------
(* process_event: screening, analysis, the plan.                           *)

\* A step that reads the change and keeps its status.
read_change(p, cont) ==
  proc' = [proc EXCEPT ![p] = [@ EXCEPT !.seen = change.status, !.pc = cont]]

read_received(d) ==
  /\ At(d, "screening")
  /\ read_change(d, IF change.status = "RECEIVED" THEN "screen" ELSE "analyze")
  /\ UNCHANGED <<change, record, approval, expired, intakeVars>>

screen(d) ==
  /\ At(d, "screen")
  /\ begin_transition(d, "SCREENING", "analyze")
  /\ UNCHANGED <<change, record, approval, expired, intakeVars>>

\* The fleet's answer: a plan (NoPlan is one whose scope or hash is wrong), a
\* security block, a transient or a permanent failure.
analyze(d) ==
  /\ At(d, "analyze")
  /\ \/ /\ proc[d].rec.plan # NoPlan
        /\ Goto(d, "advance")
     \/ /\ proc[d].rec.plan = NoPlan
        /\ \/ \E plan \in Plans \cup {NoPlan} :
                proc' = [proc EXCEPT ![d] = [@ EXCEPT !.draft = plan,
                                                      !.pc = "analyzed"]]
           \/ Goto(d, "block")
           \/ Goto(d, "nacked")
           \/ Goto(d, "dead")
  /\ UNCHANGED <<change, record, approval, expired, intakeVars>>

block(d) ==
  /\ At(d, "block")
  /\ begin_transition(d, "BLOCKED", "blocked")
  /\ UNCHANGED <<change, record, approval, expired, intakeVars>>

finish_blocked(d) ==
  /\ At(d, "blocked")
  /\ terminal(d, "FAILED", TRUE, "ack")
  /\ UNCHANGED intakeVars

read_screening(d) ==
  /\ At(d, "analyzed")
  /\ read_change(d, IF change.status = "SCREENING" THEN "screened" ELSE "drafted")
  /\ UNCHANGED <<change, record, approval, expired, intakeVars>>

screened(d) ==
  /\ At(d, "screened")
  /\ begin_transition(d, "ANALYZING", "drafted")
  /\ UNCHANGED <<change, record, approval, expired, intakeVars>>

\* Mutant: the scope and the hash of the plan are not checked.
store_plan_unchecked(d) ==
  /\ At(d, "drafted")
  /\ update_record(d, [proc[d].rec EXCEPT !.plan = proc[d].draft], "advance")
  /\ UNCHANGED intakeVars

store_plan(d) ==
  /\ At(d, "drafted")
  /\ \/ /\ proc[d].draft = NoPlan
        /\ Goto(d, "dead")
        /\ UNCHANGED <<change, record, approval, expired>>
     \/ /\ proc[d].draft # NoPlan
        /\ update_record(d, [proc[d].rec EXCEPT !.plan = proc[d].draft], "advance")
  /\ UNCHANGED intakeVars

-----------------------------------------------------------------------------
(* process_event: up to AWAITING_APPROVAL and the approval request.        *)

advance(d) ==
  /\ At(d, "advance")
  /\ read_change(d, "climb")
  /\ UNCHANGED <<change, record, approval, expired, intakeVars>>

\* The next state on the way to AWAITING_APPROVAL.
Climb == [SCREENING |-> "ANALYZING", ANALYZING |-> "PLAN_READY",
          PLAN_READY |-> "AWAITING_APPROVAL"]

\* The ladder of ifs on the change as last read or written by this coroutine.
\* Any other status is a permanent error, which the subscriber dead-letters
\* on the topic only.
climb(d) ==
  /\ At(d, "climb")
  /\ LET status == proc[d].seen IN
     \/ /\ status \in DOMAIN Climb
        /\ begin_transition(d, Climb[status], "climb")
     \/ /\ status = "AWAITING_APPROVAL"
        /\ Goto(d, "request")
     \/ /\ status \notin DOMAIN Climb \cup {"AWAITING_APPROVAL"}
        /\ Goto(d, "publish")
  /\ UNCHANGED <<change, record, approval, expired, intakeVars>>

\* The gateway's checks before it stores an approval request.  A refusal is
\* permanent, an unreachable gateway transient.
request_approval(d) ==
  /\ At(d, "request")
  /\ \/ Goto(d, "nacked")
     \/ Goto(d, IF /\ ~expired
                   /\ change.status = "AWAITING_APPROVAL"
                   /\ change.plan = proc[d].rec.plan
                  THEN "create_approval" ELSE "dead")
  /\ UNCHANGED <<change, record, approval, expired, intakeVars>>

\* create_approval_request: an existing request is returned only if it is
\* the same in every field but its creation time, status included.
create_approval_request(d) ==
  /\ At(d, "create_approval")
  /\ LET wanted == [status |-> "PENDING", plan |-> proc[d].rec.plan] IN
     \/ /\ approval \in {NoApproval, wanted}
        /\ approval' = wanted
        /\ Goto(d, "approval_created")
     \/ /\ approval \notin {NoApproval, wanted}
        /\ Goto(d, "dead")
        /\ UNCHANGED approval
  /\ UNCHANGED <<change, record, expired, intakeVars>>

\* The answer may be lost on its way back.
await_approval(d) ==
  /\ At(d, "approval_created")
  /\ \/ set_runtime_status(d, "WAITING_APPROVAL", FALSE, "ack")
     \/ /\ Goto(d, "nacked")
        /\ UNCHANGED <<change, record, approval, expired>>
  /\ UNCHANGED intakeVars

-----------------------------------------------------------------------------
(* _dead_letter: the terminal record, then the collection, then the topic. *)

dead_letter(d) ==
  /\ At(d, "dead")
  /\ terminal(d, "DEAD_LETTERED", TRUE, "dead_letter_record")
  /\ UNCHANGED intakeVars

record_dead_letter(d) ==
  /\ At(d, "dead_letter_record")
  /\ deadLetters' = TRUE
  /\ Goto(d, "publish")
  /\ UNCHANGED <<change, record, approval, expired, event, deadTopic, forwarded>>

process_event(d) ==
  \/ get_record(d) \/ count_attempt(d) \/ create_or_get(d)
  \/ ensure_change(d) \/ mark_analyzing(d)
  \/ read_received(d) \/ screen(d) \/ analyze(d)
  \/ block(d) \/ finish_blocked(d)
  \/ read_screening(d) \/ screened(d) \/ store_plan(d)
  \/ advance(d) \/ climb(d)
  \/ request_approval(d) \/ create_approval_request(d) \/ await_approval(d)
  \/ dead_letter(d) \/ record_dead_letter(d)
  \/ transition(d) /\ UNCHANGED intakeVars

\* A delivery runs on its own, but for interruptions.
handle_message(d) == process_event(d) \/ publish_dead_letter(d) \/ ack(d)

IntakeNext ==
  \/ \E d \in Deliveries : deliver(d) \/ handle_message(d) \/ interrupt(d)
  \/ pubsub_forward
=============================================================================
