----------------------------- MODULE ToolGateway -----------------------------
(***************************************************************************)
(* evaluate_and_execute of the Tool Gateway, any number of requests at     *)
(* once, in front of one Sandbox: policy and its audit, the concurrency    *)
(* quota, the idempotency reservation, the adapter call, the ledger, the   *)
(* audit of the outcome.  Every await is a step boundary.                  *)
(*                                                                         *)
(* An intent stands for its _semantic_input_hash: requests repeat it with  *)
(* other intent_ids.  A patch that was sent stays in flight until the      *)
(* sandbox handles it, whether or not its sender still waits, and a        *)
(* reservation may pass its two minutes while its owner is only slow.  The *)
(* ledger and the audit are in Firestore and survive a crash; requests and *)
(* quota do not.  Changes are driven by the workflow coordinator, which    *)
(* takes the snapshots, verifies and restores.                             *)
(***************************************************************************)
EXTENDS FiniteSets, Sandbox

CONSTANTS
  Requests,        \* calls of the route
  Intents,         \* the semantically different tool intents
  MaxConcurrent,   \* maximum_concurrent_per_tool
  MaxFaults        \* bound: crashes, uncaught exceptions, sandbox resets and injections

Intent ==
  [change : Changes, idempotency_key : Keys, old_field : Fields, new_field : Fields]

ASSUME IntentsAssumption == Intents \subseteq Intent
ASSUME MaxConcurrentAssumption == MaxConcurrent \in Nat \ {0}
ASSUME MaxFaultsAssumption == MaxFaults \in Nat
ASSUME RequestsAssumption == IsFiniteSet(Requests)

VARIABLES
  phase,      \* each change before, in and after EXECUTING
  expired,    \* changes whose approval has expired
  ledger,     \* the ToolExecutionRecord of each key
  stale,      \* keys whose reservation was made over two minutes ago
  active,     \* ToolQuotaManager._active
  audit,      \* audit events: event type and intent
  req,        \* the requests
  inflight,   \* patches on their way to the sandbox
  resets,     \* history: sandbox resets
  orphaned,   \* history: keys whose reservation a request held when it died
  unaudited,  \* history: intents whose request died before its success audit
  faults      \* faults so far

gatewayVars == <<ledger, stale, active, audit, req, inflight>>
faultVars == <<resets, orphaned, unaudited, faults>>
vars == <<sandboxVars, phase, expired, gatewayVars, faultVars>>

NoIntent ==
  [change |-> None, idempotency_key |-> None, old_field |-> None, new_field |-> None]
NoExecution ==
  [status |-> "NONE", attempt_count |-> 0, input |-> NoIntent, output |-> NoResult]

ExecutionStatus == {"NONE", "RESERVED", "SUCCEEDED", "FAILED"}
Execution ==
  [status : ExecutionStatus, attempt_count : Nat, input : Intents \cup {NoIntent},
   output : PatchResult \cup {NoResult}]

\* A request: where it is and the intent it carries.
Answered == {"idle", "refused", "rate_limited", "conflict", "result", "tool_error",
             "error", "lost"}
Holding == {"reserve", "replay", "execute", "waiting"}          \* a quota slot
Owning == {"execute", "waiting", "complete", "fail"}            \* a reservation
Pcs == Answered \cup Holding \cup Owning \cup
       {"allowed", "denied", "quota", "audit_success", "audit_failure"}

Phases == {"APPROVED", "EXECUTING", "OVER"}
AuditEvents == {"DENIED", "ALLOWED", "REPLAYED", "SUCCEEDED", "FAILED"}

Init ==
  /\ SandboxInit
  /\ phase = [c \in Changes |-> "APPROVED"]
  /\ expired = {}
  /\ ledger = [k \in Keys |-> NoExecution]
  /\ stale = {}
  /\ active = 0
  /\ audit = {}
  /\ req = [r \in Requests |-> [pc |-> "idle", intent |-> NoIntent]]
  /\ inflight = {}
  /\ resets = 0
  /\ orphaned = {}
  /\ unaudited = {}
  /\ faults = 0

At(r, pc) == req[r].pc = pc
KeyOf(r) == req[r].intent.idempotency_key

Goto(r, pc) == req' = [req EXCEPT ![r] = [pc |-> pc, intent |-> req[r].intent]]

\* An audit event of request r: a new document.
record_audit(r, event) == audit' = audit \cup {<<event, req[r].intent>>}

-----------------------------------------------------------------------------
(* Policy.                                                                 *)

\* validate_arguments: the registered tool's schema.
Acceptable(i) == i.old_field # i.new_field

\* PolicyEngine.evaluate: EXECUTING and a current approval (that the intent
\* is the approved plan's step is its being an intent of the change).
PolicyAllows(i) ==
  /\ Acceptable(i)
  /\ phase[i.change] = "EXECUTING"
  /\ i.change \notin expired

evaluate(r, i) ==
  /\ At(r, "idle")
  /\ req' = [req EXCEPT ![r] =
       [pc |-> IF PolicyAllows(i) THEN "allowed" ELSE "denied", intent |-> i]]
  /\ UNCHANGED <<sandboxVars, phase, expired, ledger, stale, active, audit, inflight, faultVars>>

\* Mutant: an allowing decision is not audited.
audit_allowed_silently(r) ==
  /\ At(r, "allowed")
  /\ Goto(r, "quota")
  /\ UNCHANGED <<sandboxVars, phase, expired, ledger, stale, active, audit, inflight, faultVars>>

audit_allowed(r) ==
  /\ At(r, "allowed")
  /\ record_audit(r, "ALLOWED")
  /\ Goto(r, "quota")
  /\ UNCHANGED <<sandboxVars, phase, expired, ledger, stale, active, inflight, faultVars>>

audit_denied(r) ==
  /\ At(r, "denied")
  /\ record_audit(r, "DENIED")
  /\ Goto(r, "refused")
  /\ UNCHANGED <<sandboxVars, phase, expired, ledger, stale, active, inflight, faultVars>>

-----------------------------------------------------------------------------
(* Quota and reservation.                                                  *)

\* ToolQuotaManager.acquire on entry; its finally on every way out.
acquire(r) ==
  /\ At(r, "quota")
  /\ \/ /\ active < MaxConcurrent
        /\ active' = active + 1
        /\ Goto(r, "reserve")
     \/ /\ active >= MaxConcurrent
        /\ Goto(r, "rate_limited")
        /\ UNCHANGED active
  /\ UNCHANGED <<sandboxVars, phase, expired, ledger, stale, audit, inflight, faultVars>>

release == active' = active - 1

\* Mutant: only a request that got a reservation gives its slot back.
refuse_reservation_leaks(r, answer) ==
  /\ Goto(r, answer)
  /\ UNCHANGED <<ledger, stale, active, orphaned>>

\* reserve_execution raises inside the quota's context.
refuse_reservation(r, answer) ==
  /\ Goto(r, answer)
  /\ release
  /\ UNCHANGED <<ledger, stale, orphaned>>

SameInput(k, i) == ledger[k].input \in {NoIntent, i}

InProgress(k) == ledger[k].status = "RESERVED" /\ k \notin stale

reserve(r, k, i) ==
  /\ ledger' = [ledger EXCEPT ![k] =
       [status |-> "RESERVED", attempt_count |-> ledger[k].attempt_count + 1,
        input |-> i, output |-> NoResult]]
  /\ stale' = stale \ {k}
  /\ orphaned' = orphaned \ {k}
  /\ Goto(r, "execute")
  /\ UNCHANGED active

\* The approval is read again and must still be current.  A success is
\* replayed, a failed or stale reservation is taken over.
reserve_execution(r) ==
  LET k == KeyOf(r)
      i == req[r].intent IN
  /\ At(r, "reserve")
  /\ \/ /\ i.change \in expired
        /\ refuse_reservation(r, "refused")
     \/ /\ i.change \notin expired
        /\ ~SameInput(k, i)
        /\ refuse_reservation(r, "conflict")
     \/ /\ i.change \notin expired
        /\ SameInput(k, i)
        /\ ledger[k].status = "SUCCEEDED"
        /\ Goto(r, "replay")
        /\ UNCHANGED <<ledger, stale, active, orphaned>>
     \/ /\ i.change \notin expired
        /\ SameInput(k, i)
        /\ InProgress(k)
        /\ refuse_reservation(r, "conflict")
     \/ /\ i.change \notin expired
        /\ SameInput(k, i)
        /\ ledger[k].status # "SUCCEEDED"
        /\ ~InProgress(k)
        /\ reserve(r, k, i)
  /\ UNCHANGED <<sandboxVars, phase, expired, audit, inflight, resets, unaudited, faults>>

audit_replay(r) ==
  /\ At(r, "replay")
  /\ record_audit(r, "REPLAYED")
  /\ release
  /\ Goto(r, "result")
  /\ UNCHANGED <<sandboxVars, phase, expired, ledger, stale, inflight, faultVars>>

-----------------------------------------------------------------------------
(* The adapter call.                                                       *)

Patch(i) == [idempotency_key |-> i.idempotency_key, old_field |-> i.old_field,
             new_field |-> i.new_field]

post(r) ==
  /\ At(r, "execute")
  /\ inflight' = inflight \cup {r}
  /\ Goto(r, "waiting")
  /\ UNCHANGED <<sandboxVars, phase, expired, ledger, stale, active, audit, faultVars>>

\* execute accepts only the result of exactly this patch.
Accepted(r, answer) ==
  /\ answer.status < 400
  /\ answer.result.before = req[r].intent.old_field
  /\ answer.result.after = req[r].intent.new_field

\* The sandbox handles the patch; the answer ends the call if it still waits.
\* Leaving the quota's context comes with it.
deliver(r) ==
  LET p == Patch(req[r].intent) IN
  /\ r \in inflight
  /\ inflight' = inflight \ {r}
  /\ apply(p)
  /\ \/ /\ At(r, "waiting")
        /\ release
        /\ Goto(r, IF Accepted(r, ApplyAnswer(p)) THEN "complete" ELSE "fail")
     \/ /\ ~At(r, "waiting")
        /\ UNCHANGED <<active, req>>
  /\ UNCHANGED <<phase, expired, ledger, stale, audit, faultVars>>

\* The adapter's timeout, what httpx calls a network error, or no platform
\* token (which is before the patch is sent: it then stays in flight for good).
\* Other errors of the call are not caught: see uncaught.
time_out(r) ==
  /\ At(r, "waiting")
  /\ release
  /\ Goto(r, "fail")
  /\ UNCHANGED <<sandboxVars, phase, expired, ledger, stale, audit, inflight, faultVars>>

-----------------------------------------------------------------------------
(* The outcome.                                                            *)

\* Mutant: the outcome is written whatever the record says by now.
StillReserved_unchecked(k) == TRUE

StillReserved(k) == ledger[k].status = "RESERVED"

Outcome(k, status, output) ==
  [status |-> status, attempt_count |-> ledger[k].attempt_count,
   input |-> ledger[k].input, output |-> output]

complete_execution(r) ==
  LET k == KeyOf(r) IN
  /\ At(r, "complete")
  /\ \/ /\ StillReserved(k)
        /\ ledger' = [ledger EXCEPT ![k] = Outcome(k, "SUCCEEDED",
             [before |-> req[r].intent.old_field, after |-> req[r].intent.new_field])]
        /\ stale' = stale \ {k}
        /\ Goto(r, "audit_success")
     \/ /\ ~StillReserved(k)
        /\ Goto(r, "conflict")
        /\ UNCHANGED <<ledger, stale>>
  /\ UNCHANGED <<sandboxVars, phase, expired, active, audit, inflight, faultVars>>

\* Mutant: the reservation is left to run out.
fail_execution_later(r) ==
  /\ At(r, "fail")
  /\ Goto(r, "audit_failure")
  /\ UNCHANGED <<sandboxVars, phase, expired, ledger, stale, active, audit, inflight, faultVars>>

fail_execution(r) ==
  LET k == KeyOf(r) IN
  /\ At(r, "fail")
  /\ \/ /\ StillReserved(k)
        /\ ledger' = [ledger EXCEPT ![k] = Outcome(k, "FAILED", NoResult)]
        /\ stale' = stale \ {k}
        /\ Goto(r, "audit_failure")
     \/ /\ ~StillReserved(k)
        /\ Goto(r, "conflict")
        /\ UNCHANGED <<ledger, stale>>
  /\ UNCHANGED <<sandboxVars, phase, expired, active, audit, inflight, faultVars>>

audit_success(r) ==
  /\ At(r, "audit_success")
  /\ record_audit(r, "SUCCEEDED")
  /\ Goto(r, "result")
  /\ UNCHANGED <<sandboxVars, phase, expired, ledger, stale, active, inflight, faultVars>>

audit_failure(r) ==
  /\ At(r, "audit_failure")
  /\ record_audit(r, "FAILED")
  /\ Goto(r, "tool_error")
  /\ UNCHANGED <<sandboxVars, phase, expired, ledger, stale, active, inflight, faultVars>>

-----------------------------------------------------------------------------
(* The surroundings: time, the coordinator, faults.                        *)

expire(c) ==
  /\ c \notin expired
  /\ expired' = expired \cup {c}
  /\ UNCHANGED <<sandboxVars, phase, gatewayVars, faultVars>>

grow_stale(k) ==
  /\ ledger[k].status = "RESERVED"
  /\ k \notin stale
  /\ stale' = stale \cup {k}
  /\ UNCHANGED <<sandboxVars, phase, expired, ledger, active, audit, req, inflight, faultVars>>

\* The coordinator, seen from here: snapshots before the writes, and once the
\* change has left EXECUTING, restores, repeated by every repeated callback.
take_snapshot(c) ==
  /\ phase[c] = "APPROVED"
  /\ snapshot(c)
  /\ phase' = [phase EXCEPT ![c] = "EXECUTING"]
  /\ UNCHANGED <<expired, gatewayVars, faultVars>>

leave_execution(c) ==
  /\ phase[c] = "EXECUTING"
  /\ phase' = [phase EXCEPT ![c] = "OVER"]
  /\ UNCHANGED <<sandboxVars, expired, gatewayVars, faultVars>>

roll_back(c) ==
  /\ phase[c] = "OVER"
  /\ restore(c)
  /\ UNCHANGED <<phase, expired, gatewayVars, faultVars>>

Fault == faults < MaxFaults /\ faults' = faults + 1

\* The requests of R end without deciding what they had begun.
abandon(R) ==
  /\ orphaned' = orphaned \cup {KeyOf(r) : r \in {s \in R : req[s].pc \in Owning}}
  /\ unaudited' = unaudited \cup {req[r].intent : r \in {s \in R : At(s, "audit_success")}}

\* An exception that is no ToolAdapterError leaves the route, through the
\* quota's finally: httpx.RemoteProtocolError of a sandbox that closes the
\* connection under the call, or a store that fails, before or after the write.
uncaught(r) ==
  /\ Fault
  /\ req[r].pc \notin Answered
  /\ abandon({r})
  /\ Goto(r, "error")
  /\ \/ req[r].pc \in Holding /\ release
     \/ req[r].pc \notin Holding /\ UNCHANGED active
  /\ UNCHANGED <<sandboxVars, phase, expired, ledger, stale, audit, inflight, resets>>

\* The gateway's process dies with its requests; what was sent stays sent.
crash ==
  /\ Fault
  /\ abandon(Requests)
  /\ active' = 0
  /\ req' = [r \in Requests |-> [pc |-> IF req[r].pc \in Answered THEN req[r].pc ELSE "lost",
                                 intent |-> req[r].intent]]
  /\ UNCHANGED <<sandboxVars, phase, expired, ledger, stale, audit, inflight, resets>>

\* /v1/admin/reset, or a restart: the sandbox's state is process-local.
reset_sandbox ==
  /\ Fault
  /\ reset
  /\ resets' = resets + 1
  /\ UNCHANGED <<phase, expired, gatewayVars, orphaned, unaudited>>

inject(n) ==
  /\ Fault
  /\ inject_transient_failures(n)
  /\ UNCHANGED <<phase, expired, gatewayVars, resets, orphaned, unaudited>>

-----------------------------------------------------------------------------
Handle(r) ==
  \/ audit_allowed(r) \/ audit_denied(r)
  \/ acquire(r) \/ reserve_execution(r) \/ audit_replay(r)
  \/ post(r) \/ time_out(r)
  \/ complete_execution(r) \/ fail_execution(r)
  \/ audit_success(r) \/ audit_failure(r)
  \/ uncaught(r)

Coordinate(c) ==
  take_snapshot(c) \/ leave_execution(c) \/ roll_back(c)

Next ==
  \/ \E r \in Requests : (\E i \in Intents : evaluate(r, i)) \/ Handle(r) \/ deliver(r)
  \/ \E c \in Changes : expire(c) \/ Coordinate(c)
  \/ \E k \in Keys : grow_stale(k)
  \/ crash
  \/ reset_sandbox
  \/ \E n \in 1..MaxInjected : inject(n)

Spec == Init /\ [][Next]_vars

-----------------------------------------------------------------------------
TypeOK ==
  /\ SandboxTypeOK
  /\ phase \in [Changes -> Phases]
  /\ expired \subseteq Changes
  /\ ledger \in [Keys -> Execution]
  /\ stale \subseteq Keys
  /\ active \in Nat
  /\ audit \subseteq AuditEvents \X Intents
  /\ req \in [Requests -> [pc : Pcs, intent : Intents \cup {NoIntent}]]
  /\ inflight \subseteq Requests
  /\ orphaned \subseteq Keys /\ unaudited \subseteq Intents
  /\ resets \in Nat /\ faults \in 0..MaxFaults

\* However often an intent is repeated, its reservation taken over from a slow
\* owner, or its patch handled after everyone gave up, one key changes the
\* configuration once for each life of the sandbox's state.
OneMutationPerKey == \A k \in Keys : mutations[k] <= resets + 1

\* A result in the ledger, which later requests are given as theirs, is the
\* result of the intent that reserved the key, and the sandbox did apply it.
SuccessIsBacked ==
  \A k \in Keys : ledger[k].status = "SUCCEEDED" =>
    /\ ledger[k].output =
         [before |-> ledger[k].input.old_field, after |-> ledger[k].input.new_field]
    /\ mutations[k] >= 1

\* The quota counts the requests inside it, no more and no less, on every way
\* out and after a crash, and there are never more than allowed.
QuotaIsHeld ==
  /\ active = Cardinality({r \in Requests : req[r].pc \in Holding})
  /\ active <= MaxConcurrent

\* A reservation belongs to a request that will still decide it, although an
\* outcome is written for a key and not for its owner; the exception is one
\* whose owner has died since it was made, in a crash or by an exception that
\* nothing catches, and that waits for its two minutes.
ReservationHasOwner ==
  \A k \in Keys : ledger[k].status = "RESERVED" =>
    k \in orphaned \/ \E r \in Requests : req[r].pc \in Owning /\ KeyOf(r) = k

\* Whatever changed the configuration had been allowed in the audit before, and
\* a success is in the audit once its request is over, unless the request died
\* between the two.
AuditCovers ==
  \A k \in Keys :
    /\ mutations[k] >= 1 =>
         \E i \in Intents : i.idempotency_key = k /\ <<"ALLOWED", i>> \in audit
    /\ ledger[k].status = "SUCCEEDED" =>
         \/ <<"SUCCEEDED", ledger[k].input>> \in audit
         \/ ledger[k].input \in unaudited
         \/ \E r \in Requests : At(r, "audit_success") /\ req[r].intent = ledger[k].input

\* A success is never taken back or overwritten, not even by the late outcome
\* of the owner it was taken over from; attempts only count up.
LedgerMovesForward ==
  [][\A k \in Keys :
       /\ ledger[k].status = "SUCCEEDED" => ledger'[k] = ledger[k]
       /\ ledger'[k].attempt_count \in ledger[k].attempt_count..(ledger[k].attempt_count + 1)]_vars
=============================================================================
