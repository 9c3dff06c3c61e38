-------------------------- MODULE ToolGatewayProofs --------------------------
(***************************************************************************)
(* Proofs about ToolGateway and its Sandbox for any number of requests,    *)
(* intents, keys and changes, any quota and any number of faults.          *)
(***************************************************************************)
EXTENDS ToolGateway, FiniteSetTheorems, TLAPS

\* Requests whose intent passed policy and whose decision is in the audit.
Cleared == Holding \cup Owning \cup {"quota", "audit_success", "audit_failure"}

\* What a request relies on between two awaits: it carries a registered
\* intent, the decision that let it through is in the audit, the ledger entry
\* it works on is that of its own intent, and one about to complete has seen
\* the sandbox's result.
RequestInv(r) ==
  /\ req[r].pc # "idle" => req[r].intent \in Intents
  /\ r \in inflight => req[r].pc # "idle"
  /\ req[r].pc \in Cleared \/ r \in inflight => <<"ALLOWED", req[r].intent>> \in audit
  /\ req[r].pc \in Owning \cup {"audit_success"} => ledger[KeyOf(r)].input = req[r].intent
  /\ req[r].pc = "complete" => mutations[KeyOf(r)] >= 1

\* A stored result stands for exactly one mutation more than the resets allow.
SandboxInv ==
  \A k \in Keys :
    /\ executions[k] = NoResult => mutations[k] <= resets
    /\ executions[k] # NoResult => mutations[k] <= resets + 1 /\ mutations[k] >= 1

Inv ==
  /\ TypeOK
  /\ QuotaIsHeld
  /\ \A r \in Requests : RequestInv(r)
  /\ SandboxInv
  /\ SuccessIsBacked
  /\ ReservationHasOwner
  /\ AuditCovers

\* The requests inside the quota.
Holders == {r \in Requests : req[r].pc \in Holding}

\* The step that LedgerMovesForward allows.
Forward ==
  \A k \in Keys :
    /\ ledger[k].status = "SUCCEEDED" => ledger'[k] = ledger[k]
    /\ ledger'[k].attempt_count \in ledger[k].attempt_count..(ledger[k].attempt_count + 1)

\* What no step takes back: audit events, mutations, and the input a key was
\* first reserved with.
Monotone ==
  /\ audit \subseteq audit'
  /\ \A k \in Keys : mutations[k] >= 1 => mutations'[k] >= 1
  /\ \A k \in Keys : ledger[k].input # NoIntent => ledger'[k].input = ledger[k].input

\* A step of request r leaves the others where they are.
OthersStay(r) ==
  \A s \in Requests \ {r} : req'[s] = req[s] /\ (s \in inflight' => s \in inflight)

-----------------------------------------------------------------------------
(* Operators of the model.                                                 *)

USE FieldsAssumption, MaxInjectedAssumption, IntentsAssumption, MaxConcurrentAssumption,
    MaxFaultsAssumption, RequestsAssumption

\* The fields of an intent, and that it is one.
LEMMA IntentFields ==
  ASSUME NEW i \in Intents
  PROVE  /\ i.change \in Changes /\ i.idempotency_key \in Keys
         /\ i.old_field \in Fields /\ i.new_field \in Fields
         /\ i # NoIntent
         /\ Patch(i) \in FieldPatch
         /\ Patch(i).idempotency_key = i.idempotency_key
         /\ Patch(i).old_field = i.old_field /\ Patch(i).new_field = i.new_field
BY DEF Intent, NoIntent, Patch, FieldPatch

\* Moving one request keeps the table well-formed and the others in place.
LEMMA Moved ==
  ASSUME TypeOK, NEW r \in Requests, NEW pc \in Pcs, NEW i \in Intents \cup {NoIntent},
         req' = [req EXCEPT ![r] = [pc |-> pc, intent |-> i]]
  PROVE  /\ req' \in [Requests -> [pc : Pcs, intent : Intents \cup {NoIntent}]]
         /\ req'[r].pc = pc /\ req'[r].intent = i
         /\ \A s \in Requests \ {r} : req'[s] = req[s]
BY DEF TypeOK

\* The same for Goto, which keeps the intent.
LEMMA Went ==
  ASSUME TypeOK, NEW r \in Requests, NEW pc \in Pcs, Goto(r, pc)
  PROVE  /\ req' \in [Requests -> [pc : Pcs, intent : Intents \cup {NoIntent}]]
         /\ req'[r].pc = pc /\ req'[r].intent = req[r].intent
         /\ \A s \in Requests \ {r} : req'[s] = req[s]
<1>1. req[r].intent \in Intents \cup {NoIntent}
  BY DEF TypeOK
<1> QED BY <1>1, Moved DEF Goto

\* The sandbox applies a key's patch at most once until it is reset, and
\* forgets no mutation.
LEMMA Applied ==
  ASSUME SandboxTypeOK, resets \in Nat, SandboxInv, NEW p \in FieldPatch, apply(p),
         UNCHANGED resets
  PROVE  /\ SandboxTypeOK'
         /\ SandboxInv'
         /\ \A k \in Keys : mutations'[k] >= mutations[k]
         /\ \A k \in Keys : mutations'[k] # mutations[k] => k = p.idempotency_key
         /\ ApplyAnswer(p).status < 400 => mutations'[p.idempotency_key] >= 1
<1> DEFINE q == p.idempotency_key
           done == [before |-> p.old_field, after |-> p.new_field]
<1>0. q \in Keys /\ p.old_field \in Fields /\ p.new_field \in Fields
  BY DEF FieldPatch
<1>1. done \in PatchResult /\ done # NoResult
  BY <1>0 DEF PatchResult, NoResult
<1>2. CASE Patches(p)
  <2>1. executions[q] = NoResult /\ ~FailsInjected(p)
    BY <1>2 DEF Patches, Replays
  <2>2. /\ transient_failures' = transient_failures
        /\ configuration' = p.new_field
        /\ executions' = [executions EXCEPT ![q] = done]
        /\ mutations' = [mutations EXCEPT ![q] = @ + 1]
        /\ snapshots' = snapshots
    BY <1>2, <2>1 DEF apply
  <2>3. SandboxTypeOK'
    BY <1>0, <1>1, <2>2 DEF SandboxTypeOK
  <2>4. mutations[q] \in Nat /\ mutations'[q] = mutations[q] + 1 /\ executions'[q] = done
    BY <1>0, <2>2 DEF SandboxTypeOK
  <2>5. \A k \in Keys \ {q} : mutations'[k] = mutations[k] /\ executions'[k] = executions[k]
    BY <2>2 DEF SandboxTypeOK
  <2>6. mutations[q] <= resets
    BY <1>0, <2>1 DEF SandboxInv
  <2>7. SandboxInv'
    <3>1. ASSUME NEW k \in Keys
          PROVE  /\ executions'[k] = NoResult => mutations'[k] <= resets'
                 /\ executions'[k] # NoResult => mutations'[k] <= resets' + 1 /\ mutations'[k] >= 1
      <4>1. CASE k = q
        BY <4>1, <1>1, <2>4, <2>6
      <4>2. CASE k # q
        BY <4>2, <2>5 DEF SandboxInv
      <4> QED BY <4>1, <4>2
    <3> QED BY <3>1 DEF SandboxInv
  <2>8. \A k \in Keys : mutations[k] \in Nat
    BY DEF SandboxTypeOK
  <2> QED BY <2>3, <2>4, <2>5, <2>7, <2>8
<1>3. CASE ~Patches(p)
  <2>1. /\ configuration' = configuration
        /\ executions' = executions
        /\ mutations' = mutations
        /\ snapshots' = snapshots
        /\ transient_failures' = IF FailsInjected(p) THEN transient_failures - 1
                                 ELSE transient_failures
    BY <1>3 DEF apply
  <2>2. transient_failures' \in 0..MaxInjected
    BY <2>1 DEF SandboxTypeOK, FailsInjected
  <2>3. SandboxTypeOK' /\ SandboxInv'
    BY <2>1, <2>2 DEF SandboxTypeOK, SandboxInv
  <2>4. ASSUME ApplyAnswer(p).status < 400 PROVE executions[q] # NoResult
    BY <1>3, <2>4 DEF ApplyAnswer, Patches, Replays
  <2>5. \A k \in Keys : mutations[k] \in Nat
    BY DEF SandboxTypeOK
  <2> QED BY <1>0, <2>1, <2>3, <2>4, <2>5 DEF SandboxInv
<1> QED BY <1>2, <1>3

-----------------------------------------------------------------------------

(* Types and the quota.                                                    *)

\* Requests that are not idle carry an intent; in particular their key exists.
LEMMA Carried ==
  ASSUME TypeOK, NEW r \in Requests, RequestInv(r), req[r].pc # "idle"
  PROVE  /\ req[r].intent \in Intents /\ req[r].intent.change \in Changes
         /\ KeyOf(r) \in Keys /\ KeyOf(r) = req[r].intent.idempotency_key
BY IntentFields DEF RequestInv, KeyOf

\* An audit event of a request is well-formed.
LEMMA Recorded ==
  ASSUME TypeOK, NEW r \in Requests, RequestInv(r), req[r].pc # "idle",
         NEW e \in AuditEvents, record_audit(r, e)
  PROVE  audit' \subseteq AuditEvents \X Intents
BY Carried DEF record_audit, TypeOK

\* One request that enters or leaves the quota's context, or does neither,
\* while the counter does the same.
LEMMA QuotaStep ==
  ASSUME TypeOK, QuotaIsHeld, NEW r \in Requests,
         \A s \in Requests \ {r} : req'[s] = req[s],
         \/ /\ (req[r].pc \in Holding) = (req'[r].pc \in Holding)
            /\ active' = active
         \/ req[r].pc \in Holding /\ req'[r].pc \notin Holding /\ active' = active - 1
         \/ /\ req[r].pc \notin Holding /\ req'[r].pc \in Holding
            /\ active' = active + 1 /\ active < MaxConcurrent
  PROVE  QuotaIsHeld' /\ active' \in Nat
<1>1. IsFiniteSet(Holders) /\ active = Cardinality(Holders) /\ active <= MaxConcurrent
  BY FS_Subset DEF Holders, QuotaIsHeld
<1>2. active \in Nat
  BY DEF TypeOK
<1>3. CASE (req[r].pc \in Holding) = (req'[r].pc \in Holding) /\ active' = active
  <2>1. Holders' = Holders
    BY <1>3 DEF Holders
  <2> QED BY <2>1, <1>1, <1>2, <1>3 DEF Holders, QuotaIsHeld
<1>4. CASE req[r].pc \in Holding /\ req'[r].pc \notin Holding /\ active' = active - 1
  <2>1. Holders' = Holders \ {r} /\ r \in Holders
    BY <1>4 DEF Holders
  <2>2. Cardinality(Holders') = Cardinality(Holders) - 1 /\ IsFiniteSet(Holders')
    BY <2>1, <1>1, FS_RemoveElement
  <2>3. Cardinality(Holders') \in Nat
    BY <2>2, FS_CardinalityType
  <2>4. active' = Cardinality(Holders') /\ active' <= MaxConcurrent
    BY <2>2, <2>3, <1>1, <1>2, <1>4
  <2> QED BY <2>3, <2>4 DEF Holders, QuotaIsHeld
<1>5. CASE /\ req[r].pc \notin Holding /\ req'[r].pc \in Holding
           /\ active' = active + 1 /\ active < MaxConcurrent
  <2>1. Holders' = Holders \cup {r} /\ r \notin Holders
    BY <1>5 DEF Holders
  <2>2. Cardinality(Holders') = Cardinality(Holders) + 1
    BY <2>1, <1>1, FS_AddElement
  <2>3. active' = Cardinality(Holders') /\ active' <= MaxConcurrent /\ active' \in Nat
    BY <2>2, <1>1, <1>2, <1>5
  <2> QED BY <2>3 DEF Holders, QuotaIsHeld
<1> QED BY <1>3, <1>4, <1>5

\* Every step of the gateway's requests keeps the quota exact.
LEMMA RequestQuota ==
  ASSUME Inv, NEW r \in Requests,
         (\E i \in Intents : evaluate(r, i)) \/ Handle(r) \/ deliver(r)
  PROVE  QuotaIsHeld' /\ active' \in Nat
<1>0. TypeOK /\ QuotaIsHeld
  BY DEF Inv
<1> USE DEF At, Answered, Holding, Owning, Pcs
<1>1. ASSUME NEW i \in Intents, evaluate(r, i) PROVE QuotaIsHeld' /\ active' \in Nat
  <2>1. PICK pc \in {"allowed", "denied"} : req' = [req EXCEPT ![r] = [pc |-> pc, intent |-> i]]
    BY <1>1 DEF evaluate
  <2>2. req'[r].pc = pc /\ \A s \in Requests \ {r} : req'[s] = req[s]
    BY <1>0, <2>1, Moved
  <2>3. req[r].pc \notin Holding /\ req'[r].pc \notin Holding /\ active' = active
    BY <1>1, <2>2 DEF evaluate
  <2> QED BY <1>0, <2>2, <2>3, QuotaStep
<1>2. CASE audit_allowed(r)
  <2>1. req'[r].pc = "quota" /\ \A s \in Requests \ {r} : req'[s] = req[s]
    BY <1>0, <1>2, Went DEF audit_allowed
  <2> QED BY <1>0, <1>2, <2>1, QuotaStep DEF audit_allowed
<1>3. CASE audit_denied(r)
  <2>1. req'[r].pc = "refused" /\ \A s \in Requests \ {r} : req'[s] = req[s]
    BY <1>0, <1>3, Went DEF audit_denied
  <2> QED BY <1>0, <1>3, <2>1, QuotaStep DEF audit_denied
<1>4. CASE audit_success(r)
  <2>1. req'[r].pc = "result" /\ \A s \in Requests \ {r} : req'[s] = req[s]
    BY <1>0, <1>4, Went DEF audit_success
  <2> QED BY <1>0, <1>4, <2>1, QuotaStep DEF audit_success
<1>5. CASE audit_failure(r)
  <2>1. req'[r].pc = "tool_error" /\ \A s \in Requests \ {r} : req'[s] = req[s]
    BY <1>0, <1>5, Went DEF audit_failure
  <2> QED BY <1>0, <1>5, <2>1, QuotaStep DEF audit_failure
<1>6. CASE post(r)
  <2>1. req'[r].pc = "waiting" /\ \A s \in Requests \ {r} : req'[s] = req[s]
    BY <1>0, <1>6, Went DEF post
  <2> QED BY <1>0, <1>6, <2>1, QuotaStep DEF post
<1>7. CASE audit_replay(r)
  <2>1. req'[r].pc = "result" /\ \A s \in Requests \ {r} : req'[s] = req[s]
    BY <1>0, <1>7, Went DEF audit_replay
  <2> QED BY <1>0, <1>7, <2>1, QuotaStep DEF audit_replay, release
<1>8. CASE time_out(r)
  <2>1. req'[r].pc = "fail" /\ \A s \in Requests \ {r} : req'[s] = req[s]
    BY <1>0, <1>8, Went DEF time_out
  <2> QED BY <1>0, <1>8, <2>1, QuotaStep DEF time_out, release
<1>9. CASE complete_execution(r)
  <2>1. req'[r].pc \in {"audit_success", "conflict"} /\ \A s \in Requests \ {r} : req'[s] = req[s]
    BY <1>0, <1>9, Went DEF complete_execution
  <2> QED BY <1>0, <1>9, <2>1, QuotaStep DEF complete_execution
<1>10. CASE fail_execution(r)
  <2>1. req'[r].pc \in {"audit_failure", "conflict"} /\ \A s \in Requests \ {r} : req'[s] = req[s]
    BY <1>0, <1>10, Went DEF fail_execution
  <2> QED BY <1>0, <1>10, <2>1, QuotaStep DEF fail_execution
<1>11. CASE acquire(r)
  <2>1. CASE active < MaxConcurrent /\ active' = active + 1 /\ Goto(r, "reserve")
    BY <1>0, <1>11, <2>1, Went, QuotaStep DEF acquire
  <2>2. CASE Goto(r, "rate_limited") /\ UNCHANGED active
    BY <1>0, <1>11, <2>2, Went, QuotaStep DEF acquire
  <2> QED BY <1>11, <2>1, <2>2 DEF acquire
<1>12. CASE reserve_execution(r)
  <2>1. CASE \E pc \in {"replay", "execute"} : Goto(r, pc) /\ active' = active
    BY <1>0, <1>12, <2>1, Went, QuotaStep DEF reserve_execution
  <2>2. CASE \E pc \in {"refused", "conflict"} : Goto(r, pc) /\ active' = active - 1
    BY <1>0, <1>12, <2>2, Went, QuotaStep DEF reserve_execution
  <2> QED BY <1>12, <2>1, <2>2 DEF reserve_execution, reserve, refuse_reservation, release
<1>13. CASE deliver(r)
  <2>1. CASE \E pc \in {"complete", "fail"} : At(r, "waiting") /\ release /\ Goto(r, pc)
    BY <1>0, <2>1, Went, QuotaStep DEF release
  <2>2. CASE UNCHANGED <<active, req>>
    BY <1>0, <2>2, QuotaStep
  <2> QED BY <1>13, <2>1, <2>2 DEF deliver
<1>14. CASE uncaught(r)
  <2>1. req'[r].pc = "error" /\ \A s \in Requests \ {r} : req'[s] = req[s]
    BY <1>0, <1>14, Went DEF uncaught
  <2> QED BY <1>0, <1>14, <2>1, QuotaStep DEF uncaught, release
<1> QED BY <1>1, <1>2, <1>3, <1>4, <1>5, <1>6, <1>7, <1>8, <1>9, <1>10, <1>11, <1>12, <1>13, <1>14
        DEF Handle

\* Of requests that die, the histories keep keys and intents.
LEMMA AbandonTypes ==
  ASSUME TypeOK, NEW R \in SUBSET Requests, \A r \in R : RequestInv(r), abandon(R)
  PROVE  orphaned' \subseteq Keys /\ unaudited' \subseteq Intents
<1>1. ASSUME NEW r \in R, req[r].pc \in Owning \cup {"audit_success"}
      PROVE  KeyOf(r) \in Keys /\ req[r].intent \in Intents
  BY <1>1, Carried DEF Owning
<1> QED BY <1>1 DEF abandon, At, TypeOK

\* The three steps that write the ledger.
LEMMA LedgerTypes ==
  ASSUME TypeOK, NEW r \in Requests, RequestInv(r),
         complete_execution(r) \/ fail_execution(r) \/ reserve_execution(r)
  PROVE  ledger' \in [Keys -> Execution] /\ stale' \subseteq Keys
<1> DEFINE k == KeyOf(r)
           i == req[r].intent
<1>1. i \in Intents /\ k \in Keys /\ i.old_field \in Fields /\ i.new_field \in Fields
  BY Carried, IntentFields DEF At, complete_execution, fail_execution, reserve_execution
<1>2. ledger[k] \in Execution
  BY <1>1 DEF TypeOK
<1>3. ledger[k].attempt_count \in Nat /\ ledger[k].attempt_count + 1 \in Nat
      /\ ledger[k].input \in Intents \cup {NoIntent}
  BY <1>2 DEF Execution
<1>4. CASE complete_execution(r)
  <2>1. [before |-> i.old_field, after |-> i.new_field] \in PatchResult
    BY <1>1 DEF PatchResult
  <2>2. Outcome(k, "SUCCEEDED", [before |-> i.old_field, after |-> i.new_field]) \in Execution
    BY <1>3, <2>1 DEF Outcome, Execution, ExecutionStatus
  <2> QED BY <1>4, <2>2 DEF complete_execution, TypeOK
<1>5. CASE fail_execution(r)
  <2>1. Outcome(k, "FAILED", NoResult) \in Execution
    BY <1>3 DEF Outcome, Execution, ExecutionStatus
  <2> QED BY <1>5, <2>1 DEF fail_execution, TypeOK
<1>6. CASE reserve_execution(r)
  <2>1. [status |-> "RESERVED", attempt_count |-> ledger[k].attempt_count + 1,
         input |-> i, output |-> NoResult] \in Execution
    BY <1>1, <1>3 DEF Execution, ExecutionStatus
  <2> QED BY <1>6, <2>1 DEF reserve_execution, reserve, refuse_reservation, TypeOK
<1> QED BY <1>4, <1>5, <1>6

\* What a delivered patch does to the sandbox.
LEMMA Delivered ==
  ASSUME Inv, NEW r \in Requests, deliver(r)
  PROVE  /\ SandboxTypeOK'
         /\ SandboxInv'
         /\ \A k \in Keys : mutations'[k] >= mutations[k]
         /\ \A k \in Keys : mutations'[k] # mutations[k] => k = KeyOf(r)
         /\ ApplyAnswer(Patch(req[r].intent)).status < 400 => mutations'[KeyOf(r)] >= 1
<1> DEFINE p == Patch(req[r].intent)
<1>1. TypeOK /\ RequestInv(r) /\ SandboxInv
  BY DEF Inv
<1>2. req[r].intent \in Intents
  BY <1>1 DEF RequestInv, deliver
<1>3. p \in FieldPatch /\ p.idempotency_key = KeyOf(r)
  BY <1>2, IntentFields DEF KeyOf
<1>4. apply(p) /\ UNCHANGED resets
  BY DEF deliver, faultVars
<1>5. SandboxTypeOK /\ resets \in Nat
  BY <1>1 DEF TypeOK
<1> HIDE DEF p
<1>6. /\ SandboxTypeOK'
      /\ SandboxInv'
      /\ \A k \in Keys : mutations'[k] >= mutations[k]
      /\ \A k \in Keys : mutations'[k] # mutations[k] => k = p.idempotency_key
      /\ ApplyAnswer(p).status < 400 => mutations'[p.idempotency_key] >= 1
  BY <1>1, <1>3, <1>4, <1>5, Applied
<1> QED BY <1>3, <1>6 DEF p

\* Every step of the gateway's requests keeps the types.
LEMMA RequestTypes ==
  ASSUME Inv, NEW r \in Requests,
         (\E i \in Intents : evaluate(r, i)) \/ Handle(r) \/ deliver(r)
  PROVE  TypeOK'
<1>0. TypeOK /\ RequestInv(r) /\ SandboxInv
  BY DEF Inv
<1>a. active' \in Nat
  BY RequestQuota
<1> USE DEF At, Answered, Holding, Owning, Pcs
<1> DEFINE Table == [Requests -> [pc : Pcs, intent : Intents \cup {NoIntent}]]
<1>1. ASSUME NEW i \in Intents, evaluate(r, i) PROVE TypeOK'
  <2>1. PICK pc \in {"allowed", "denied"} : req' = [req EXCEPT ![r] = [pc |-> pc, intent |-> i]]
    BY <1>1 DEF evaluate
  <2>2. req' \in Table
    BY <1>0, <2>1, Moved
  <2> QED BY <1>0, <1>1, <1>a, <2>2 DEF evaluate, TypeOK, SandboxTypeOK, sandboxVars, faultVars
<1>2. CASE audit_allowed(r)
  <2>1. req' \in Table
    BY <1>0, <1>2, Went DEF audit_allowed
  <2>2. audit' \subseteq AuditEvents \X Intents
    BY <1>0, <1>2, Recorded DEF audit_allowed, AuditEvents
  <2> QED BY <1>0, <1>2, <1>a, <2>1, <2>2
          DEF audit_allowed, TypeOK, SandboxTypeOK, sandboxVars, faultVars
<1>3. CASE audit_denied(r)
  <2>1. req' \in Table
    BY <1>0, <1>3, Went DEF audit_denied
  <2>2. audit' \subseteq AuditEvents \X Intents
    BY <1>0, <1>3, Recorded DEF audit_denied, AuditEvents
  <2> QED BY <1>0, <1>3, <1>a, <2>1, <2>2
          DEF audit_denied, TypeOK, SandboxTypeOK, sandboxVars, faultVars
<1>4. CASE audit_success(r)
  <2>1. req' \in Table
    BY <1>0, <1>4, Went DEF audit_success
  <2>2. audit' \subseteq AuditEvents \X Intents
    BY <1>0, <1>4, Recorded DEF audit_success, AuditEvents
  <2> QED BY <1>0, <1>4, <1>a, <2>1, <2>2
          DEF audit_success, TypeOK, SandboxTypeOK, sandboxVars, faultVars
<1>5. CASE audit_failure(r)
  <2>1. req' \in Table
    BY <1>0, <1>5, Went DEF audit_failure
  <2>2. audit' \subseteq AuditEvents \X Intents
    BY <1>0, <1>5, Recorded DEF audit_failure, AuditEvents
  <2> QED BY <1>0, <1>5, <1>a, <2>1, <2>2
          DEF audit_failure, TypeOK, SandboxTypeOK, sandboxVars, faultVars
<1>6. CASE audit_replay(r)
  <2>1. req' \in Table
    BY <1>0, <1>6, Went DEF audit_replay
  <2>2. audit' \subseteq AuditEvents \X Intents
    BY <1>0, <1>6, Recorded DEF audit_replay, AuditEvents
  <2> QED BY <1>0, <1>6, <1>a, <2>1, <2>2
          DEF audit_replay, TypeOK, SandboxTypeOK, sandboxVars, faultVars
<1>7. CASE post(r)
  <2>1. req' \in Table
    BY <1>0, <1>7, Went DEF post
  <2> QED BY <1>0, <1>7, <1>a, <2>1
          DEF post, TypeOK, SandboxTypeOK, sandboxVars, faultVars
<1>8. CASE time_out(r)
  <2>1. req' \in Table
    BY <1>0, <1>8, Went DEF time_out
  <2> QED BY <1>0, <1>8, <1>a, <2>1
          DEF time_out, TypeOK, SandboxTypeOK, sandboxVars, faultVars
<1>9. CASE acquire(r)
  <2>1. req' \in Table
    BY <1>0, <1>9, Went DEF acquire
  <2> QED BY <1>0, <1>9, <1>a, <2>1
          DEF acquire, TypeOK, SandboxTypeOK, sandboxVars, faultVars
<1>10. CASE complete_execution(r)
  <2>1. req' \in Table
    BY <1>0, <1>10, Went DEF complete_execution, StillReserved, Outcome
  <2>2. ledger' \in [Keys -> Execution] /\ stale' \subseteq Keys
    BY <1>0, <1>10, LedgerTypes
  <2> QED BY <1>0, <1>10, <1>a, <2>1, <2>2
          DEF complete_execution, TypeOK, SandboxTypeOK, sandboxVars, faultVars
<1>11. CASE fail_execution(r)
  <2>1. req' \in Table
    BY <1>0, <1>11, Went DEF fail_execution, StillReserved, Outcome
  <2>2. ledger' \in [Keys -> Execution] /\ stale' \subseteq Keys
    BY <1>0, <1>11, LedgerTypes
  <2> QED BY <1>0, <1>11, <1>a, <2>1, <2>2
          DEF fail_execution, TypeOK, SandboxTypeOK, sandboxVars, faultVars
<1>12. CASE reserve_execution(r)
  <2>1. req' \in Table
    BY <1>0, <1>12, Went DEF reserve_execution, reserve, refuse_reservation
  <2>2. ledger' \in [Keys -> Execution] /\ stale' \subseteq Keys
    BY <1>0, <1>12, LedgerTypes
  <2>3. orphaned' \subseteq Keys
    BY <1>0, <1>12 DEF reserve_execution, reserve, refuse_reservation, TypeOK
  <2> QED BY <1>0, <1>12, <1>a, <2>1, <2>2, <2>3
          DEF reserve_execution, TypeOK, SandboxTypeOK, sandboxVars
<1>13. CASE deliver(r)
  <2>1. req' \in Table
    <3>1. CASE \E pc \in {"complete", "fail"} : Goto(r, pc)
      BY <1>0, <3>1, Went
    <3>2. CASE UNCHANGED req
      BY <1>0, <3>2 DEF TypeOK
    <3> QED BY <1>13, <3>1, <3>2 DEF deliver
  <2>2. SandboxTypeOK'
    BY <1>0, <1>13, Delivered
  <2> QED BY <1>0, <1>13, <1>a, <2>1, <2>2 DEF deliver, TypeOK, faultVars
<1>14. CASE uncaught(r)
  <2>1. req' \in Table
    BY <1>0, <1>14, Went DEF uncaught
  <2>2. orphaned' \subseteq Keys /\ unaudited' \subseteq Intents
    <3>1. req[r].pc # "idle"
      BY <1>14 DEF uncaught
    <3> QED BY <1>0, <1>14, <3>1, AbandonTypes DEF uncaught
  <2>3. faults' \in 0..MaxFaults
    BY <1>0, <1>14 DEF uncaught, Fault, TypeOK
  <2> QED BY <1>0, <1>14, <1>a, <2>1, <2>2, <2>3
          DEF uncaught, TypeOK, SandboxTypeOK, sandboxVars
<1> QED BY <1>1, <1>2, <1>3, <1>4, <1>5, <1>6, <1>7, <1>8, <1>9, <1>10, <1>11, <1>12, <1>13, <1>14
        DEF Handle

-----------------------------------------------------------------------------
(* Steps of a request.                                                     *)

\* The others keep what they rely on when nothing is taken back.
LEMMA OthersInv ==
  ASSUME Inv, NEW r \in Requests, Monotone, OthersStay(r), NEW s \in Requests \ {r}
  PROVE  RequestInv(s)'
<1>1. TypeOK /\ RequestInv(s)
  BY DEF Inv
<1>2. req'[s] = req[s] /\ (s \in inflight' => s \in inflight)
  BY DEF OthersStay
<1>3. CASE req[s].pc = "idle"
  BY <1>1, <1>2, <1>3 DEF RequestInv, Cleared, Holding, Owning
<1>4. CASE req[s].pc # "idle"
  <2>1. req[s].intent \in Intents /\ KeyOf(s) \in Keys /\ KeyOf(s)' = KeyOf(s)
    BY <1>1, <1>2, <1>4, Carried DEF KeyOf
  <2>2. req[s].intent # NoIntent
    BY <2>1, IntentFields
  <2>4. req'[s].pc = "complete" => mutations'[KeyOf(s)] >= 1
    BY <1>1, <1>2, <2>1 DEF RequestInv, Monotone
  <2>5. req[s].pc \in Owning \cup {"audit_success"} => ledger'[KeyOf(s)].input = req[s].intent
    BY <1>1, <2>1, <2>2 DEF RequestInv, Monotone
  <2>6. req[s].pc \in Cleared \/ s \in inflight => <<"ALLOWED", req[s].intent>> \in audit'
    BY <1>1 DEF RequestInv, Monotone
  <2> QED BY <1>1, <1>2, <1>4, <2>1, <2>4, <2>5, <2>6 DEF RequestInv
<1> QED BY <1>3, <1>4

\* A step of a request that leaves the ledger alone: it gives up a reservation
\* only when the key is no longer reserved, and leaves the success audit only
\* by writing it, unless it dies.
Quiet(r) ==
  /\ OthersStay(r) /\ RequestInv(r)'
  /\ ledger' = ledger /\ audit \subseteq audit'
  /\ orphaned \subseteq orphaned' /\ unaudited \subseteq unaudited'
  /\ \A k \in Keys : mutations'[k] >= mutations[k]
  /\ \A k \in Keys : mutations'[k] # mutations[k] => k = KeyOf(r) /\ r \in inflight
  /\ req[r].pc # "idle" => req'[r].intent = req[r].intent
  /\ req[r].pc \in Owning =>
       \/ req'[r].pc \in Owning
       \/ ledger[KeyOf(r)].status # "RESERVED"
       \/ KeyOf(r) \in orphaned'
  /\ req[r].pc = "audit_success" =>
       \/ req'[r].pc = "audit_success"
       \/ <<"SUCCEEDED", req[r].intent>> \in audit'
       \/ req[r].intent \in unaudited'

\* Such a step preserves the invariant.
LEMMA QuietStep ==
  ASSUME Inv, NEW r \in Requests, TypeOK', QuotaIsHeld', SandboxInv', Quiet(r)
  PROVE  Inv' /\ Monotone /\ Forward
<1>0. TypeOK /\ RequestInv(r) /\ SuccessIsBacked /\ ReservationHasOwner /\ AuditCovers
  BY DEF Inv
<1> USE DEF Quiet
<1>1. \A k \in Keys : mutations[k] \in Nat /\ mutations'[k] \in Nat
  BY <1>0 DEF TypeOK, SandboxTypeOK
<1>2. \A k \in Keys : ledger[k].attempt_count \in Nat
  BY <1>0 DEF TypeOK, Execution
<1>4. Monotone /\ Forward
  BY <1>1, <1>2 DEF Monotone, Forward
<1>5. \A s \in Requests : RequestInv(s)'
  BY <1>4, OthersInv
<1>6. SuccessIsBacked'
  BY <1>0, <1>1 DEF SuccessIsBacked
<1>7. ReservationHasOwner'
  <2> SUFFICES ASSUME NEW k \in Keys, ledger[k].status = "RESERVED"
               PROVE  k \in orphaned' \/ \E s \in Requests : req'[s].pc \in Owning /\ KeyOf(s)' = k
    BY DEF ReservationHasOwner
  <2>1. CASE k \in orphaned
    BY <2>1
  <2>2. ASSUME NEW s \in Requests, req[s].pc \in Owning, KeyOf(s) = k
        PROVE  k \in orphaned' \/ (req'[s].pc \in Owning /\ KeyOf(s)' = k)
    <3>1. CASE s = r
      BY <2>2, <3>1 DEF KeyOf, Owning
    <3>2. CASE s # r
      BY <2>2, <3>2 DEF KeyOf, OthersStay
    <3> QED BY <3>1, <3>2
  <2> QED BY <1>0, <2>1, <2>2 DEF ReservationHasOwner
<1>8. AuditCovers'
  <2>1. ASSUME NEW k \in Keys, mutations'[k] >= 1
        PROVE  \E i \in Intents : i.idempotency_key = k /\ <<"ALLOWED", i>> \in audit'
    <3>1. CASE mutations'[k] = mutations[k]
      <4>1. mutations[k] >= 1
        BY <2>1, <3>1
      <4>2. PICK i \in Intents : i.idempotency_key = k /\ <<"ALLOWED", i>> \in audit
        BY <1>0, <4>1 DEF AuditCovers
      <4> QED BY <4>2
    <3>2. CASE mutations'[k] # mutations[k]
      <4>1. k = KeyOf(r) /\ r \in inflight
        BY <3>2
      <4>2. req[r].intent \in Intents /\ <<"ALLOWED", req[r].intent>> \in audit
        BY <1>0, <4>1 DEF RequestInv
      <4> QED BY <4>1, <4>2 DEF KeyOf
    <3> QED BY <3>1, <3>2
  <2>2. ASSUME NEW k \in Keys, ledger[k].status = "SUCCEEDED"
        PROVE  \/ <<"SUCCEEDED", ledger[k].input>> \in audit'
               \/ ledger[k].input \in unaudited'
               \/ \E s \in Requests : req'[s].pc = "audit_success" /\ req'[s].intent = ledger[k].input
    <3>1. CASE <<"SUCCEEDED", ledger[k].input>> \in audit \/ ledger[k].input \in unaudited
      BY <3>1
    <3>2. ASSUME NEW s \in Requests, req[s].pc = "audit_success", req[s].intent = ledger[k].input
          PROVE  \/ <<"SUCCEEDED", ledger[k].input>> \in audit'
                 \/ ledger[k].input \in unaudited'
                 \/ req'[s].pc = "audit_success" /\ req'[s].intent = ledger[k].input
      <4>1. CASE s = r
        BY <3>2, <4>1
      <4>2. CASE s # r
        BY <3>2, <4>2 DEF OthersStay
      <4> QED BY <4>1, <4>2
    <3> QED BY <1>0, <2>2, <3>1, <3>2 DEF AuditCovers, At
  <2> QED BY <2>1, <2>2 DEF AuditCovers, At
<1> QED BY <1>4, <1>5, <1>6, <1>7, <1>8 DEF Inv

\* A step of a request that writes its key's entry: a reservation, a success
\* or a failure.
LEMMA LedgerStep ==
  ASSUME Inv, NEW r \in Requests, req[r].pc # "idle", TypeOK', QuotaIsHeld', OthersStay(r),
         NEW e, ledger' = [ledger EXCEPT ![KeyOf(r)] = e],
         e.input = req[r].intent, ledger[KeyOf(r)].input \in {NoIntent, req[r].intent},
         ledger[KeyOf(r)].status # "SUCCEEDED",
         e.attempt_count \in
           ledger[KeyOf(r)].attempt_count..(ledger[KeyOf(r)].attempt_count + 1),
         UNCHANGED <<sandboxVars, audit, unaudited, resets>>, inflight' = inflight,
         orphaned \ {KeyOf(r)} \subseteq orphaned',
         req'[r].intent = req[r].intent,
         e.status = "RESERVED" => req[r].pc \notin Owning /\ req'[r].pc \in Owning,
         req[r].pc # "audit_success" /\ req[r].pc \in Cleared,
         req'[r].pc # "complete" /\ req'[r].pc # "idle",
         e.status = "SUCCEEDED" =>
           /\ req'[r].pc = "audit_success"
           /\ mutations[KeyOf(r)] >= 1
           /\ e.output = [before |-> e.input.old_field, after |-> e.input.new_field]
  PROVE  Inv' /\ Monotone /\ Forward
<1> DEFINE q == KeyOf(r)
<1>0. /\ TypeOK /\ RequestInv(r) /\ SandboxInv
      /\ SuccessIsBacked /\ ReservationHasOwner /\ AuditCovers
  BY DEF Inv
<1>1. q \in Keys /\ req[r].intent \in Intents /\ KeyOf(r)' = q
  BY <1>0, Carried DEF KeyOf
<1>2. ledger'[q] = e /\ \A k \in Keys \ {q} : ledger'[k] = ledger[k]
  BY <1>0, <1>1 DEF TypeOK
<1>3. \A k \in Keys : ledger[k].attempt_count \in Nat /\ mutations[k] \in Nat
  BY <1>0 DEF TypeOK, Execution, SandboxTypeOK
<1> HIDE DEF q
<1>4. Forward
  <2> SUFFICES ASSUME NEW k \in Keys
      PROVE  /\ ledger[k].status = "SUCCEEDED" => ledger'[k] = ledger[k]
             /\ ledger'[k].attempt_count \in ledger[k].attempt_count..(ledger[k].attempt_count + 1)
    BY DEF Forward
  <2>1. CASE k = q
    BY <1>2, <2>1 DEF q
  <2>2. CASE k # q
    BY <1>2, <1>3, <2>2
  <2> QED BY <2>1, <2>2
<1>5. Monotone
  <2>1. \A k \in Keys : ledger[k].input # NoIntent => ledger'[k].input = ledger[k].input
    BY <1>2 DEF q
  <2>2. audit \subseteq audit' /\ \A k \in Keys : mutations'[k] = mutations[k]
    BY DEF sandboxVars
  <2> QED BY <1>3, <2>1, <2>2 DEF Monotone
<1>6. RequestInv(r)'
  BY <1>0, <1>1, <1>2 DEF RequestInv, q, sandboxVars
<1>7. \A s \in Requests : RequestInv(s)'
  BY <1>5, <1>6, OthersInv
<1>8. SandboxInv'
  BY <1>0 DEF SandboxInv, sandboxVars
<1>9. SuccessIsBacked'
  BY <1>0, <1>2 DEF SuccessIsBacked, sandboxVars, q
<1>10. ReservationHasOwner'
  <2> SUFFICES ASSUME NEW k \in Keys, ledger'[k].status = "RESERVED"
               PROVE  k \in orphaned' \/ \E s \in Requests : req'[s].pc \in Owning /\ KeyOf(s)' = k
    BY DEF ReservationHasOwner
  <2>1. CASE k = q
    BY <1>1, <1>2, <2>1
  <2>2. CASE k # q
    <3>1. ledger[k].status = "RESERVED"
      BY <1>2, <2>2
    <3>2. ASSUME NEW s \in Requests, req[s].pc \in Owning, KeyOf(s) = k
          PROVE  req'[s].pc \in Owning /\ KeyOf(s)' = k
      <4>1. s # r
        BY <2>2, <3>2 DEF q
      <4> QED BY <4>1, <3>2 DEF KeyOf, OthersStay
    <3>3. k \in orphaned => k \in orphaned'
      BY <2>2 DEF q
    <3> QED BY <1>0, <3>1, <3>2, <3>3 DEF ReservationHasOwner
  <2> QED BY <2>1, <2>2
<1>11. AuditCovers'
  <2>1. ASSUME NEW k \in Keys, mutations'[k] >= 1
        PROVE  \E i \in Intents : i.idempotency_key = k /\ <<"ALLOWED", i>> \in audit'
    BY <1>0, <2>1 DEF AuditCovers, sandboxVars
  <2>2. ASSUME NEW k \in Keys, ledger'[k].status = "SUCCEEDED"
        PROVE  \/ <<"SUCCEEDED", ledger'[k].input>> \in audit'
               \/ ledger'[k].input \in unaudited'
               \/ \E s \in Requests : req'[s].pc = "audit_success" /\ req'[s].intent = ledger'[k].input
    <3>1. CASE k = q
      BY <1>2, <2>2, <3>1
    <3>2. CASE k # q
      <4>1. ledger'[k] = ledger[k]
        BY <1>2, <3>2
      <4>2. ASSUME NEW s \in Requests, req[s].pc = "audit_success", req[s].intent = ledger[k].input
            PROVE  req'[s].pc = "audit_success" /\ req'[s].intent = ledger[k].input
        BY <4>2 DEF OthersStay
      <4> QED BY <1>0, <2>2, <4>1, <4>2 DEF AuditCovers, At
    <3> QED BY <3>1, <3>2
  <2> QED BY <2>1, <2>2 DEF AuditCovers, At
<1> QED BY <1>4, <1>5, <1>7, <1>8, <1>9, <1>10, <1>11 DEF Inv

\* Every step of a request preserves the invariant.
LEMMA RequestStep ==
  ASSUME Inv, NEW r \in Requests,
         (\E i \in Intents : evaluate(r, i)) \/ Handle(r) \/ deliver(r)
  PROVE  Inv' /\ Forward
<1>0. TypeOK /\ RequestInv(r) /\ SandboxInv /\ TypeOK' /\ QuotaIsHeld'
  BY RequestTypes, RequestQuota DEF Inv
<1>a. \A k \in Keys : mutations[k] \in Nat
  BY <1>0 DEF TypeOK, SandboxTypeOK
<1> USE DEF At, Answered, Holding, Owning, Pcs, Cleared
<1>1. ASSUME NEW i \in Intents, evaluate(r, i) PROVE Inv' /\ Forward
  <2>1. PICK pc \in {"allowed", "denied"} : req' = [req EXCEPT ![r] = [pc |-> pc, intent |-> i]]
    BY <1>1 DEF evaluate
  <2>2. /\ req[r].pc = "idle" /\ req'[r].pc = pc /\ req'[r].intent = i
        /\ \A s \in Requests \ {r} : req'[s] = req[s]
    <3>1. req[r].pc = "idle"
      BY <1>1 DEF evaluate
    <3> QED BY <1>0, <2>1, <3>1, Moved
  <2>3. UNCHANGED <<sandboxVars, resets>> /\ ledger' = ledger /\ audit' = audit
        /\ inflight' = inflight /\ UNCHANGED <<orphaned, unaudited>>
    BY <1>1 DEF evaluate, faultVars
  <2>4. RequestInv(r)' /\ OthersStay(r)
    BY <1>0, <2>2, <2>3 DEF RequestInv, OthersStay, sandboxVars
  <2>5. SandboxInv' /\ mutations' = mutations
    BY <1>0, <2>3 DEF SandboxInv, sandboxVars
  <2>6. /\ ledger' = ledger /\ UNCHANGED <<orphaned, unaudited>> /\ audit \subseteq audit'
        /\ req[r].pc \in Owning => req'[r].pc \in Owning
        /\ req[r].pc = "audit_success" => req'[r].pc = "audit_success"
    BY <2>2, <2>3
  <2>q. Quiet(r)
    BY <1>0, <1>a, <2>2, <2>4, <2>5, <2>6 DEF Quiet
  <2> QED BY <1>0, <2>q, <2>5, QuietStep
<1>2. CASE audit_allowed(r)
  <2>1. /\ req'[r].pc = "quota" /\ req'[r].intent = req[r].intent
        /\ \A s \in Requests \ {r} : req'[s] = req[s]
    BY <1>0, <1>2, Went DEF audit_allowed
  <2>2. UNCHANGED <<sandboxVars, ledger, orphaned, unaudited, resets>> /\ inflight' = inflight
    BY <1>2 DEF audit_allowed, faultVars
  <2>3. /\ audit \subseteq audit'
        /\ req[r].pc = "audit_success" => <<"SUCCEEDED", req[r].intent>> \in audit'
        /\ req[r].pc \in Cleared \/ r \in inflight' \/ req'[r].pc \in Cleared =>
             <<"ALLOWED", req[r].intent>> \in audit'
    BY <1>0, <1>2, <2>1, <2>2 DEF audit_allowed, record_audit, RequestInv
  <2>4. RequestInv(r)' /\ OthersStay(r)
    BY <1>0, <1>2, <2>1, <2>2, <2>3 DEF audit_allowed, RequestInv, OthersStay, sandboxVars, KeyOf
  <2>5. SandboxInv' /\ mutations' = mutations
    BY <1>0, <2>2 DEF SandboxInv, sandboxVars
  <2>6. req[r].pc \in Owning => req'[r].pc \in Owning
    BY <1>2, <2>1 DEF audit_allowed
  <2>q. Quiet(r)
    BY <1>0, <1>a, <2>1, <2>2, <2>3, <2>4, <2>5, <2>6 DEF Quiet
  <2> QED BY <1>0, <2>q, <2>5, QuietStep
<1>3. CASE audit_denied(r)
  <2>1. /\ req'[r].pc = "refused" /\ req'[r].intent = req[r].intent
        /\ \A s \in Requests \ {r} : req'[s] = req[s]
    BY <1>0, <1>3, Went DEF audit_denied
  <2>2. UNCHANGED <<sandboxVars, ledger, orphaned, unaudited, resets>> /\ inflight' = inflight
    BY <1>3 DEF audit_denied, faultVars
  <2>3. /\ audit \subseteq audit'
        /\ req[r].pc = "audit_success" => <<"SUCCEEDED", req[r].intent>> \in audit'
        /\ req[r].pc \in Cleared \/ r \in inflight' \/ req'[r].pc \in Cleared =>
             <<"ALLOWED", req[r].intent>> \in audit'
    BY <1>0, <1>3, <2>1, <2>2 DEF audit_denied, record_audit, RequestInv
  <2>4. RequestInv(r)' /\ OthersStay(r)
    BY <1>0, <1>3, <2>1, <2>2, <2>3 DEF audit_denied, RequestInv, OthersStay, sandboxVars, KeyOf
  <2>5. SandboxInv' /\ mutations' = mutations
    BY <1>0, <2>2 DEF SandboxInv, sandboxVars
  <2>6. req[r].pc \in Owning => req'[r].pc \in Owning
    BY <1>3, <2>1 DEF audit_denied
  <2>q. Quiet(r)
    BY <1>0, <1>a, <2>1, <2>2, <2>3, <2>4, <2>5, <2>6 DEF Quiet
  <2> QED BY <1>0, <2>q, <2>5, QuietStep
<1>4. CASE audit_success(r)
  <2>1. /\ req'[r].pc = "result" /\ req'[r].intent = req[r].intent
        /\ \A s \in Requests \ {r} : req'[s] = req[s]
    BY <1>0, <1>4, Went DEF audit_success
  <2>2. UNCHANGED <<sandboxVars, ledger, orphaned, unaudited, resets>> /\ inflight' = inflight
    BY <1>4 DEF audit_success, faultVars
  <2>3. /\ audit \subseteq audit'
        /\ req[r].pc = "audit_success" => <<"SUCCEEDED", req[r].intent>> \in audit'
        /\ req[r].pc \in Cleared \/ r \in inflight' \/ req'[r].pc \in Cleared =>
             <<"ALLOWED", req[r].intent>> \in audit'
    BY <1>0, <1>4, <2>1, <2>2 DEF audit_success, record_audit, RequestInv
  <2>4. RequestInv(r)' /\ OthersStay(r)
    BY <1>0, <1>4, <2>1, <2>2, <2>3 DEF audit_success, RequestInv, OthersStay, sandboxVars, KeyOf
  <2>5. SandboxInv' /\ mutations' = mutations
    BY <1>0, <2>2 DEF SandboxInv, sandboxVars
  <2>6. req[r].pc \in Owning => req'[r].pc \in Owning
    BY <1>4, <2>1 DEF audit_success
  <2>q. Quiet(r)
    BY <1>0, <1>a, <2>1, <2>2, <2>3, <2>4, <2>5, <2>6 DEF Quiet
  <2> QED BY <1>0, <2>q, <2>5, QuietStep
<1>5. CASE audit_failure(r)
  <2>1. /\ req'[r].pc = "tool_error" /\ req'[r].intent = req[r].intent
        /\ \A s \in Requests \ {r} : req'[s] = req[s]
    BY <1>0, <1>5, Went DEF audit_failure
  <2>2. UNCHANGED <<sandboxVars, ledger, orphaned, unaudited, resets>> /\ inflight' = inflight
    BY <1>5 DEF audit_failure, faultVars
  <2>3. /\ audit \subseteq audit'
        /\ req[r].pc = "audit_success" => <<"SUCCEEDED", req[r].intent>> \in audit'
        /\ req[r].pc \in Cleared \/ r \in inflight' \/ req'[r].pc \in Cleared =>
             <<"ALLOWED", req[r].intent>> \in audit'
    BY <1>0, <1>5, <2>1, <2>2 DEF audit_failure, record_audit, RequestInv
  <2>4. RequestInv(r)' /\ OthersStay(r)
    BY <1>0, <1>5, <2>1, <2>2, <2>3 DEF audit_failure, RequestInv, OthersStay, sandboxVars, KeyOf
  <2>5. SandboxInv' /\ mutations' = mutations
    BY <1>0, <2>2 DEF SandboxInv, sandboxVars
  <2>6. req[r].pc \in Owning => req'[r].pc \in Owning
    BY <1>5, <2>1 DEF audit_failure
  <2>q. Quiet(r)
    BY <1>0, <1>a, <2>1, <2>2, <2>3, <2>4, <2>5, <2>6 DEF Quiet
  <2> QED BY <1>0, <2>q, <2>5, QuietStep
<1>6. CASE audit_replay(r)
  <2>1. /\ req'[r].pc = "result" /\ req'[r].intent = req[r].intent
        /\ \A s \in Requests \ {r} : req'[s] = req[s]
    BY <1>0, <1>6, Went DEF audit_replay
  <2>2. UNCHANGED <<sandboxVars, ledger, orphaned, unaudited, resets>> /\ inflight' = inflight
    BY <1>6 DEF audit_replay, faultVars
  <2>3. /\ audit \subseteq audit'
        /\ req[r].pc = "audit_success" => <<"SUCCEEDED", req[r].intent>> \in audit'
        /\ req[r].pc \in Cleared \/ r \in inflight' \/ req'[r].pc \in Cleared =>
             <<"ALLOWED", req[r].intent>> \in audit'
    BY <1>0, <1>6, <2>1, <2>2 DEF audit_replay, record_audit, RequestInv
  <2>4. RequestInv(r)' /\ OthersStay(r)
    BY <1>0, <1>6, <2>1, <2>2, <2>3 DEF audit_replay, RequestInv, OthersStay, sandboxVars, KeyOf
  <2>5. SandboxInv' /\ mutations' = mutations
    BY <1>0, <2>2 DEF SandboxInv, sandboxVars
  <2>6. req[r].pc \in Owning => req'[r].pc \in Owning
    BY <1>6, <2>1 DEF audit_replay
  <2>q. Quiet(r)
    BY <1>0, <1>a, <2>1, <2>2, <2>3, <2>4, <2>5, <2>6 DEF Quiet
  <2> QED BY <1>0, <2>q, <2>5, QuietStep
<1>7. CASE time_out(r)
  <2>1. /\ req'[r].pc = "fail" /\ req'[r].intent = req[r].intent
        /\ \A s \in Requests \ {r} : req'[s] = req[s]
    BY <1>0, <1>7, Went DEF time_out
  <2>2. UNCHANGED <<sandboxVars, ledger, orphaned, unaudited, resets>> /\ inflight' = inflight
    BY <1>7 DEF time_out, faultVars
  <2>3. /\ audit \subseteq audit'
        /\ req[r].pc = "audit_success" => <<"SUCCEEDED", req[r].intent>> \in audit'
        /\ req[r].pc \in Cleared \/ r \in inflight' \/ req'[r].pc \in Cleared =>
             <<"ALLOWED", req[r].intent>> \in audit'
    BY <1>0, <1>7, <2>1, <2>2 DEF time_out, record_audit, RequestInv
  <2>4. RequestInv(r)' /\ OthersStay(r)
    BY <1>0, <1>7, <2>1, <2>2, <2>3 DEF time_out, RequestInv, OthersStay, sandboxVars, KeyOf
  <2>5. SandboxInv' /\ mutations' = mutations
    BY <1>0, <2>2 DEF SandboxInv, sandboxVars
  <2>6. req[r].pc \in Owning => req'[r].pc \in Owning
    BY <1>7, <2>1 DEF time_out
  <2>q. Quiet(r)
    BY <1>0, <1>a, <2>1, <2>2, <2>3, <2>4, <2>5, <2>6 DEF Quiet
  <2> QED BY <1>0, <2>q, <2>5, QuietStep
<1>8. CASE post(r)
  <2>1. /\ req'[r].pc = "waiting" /\ req'[r].intent = req[r].intent
        /\ \A s \in Requests \ {r} : req'[s] = req[s]
    BY <1>0, <1>8, Went DEF post
  <2>2. UNCHANGED <<sandboxVars, ledger, orphaned, unaudited, resets>> /\ inflight' = inflight \cup {r}
    BY <1>8 DEF post, faultVars
  <2>3. /\ audit \subseteq audit'
        /\ req[r].pc = "audit_success" => <<"SUCCEEDED", req[r].intent>> \in audit'
        /\ req[r].pc \in Cleared \/ r \in inflight' \/ req'[r].pc \in Cleared =>
             <<"ALLOWED", req[r].intent>> \in audit'
    BY <1>0, <1>8, <2>1, <2>2 DEF post, record_audit, RequestInv
  <2>4. RequestInv(r)' /\ OthersStay(r)
    BY <1>0, <1>8, <2>1, <2>2, <2>3 DEF post, RequestInv, OthersStay, sandboxVars, KeyOf
  <2>5. SandboxInv' /\ mutations' = mutations
    BY <1>0, <2>2 DEF SandboxInv, sandboxVars
  <2>6. req[r].pc \in Owning => req'[r].pc \in Owning
    BY <1>8, <2>1 DEF post
  <2>q. Quiet(r)
    BY <1>0, <1>a, <2>1, <2>2, <2>3, <2>4, <2>5, <2>6 DEF Quiet
  <2> QED BY <1>0, <2>q, <2>5, QuietStep
<1>9. CASE acquire(r)
  <2>1. /\ req[r].pc = "quota" /\ req'[r].pc \in {"reserve", "rate_limited"}
        /\ req'[r].intent = req[r].intent /\ \A s \in Requests \ {r} : req'[s] = req[s]
    BY <1>0, <1>9, Went DEF acquire
  <2>2. UNCHANGED <<sandboxVars, resets>> /\ ledger' = ledger /\ audit' = audit
        /\ inflight' = inflight /\ UNCHANGED <<orphaned, unaudited>>
    BY <1>9 DEF acquire, faultVars
  <2>3. RequestInv(r)' /\ OthersStay(r)
    BY <1>0, <2>1, <2>2 DEF RequestInv, OthersStay, sandboxVars
  <2>4. SandboxInv' /\ mutations' = mutations
    BY <1>0, <2>2 DEF SandboxInv, sandboxVars
  <2>5. /\ ledger' = ledger /\ UNCHANGED <<orphaned, unaudited>> /\ audit \subseteq audit'
        /\ req[r].pc \in Owning => req'[r].pc \in Owning
        /\ req[r].pc = "audit_success" => req'[r].pc = "audit_success"
    BY <2>1, <2>2
  <2>q. Quiet(r)
    BY <1>0, <1>a, <2>1, <2>3, <2>4, <2>5 DEF Quiet
  <2> QED BY <1>0, <2>q, <2>4, QuietStep
<1>10. CASE reserve_execution(r)
  <2> DEFINE k == KeyOf(r)
             i == req[r].intent
  <2>0. req[r].pc = "reserve" /\ UNCHANGED <<sandboxVars, resets>>
        /\ audit' = audit /\ inflight' = inflight /\ unaudited' = unaudited
    BY <1>10 DEF reserve_execution
  <2>1. CASE UNCHANGED <<ledger, orphaned>> /\ \E pc \in {"refused", "conflict", "replay"} : Goto(r, pc)
    <3>1. /\ req'[r].pc \in {"refused", "conflict", "replay"} /\ req'[r].intent = i
          /\ \A s \in Requests \ {r} : req'[s] = req[s]
      BY <1>0, <2>1, Went
    <3>2. RequestInv(r)' /\ OthersStay(r)
      BY <1>0, <2>0, <3>1 DEF RequestInv, OthersStay, sandboxVars
    <3>3. SandboxInv' /\ mutations' = mutations
      BY <1>0, <2>0 DEF SandboxInv, sandboxVars
    <3>4. /\ ledger' = ledger /\ UNCHANGED <<orphaned, unaudited>> /\ audit \subseteq audit'
          /\ req[r].pc \in Owning => req'[r].pc \in Owning
          /\ req[r].pc = "audit_success" => req'[r].pc = "audit_success"
      BY <2>0, <2>1
    <3>q. Quiet(r)
      BY <1>0, <1>a, <3>1, <3>2, <3>3, <3>4 DEF Quiet
    <3> QED BY <1>0, <3>q, <3>3, QuietStep
  <2>2. CASE SameInput(k, i) /\ ledger[k].status # "SUCCEEDED" /\ reserve(r, k, i)
    <3> DEFINE e == [status |-> "RESERVED", attempt_count |-> ledger[k].attempt_count + 1,
                     input |-> i, output |-> NoResult]
    <3>1. ledger' = [ledger EXCEPT ![KeyOf(r)] = e]
      BY <2>2 DEF reserve
    <3>2. /\ req'[r].pc = "execute" /\ req'[r].intent = i
          /\ \A s \in Requests \ {r} : req'[s] = req[s]
      BY <1>0, <2>2, Went DEF reserve
    <3>3. OthersStay(r)
      BY <2>0, <3>2 DEF OthersStay
    <3>4. ledger[KeyOf(r)].attempt_count \in Nat
      BY <1>0, <2>0, Carried DEF TypeOK, Execution
    <3>5. /\ e.status = "RESERVED" /\ e.input = i
          /\ e.attempt_count \in
               ledger[KeyOf(r)].attempt_count..(ledger[KeyOf(r)].attempt_count + 1)
      BY <3>4
    <3>6. ledger[KeyOf(r)].input \in {NoIntent, i} /\ ledger[KeyOf(r)].status # "SUCCEEDED"
      BY <2>2 DEF SameInput
    <3>7. orphaned \ {KeyOf(r)} \subseteq orphaned'
      BY <2>2 DEF reserve
    <3> HIDE DEF e
    <3> QED BY <1>0, <2>0, <3>1, <3>2, <3>3, <3>5, <3>6, <3>7, LedgerStep
  <2> QED BY <1>10, <2>1, <2>2 DEF reserve_execution, refuse_reservation
<1>11. CASE complete_execution(r)
  <2>0. req[r].pc = "complete" /\ UNCHANGED <<sandboxVars, resets>>
        /\ audit' = audit /\ inflight' = inflight /\ UNCHANGED <<orphaned, unaudited>>
    BY <1>11 DEF complete_execution, faultVars
  <2>1. CASE ledger' = ledger /\ ~StillReserved(KeyOf(r)) /\ Goto(r, "conflict")
    <3>1. /\ req'[r].pc = "conflict" /\ req'[r].intent = req[r].intent
          /\ \A s \in Requests \ {r} : req'[s] = req[s]
      BY <1>0, <2>1, Went
    <3>2. RequestInv(r)' /\ OthersStay(r)
      BY <1>0, <2>0, <3>1 DEF RequestInv, OthersStay, sandboxVars
    <3>3. SandboxInv' /\ mutations' = mutations
      BY <1>0, <2>0 DEF SandboxInv, sandboxVars
    <3>4. ledger[KeyOf(r)].status # "RESERVED"
      BY <2>1 DEF StillReserved
    <3>5. /\ ledger' = ledger /\ UNCHANGED <<orphaned, unaudited>> /\ audit \subseteq audit'
          /\ req[r].pc = "audit_success" => req'[r].pc = "audit_success"
      BY <2>0, <2>1
    <3>q. Quiet(r)
      BY <1>0, <1>a, <3>1, <3>2, <3>3, <3>4, <3>5 DEF Quiet
    <3> QED BY <1>0, <3>q, <3>3, QuietStep
  <2>2. CASE StillReserved(KeyOf(r)) /\ Goto(r, "audit_success")
    <3> DEFINE e == Outcome(KeyOf(r), "SUCCEEDED", [before |-> req[r].intent.old_field, after |-> req[r].intent.new_field])
    <3>1. ledger' = [ledger EXCEPT ![KeyOf(r)] = e]
      BY <1>11, <2>2 DEF complete_execution
    <3>2. /\ req'[r].pc = "audit_success" /\ req'[r].intent = req[r].intent
          /\ \A s \in Requests \ {r} : req'[s] = req[s]
      BY <1>0, <2>2, Went
    <3>3. OthersStay(r)
      BY <2>0, <3>2 DEF OthersStay
    <3>4. ledger[KeyOf(r)].attempt_count \in Nat
      BY <1>0, <2>0, Carried DEF TypeOK, Execution
    <3>5. ledger[KeyOf(r)].input = req[r].intent /\ ledger[KeyOf(r)].status # "SUCCEEDED"
      BY <1>0, <2>0, <2>2 DEF RequestInv, StillReserved
    <3>6. /\ e.status = "SUCCEEDED" /\ e.input = req[r].intent
          /\ e.output = [before |-> req[r].intent.old_field, after |-> req[r].intent.new_field]
          /\ e.attempt_count \in
               ledger[KeyOf(r)].attempt_count..(ledger[KeyOf(r)].attempt_count + 1)
      BY <3>4, <3>5 DEF Outcome
    <3>7. "SUCCEEDED" = "SUCCEEDED" => mutations[KeyOf(r)] >= 1
      BY <1>0, <2>0 DEF RequestInv
    <3> HIDE DEF e
    <3> QED BY <1>0, <2>0, <3>1, <3>2, <3>3, <3>5, <3>6, <3>7, LedgerStep
  <2> QED BY <1>11, <2>1, <2>2 DEF complete_execution
<1>12. CASE fail_execution(r)
  <2>0. req[r].pc = "fail" /\ UNCHANGED <<sandboxVars, resets>>
        /\ audit' = audit /\ inflight' = inflight /\ UNCHANGED <<orphaned, unaudited>>
    BY <1>12 DEF fail_execution, faultVars
  <2>1. CASE ledger' = ledger /\ ~StillReserved(KeyOf(r)) /\ Goto(r, "conflict")
    <3>1. /\ req'[r].pc = "conflict" /\ req'[r].intent = req[r].intent
          /\ \A s \in Requests \ {r} : req'[s] = req[s]
      BY <1>0, <2>1, Went
    <3>2. RequestInv(r)' /\ OthersStay(r)
      BY <1>0, <2>0, <3>1 DEF RequestInv, OthersStay, sandboxVars
    <3>3. SandboxInv' /\ mutations' = mutations
      BY <1>0, <2>0 DEF SandboxInv, sandboxVars
    <3>4. ledger[KeyOf(r)].status # "RESERVED"
      BY <2>1 DEF StillReserved
    <3>5. /\ ledger' = ledger /\ UNCHANGED <<orphaned, unaudited>> /\ audit \subseteq audit'
          /\ req[r].pc = "audit_success" => req'[r].pc = "audit_success"
      BY <2>0, <2>1
    <3>q. Quiet(r)
      BY <1>0, <1>a, <3>1, <3>2, <3>3, <3>4, <3>5 DEF Quiet
    <3> QED BY <1>0, <3>q, <3>3, QuietStep
  <2>2. CASE StillReserved(KeyOf(r)) /\ Goto(r, "audit_failure")
    <3> DEFINE e == Outcome(KeyOf(r), "FAILED", NoResult)
    <3>1. ledger' = [ledger EXCEPT ![KeyOf(r)] = e]
      BY <1>12, <2>2 DEF fail_execution
    <3>2. /\ req'[r].pc = "audit_failure" /\ req'[r].intent = req[r].intent
          /\ \A s \in Requests \ {r} : req'[s] = req[s]
      BY <1>0, <2>2, Went
    <3>3. OthersStay(r)
      BY <2>0, <3>2 DEF OthersStay
    <3>4. ledger[KeyOf(r)].attempt_count \in Nat
      BY <1>0, <2>0, Carried DEF TypeOK, Execution
    <3>5. ledger[KeyOf(r)].input = req[r].intent /\ ledger[KeyOf(r)].status # "SUCCEEDED"
      BY <1>0, <2>0, <2>2 DEF RequestInv, StillReserved
    <3>6. /\ e.status = "FAILED" /\ e.input = req[r].intent
          /\ e.output = NoResult
          /\ e.attempt_count \in
               ledger[KeyOf(r)].attempt_count..(ledger[KeyOf(r)].attempt_count + 1)
      BY <3>4, <3>5 DEF Outcome
    <3>7. "FAILED" = "SUCCEEDED" => mutations[KeyOf(r)] >= 1
      BY <1>0, <2>0 DEF RequestInv
    <3> HIDE DEF e
    <3> QED BY <1>0, <2>0, <3>1, <3>2, <3>3, <3>5, <3>6, <3>7, LedgerStep
  <2> QED BY <1>12, <2>1, <2>2 DEF fail_execution
<1>13. CASE deliver(r)
  <2>0. /\ UNCHANGED <<ledger, audit, orphaned, unaudited, resets>>
        /\ r \in inflight /\ inflight' = inflight \ {r}
    BY <1>13 DEF deliver, faultVars
  <2>1. /\ SandboxInv'
        /\ \A k \in Keys : mutations'[k] >= mutations[k]
        /\ \A k \in Keys : mutations'[k] # mutations[k] => k = KeyOf(r)
        /\ ApplyAnswer(Patch(req[r].intent)).status < 400 => mutations'[KeyOf(r)] >= 1
    BY <1>13, Delivered
  <2>2. CASE req[r].pc = "waiting" /\ Goto(r, "complete") /\ Accepted(r, ApplyAnswer(Patch(req[r].intent)))
    <3>1. /\ req'[r].pc = "complete" /\ req'[r].intent = req[r].intent
          /\ \A s \in Requests \ {r} : req'[s] = req[s]
      BY <1>0, <2>2, Went
    <3>2. mutations'[KeyOf(r)] >= 1 /\ KeyOf(r)' = KeyOf(r)
      BY <2>1, <2>2, <3>1 DEF Accepted, KeyOf
    <3>3. RequestInv(r)' /\ OthersStay(r)
      BY <1>0, <2>0, <2>2, <3>1, <3>2 DEF RequestInv, OthersStay
    <3>q. Quiet(r)
      BY <1>0, <2>0, <2>1, <2>2, <3>1, <3>3 DEF Quiet
    <3> QED BY <1>0, <3>q, <2>1, QuietStep
  <2>3. CASE req[r].pc = "waiting" /\ Goto(r, "fail")
    <3>1. /\ req'[r].pc = "fail" /\ req'[r].intent = req[r].intent
          /\ \A s \in Requests \ {r} : req'[s] = req[s]
      BY <1>0, <2>3, Went
    <3>2. RequestInv(r)' /\ OthersStay(r)
      BY <1>0, <2>0, <2>3, <3>1 DEF RequestInv, OthersStay, KeyOf
    <3>q. Quiet(r)
      BY <1>0, <2>0, <2>1, <2>3, <3>1, <3>2 DEF Quiet
    <3> QED BY <1>0, <3>q, <2>1, QuietStep
  <2>4. CASE req[r].pc # "waiting" /\ UNCHANGED req
    <3>1. req[r].pc = "complete" => mutations'[KeyOf(r)] >= 1
      <4>1. ASSUME req[r].pc = "complete"
            PROVE  mutations[KeyOf(r)] \in Nat /\ mutations'[KeyOf(r)] \in Nat
                   /\ mutations[KeyOf(r)] >= 1 /\ mutations'[KeyOf(r)] >= mutations[KeyOf(r)]
        <5>1. KeyOf(r) \in Keys
          BY <1>0, <4>1, Carried
        <5> QED BY <1>0, <1>a, <2>1, <4>1, <5>1 DEF RequestInv, TypeOK, SandboxTypeOK
      <4> QED BY <4>1
    <3>2. RequestInv(r)' /\ OthersStay(r)
      BY <1>0, <2>0, <2>4, <3>1 DEF RequestInv, OthersStay, KeyOf
    <3>q. Quiet(r)
      BY <1>0, <2>0, <2>1, <2>4, <3>2 DEF Quiet
    <3> QED BY <1>0, <3>q, <2>1, QuietStep
  <2> QED BY <1>13, <2>2, <2>3, <2>4 DEF deliver
<1>14. CASE uncaught(r)
  <2>1. /\ req'[r].pc = "error" /\ req'[r].intent = req[r].intent
        /\ \A s \in Requests \ {r} : req'[s] = req[s]
    BY <1>0, <1>14, Went DEF uncaught
  <2>2. /\ UNCHANGED <<sandboxVars, ledger, audit, resets>> /\ inflight' = inflight
        /\ req[r].pc # "idle"
    BY <1>14 DEF uncaught
  <2>3. RequestInv(r)' /\ OthersStay(r)
    BY <1>0, <2>1, <2>2 DEF RequestInv, OthersStay, sandboxVars
  <2>4. SandboxInv' /\ mutations' = mutations
    BY <1>0, <2>2 DEF SandboxInv, sandboxVars
  <2>5. /\ orphaned \subseteq orphaned' /\ unaudited \subseteq unaudited'
        /\ req[r].pc \in Owning => KeyOf(r) \in orphaned'
        /\ req[r].pc = "audit_success" => req[r].intent \in unaudited'
    BY <1>14 DEF uncaught, abandon
  <2>q. Quiet(r)
    BY <1>0, <1>a, <2>1, <2>2, <2>3, <2>4, <2>5 DEF Quiet
  <2> QED BY <1>0, <2>q, <2>4, QuietStep
<1> QED BY <1>1, <1>2, <1>3, <1>4, <1>5, <1>6, <1>7, <1>8, <1>9, <1>10, <1>11, <1>12, <1>13, <1>14
        DEF Handle

-----------------------------------------------------------------------------
(* The surroundings.                                                       *)

\* Time, the coordinator, and faults of the sandbox touch no request, and
\* neither the ledger nor the audit.
LEMMA SurroundingStep ==
  ASSUME Inv, TypeOK', SandboxInv',
         UNCHANGED <<req, inflight, ledger, audit, active, mutations, orphaned, unaudited>>
  PROVE  Inv' /\ Forward
<1>1. \A k \in Keys : ledger[k].attempt_count \in Nat
  BY DEF Inv, TypeOK, Execution
<1>2. Forward
  BY <1>1 DEF Forward
<1>3. QuotaIsHeld' /\ \A r \in Requests : RequestInv(r)'
  BY DEF Inv, QuotaIsHeld, RequestInv, KeyOf
<1>4. SuccessIsBacked' /\ ReservationHasOwner' /\ AuditCovers'
  BY DEF Inv, SuccessIsBacked, ReservationHasOwner, AuditCovers, KeyOf, At
<1> QED BY <1>2, <1>3, <1>4 DEF Inv

\* A crash ends the requests and frees the quota; documents and the patches
\* already sent stay.
LEMMA CrashStep ==
  ASSUME Inv, crash
  PROVE  Inv' /\ Forward
<1>0. /\ TypeOK /\ SandboxInv /\ SuccessIsBacked /\ ReservationHasOwner /\ AuditCovers
      /\ \A r \in Requests : RequestInv(r)
  BY DEF Inv
<1>1. /\ UNCHANGED <<sandboxVars, phase, expired, ledger, stale, audit, inflight, resets>>
      /\ abandon(Requests) /\ faults' = faults + 1 /\ faults < MaxFaults /\ active' = 0
  BY DEF crash, Fault
<1>2. orphaned' \subseteq Keys /\ unaudited' \subseteq Intents
  BY <1>0, <1>1, AbandonTypes
<1>3. ASSUME NEW r \in Requests
      PROVE  /\ req'[r].pc \in Answered /\ req'[r].intent = req[r].intent
             /\ req'[r].pc = "idle" <=> req[r].pc = "idle"
  BY DEF crash, Answered
<1>4. req' \in [Requests -> [pc : Pcs, intent : Intents \cup {NoIntent}]]
  <2>1. \A r \in Requests : req[r].intent \in Intents \cup {NoIntent} /\ req[r].pc \in Pcs
    BY <1>0 DEF TypeOK
  <2> QED BY <2>1 DEF crash, Pcs, Answered
<1>5. faults' \in 0..MaxFaults
  BY <1>0, <1>1 DEF TypeOK
<1>6. TypeOK'
  BY <1>0, <1>1, <1>2, <1>4, <1>5 DEF TypeOK, SandboxTypeOK, sandboxVars
<1>7. QuotaIsHeld'
  <2>1. {r \in Requests : req'[r].pc \in Holding} = {}
    BY <1>3 DEF Answered, Holding
  <2> QED BY <1>1, <2>1, FS_EmptySet DEF QuotaIsHeld
<1>8. ASSUME NEW r \in Requests PROVE RequestInv(r)'
  <2>1. req'[r].pc \notin Cleared /\ req'[r].pc \notin Owning \cup {"audit_success"}
        /\ req'[r].pc # "complete"
    BY <1>3 DEF Answered, Cleared, Holding, Owning
  <2> QED BY <1>0, <1>1, <1>3, <2>1 DEF RequestInv
<1>9. SandboxInv' /\ SuccessIsBacked'
  BY <1>0, <1>1 DEF SandboxInv, SuccessIsBacked, sandboxVars
<1>10. ReservationHasOwner' /\ AuditCovers'
  <2>1. /\ orphaned \subseteq orphaned' /\ unaudited \subseteq unaudited'
        /\ \A r \in Requests : req[r].pc \in Owning => KeyOf(r) \in orphaned'
        /\ \A r \in Requests : req[r].pc = "audit_success" => req[r].intent \in unaudited'
    BY <1>1 DEF abandon, At
  <2>2. ReservationHasOwner'
    BY <1>0, <1>1, <2>1 DEF ReservationHasOwner
  <2>3. AuditCovers'
    BY <1>0, <1>1, <2>1 DEF AuditCovers, sandboxVars, At
  <2> QED BY <2>2, <2>3
<1>11. Forward
  <2>1. \A k \in Keys : ledger[k].attempt_count \in Nat
    BY <1>0 DEF TypeOK, Execution
  <2> QED BY <1>1, <2>1 DEF Forward
<1> QED BY <1>6, <1>7, <1>8, <1>9, <1>10, <1>11 DEF Inv

\* The other steps of the surroundings keep types and the sandbox's invariant.
LEMMA OtherStep ==
  ASSUME Inv,
         \/ \E c \in Changes : expire(c) \/ Coordinate(c)
         \/ \E k \in Keys : grow_stale(k)
         \/ reset_sandbox
         \/ \E n \in 1..MaxInjected : inject(n)
  PROVE  Inv' /\ Forward
<1>0. TypeOK /\ SandboxInv
  BY DEF Inv
<1>1. CASE \E c \in Changes : expire(c)
  <2>1. TypeOK' /\ SandboxInv'
    BY <1>0, <1>1 DEF expire, TypeOK, SandboxTypeOK, SandboxInv, sandboxVars, gatewayVars, faultVars
  <2> QED BY <1>1, <2>1, SurroundingStep DEF expire, sandboxVars, gatewayVars, faultVars
<1>2. ASSUME NEW c \in Changes, take_snapshot(c) PROVE Inv' /\ Forward
  <2>1. SandboxTypeOK' /\ SandboxInv' /\ mutations' = mutations
    BY <1>0, <1>2 DEF take_snapshot, snapshot, TypeOK, SandboxTypeOK, SandboxInv, faultVars
  <2>2. phase' \in [Changes -> Phases]
    BY <1>0, <1>2 DEF take_snapshot, TypeOK, Phases
  <2>3. TypeOK'
    BY <1>0, <1>2, <2>1, <2>2 DEF take_snapshot, TypeOK, gatewayVars, faultVars
  <2> QED BY <1>2, <2>1, <2>3, SurroundingStep DEF take_snapshot, gatewayVars, faultVars
<1>3. ASSUME NEW c \in Changes, leave_execution(c) PROVE Inv' /\ Forward
  <2>1. phase' \in [Changes -> Phases]
    BY <1>0, <1>3 DEF leave_execution, TypeOK, Phases
  <2>2. TypeOK' /\ SandboxInv'
    BY <1>0, <1>3, <2>1
       DEF leave_execution, TypeOK, SandboxTypeOK, SandboxInv, sandboxVars, gatewayVars, faultVars
  <2> QED BY <1>3, <2>2, SurroundingStep DEF leave_execution, sandboxVars, gatewayVars, faultVars
<1>4. ASSUME NEW c \in Changes, roll_back(c) PROVE Inv' /\ Forward
  <2>1. SandboxTypeOK' /\ SandboxInv' /\ mutations' = mutations
    BY <1>0, <1>4 DEF roll_back, restore, TypeOK, SandboxTypeOK, SandboxInv, faultVars
  <2>2. TypeOK'
    BY <1>0, <1>4, <2>1 DEF roll_back, TypeOK, gatewayVars, faultVars
  <2> QED BY <1>4, <2>1, <2>2, SurroundingStep DEF roll_back, gatewayVars, faultVars
<1>5. ASSUME NEW k \in Keys, grow_stale(k) PROVE Inv' /\ Forward
  <2>1. TypeOK' /\ SandboxInv'
    BY <1>0, <1>5 DEF grow_stale, TypeOK, SandboxTypeOK, SandboxInv, sandboxVars, faultVars
  <2> QED BY <1>5, <2>1, SurroundingStep DEF grow_stale, sandboxVars, faultVars
<1>6. CASE reset_sandbox
  <2>1. resets \in Nat /\ \A k \in Keys : mutations[k] \in Nat /\ mutations[k] <= resets + 1
    BY <1>0 DEF TypeOK, SandboxTypeOK, SandboxInv
  <2>2. SandboxTypeOK' /\ mutations' = mutations
    BY <1>0, <1>6 DEF reset_sandbox, reset, TypeOK, SandboxTypeOK
  <2>3. resets' = resets + 1 /\ \A k \in Keys : executions'[k] = NoResult
    BY <1>6 DEF reset_sandbox, reset
  <2>4. SandboxInv'
    BY <2>1, <2>2, <2>3 DEF SandboxInv
  <2>5. faults' \in 0..MaxFaults /\ resets' \in Nat
    BY <1>0, <1>6, <2>1, <2>3 DEF reset_sandbox, Fault, TypeOK
  <2>6. TypeOK'
    BY <1>0, <1>6, <2>2, <2>5 DEF reset_sandbox, TypeOK, gatewayVars
  <2> QED BY <1>6, <2>2, <2>4, <2>6, SurroundingStep DEF reset_sandbox, gatewayVars
<1>7. ASSUME NEW n \in 1..MaxInjected, inject(n) PROVE Inv' /\ Forward
  <2>1. n \in 0..MaxInjected
    OBVIOUS
  <2>2. SandboxTypeOK' /\ SandboxInv' /\ mutations' = mutations
    BY <1>0, <1>7, <2>1 DEF inject, inject_transient_failures, TypeOK, SandboxTypeOK, SandboxInv
  <2>3. faults' \in 0..MaxFaults
    BY <1>0, <1>7 DEF inject, Fault, TypeOK
  <2>4. TypeOK'
    BY <1>0, <1>7, <2>2, <2>3 DEF inject, TypeOK, gatewayVars
  <2> QED BY <1>7, <2>2, <2>4, SurroundingStep DEF inject, gatewayVars
<1> QED BY <1>1, <1>2, <1>3, <1>4, <1>5, <1>6, <1>7 DEF Coordinate

-----------------------------------------------------------------------------
(* Theorems.                                                               *)

\* The initial state satisfies the invariant.
LEMMA InitInv == Init => Inv
<1> SUFFICES ASSUME Init PROVE Inv
  OBVIOUS
<1> USE DEF Init, SandboxInit
<1>1. TypeOK
  <2>1. SandboxTypeOK
    BY DEF SandboxTypeOK
  <2>2. NoExecution \in Execution
    BY DEF NoExecution, Execution, ExecutionStatus
  <2>3. ledger \in [Keys -> Execution]
    BY <2>2
  <2>4. req \in [Requests -> [pc : Pcs, intent : Intents \cup {NoIntent}]]
    BY DEF Pcs, Answered
  <2> QED BY <2>1, <2>3, <2>4 DEF TypeOK, Phases
<1>2. QuotaIsHeld
  <2>1. {r \in Requests : req[r].pc \in Holding} = {}
    BY DEF Holding
  <2> QED BY <2>1, FS_EmptySet DEF QuotaIsHeld
<1>3. \A r \in Requests : RequestInv(r)
  BY DEF RequestInv, Cleared, Holding, Owning
<1>4. SandboxInv
  BY DEF SandboxInv
<1>5. SuccessIsBacked /\ ReservationHasOwner /\ AuditCovers
  BY DEF SuccessIsBacked, ReservationHasOwner, AuditCovers, NoExecution
<1> QED BY <1>1, <1>2, <1>3, <1>4, <1>5 DEF Inv

\* Every step preserves it and moves the ledger forward.
LEMMA NextInv == Inv /\ [Next]_vars => Inv' /\ Forward
<1> SUFFICES ASSUME Inv, [Next]_vars PROVE Inv' /\ Forward
  OBVIOUS
<1>1. CASE UNCHANGED vars
  <2>1. UNCHANGED <<sandboxVars, phase, expired, gatewayVars, faultVars>>
    BY <1>1 DEF vars
  <2>2. TypeOK' /\ SandboxInv'
    BY <2>1 DEF Inv, TypeOK, SandboxTypeOK, SandboxInv, sandboxVars, gatewayVars, faultVars
  <2>3. UNCHANGED <<req, inflight, ledger, audit, active, mutations, orphaned, unaudited>>
    BY <2>1 DEF sandboxVars, gatewayVars, faultVars
  <2> QED BY <2>2, <2>3, SurroundingStep
<1>2. CASE \E r \in Requests : (\E i \in Intents : evaluate(r, i)) \/ Handle(r) \/ deliver(r)
  BY <1>2, RequestStep
<1>3. CASE crash
  BY <1>3, CrashStep
<1>4. CASE \/ \E c \in Changes : expire(c) \/ Coordinate(c)
           \/ \E k \in Keys : grow_stale(k)
           \/ reset_sandbox
           \/ \E n \in 1..MaxInjected : inject(n)
  BY <1>4, OtherStep
<1> QED BY <1>1, <1>2, <1>3, <1>4 DEF Next

\* The inductive invariant of evaluate_and_execute and the sandbox behind it.
THEOREM InvInvariant == Spec => []Inv
BY InitInv, NextInv, PTL DEF Spec

\* Ledger, audit, requests and sandbox keep the shape of their models.
THEOREM TypeCorrect == Spec => []TypeOK
<1>1. Inv => TypeOK
  BY DEF Inv
<1> QED BY <1>1, InvInvariant, PTL

\* apply: a key changes a configuration at most once in each life of the
\* sandbox's state, whoever repeats or takes over the call.
THEOREM MutatesOnce == Spec => []OneMutationPerKey
<1>1. Inv => OneMutationPerKey
  <2> SUFFICES ASSUME Inv, NEW k \in Keys PROVE mutations[k] <= resets + 1
    BY DEF OneMutationPerKey
  <2>1. mutations[k] \in Nat /\ resets \in Nat
    BY DEF Inv, TypeOK, SandboxTypeOK
  <2>2. mutations[k] <= resets \/ mutations[k] <= resets + 1
    BY DEF Inv, SandboxInv
  <2> QED BY <2>1, <2>2
<1> QED BY <1>1, InvInvariant, PTL

\* complete_execution: a success in the ledger is the result of the intent that
\* reserved the key, and the sandbox applied it.
THEOREM SuccessesAreBacked == Spec => []SuccessIsBacked
<1>1. Inv => SuccessIsBacked
  BY DEF Inv
<1> QED BY <1>1, InvInvariant, PTL

\* ToolQuotaManager: the counter is exact on every way out, for every limit.
THEOREM QuotaIsExact == Spec => []QuotaIsHeld
<1>1. Inv => QuotaIsHeld
  BY DEF Inv
<1> QED BY <1>1, InvInvariant, PTL

\* reserve_execution: a reservation has a request that will decide it, unless its
\* owner died in a crash or by an exception that evaluate_and_execute does not
\* catch; taking it over gives it an owner again.
THEOREM ReservationsAreOwned == Spec => []ReservationHasOwner
<1>1. Inv => ReservationHasOwner
  BY DEF Inv
<1> QED BY <1>1, InvInvariant, PTL

\* record_audit: every mutation was allowed in the audit first, and a success is
\* audited unless its request died between the two.
THEOREM AuditIsComplete == Spec => []AuditCovers
<1>1. Inv => AuditCovers
  BY DEF Inv
<1> QED BY <1>1, InvInvariant, PTL

\* complete_execution and fail_execution: a late outcome takes no success back.
THEOREM LedgerGoesForward == Spec => LedgerMovesForward
<1>1. Inv /\ [Next]_vars => [Forward]_vars
  BY NextInv
<1> QED BY <1>1, InvInvariant, PTL DEF Spec, LedgerMovesForward, Forward
==============================================================================
