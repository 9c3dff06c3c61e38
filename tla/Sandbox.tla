------------------------------- MODULE Sandbox -------------------------------
(***************************************************************************)
(* One enterprise sandbox as one tenant sees it: ConfigurationStore of     *)
(* enterprise-sandbox/src/changeops_sandbox/store.py, which the CRM,       *)
(* Analytics and Support services share.  Every method holds the store's   *)
(* lock, so it is one step.  The tenant's first access copies the seed     *)
(* (_get_unlocked), which is the initial configuration here.               *)
(*                                                                         *)
(* A configuration is the value of its mutable field; the other fields are *)
(* never written, except the CRM's schema_version, which counts the        *)
(* patches.  A snapshot is indexed by the change it was taken for.  The    *)
(* injected verification failures are the free outcome of verification in  *)
(* module WorkflowExecution.                                               *)
(***************************************************************************)
EXTENDS Integers

CONSTANTS
  Changes,       \* the changes that migrate this system
  Keys,          \* idempotency keys
  Fields,        \* values of the mutable field
  SeedField,     \* its value in the seed
  None,          \* no field
  MaxInjected    \* bound: failures injected at once (the API allows 1 to 3)

ASSUME FieldsAssumption == SeedField \in Fields /\ None \notin Fields
ASSUME MaxInjectedAssumption == MaxInjected \in 0..3

VARIABLES
  configuration,          \* _configurations
  executions,             \* _executions: the result stored under each key
  snapshots,              \* _snapshots
  transient_failures,     \* _transient_failures
  mutations               \* history: how often each key changed the field

sandboxVars == <<configuration, executions, snapshots, transient_failures,
                 mutations>>

\* A FieldPatchRequest and the PatchResult.
FieldPatch == [idempotency_key : Keys, old_field : Fields, new_field : Fields]
PatchResult == [before : Fields, after : Fields]
NoResult == [before |-> None, after |-> None]

SandboxTypeOK ==
  /\ configuration \in Fields
  /\ executions \in [Keys -> PatchResult \cup {NoResult}]
  /\ snapshots \in [Changes -> Fields \cup {None}]
  /\ transient_failures \in 0..MaxInjected
  /\ mutations \in [Keys -> Nat]

SandboxInit ==
  /\ configuration = SeedField
  /\ executions = [k \in Keys |-> NoResult]
  /\ snapshots = [c \in Changes |-> None]
  /\ transient_failures = 0
  /\ mutations = [k \in Keys |-> 0]

\* The stored result of an earlier execution comes first, then the injected
\* failure, then the comparison with the expected old value.
Replays(p) == executions[p.idempotency_key] # NoResult
FailsInjected(p) == ~Replays(p) /\ transient_failures > 0
Conflicts(p) == ~Replays(p) /\ ~FailsInjected(p) /\ configuration # p.old_field
Patches(p) == ~Replays(p) /\ ~FailsInjected(p) /\ ~Conflicts(p)

\* The HTTP answer: its status and, if it is a success, the result.
ApplyAnswer(p) ==
  IF Replays(p) THEN [status |-> 200, result |-> executions[p.idempotency_key]]
  ELSE IF FailsInjected(p) THEN [status |-> 503, result |-> NoResult]
  ELSE IF Conflicts(p) THEN [status |-> 409, result |-> NoResult]
  ELSE [status |-> 200, result |-> [before |-> p.old_field, after |-> p.new_field]]

\* Mutant: the result is stored before the injected failure is raised.
apply_stores_first(p) ==
  /\ transient_failures' = IF FailsInjected(p) THEN transient_failures - 1
                           ELSE transient_failures
  /\ configuration' = IF Patches(p) THEN p.new_field ELSE configuration
  /\ executions' = IF Patches(p) \/ FailsInjected(p)
       THEN [executions EXCEPT ![p.idempotency_key] =
               [before |-> p.old_field, after |-> p.new_field]]
       ELSE executions
  /\ mutations' = IF Patches(p)
       THEN [mutations EXCEPT ![p.idempotency_key] = @ + 1] ELSE mutations
  /\ UNCHANGED snapshots

\* Mutant: the result is not stored.
apply_forgets(p) ==
  /\ transient_failures' = IF FailsInjected(p) THEN transient_failures - 1
                           ELSE transient_failures
  /\ configuration' = IF Patches(p) THEN p.new_field ELSE configuration
  /\ mutations' = IF Patches(p)
       THEN [mutations EXCEPT ![p.idempotency_key] = @ + 1] ELSE mutations
  /\ UNCHANGED <<executions, snapshots>>

apply(p) ==
  /\ transient_failures' = IF FailsInjected(p) THEN transient_failures - 1
                           ELSE transient_failures
  /\ configuration' = IF Patches(p) THEN p.new_field ELSE configuration
  /\ executions' = IF Patches(p)
       THEN [executions EXCEPT ![p.idempotency_key] =
               [before |-> p.old_field, after |-> p.new_field]]
       ELSE executions
  /\ mutations' = IF Patches(p)
       THEN [mutations EXCEPT ![p.idempotency_key] = @ + 1] ELSE mutations
  /\ UNCHANGED snapshots

snapshot(c) ==
  /\ snapshots' = [snapshots EXCEPT ![c] = configuration]
  /\ UNCHANGED <<configuration, executions, transient_failures, mutations>>

\* The whole configuration comes back, whoever has changed it since; the
\* stored results stay, so a key that was undone is still replayed.
restore(c) ==
  /\ snapshots[c] # None
  /\ configuration' = snapshots[c]
  /\ UNCHANGED <<executions, snapshots, transient_failures,
                 mutations>>

inject_transient_failures(n) ==
  /\ transient_failures' = n
  /\ UNCHANGED <<configuration, executions, snapshots, mutations>>

\* The tenant's copy of the seed again, with nothing remembered.
reset ==
  /\ configuration' = SeedField
  /\ executions' = [k \in Keys |-> NoResult]
  /\ snapshots' = [c \in Changes |-> None]
  /\ transient_failures' = 0
  /\ UNCHANGED mutations
=============================================================================
