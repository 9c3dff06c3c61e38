# Enterprise ChangeOps: TLA+ models and proofs

Enterprise ChangeOps takes an event about a changed enterprise contract (a CRM
API drops a field), lets a fleet of agents draft a remediation plan, asks a
person to approve it, executes it step by step on the affected systems through
a governed tool gateway, verifies the result, and compensates when something
fails.  This directory models the parts of it that keep state and have to stay
correct while messages repeat, requests race, calls time out and processes die.

## Inventory

| Component | State it keeps | Operations | Talks to |
|---|---|---|---|
| Workflow graph (`changeops_core/state_machine.py`) | none | `can_transition` over 16 states | everybody who moves a change |
| State transition service and change repository (`changeops_core`, `changeops_persistence`) | `ChangeRecord` (status, version, plan hash), audit events | `add_with_audit`, `transition` = read, graph check, compare-and-set commit with audit, audit of a rejection | coordinator, Control API |
| Event gateway (`services/event-gateway`) | inbox record per event, rate-limit window per tenant | `POST /v1/events/change`: limit, accept, reserve, publish, mark | Pub/Sub topic |
| Workflow coordinator, intake (`services/workflow-coordinator`: `subscriber.py`, `engine.py` `process_event`) | `WorkflowExecutionRecord`, dead letters | message handler, `process_event` | Pub/Sub, agent fleet, change repository, tool gateway (approvals) |
| Workflow coordinator, execution (`engine.py` `resume_approval` and below) | tasks and snapshots of the record | snapshots, DAG waves with retries, verification, rollback | tool gateway, sandboxes |
| Tool gateway (`services/tool-gateway`) | approvals, execution reservations, quota | create, decide, expire an approval; `evaluate_and_execute` | coordinator callback, policy engine, sandboxes |
| Policy engine (`packages/policy-engine`) | none | decide one intent | tool gateway |
| Enterprise sandboxes (`enterprise-sandbox`) | system configurations, idempotency keys, injected failures | snapshot, patch, restore, verify, inject, reset | tool gateway, coordinator |
| Control API, commands (`services/control-api`) | none of its own | create, cancel, retry a change | change repository |
| Control API, audit stream (`sse.py`) | cursor per connection | stream audit events | change repository |
| Control API, admission (`admission/`) | organizations, invitations, memberships | invite, redeem, revoke, set status, set administrator | identity provider |
| Agent fleet (`services/agent-fleet`) | none that survives a request | analyse an event: prompt guard, incident memory, concurrent evidence, dependency search, seven agents with joins | coordinator, sandboxes and catalog (read only), model provider |
| Contracts, configuration, logging, control tower, deployment | formats, settings, UI | - | - |

What is hard in it, and what makes each part correct:

* **Changes** are moved by several servers at once under optimistic locking.
  Correct: every stored step is an edge of the graph, versions count one by
  one, the audit trail alone reconstructs the change, and what a caller is told
  agrees with the audit.
* **Events** arrive more than once, at the gateway (senders repeat) and at the
  coordinator (Pub/Sub redelivers).  Correct: nothing acknowledged is lost, an
  identity stands for one content and one plan, a duplicate needs a fault.
* **Execution** runs under repeated approval callbacks (the approver's client
  repeats a decision whose callback timed out), with tool calls that time out,
  go on after their client gave up, and fail after their effect.  Correct:
  snapshot before mutation, mutation only under approval and in dependency
  order, COMPLETED means migrated, FAILED means restored, retries end.
* **Governed calls** of several changes meet at one gateway and one sandbox:
  reservations are taken over from owners that are only slow, patches are handled
  after their sender gave up, the process dies between a mutation and its record.
  Correct: a key mutates once, a success in the ledger is real and final, the
  quota is exact, every mutation is audited.
* **Admission** documents are changed by concurrent transactions.  Correct: the
  transactions behave like operations that happen one at a time; an invitation
  makes at most one membership; suspension wins over activation; the owner stays.
* **Analyses** read seven sources and run agents concurrently.  Correct: nothing
  happens before the guard has decided, an answer rests on all of it, the path
  search is exact, every analysis ends.
* **The audit stream** resumes by cursor over events that are not committed in
  the order of their stamps.  Correct: in order, none twice, and nothing missing
  that was not overtaken.
* **Crashes** happen between any two store accesses.

`PROJECT.json` lists each hazard with the line where it bites and the
properties that would catch it.

## Modules

| Module | Models | State and actions |
|---|---|---|
| `ChangeStates` | `_ALLOWED_TRANSITIONS` | the graph as a function, `can_transition` |
| `ChangeState` | `StateTransitionService.transition` over the change repository | `change`, `trail` (success audit), `rejected` (rejection audit), `req` (requests); read, commit and rejection audit are separate steps, requests come from the engine, from `cancel_change` and from `retry_change`, and may crash |
| `WorkflowStores` | what both coordinator entry points share | `change`, `record`, `approval`, `expired`, `proc` (coroutines with the copy of the record they hold); `transition`, `update_record` with version check and lifecycle validation |
| `WorkflowIntake` | `_handle_message`, `process_event` | `event`, `deadLetters`, `deadTopic`, `forwarded`; one action per store access or call |
| `WorkflowExecution` | approvals, `resume_approval`, tool gateway, sandboxes | `config`, `applied`, `ledger` (reservations), `calls` (tool calls in flight, at one of five stages), `late` (history) |
| `WorkflowCoordinator` | the composition, fairness, properties | |
| `ChangeLifecycle` | the abstract specification `WorkflowCoordinator` implements: what an approver and the owners of the systems may rely on | `status` and `plan` of the change, `approval`, `config`, `applied`, `late`; no records, copies, coroutines or tool calls |
| `EventGateway` | `ingest_change`, inbox, limiter, publisher | `clock`, `inbox`, `topic`, `window`, `served` (history), `req` |
| `Sandbox` | `ConfigurationStore` | `configuration`, `executions` (results by key), `snapshots`, `transient_failures`, `mutations` (history); each method, which holds the lock, is one action |
| `ToolGateway` | `evaluate_and_execute` over the reservation ledger, `ToolQuotaManager` and `HttpToolExecutor`, composed with `Sandbox` | `ledger`, `stale`, `active`, `audit`, `req`, `inflight`; one action per await; the coordinator appears as `take_snapshot`, `leave_execution`, `roll_back` |
| `AdmissionDocuments` | what each operation of `AdmissionService` requires (`may_x`) and writes (`write_x`) | `bootstrap`, `user`, `org`, `member`, `invitation`, `audit` |
| `Admission` | the abstract service: one allowed operation at a time | the same documents |
| `AdmissionStore` | optimistic transactions of several workers | adds `tx`, `expired`; `begin` reads and decides, `commit` writes if what was read is current, `abort` |
| `AgentFleet` | one `analyze` request | `guard`, `memory`, `pending`, `queue` and `paths` (`_dependency_paths`), `agent`, `order` (history) |
| `AuditStream` | `list_audit_after`, `audit_event_stream`, the control tower's proxy, the browser's EventSource | `created_at`, `committed`, `terminal`, `ended` (the EventSource, for good), `cursor`, `pending`, `wire`, `received`, `overtaken` (history) |
| `ChangeStateProofs`, `EventGatewayProofs`, `AdmissionProofs`, `ToolGatewayProofs`, `WorkflowProofs`, `CompensationProofs`, `AgentFleetProofs`, `AuditStreamProofs` | theorems | |
| `MC...` | instances for TLC | |

Definitions keep the name of the function they model.  Operators whose name
extends another one (`restore_succeeded`, `Admitted_over`) are mutants: the
property named for them in `PROJECT.json` fails when they replace the original.

### Modelling decisions

* `ChangeState` takes one transition apart (read, commit, rejection audit).  The
  workflow modules model the commit with its checks as one step after the
  engine's own read of the change: the value that can go stale there is the
  version the engine read, and it is kept in the coroutine.
* Coroutines keep their copy of the record; two of them run between any two
  store accesses.  A coroutine that is cancelled while a store thread runs is
  covered by interrupting it before or after that access.
* In `WorkflowExecution` the gateway hands an unfinished reservation to a new
  call only when no live call holds it (it waits two minutes, and the adapter
  gives up long before), and a sandbox applies a request before the adapter gives
  up, or never.  `ToolGateway` drops both assumptions: it asks what the ledger and
  the sandbox guarantee however slow anybody is, with several changes on one
  sandbox, and in turn abstracts the coordinator to the calls it makes.
* In `ToolGateway` an intent stands for its semantic input hash; two intents may
  carry one key, which is a client's mistake that has to stay harmless.  The
  ledger and the audit are Firestore's and survive a crash, requests and quota do
  not.  A patch that never arrives is one that stays in flight.  An exception the
  route does not catch (`uncaught`) ends one request at any point and gives its
  quota back; what a request leaves undecided when it ends that way or dies is in
  the histories `orphaned` and `unaudited`.
* In `AdmissionStore` the check that nothing read has changed is the Firestore
  server's (external); the memory adapter holds a lock, which is the special case
  of one worker.  An identifier that is generated is any unused one.
* `AgentFleet` has one request: analyses share no state.  What a model writes is
  a success or a failure of its agent, and all of it together passes the final
  checks of the result or does not (`answer`, `answer_fails`); the path search runs step by step over
  every catalog of the instance, cycles included.
* `AuditStream` covers both adapters' stamps: at the commit (Firestore) or taken
  earlier by the writer (memory).  Identifiers are random, so ties are broken in
  any order.  A reconnect is answered by a stream, or by an error (`refuse`), after
  which a browser's EventSource does not try again; a page that finds its workflow
  terminal closes the stream (`close`).
* The `attention` field of `change` is no field of the stored record: it says
  whether the audit trail has a transition to NEEDS_ATTENTION.
* Back-off delays, token acquisition, request ids and audit events that no
  decision reads are left out.  Plans and hashes are model values, equal exactly
  when the hashes of the code are.
* `EventGateway` covers both inbox adapters: a write is stamped with the time
  it was given (memory) or with the time of the commit (Firestore).  The inbox
  survives a restart, which is Firestore's behaviour; the limiter does not.
  The clock of one gateway does not run backwards.  A message that reaches the
  topic after the publisher's timeout counts as having arrived at the timeout.
* One event identity, hence one change and one workflow.  Documents of different
  events share nothing but the sandboxes.

## Runs

| Run | Instance | Shows |
|---|---|---|
| `change_state` | 3 requests, clocks that disagree, a plan | `TypeOK`, `AuditExplainsChange`, `AnswerMatchesAudit`, `GraphRespected` |
| `change_version_guess` | the same, clients one version ahead | finding 1 |
| `workflow_deliveries` | 2 interruptible deliveries, 2 plans, user commands, fairness | `TypeOK`, `AckedMeansHandled`, `OnePlan`, `RecordIsMonotonic`, `EventHandled` |
| `workflow_callbacks` | 2 callbacks, 1 step, user commands, crashes | `SnapshotBeforeMutation`, `CompletedMeansMigrated`, `RestoredUnlessLate`, `ImplementsLifecycle` (refinement) |
| `workflow_dag` | 2 dependent steps, 2 attempts per tool call, fairness | `MutationIsGoverned`, `CallbackEnds` |
| `event_gateway` | 3 requests, 2 contents, lease, window and limit of 2, clock to 3 | `TypeOK`, `PublishedMeansOnTopic`, `OneContent`, `DuplicateOnlyAfterFault`, `RateIsLimited`, `PublishedIsFinal` |
| `tool_gateway` | 3 requests, 2 changes on one sandbox that reuse one key, an intent the schema refuses, quota of 2, one fault | `OneMutationPerKey`, `SuccessIsBacked`, `QuotaIsHeld`, `ReservationHasOwner`, `AuditCovers`, `LedgerMovesForward` |
| `admission` | 2 workers, an owner and two accounts of one address, 2 invitations, 7 commits | `TypeOK`, `MembershipFromInvitation`, `OwnerStays`, `AuditCountsVersions`, `NewAccessIsCurrent`, `ImplementsAtomic` (refinement) |
| `agent_fleet` | every catalog over seven edges of 4 systems, both governance backends, fairness | `ScreenedFirst`, `AnalysisIsComplete`, `ImpactIsExact`, `AnalysisEnds` |
| `audit_stream` | 4 events, stamps up to 2, pages of 2, one lost connection, fairness | `InOrderOnce`, `SkippedWasOvertaken`, `EventuallyReceived` |
| `late_tool_call`, `restart_recovery` | the smallest instance with the behaviour | findings 2 and 3 |

**Bounds.**  Three requests are the least in which one request commits between
the read and the commit of another and a third sees the result; two deliveries
or callbacks are the least that race, and the coordinator's store accesses are
all compare-and-set on one version, so a third adds another loser; the proofs of
`WorkflowProofs` and `CompensationProofs` hold for any number of them.  One step is
enough for what concerns a single system; two dependent steps are the least with
an order, a partial failure and a compensation of both, and two attempts the
least with a retry that is the last.  A wave of concurrent steps needs the larger
instance `NumSteps = 3`, `DependsOn <- Fork`, `MaxAttempts = 1` of `MCWorkflow`
(660,000 states), which passes too.  In the gateway, a clock that passes the lease
and the window once is enough for a reservation to run out and an admission to
expire while requests are in flight.  Versions need no bound: each coroutine
writes finitely often.  In the tool gateway, three requests are an owner, the one
that takes over from it and the one that is given the result, and exceed the
quota of two; the proofs make these numbers irrelevant.  In admission, two
workers race and a third would only be another loser; seven commits lead from
bootstrap over an invitation and its redemption to an administrative operation
on the result.  Four systems with seven edges have diamonds, cycles, and systems
that are reached only through a cycle.  In the audit stream, pages of two over
four events put page boundaries between events with equal stamps.

**Deadlock** is not checked: every one of these systems may come to rest (all
requests answered, no further delivery).

**Fairness** (`FairSpec`) is, in the coordinator, weak fairness of what a scheduler runs by itself:
each delivery's and each callback's coroutine (asyncio resumes what is ready,
every outward call has a timeout), the gateway's requests, the delivery of a
message and Pub/Sub's forwarding to the dead-letter topic.  Approvers, users,
crashes, time-outs and expiry are never obliged to happen.  In `AgentFleet` it
covers the request's own steps and each agent's timeout (httpx and the agent
nodes have one), not that a model ever answers.  In `AuditStream` it covers
polling, sending, delivery while the connection lasts, and that the EventSource
tries to connect; whether the route then opens a stream or refuses is left open,
so `EventuallyReceived` promises an event to a client whose EventSource has not
ended: it is received, or the stream is refused or closed for good.

**Symmetry** is used for callbacks, requests, workers and contents, in runs whose
properties are invariants or properties of single steps.

## Findings

Places where the code does something else than its documentation says.  Each is
a run that TLC must find violated.

1. `change_version_guess` - `transition` never compares the version it read with
   the version it commits against.  A client whose `expected_version` is one
   ahead of the store commits over a record stored in between, along an edge the
   graph does not have (`state_machine.py:239`, ADR 0005).
2. `late_tool_call` - a tool call whose client gave up reaches its sandbox after
   the rollback: the change is FAILED and the system mutated (`app.py:752` of
   the tool gateway, ADR 0009).  `RestoredUnlessLate` shows that this is the
   only way.
3. `restart_recovery` - a coordinator that dies in VERIFYING or ROLLING_BACK
   leaves a change every later callback refuses (`engine.py:278`, ADR 0009).

Further gaps the models make visible, without a run of their own:

* Repeating the exact approval request after the decision is a conflict
  (`repository.py:37` of the tool gateway compares status and version too), and
  the engine dead-letters the approved workflow; ADR 0009 calls approval creation
  idempotent.
* A crash between the terminal record and the dead-letter document loses the
  document for good (`engine.py:659`): the redelivered event finds a terminal
  record and is acknowledged.
* The event gateway answers 202 with PUBLISHING while another request is still
  publishing, which may then fail (`app.py:197`); its README promises 202 only
  after the publish.
* `ConfigurationStore.apply` replays the stored result of a key without comparing
  the request (`store.py:99`), where ADR 0006 says that reusing a key for a
  different operation fails closed.  Behind the gateway this is harmless, which is
  part of `SuccessIsBacked`: the ledger compares the intent, the executor the
  result.
* `_dependency_paths` keeps only paths that end in a leaf, so in a catalog with a
  cycle a system that only leads back into it is not reported as affected
  (`ImpactIsExact` states the result for acyclic catalogs and the exact paths for
  all).
* `restore` writes back the whole configuration, so rolling back one change undoes
  a later patch of another change of the same tenant (`store.py:141`).  No
  document promises otherwise.
* A repeated callback that read the change while it was EXECUTING, and the record
  just before the first callback made it terminal, finds tasks that are
  ROLLBACK_FAILED, which are neither pending nor failed.  It takes the change from
  NEEDS_ATTENTION to VERIFYING and, if a late tool call applied the patch or the
  restore failed before its effect, to COMPLETED (`engine.py:283`; 60 steps of the
  instance of `workflow_callbacks`).  ADR 0009 says that a critical failure "ends
  as `FAILED` or `NEEDS_ATTENTION`".
* A change that needed attention can be COMPLETED without being migrated, which is
  why `CompletedMeansMigrated` leaves such changes out.  It takes three callbacks,
  even of one delivery and without a user (71 steps; every actor only has to be
  slow).  A first callback
  fails its wave, moves the change to ROLLING_BACK and hangs in a restore; a second
  one, which read EXECUTING before, sees the failed task and ends its own rollback
  as ROLLBACK_FAILED, so the change is NEEDS_ATTENTION; a third one goes on as
  just described: a late tool call applies the patch, it verifies the system, the
  restore of the first one arrives, and it stores COMPLETED (`engine.py:274`,
  `engine.py:588`).  Nothing fences a restore.  `CompletedIsMigrated` shows that
  NEEDS_ATTENTION is essential to every such behaviour.
* The adapter turns only time-outs, httpx's network errors and a missing platform
  token into a `ToolAdapterError` (`executor.py:117`).  A sandbox that restarts
  under a call raises `httpx.RemoteProtocolError`, which the route does not catch
  either (`app.py:758`): the coordinator gets a 500, and the key stays RESERVED,
  with nobody to decide it, until the reservation is stale.
* One error answer to a reconnect, such as the route's 503 while the Control API
  restarts (`route.ts:32`), ends the browser's EventSource for good.  The page does
  not make a new one and shows "Reconnecting live stream" until it is reloaded
  (`live-updates.tsx:24`).

## Proofs

`ChangeStateProofs` (for any set of requests, targets, plans and clocks):

* `TypeCorrect`, `GraphIsRespected`, `AuditTrailComplete`, `AnswersAgreeWithAudit`,
  all under `Foresight = 0`: no client sends a version it cannot have seen.
  Finding 1 is what happens without that assumption.
* The inductive invariant is `IInv == TypeOK /\ ReadsStayUsable`.  None of the
  properties is inductive by itself: at a commit the graph check was made on the
  record the request read, so the invariant has to say that a request about to
  commit either still holds the stored record (equal versions imply equal
  records) or expects a version behind the stored one, and then fails.  The
  audit theorems add `OpenRequestsHaveNoEvent`: a request without an answer has
  no event yet.

`EventGatewayProofs` (for any number of requests and contents, any lease, window
and limit; the named assumptions of `EventGateway` only):

* `TypeCorrect`, `PublishedIsOnTopic`, `OneContentPublished`, `RateLimitHolds`,
  `PublishedStays`, `DuplicatesNeedFault`.
* The inductive invariant has three parts.  `InboxInv`: a request past
  `accept` works on an existing record of its own content
  (`RequestsHoldRecord`), and one about to mark it has published it.  `LimiterInv`:
  the window is the tail of all admissions and everything before it has expired
  (`WindowIsTail`), so when there is room for one more, the admission `Limit`
  places earlier is at least a window old.  `PublisherInv`: while no publisher has
  failed, died or overrun its lease, a reserved record has exactly one publisher,
  whose message is not on the topic yet or who is about to mark it
  (`SinglePublisher`), and a reservation is never stamped in the future, which is
  why a taken-over one means an overrun.

`AdmissionProofs` (for any number of workers, subjects, organizations and
invitations):

* `StoreImplementsAtomic`: the optimistic transactions refine `Admission`.  The
  mapping is the identity on the documents.  The argument: an open transaction
  was allowed on what it read, it read every document its decision and its writes
  look at (`ReadIsComplete`), so if those are current at the commit the operation
  is allowed on the documents themselves (`DecisionStillHolds`) and writes the
  same (`Transactions` is the invariant).
* `TypeCorrect`, `OwnerIsKept`, `MembershipsAreInvited`, `AuditIsComplete`,
  `AccessIsCurrent` then only have to consider whole operations.

`ToolGatewayProofs` (for any number of requests, intents, keys and changes, any
quota and number of faults):

* `MutatesOnce`, `SuccessesAreBacked`, `QuotaIsExact`, `ReservationsAreOwned`,
  `AuditIsComplete`, `LedgerGoesForward`, `TypeCorrect`.
* `ReservationsAreOwned`: a RESERVED entry has a request that will decide it,
  unless its holder died or was ended by an uncaught exception, which is the only
  exit of the route that leaves one behind.  `AuditIsComplete` excuses a missing
  success event in the same way.
* The inductive invariant adds to the properties what a request relies on between
  two awaits (`RequestInv`): its intent is audited as allowed, the ledger entry it
  owns is that of its own intent, even if its reservation was taken over, and one
  about to complete has seen the sandbox's result; and, for the sandbox
  (`SandboxInv`), that a key without a stored result has at most as many mutations
  as there were resets, and one with a stored result one more.  Steps are treated
  in three groups: those that leave the ledger alone (`QuietStep`), those that
  write one entry (`LedgerStep`), and the surroundings.

`WorkflowProofs` (for any number of deliveries, callbacks, steps, attempts and
plans, and every dependency relation):

* `TypeCorrect`, `Acknowledged`, `SinglePlan`, `SnapshotsFirst`, `Governed`,
  `RecordMonotonic`, `NothingTakenBack`.
* The difficulty is that every coroutine decides on a copy of the record that
  somebody else may have replaced.  Every write of the record is a
  compare-and-set, so the stored record only grows (`RecordGrows`: version, plan,
  end and snapshots are never taken back), and a copy is either the stored record
  or out of date and still true of what cannot be taken back (`Sync`).  The
  inductive invariant `IInv` adds to the types what a coroutine knows at each of
  its program points, what a tool call in flight carries, what a waiting callback
  waits for, what the plan of the record, the approval and the change have to do
  with each other, and that an applied step's dependencies are applied.
* Each action is shown to be one of a few kinds of step (the record stays, one
  coroutine moves; the record is replaced by a coroutine's next copy; a call
  moves; and so on), and each part of `IInv` is shown once per kind.

`CompensationProofs` (on top of `WorkflowProofs`, for the same constants):

* `FailedIsRestored`: a FAILED change has every system at its old configuration,
  but for tool calls that reached their sandbox after the change left EXECUTING
  (finding 2).
* The property is about the systems, and the step that makes a change FAILED only
  writes the change: it relies on what the reporting coroutine did several steps
  earlier.  `CompensationInv` says of each coroutine what has become of the systems
  so far, and that there is one to rely on.  A coroutine reports only after storing
  its rollback on a current copy, and from then on the record says forever that
  every task is rolled back.  While a coroutine checks or restores on a current copy
  (`InCharge`), or reports, the change is in a part of the graph that
  only a reporter lets it leave; so there is one reporter at a time and nobody else
  in charge (`OneReport`), and what was restored is changed again only by a late
  tool call.
* `CoordinatorImplementsLifecycle`: the coordinator implements `ChangeLifecycle`.
  The mapping takes the status and the plan from the stored change and is the
  identity on approval and systems.  A change is bound to one plan, once; the
  approver is asked about that plan and decides once; only an approved plan is
  executed, each step once and after those it depends on; a change is COMPLETED
  only when every step was applied and FAILED only when every system is restored,
  but for late calls.
* A coroutine asks for a transition several steps after it saw the reason for it,
  and a slow callback may move a change that needs attention back to EXECUTING.
  `LifecycleInv` (`TransitionsAreEarned`) says that what a change shows, and what a
  coroutine has seen of it or asks for, is `Earned` at the time it takes effect:
  decisions, plans and applied steps are never taken back (`NothingTakenBack`), so
  what was earned once stays so.  The guard of FAILED, which can be taken back,
  comes from `CompensationInv`.  COMPLETED promises that every step *was* applied;
  that the systems are *still* migrated is `CompletedMeansMigrated`.
* `CompletedIsMigrated`: every system of a COMPLETED change that never needed
  attention has the new field.  The condition is about what happened to the change
  and not about how many callbacks, deliveries, late calls, crashes and user
  commands there are, and it cannot be dropped (see the further gaps).
* Why it needs an invariant of its own: a callback checks the systems one by one
  and stores COMPLETED later, while others still hold copies on which they may
  restore.  `MigrationInv` says that (1) who is on the way to or past a restore
  has left a trace: the change is closed (ROLLING_BACK, CANCELLED, FAILED) before
  anything is restored, and without NEEDS_ATTENTION it stays closed; (2) at most
  one coroutine has moved the change to VERIFYING without a verdict (`OneHolder`),
  because VERIFYING is only entered from EXECUTING and EXECUTING never comes back;
  (3) whoever was condemned by a failed task holds a stale copy, or the record
  still shows the failure, so it cannot go on to restore a change that has been
  verified since (`Stands`, `Done`); (4) as long as the change is VERIFYING,
  what the holder has checked stays migrated, because tool calls only migrate.
  `AttentionInv` says that it holds until the audit trail shows NEEDS_ATTENTION,
  which every step preserves because the trail only grows (`ChangeGrows`).

`AgentFleetProofs` (for every finite set of systems and every catalog over it,
cyclic or not):

* `GuardComesFirst`, `AnswersAreComplete`: the invariant `WorkInv` says for each
  stage of the request what has been decided, collected and run.
* `SearchExact`: the path search finds exactly the simple paths from the source
  to leaves, and in an acyclic catalog the systems on them are exactly those
  reachable.  The invariant `SearchInv`: every such path is found already or has a
  beginning in the queue.  That a reachable system lies on a path to a leaf needs
  a longest extension of a simple path, which exists because a simple path is no
  longer than the number of systems.

`AuditStreamProofs` (for any finite set of events, any page size and number of
lost connections, both ways of stamping):

* `DeliveredInOrder`, `SkippedOnlyIfOvertaken`.
* What the client has got, what is on the wire and what is listed continue each
  other in the order of the store (`LineInv`); the cursor of an open stream is the
  latest event sent (`CursorInv`), so the next page continues the line; and nothing
  is missing before a listed event but what was overtaken (`SkipInv`).  A lost
  connection takes back exactly the end of the line, which is later than the rest.
  `Page` is characterised by its order; that such a page exists is a lemma.

Where an argument is an induction (a page exists for every finite set, a longest
path exists) it is made by a least counterexample in the natural numbers.

Only model-checked:

* the liveness properties `EventHandled`, `CallbackEnds`, `AnalysisEnds` and
  `EventuallyReceived`: temporal proofs with ENABLED are out of the prover's reach.

## Not modelled

Schema validation, canonical hashing, configuration, tokens, logging, the user
interface and deployment keep no state a decision reads back.  `CatalogStore`,
whose contract versions an operator activates, is only read by the workflow.  The
injected verification failures of a sandbox are the free outcome of verification
in `WorkflowExecution`; `dry_run` changes nothing.  What the models behind the
agents write is not modelled.  Listings and paging other than the audit stream's
are queries.

## Plan

Done: `ChangeStates`, `ChangeState`, the workflow modules, `EventGateway`,
`Admission` with its refinement, `Sandbox`, `ToolGateway`, `AgentFleet`,
`AuditStream`, `ChangeLifecycle` refined by `WorkflowCoordinator`, and proofs
about all of them.  What would extend the project: `CatalogStore`, if the workflow
comes to write it.
