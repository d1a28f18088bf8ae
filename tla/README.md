# Cyrene Navigator: TLA+ models, checks and proofs

Cyrene Navigator is a work assistant. A Python service keeps every durable fact
(sessions, tasks, approvals, notifications, memory) in SQLite behind two HTTP
APIs; a TypeScript harness runs agents, delivers messages and writes session
logs; a Rust host isolates native helpers. The interesting failures are between
them: a call is committed and its answer is lost, a lease lapses while its
holder still works, a process dies between two writes, two clients race for a
row, an event arrives twice or late. This directory models those protocols,
checks them with TLC on small instances, and proves the most important
properties with TLAPS for all instances.

## The system

### Modelled components

| component | code | state it keeps | operations | module |
|---|---|---|---|---|
| Session persistence store | `src/cyrene_navigator/persistence/store.py`, `api.py` | per session: owner, privacy, organization, event log, append receipts, one lease with an epoch, tenures | create, open, acquire/takeover, append, heartbeat, release, paged read, adoption of legacy rows | SessionStore |
| Session writer | `harness/src/persistence.ts`, `persistence-wire.ts`, `session-control.ts` | routing table of open handles; per handle the pending events, the accepted sequence number, timers, the failure it stored | create, resume, append, drain in batches, flush, heartbeat, close | SessionProtocol |
| Work tasks and gates | `work/store.py` 102-1610 and 8027-8934 | task rows, their event log, approvals, input requests, native session bindings, connector events, result notifications | admit (API, Teams, continuation), claim, patch, create/resolve approval, create/resolve input, bind/resume native session | WorkTasks |
| Private installations | `work/store.py` 5741-5942 | one installation row per owner, revision, receipts of activities | apply an activity, purge receipts, migrate | PrivateInstallations |
| Notification outbox | `work/store.py` 3564-7622, `executor.ts` 3379-4120, `connector-authorization.ts` 602-665 | outbox rows with a lease, a delivery start, a result and a retry count; one delivery loop per executor | enqueue, claim (lease), sweep of lapsed leases, hold, start, send, finish, retry | Outbox |
| Executor dispatch | `executor.ts` 400-2628, 2960-2975, 4897-4981 | tasks map and jobs, session chains, two-lane limiter, dispatch mode, deadline and cancel flags | admit, poll, acquire/release, claim, run, pause, settle, cancel, drain, shutdown, recovery | Executor |
| Work operations | `work/store.py` 1612-2960, `conversation_peripheral/routes.py` | operation receipts with key, locks, status and evidence; dispatches in flight; receipts of skill actions | dispatch, create, perform, record, reconcile, readback, verify | WorkOperations |
| Workflows (Work side), schedules, automation | `work/store.py` 5672-7438, 10238-12097 | definitions, schedule receipts, observations, intents, resource states, notices, digests | put a definition, start and end an occurrence, append a receipt, record a page, decide an observation, write a digest or a notice | WorkflowReceipts |
| Source ingestion and Work memory | `work/store.py` 3001-3562, 8375-8424 | inventories, accepted pages, staging, facts with a missing mark, source status, memory facts | ingest a page, write a fact, read with freshness | SourceInventories |
| Artifact bridge | `conversation_artifact_bridge/registry.py`, `routes.py`, `conversation_peripheral/routes.py` 2304-2435 | the registry of active calls with their output slots, writes in flight, stored attachments | register, read, reserve, write, record, assert, publish, close, revoke, expire | ArtifactCalls |
| Conversation memory | `conversation_memory/store.py`, `work/api.py` 1443-1868 | messages, memories with versions, lineage, grants, authorization epoch, index state and the vectors of a provider | create, update, delete, grant, revoke, cascade, index, authorize | ConversationMemory |
| Conversation domains | `conversation_memory/domains.py`, `domain_api.py` | personas, bindings, policies, profile candidates and profiles, graph change sets, focus items, notes, handoffs, reviews, import batches | each route validates its sources in one database and writes in another | ConversationDomains |
| Background jobs | `domains.py` 1360-2100, `domain_api.py` 918-1823 and 2348-2457 | maintenance jobs, their tasks, daily reviews, watches and their receipts | create, checkpoint, cancel, review, schedule, finalize a read | BackgroundJobs |
| Conversation migration | `conversation_migration/service.py`, `adapters.py`, `records.py` | per batch: intents, checkpoints, quarantine, undo receipts; per row the entity in its store | apply, resume, roll back, compensate | ConversationMigration |
| Bilibili subscriptions | `bilibili_domains.py`, `bilibili_domain_api.py`, `harness/src/features/bilibili-delegation.ts` | delegation, subscription with its run, last output, last notification and its outcome; the worker | create, revoke, claim, read, authorize, send, record, reconcile, pause | BilibiliSubscriptions |

How they interact. The executor polls Work for queued rows, claims one, opens a
session through the session writer, runs the agent and patches the row to a
terminal status; the patch enqueues a result notification; the delivery loop of
the same executor leases it and sends it through the connector gateway. The
scheduler of the harness starts tasks for workflow occurrences, maintenance
jobs, watches and subscriptions, and records receipts about them in Work, which
verifies each receipt against the task and the operation it names. A tool call
of an agent is an operation receipt and, when it carries bytes, an entry of the
artifact registry. Conversation memory is the authority on sources: the domain
tables, the migration and the features ask it before they write, in a
transaction of their own. All these edges are calls that may be lost on the way
in, lost on the way back, or executed late, after the caller gave up and went on.

What is hard in each is listed line by line under `hazards` in `PROJECT.json`,
with the properties that watch it. In short:

* session store: a stale lease holder, retried batches, takeovers in any order.
  Correct: one fenced log per session, one accepted writer, receipts for what is
  in the log;
* session writer: answers lost while more events arrive, closes and heartbeats
  that overlap a successor's, a backlog at its limit. Correct: what counts as
  acknowledged is durable, and no tool runs while an event the handle took is not;
* tasks: five routes write one status. Correct: waiting statuses and pending
  gates agree, one ending, one result, private provenance never leaks;
* installations: duplicated and reordered activities. Correct: the newest wins;
* outbox: leases that lapse during a send. Correct: never sent twice unless the
  provider said it was refused, and a final status that tells the truth;
* executor: waiters in two lanes and in session chains, crashes in every phase.
  Correct: no lost wake-up, one task per session at a time, no replay;
* operations: a crash after the effect and before its record. Correct: one
  effect per key, an outcome only when it is proven, one dispatch per lock;
* workflows: late and repeated observations of a shared resource. Correct: an
  older observation never overrides a newer one, an outage is told once;
* sources: inventories that stop half-way. Correct: what is shown is the last
  complete snapshot, what is called current rests on one;
* artifact calls: the lock is released between a look and a reservation, a
  request id is used again. Correct: a published result is the call's own, and
  closing one call leaves the others;
* memory: revocation against derived content, corrections against index calls.
  Correct: the cascade reaches what rests on a source, the epoch moves whenever
  a reader loses something, the index never claims a text it did not take;
* domains and jobs: validation in one database, the write in another. Correct:
  one active profile per slot and a chain to restore, a projected change set is
  in the graph, a job ends as its task did;
* migration: crashes between intent, write and checkpoint. Correct: nothing of
  a rolled back batch stays, a row declared not applied is never written;
* subscriptions: a worker that dies between send and record. Correct: a change
  is announced, an open notice stays scheduled until it is settled.

### Not modelled

`PROJECT.json` lists every part with its reason. With state of their own, and in
the plan below: the scheduler of the harness (`workflows/runtime.ts`), the QQ
connector, subagents and ACP executions, the native host. The others are I/O,
formatting, validation or generated code: web host, connector authorization,
tool providers and serve, model adapters, Codex import, Echo handoff and reader,
packaging, and the parsing of backup archives.

## The modules

`map` in `PROJECT.json` gives the source lines of every definition. A definition
whose comment calls it a mutant, or a slip, is not part of the model: it is the
changed form of its neighbour that shows a property can fail.

**SessionStore** keeps a session as a record: owner, privacy, log, receipts,
lease (`token`, `epoch`, `expires`) and time. `create`, `acquire`, `append`,
`heartbeat` and `release` are one action each, with the access check
(`CanAccess`), the writer check (`_assert_writer`) and the replay of a recorded
batch in the code's order. `Tick` advances the clock that leases expire by. A
ghost variable records which tenure appended each batch. **FencedLog** is the
abstract promise: an append-only log per session and a fence that only grows;
`ImplementsFencedLog`, at the end of SessionStore with its mapping, is the
refinement.

**SessionProtocol** puts one harness runtime in front of SessionStore (it
EXTENDS it, so a call is the store's own action). Handles and their pending
lists, the three timers and the calls in flight are explicit. A call is lost
before execution, after it, or executed after its caller saw a timeout.
`enqueue` is called for an event that the live session has committed already, so
a full backlog is not a guard: the event is refused and forgotten, which the
ghost `dropped` records (finding 2), and the events after it are no longer
contiguous with the retained ones, so that a flush fails. `MayOpen` rests on an
assumption about code that is not in this repository: the DSH agent loop
(`ctx.agents`, called at `session-control.ts:287`) opens one handle of a session
after the other. `persistence.ts:165` itself refuses only the takeover of a
session that is written or being taken over. If the replies of two overlapping
opens were read in the opposite order of their grants, the older handle would
be the routed one, so `AcceptedWriterIsRouted` holds under that assumption only.

**WorkTasks** keeps tasks, gates, native bindings and events, all of one Work
database, whose routes are transactions and therefore atomic actions.
Principals differ in actor, private scope and harness-writer scope, as the
authorization in `work/api.py` distinguishes them.

**PrivateInstallations** is the row of one owner, with activities drawn from
all ids, times and kinds in any order.

**Outbox** composes the rows of the database with the delivery loops of several
executors. A row's lease expires by an action of its own, a worker crashes at
any step, a start or finish call that timed out is executed later. `sent` is a
ghost: what the provider was really given.

**Executor** composes the task rows (their status only, the gates are in
WorkTasks) with any number of executor processes. A job is a record of the
`ActiveTask` of `executor.ts` plus its program counter between two awaits:
everything between two awaits is one action, as in a JavaScript runtime. A call
to Work splits into the request (executed by the server or lost) and its answer.
A job's place in its session chain is the set of jobs whose promises it is behind
(`ahead`), which is what `sessionTails` and `then` amount to. `getDrainStatus` is
the part of the code's answer that concerns the process itself; the code reports
drained only if, in addition, Work lists no active task and the delivery loop is
idle, so `DrainedIsIdle` is about a weaker answer than the code gives.

**WorkOperations** follows a dispatch in the steps at which it can stop: checked,
recorded (`create_operation`, under the locks of its target and branch), sent,
answered, recorded again. `effects` is a ghost: how often the Exchange performed
a key. What the route writes into the receipt depends on the effect of the
operation: `WriteEvidence` for a write, `ReadEvidence` for a read. A read that the
Exchange performed and whose envelope does not project is closed as failed
(`conversation_peripheral/routes.py:902-931`), so that for a read the outcome
"failed" says that no result was recorded and not that nothing was performed;
`OutcomeIsProven` says so in its clause on reads, and demands for a write that a
recorded failure had no effect. The second half is the receipts of skill actions, where a verification
needs an effect and a readback by different tasks.

**WorkflowReceipts** is the Work side of workflows. An occurrence is a flow, a
trigger and a slot; an observation has a resource, a kind and a rank (the order
of its source time). `decided` is a history of the decisions that moved a
resource. The client is free: it starts tasks, records receipts and asks for
notices in any order, and repeats itself. A transition is announced only when the
policy of its flow asks for it (`onFailure`, `onRecovery`), and a notice is refused
for an incomplete checkpoint, a kind or a route that does not fit. The Teams branch
of `put_workflow` (`work/store.py:6716-6742`) is left out because it is not
reachable: the validation of a V3 definition (`store.py:10842-10855`) accepts the
delivery `owner_private` only.

**SourceInventories** delivers inventories of a source page by page. Every call
is a transaction, so a refused page leaves no trace. `accepted` keeps the
content of the pages, of which the table keeps a digest; `newest` is a history
variable.

**ArtifactCalls** has three actors: the host that opens, asserts, publishes and
closes a call; the plugin that reads and writes under it; the registry between
them. What a method does under the lock is one action; what it does after it
released the lock is another.

**ConversationMemory** keeps messages and memories with the sources, parents and
versions they cite. The accessibility checks are written as the closure over
lineage that the code computes, the cascades of revocation round by round. An
index call is three steps: read the row, call the provider, write the state.

**ConversationDomains** holds the tables of `domains.py`. A route is two steps:
the validation against the memory database (`Begin...`), and the write in the
domain database; revocations and time pass between them.

**BackgroundJobs** puts a job row beside its task row in the other database; a
checkpoint or cancel reads the job, then the task, then writes.

**ConversationMigration** keeps for each row of a batch its intent, the entity in
its store, the provider's copy of a graph, its checkpoint and undo receipt, and
a program counter for the apply or rollback that is running. `Crash` drops the
program counter and nothing else. A rollback fences a row without an intent in two
writes, begin and complete, and a crash may fall between them. The compensation
of a profile needs the imported profile to be the active one at its imported
version; `OwnerChangesProfile` is what may have come between. `Compensable` is what
the host's capability preflight accepts. The host of this repository
(`CanonicalRollbackCapabilities`, `adapters.py:964-989`) accepts messages and
memories: for a profile or a graph it looks for methods of the domain store
(`rollback_profile_candidate`, `rollback_graph_changeset`) that
`ConversationDomainStore` does not have, and refuses the batch before the first
write. `service.py` is written for any host, so `conversation` gives it one that
accepts all four kinds; `rollback_readback` gives it the repository's own.

**BilibiliSubscriptions** is one delegation, one subscription, the outbox rows of
its notifications and a worker that steps from await to await. A route verifies a
check or a reconciliation against Work (`VerifyCheck`, `VerifyReconciliation`) and
the store writes it in a transaction of its own; the row, the outbox and the
authorization may move in between. A read that is not verified is never recorded:
the worker asks for an uncertain or paused row
(`features/bilibili-delegation.ts:844-869`, `881-894`) without the output digest
that `recordSubscriptionCheck` demands
(`conversation-runtime/bilibili-adapters.ts:528`), and the run ends with an error.
A delivered notification is not recorded either (finding 4).
`OpenNoticeIsScheduled` rests on the worker, which settles an open notification
before it claims (`FirstDuty`), and on the version both compare; the store's claim
alone would admit such a row, as
`tests/test_conversation_memory_bilibili_domains.py:296-309` shows.

## The runs

All bounds are constants named in the configurations, or conjuncts of an MC
module where two questions of a run need different ones. They were chosen by
widening until every disjunct of the next-state relation fires and each mutant
(a plausible bug in the mapped code) is found.

| run | instance | what it shows |
|---|---|---|
| `session_store` | 3 principals of 2 actors (administrator, private scope, plain), 1 session, 3 tokens, 2 batch ids, log of 3, epoch 4, one lease expiry | receipts are in the log, single writer, refinement of FencedLog |
| `session_protocol` | two scenes: 2 handles of 1 runtime, 1 contending writer and 1 event; 1 handle with a backlog of 1, 3 events and tools; in each 1 lost or late call or crash, batches of 2 | acknowledged is durable, a tool waits for every event the handle took, close is not loss, routing of the holder |
| `session_overflow` | 1 handle, backlog of 1, 3 events | *violated*, finding 2 |
| `session_retry_batched` | 1 handle, batches of 2, 1 lost answer | *violated*, finding 1 |
| `work_tasks` | two questions: 1 task and its continuation, 2 approvals, 2 inputs, 7 log entries; 2 tasks, 3 principals, 1 native session, 2 log entries | gates and statuses agree, one result; native sessions and private results stay with their owner |
| `work_records` | 2 conversations and times 0..2 of an installation; 3 dispatched operation keys and 1 `web.open` key with 2 targets, 2 requests, 2 tasks; 2 workflows, 5 definitions, 4 observations of 1 resource, 2 digests; 2 calls and 2 writes of 1 request id; 2 inventories of 2 facts | the properties of PrivateInstallations, WorkOperations, WorkflowReceipts, ArtifactCalls and SourceInventories |
| `outbox` | 2 executors, 3 leases, 2 sends, 1 retry, one row for a channel or for its owner | never resent, true status, a started delivery settles |
| `executor_dispatch` | 1 process, 3 tasks, 2 sessions, 2 lanes of 2 slots | session order, drain, liveness of dispatch |
| `executor_race` | 2 processes, 3 starts, 1 task, 1 lost call, cancel, deadline, pause | no replay, finish events, recovery leaves no orphan |
| `conversation` | 3 messages, 2 memories, 2 readers; 3 candidates for one profile slot; 1 change set; 1 job with its task, 1 watch; 2 import plans over backups of two rows (a message and a graph, profile, memory or message derived from it, or a row that does not normalize); 1 subscription with 2 outputs | the properties of ConversationMemory, ConversationDomains, BackgroundJobs, ConversationMigration and BilibiliSubscriptions |
| `rollback_readback` | the same backups, of which the host accepts those of messages and memories | *violated*, finding 3 |
| `bilibili_delivered` | 1 subscription with 2 outputs, 1 worker | *violated*, finding 4 |

`work_records` and `conversation` each check components that share no state. A
product of their state spaces would say nothing more than the sum, so the MC
module adds a variable (`desk`, `part`) that is chosen initially and names the
component that moves. `session_protocol` and `work_tasks` ask their questions at
bounds that would be too large together, in the same way (`scene`, `about`).
Within a component, MCWorkRecords also drops orders that
differ only by the names of interchangeable requests, calls and writes
(`InOrder`: the second is not used before the first); this is the reduction
SYMMETRY would give, written so that it can be read.

`CHECK_DEADLOCK FALSE` is set where the system may stop: every bounded counter
(lease tokens, epochs, log length, starts) ends some behaviours, and a system
whose tasks have all ended has nothing to do.

Bounds that deserve a word. `executor_dispatch` runs without faults because its
questions (wake-ups, chains, drain) are about one process. `executor_race` has
one task because its properties are about each task by itself, and two
processes because recovery is the one moment when a process touches another's
task. Two dispatches, two calls and two inventories are enough for the races of
WorkOperations, ArtifactCalls and SourceInventories, because a row or an entry
is contended for by one rival at a time; three candidates are needed for a
profile chain, three messages for a cascade of two rounds, four observations for
failure, repetition, recovery and a second incident.

### Fairness

* `outbox`: weak fairness of claiming, of each step of a live delivery loop and
  of lease expiry. The code justifies it: the loop is `setInterval` driven and
  every call has a timeout. Crashes get no fairness.
* `session_retry_batched`: weak fairness of drain, flush and the answers of
  calls; losses are bounded, so the violation is not one of a network that
  never answers.
* `executor_dispatch`: weak fairness of each job's next step, of the poll (a
  `setInterval`) and of the agent's return. The last is an assumption on the
  agent, which is external: the deadline that aborts a run exists only where
  `timeoutMs` or `defaultTimeoutMs` is set (`executor.ts:1709-1715`). `QueuedStarts` claims nothing for a process that drains or stopped.

### Findings

1. `persistence.ts:495` (bug). A batch is cut from the pending list at the moment
   of the retry, and its id is a hash of the whole batch (line 505). If the answer
   to an append is lost and more events arrive, the retry is a longer batch with
   another id that starts at a sequence number already committed. The store does
   not know the id and answers `SESSION_SEQUENCE_CONFLICT`
   (`persistence/store.py:1364-1374`), and every later flush repeats that. The
   comment at line 485 promises that later flushes can retry.
2. `persistence.ts:463` (bug). The live session has committed an event when
   `enqueue` throws "Session persistence backlog exceeded". The handle keeps no
   trace of the event: a flush that finds only the events before it succeeds, and
   a tool starts although an event before it was never sent. Once a later event
   is queued, every flush fails because it is not contiguous. The comment at line
   107 says that a tool must not start while its owning call is in volatile memory
   only. What the agent loop does with the exception is not in this repository.
3. `conversation_memory/store.py:1308` (bug). Rolling an import back deletes a
   memory and then revokes the message it came from; the update in
   `revoke_source` has no condition on the state and turns the deleted memory
   into an invalidated one. `_verify_completed_rollback` then raises
   `ROLLBACK_READBACK_MISMATCH`, on this and on every later call: such a batch
   is undone but can never be recorded as rolled back.
4. `conversation_memory/bilibili_domain_api.py:1140` (bug). The outcome delivered
   is accepted only with a readback task whose parent is the send task and with an
   operation of the trusted producer `notification-outbox`. The worker creates
   that task under the subscription's owner task
   (`features/bilibili-delegation.ts:1316`), and nothing creates such an operation
   (`work/store.py:1642-1647` refuses the producer, `1809-1823` admits another
   one only). A delivered notification is never recorded as delivered, and while it
   is open the worker claims no further check. The test
   `harness/tests/conversation-bilibili.test.mjs:840` asserts the opposite, against
   a store of its own.

### Other disagreements

Each is stated as a definition that no run lists because it does not hold. To
see it fail, put the definition in place of the properties of the configuration
named.

* `RunningWasClaimed` (WorkTasks, `MCWorkTasks.cfg`): `work/store.py:1253`, an
  approval may be opened on a queued task, and approving it makes the task
  `running` although nobody claimed it; the message at line 734 says the claim
  is the only way into execution.
* `RetriesCounted` (Outbox, `MCOutbox.cfg`): `work/store.py:4660`, holding a
  private notification overwrites `result_json` and with it `retryCount`.
* `UnresolvedIsReconcilable` (WorkOperations, `MCWorkRecords.cfg`):
  `work/store.py:2923` lists unresolved receipts "for exact-target
  reconciliation", but the receipt of a task that ended can no longer be settled
  and locks its target.
* `DigestCovers` (WorkflowReceipts, `MCWorkRecords.cfg`):
  `docs/work-assistant-api.md:407` derives a digest from the receipts since the
  previous digest; a receipt recorded after a digest was written, for a slot
  before it, is in none.
* `CancelledJobIsIdle` (BackgroundJobs, `MCConversation.cfg`): `domains.py:1456`,
  "after any existing Task was aborted"; a task admitted between the check and
  the write runs on under a cancelled job.
* `FinalizedReadIsUsable` (BackgroundJobs, `MCConversation.cfg`): the receipt
  that `finalize_research_operation_receipt` writes is not one that
  `verify_watch_observation` accepts; `RecordWatchObservation` is therefore in
  the specification and in no run, because it is never enabled.
* `OneOpenNotice` (BilibiliSubscriptions, `MCBilibiliDelivered.cfg`):
  `bilibili_domains.py:679`, "Prevent duplicate sends while a prior outbox result
  is pending or unknown"; a worker that stops between the send and its record
  leaves the row without the notice, and after the owner resumed the
  subscription the next run sends another.
* `RevocationIsRecursive` (ConversationMemory; needs four private messages of
  one actor, two of them answers): `conversation_memory/store.py:1261`; a memory
  derived from an invalidated memory is invalidated too, but the messages that
  cite it stay active, and later answers rest on them. `RevocationReaches` is
  the part that holds.

Observed while modelling and left as notes, because the repository promises
nothing else: a private route is read at the claim and used after the start; a
claim whose answer is lost leaves a running row to the next start-up; two live
executors of one principal close each other's tasks at recovery; a private
message accepted by the provider may be recorded as failed when the app was
removed meanwhile; the scheduler records an occurrence as queued and running before its
task exists, which Work refuses for a V3 workflow (`runtime.ts:808`,
`WORK_TASK_NOT_FOUND`), and ends a digest with `changed: false`
(`runtime.ts:2077`), which Work refuses (`store.py:11978-11981`); `revoke_task_calls` has no caller; apply and rollback of one
import batch are not fenced against each other; a subscription in state
uncertain is never reconciled by the worker; an inventory whose client stopped
blocks its source.

## The proofs

The theorems hold for every value of the constants that satisfies the
assumptions stated in the modules (which TLC evaluates on every run).

* **SessionStoreProofs**: type correctness, contiguity, receipts, tenure order,
  single writer, private lease, stable metadata. The inductive invariant adds to
  each statement what `append` relies on: the next sequence number of a session
  equals the length of its log, the tenures are numbered up to the epoch, and a
  token is used by one lease only (tokens are fresh `secrets.token_urlsafe`).
* **PrivateInstallationsProofs**: types and the three ordering properties. The
  strengthening ties the row's stored time to the newest activity delivered.
* **OutboxProofs**: types, `NeverResent`, `OneSender`, `StatusIsTrue`,
  `FinalIsFinal`. None is inductive: `OutboxInv` relates each worker's phase to
  the row (who believes to hold the lease, what was started under which token,
  which late calls are still on the way) and says that a row started under a
  lease that lapsed can only become uncertain.
* **ExecutorProofs**: `NoReplay`, `FinishAgrees`, `SessionSerial`,
  `DrainedIsIdle` and `NoOrphan`. `RunInv` says that a task once run is no longer
  queued and that only the winner of a claim is in a phase that runs; `FinishInv`
  that a terminal status never changes, that a job in its flush or finish phase
  holds the status of its row, and that a job with the cancel flag `finish` has
  an aborted row. `SerialInv` is about one process: of two jobs of a session one
  is behind the other, a job that asked the limiter is behind nobody, the queue
  of the limiter holds each waiting job once, and a drained process is draining
  and idle. `OrphanInv` says where a running row is kept while no call was lost:
  by a job that runs, a process that is down, or the list a recovery works off.
* **SessionStoreProofs** also proves the refinement `Spec => ImplementsFencedLog`
  step by step: an append that is accepted is an append of the log under the
  current fence, a lease that is granted or released advances the fence, all else
  stutters. It needs `RowsReceipted`: every stored event belongs to a receipt.
* **SessionProtocolProofs**: `AcknowledgedIsDurable`, `ToolAfterRetained`,
  `ReleaseIsNotLoss`, `AcceptedWriterIsRouted`, for any number of runtimes,
  handles, faults and late requests. `ProtocolInv` contains the store's own
  invariant and what the clients know: every event the live session committed is
  acknowledged, retained in order or was refused by the backlog, a request carries a prefix of them, a true answer stays
  true until it is read (the step the properties need, since the store moves in
  between), every capability a handle or a late request holds was granted once,
  and the handles of a runtime have growing epochs. `BatchAssumption` says that
  the store admits the batches a handle sends.
* **WorkTasksProofs**: `GatesAgree`, `OneResultPerTask`, `ProvenanceAgrees`,
  `NativeSessionNotForeign`, and the action properties `PrivateResultStaysPrivate`
  and `EndedStaysEnded`. `WorkInv` has a part for the gates (`AtGate`: waiting
  exactly for the one pending gate), for the results, for the provenance of tasks
  and for the native mappings (made for a task of the actor's own).
* **WorkRecordsProofs**: `EffectOncePerKey`, `OutcomeIsProven`,
  `TrustedDispatchAlone`, `SkillVerifiedIndependently` and finality of receipts
  (`OpInv`: one dispatch of a key is on the wire, its answer is true, and a key
  that was never sent had no effect); `PublishedIsOwn`, `OpenCallStays`,
  `SlotsHold` (`ArtifactInv`: what an entry lists was stored by a write of that
  call, and what the host asserted is in its entry); `SnapshotIsLastComplete` and
  `CurrentIsBacked` (`InventoryInv`: the staging table is the accepted pages of
  the one inventory under way); `NewestStateWins` and `OutageAnnouncedOnce`
  (`FlowInv`: the state of a resource is the last decision). The last one needs
  `FingerprintAssumption`: equal fingerprints have equal state classes, because
  the fingerprint digests the facts the class is computed from.
* **ConversationProofs**: `IndexIsHonest` (a call that reached the provider left
  its revision there, and delete calls are for dead records only);
  `RevocationReaches`, where `ReachInv` says that each revoked message lies in a
  set closed under citing that died together, so that later revocations and new
  records cannot undo it; the action property `EpochGuards`, because a step that
  keeps the epoch only adds records and a lineage does not see them;
  `ProfileChain` and `ProjectedIsApplied`; `JobOutcomeAgrees` and `ReviewedJobRan`
  (what a call has read of a terminal task is still so when it writes);
  `OpenNoticeIsScheduled`, `ChangeWasAnnounced`, `ReceiptOfLastCheck` (what the
  worker knows of the row and of its notice at each step); `NothingLeftBehind` and
  `NotAppliedIsFinal` (rows are walked in order, an intent precedes its entity, a
  projected row was verified). `FiniteAssumption` (a table has finitely many rows)
  is what lets the loops of the cascade end.

The cascade, `RestsOn` and `Ancestry` are recursive functions over the number of
records. What they compute is proved from two lemmas of ConversationProofs: a
function of a set to itself has its iterates (`Iterates`) and a set that holds 0
and the successor of each of its members holds all numbers up to n (`UpTo`),
both from the least element of a set, so that no induction over an operator is
needed; and a closure of a finite set is reached after as many rounds as the set
has members (`RoundFinds`, `CascadeCloses`).

Proving found slips of the models, which were corrected: two arms of
`TailNeeds` (ConversationMigration) overlapped, so that CASE chose one at will;
a guard of `RollbackProfile` bound weaker than meant; and the session chain of
Executor, then a global order, could not be reasoned about when jobs leave in the
middle.

Every invariant, action property and refinement that a passing run lists is a
theorem too: the run shows that the property can fail (its mutant) and that the
instance is reached, the theorem that no instance is special. Some definitions
are proved and in no run, because a run would add nothing: the type invariants of
SessionStore, PrivateInstallations, Outbox, WorkOperations and ConversationMemory
(the other proofs carry the types they need in their inductive invariants),
`LogContiguous`, `TenuresOrdered`, `PrivateLeaseIsOwners`,
`ProductMetadataStable`, `ActiveIsNewest`, `LegacyNeedsRemoval`, `OneSender`,
`FinalIsFinal`, `EndedStaysEnded`, `ProvenanceAgrees`, `SlotsHold`,
`SkillVerifiedIndependently`, `ReviewedJobRan` and `ReceiptOfLastCheck`.

Left to TLC: liveness (`QueuedStarts`, `StartedSettles`, and the violated
`RetainedEventsRetried`), which this prover does not handle. Neither proved nor
in a run, but true on the instances of their modules: the type invariants of
Executor, WorkTasks, ConversationDomains and BackgroundJobs, `NoCorruptRead`
(SessionStore), `HistoryExplainsStatus` (WorkTasks), `AttemptsDistinct` (Outbox)
and `SlotsAccounted` (Executor).

## Plan

1. Proofs of `SlotsAccounted` (the limiter's counters are the cardinalities of
   its holders; `SerialInv` has the queue already), `HistoryExplainsStatus`,
   `NoCorruptRead` and `AttemptsDistinct`.
2. An abstract specification of delivery (a message is sent at most once unless
   refused) that Outbox implements, and one of a keyed effect for WorkOperations.
3. The scheduler (`workflows/runtime.ts`): an occurrence reads the history,
   appends its receipts, runs the fixed-tool task, collects pages within a
   budget and appends the terminal receipt; crashes fall between any two steps.
   It composes with WorkflowReceipts and Executor.
4. Native host and ACP executions: request, cancel and exit in any order.
5. The QQ connector.
