# TLA+ models of pi_agent_loop

Models, model-checking runs and proofs for the durable core and the concurrent
parts of `src/agent-loop/src/pi_agent_loop` (paths below are relative to that
directory). The reference is the code: every definition that models code is
listed in `PROJECT.json` under `map` with the lines it stands for.

Mapped: about 31% of the lines of the implementation. To check a run:
`tlc -config MCRecovery.cfg MCRecovery`. To check the proofs of a module `M`:
`tlapm M_proofs.tla`; `Autonomous_proofs` and `AgentLoop_proofs` take about a quarter of
an hour each, `WriteService_proofs` about six minutes, the others three at most.

## 1. The system

`pi_agent_loop` runs an LLM agent as a set of asyncio tasks, possibly in several
processes, over a store of durable facts. A user request is an *Operation*: a
log of events (messages, Model Requests, Tool Intents and results, Approvals,
Writes) from which a reducer rebuilds the state. Whoever wants to change
something loads the log, computes events, replays the log with them and appends
them by compare and set, often under a *fenced claim*: a lease with a generation
that the store compares in the transaction of the append. External writes are
made between two such appends, so that a crash leaves a Write whose outcome is
unknown; it is never sent again but reconciled with the external system.

### Inventory

| Component | State | Operations | Talks to | Hard behaviour | What makes it correct |
|---|---|---|---|---|---|
| Fenced claim table (`session/operation_store.py`, `session/sqlite.py`) | one row per (type, resource): owner, expiry, generation | acquire, renew, release, verify, fenced append | every service below | delayed calls, a clock read before the database lock, a clock set back | a replaced worker never appends, a token has one owner |
| Operation reducer (`session/operation_state.py`, `transcript.py`) | Operation, tools, Approvals, Writes, messages | one transition per event type, replay with a candidate batch | all services | events of different components validate each other | the log always replays; facts agree |
| Approval service (`approval/state_machine.py`) | Approval events | request, grant, reject, consume, expire | store, Write service | a deadline that passes between load and append | decided once and in time |
| Write service (`writes/state_machine.py`) | Write events, the `write_reconcile` claim | prepare, execute, reconcile | store, write handler, external system | crash, cancellation or timeout around the external request; two workers | sent at most once, verdicts true and final, uncertainty is settled |
| Recorder (`session/recorder.py`) | active Operation and request | start, listener, finish, transcript repair | agent loop events, store | result and message in one or two batches | one result per call |
| Recovery planner and executor (`session/resume.py`, `harness/recovery.py`) | the `operation_recovery` claim, an attempt | plan, resume | store, model, tools, Write service | every crash point, stale plans, take-over | no second effect, transcript intact, plans are accepted |
| Startup recovery (`harness/startup_recovery.py`) | report per Operation | inspect, recover, block the Session | recovery, Write service | one Operation recovered before another was inspected | the barrier holds |
| Approval gateway and workflow (`harness/approval_gateway.py`, `harness/approval.py`) | `approval_resume` claim, active tasks | request, approve and resume, reject, recover | Approval and Write services, model | lease lost during a resume, re-entry | a resume completes once |
| Event stream (`event_stream.py`) | buffer, coalescing index, result future | push, end, fail, iterate | providers, loop, consumer | a slow consumer | facts delivered in order, limits kept, consumer ends |
| Model router (`model_routing.py`) | health per candidate, state per route | rank, try, record, publish | providers, telemetry | late outcomes, hanging providers, cancellation | no spliced answers, one terminal event, one probe |
| Model retry (`retry/model.py`, `retry/circuit_breaker.py`) | breaker, buffered attempt | gate, attempt, record, back off | provider, sinks | overlapping calls share a breaker | only the last attempt is seen, calls end |
| Tool runtime and scheduler (`tool_runtime.py`, `retry/tool.py`) | per process: barrier, read-write locks, tenant and parallel semaphores; shared: resource lock rows | batch, guard, acquire, dispatch, heartbeat, release, retry | tools, approvals, lock table | a timeout or a cancellation races a grant, leases run out under a handler, a sibling fails | no slot lost or given twice, no circular wait, a committed effect is not reported as a plain failure |
| Agent and loop (`agent.py`, `loop.py`, `transcript.py`), runtime state (`runtime/`) | messages, staged results, two queues; the Run as replayed | prompt, continue, steer, follow up, abort, reset; a turn with its model request and tool batch; repair after a failed run | stream, tools, recorder, tracker, router | every event is delivered to listeners that may raise or be cancelled, tools of a batch run side by side | the transcript protocol, no message lost or doubled, a completed Run is complete, budgets |
| Compaction (`retry/compaction.py`) | | select units, build and verify the replacement | loop | windows that cut a call from its result | the request is closed and forgets no call |
| Plans (`planning/`, `harness/plans.py`, `plan_worker.py`, `plan_tool_runtime.py`) | step states, Plan log, completion envelope, two claims | bind dependencies, start, ask for approval, dispatch, validate, recover, deliver, acknowledge | store, tools, approval backend | take-over in every state of a step, refused appends, an outbox acknowledged late | a step without replay runs once, side effects are ordered, the last state is delivered |
| Session journal (`session/journal.py`, `journal_adapters.py`) | event rows, high-water mark, snapshots, one signed manifest per tenant | append by compare and swap, fenced append, read after a cursor, purge, delete, rotate keys, export, snapshot, migrate | all stores | tenants share one file, load and append are two transactions, retention cuts histories | manifests verify, a cursor misses nothing, what is left replays |
| Workspace catalog (`session/catalog.py`) | projects, sessions, statuses as a projection | every request, replay, snapshot | journal | snapshot and events are read in two transactions | the snapshot tells nothing else than the events |
| Autonomous runs (`harness/autonomous*.py`, `planning/closed_loop.py`, `planning/resources.py`, `model_attempts.py`) | the Run's ledger, its Plans, the Conversation, controller lease | route, plan, execute, validate, correct, answer, project; reserve and settle resources | journal, Plans, models | two Hosts, a stalled controller, usage that stays unknown, a crash between finalizing and projecting | all usage is charged, the answer is one and true, writes are not repeated, the Run settles |
| Children (`children.py`), orchestration (`multi_agent.py`) | inbox, outbox, leases, budgets | deliver, acknowledge, claim, run | store, agents | duplicated delivery, budget exhaustion | delivered once in effect |
| Durable host (`harness/durable_agent_host.py`, `lifecycle.py`, `factory.py`, `session_runtime.py`) | Session Writer lease, startup recovery report | open, prompt, submit, resume, close | everything | reopened by another process while the old one lives | one writer, recovery before anything else |
| Workspace tools, memory, routing heuristics, providers, extensions, evaluation | files, SQL rows, HTTP streams | I/O | external | mostly I/O | see section 8 |

## 2. Modules

| Module | Models | Extends |
|---|---|---|
| `ClaimRows` | a row of the claim table as pure operators: acquired, renewed, released, held, current | |
| `FencedClaims` | the claim table with any number of owners, delayed calls and a wall clock | `ClaimRows` |
| `FencedClaims_proofs` | theorems about `FencedClaims` | `FencedClaims`, `TLAPS` |
| `OperationState` | the Operation reducer: `Accepts`, `Applied`, `ReplayWithSpecs` for each event | |
| `WriteService` | Approval service, Write service and the recorder's result over one log | `OperationState`, `ClaimRows` |
| `WriteSettlement` | `WriteService` with finitely many faults and fairness | `WriteService` |
| `Recovery` | planner and executor, composed with the reconcile call of the Write service | `WriteService` |
| `WriteService_proofs` | theorems about the three | `WriteSettlement`, `Recovery`, `TLAPS` |
| `EventStream` | the bounded stream | |
| `ModelRouter` | health registry and routes | |
| `ModelRetry` | circuit breaker and retry loop | |
| `ModelCalls_proofs` | theorems about stream, router and retry loop | `EventStream`, `ModelRouter`, `ModelRetry`, `TLAPS` |
| `PlanState` | dependency graph and Plan reducer as pure operators | |
| `PlanExecution` | workers, approval barrier, Plan store, completion outbox | `PlanState`, `ClaimRows` |
| `PlanExecution_proofs` | theorems about it, and what an accepted Plan event keeps | `PlanExecution`, `TLAPS` |
| `FairLocks` | priority semaphore and fair read-write lock as values | |
| `ToolScheduler` | tool calls over barrier, locks, lock table and slots | `FairLocks` |
| `ToolScheduler_proofs` | theorems about it | `ToolScheduler`, `TLAPS` |
| `CatalogState` | the catalog reducer and what each request builds | |
| `SessionJournal` | journal file, adapters, catalog processes, administration | `CatalogState`, `ClaimRows` |
| `SessionJournal_proofs` | theorems about it | `SessionJournal`, `TLAPS` |
| `Transcript` | messages, pairing of calls with results, repair | |
| `ToolProtocol` | abstract specification: what a transcript promises | `Transcript` |
| `Compaction` | the two compactors | `Transcript` |
| `RunState` | the Run reducer and the translation of Agent events | |
| `AgentLoop` | Agent, loop, tracker, router; implements `ToolProtocol` | `Compaction`, `RunState` |
| `AgentLoop_proofs` | theorems about it, transcripts, compaction and the Run included | `AgentLoop`, `TLAPS` |
| `RunLedger` | the event stream of an Autonomous Run and its decoding | |
| `Autonomous` | Hosts, runner, closed loop, startup recovery, projection | `RunLedger` |
| `Autonomous_proofs` | theorems about it, and about sums over the ledger's reservations | `Autonomous`, `TLAPS` |
| `MC*` | instances: deployments and symmetry sets; the other constants are in the `.cfg` files | |

Definitions called "Mutant" are wrong variants of the definition that follows
them. No specification uses them; each shows that a property notices that bug.

`AgentLoop`, `Autonomous` and `SessionJournal` choose a *deployment* in `Init`: a
record of settings (budgets, limits, which processes exist). One run then
covers several small configurations instead of one large one.

### How state and actions correspond to the code

**ClaimRows, FencedClaims.** A row is the SQL row or dictionary entry: owner,
expiry, generation. `AcquiredRow`, `RenewedRow`, `ReleasedRow` are the three
updates; `LeaseCurrent` is the check of an append. `leases` remembers every
`ClaimLease` ever returned, and any of them may be used in any later step, as a
stalled worker or an outliving heartbeat would. `BeginAcquire`/`Acquire` and
`BeginRenew`/`Renew` are separate because the SQLite store reads `time.time()`
before it waits for `BEGIN IMMEDIATE`. `SetClock` moves the clock both ways.

**OperationState.** One Operation record instead of dictionaries: the chain of
one assistant tool call, its Tool Intent, one Write and one Approval, the
number of started Model Requests, and the transcript abstracted to what its end
is (`user`, `call`, `answered`, `final`, `error`) or `broken`. `Accepts` holds
the raises of the reducer, `Applied` its `replace` calls, phase of the Operation
included. A fencing token of 0 is `None`. Names, hashes and digests are left
out: within one chain they agree. `ReplayWithSpecs` folds a batch with a
recursive function and gives `Rejected` when an event is not accepted.

**WriteService.** `op` and `ver` are the log (what it replays to and its last
sequence number). A service call is a `Begin...` step (load, decide, replay) and a
store step: `AppendBatch`, `AppendConflicts` (sequence moved), `AppendLate`
(deadline passed), `AppendFenced` (lease lost) or `AppendFails` (I/O error). In
between any other step may happen. `CallHandler` sends the external request;
`HandlerReturns`, `HandlerNotCommitted`, `HandlerRaises` and `ExecuteCancelled`
are its four ends; `BeginFinish`, `BeginCleanup`, `BeginReport` are what
`execute` and the recorder do afterwards. A recorder that lost the race for the
log builds its batch again (`ReportSpecs`): the result once more if the call is
still open, and its message. `effect` counts requests sent, in
flight and applied; `ExternalResolves` decides about one at any later time.
Reconciliation is `ReadForReconcile`, `AcquireReconcile`, `BeginEnter`,
`ReconcileAnswers`/`Raises`/`Cancelled`, `BeginVerdict`, `ReleaseReconcile`. `Crash` can
happen in every step and loses the call, not the lease.

**Recovery.** `Runs` gives the batches a host appends for four kinds of run: a
plain tool, a tool whose handler makes a Write, a guarded Write through the
Approval gateway, and a direct Write with an Approval but no tool. The initial
states are all prefixes of all runs with every state of the external system and
of the tool that a crash there can leave. Tools of the first two kinds may be
declared safe to replay or not. `StartRecovery` takes the lease, `PlanNext` is the
planner, `Act` the first batch of the plan, and the rest are the awaits after it:
model, tool, check, store. `_commit_specs` retries on conflicts, so it is one
step (`Commit`) over the newest log with a plan that may be stale.
`CallReconcile` hands over to the steps of `WriteService`.

**EventStream.** push, end and fail contain no await and are one step;
`_iterate` is `Take` and `TakeMarker`. An entry keeps its id, coalesce key, size,
whether it may be dropped and whether it is terminal.

**ModelRouter, ModelRetry.** The registry and the breaker hold a lock during
each method, so each method is one step. A route or call is a program counter
with what it has published (`out`); the host makes the next call at any time
(`NextRoute`, `NextCall`). Clocks are bounded counters.

**PlanState, PlanExecution.** `BoundDependencies` is the graph the policies and
the planner's hints give; `Accepts` has the raises of the reducer for each Plan
event, `Apply` its update. `rec` is what the journal replays to, `worker` the
memory of a process: the state it loaded, the journal head it saw, its lease.
`Transition` is an append under that head and lease: it takes effect, or the
worker aborts. `RecoverStep`, `SkipBlocked`, `AskPending`, `AskDenied`,
`ConsumeReceipt`, `RecordGrant`, `StartBatch`, `Dispatch`, `ValidateResult` and
`Succeed` are the steps of `PlanExecutor.execute`; the steps of one batch are
tasks that advance separately. `FindCompletion` to `AckCompletion` are the outbox.
`Decide` and `ReceiptExpires` are the product's approval backend, external.

**FairLocks, ToolScheduler.** A lock is a value with its queue; an operation
returns the new lock and the callers it wakes. `Path(c)` is the order in which a
call takes barrier, sorted resource locks, table row, tenant slot and parallel
slot; its position `at` says what it holds. `Enter`, `Resume`, `TryTable`, `GiveUp`
move along it, `Released` goes back. `Lapse`, `HeartbeatFails` and `NoticeLost` are
a cross-process lease that runs out, or cannot be renewed, under a handler. `Interrupt` is
a cancelled token or a timeout at any await, which `_execute` turns into a result;
`InterruptRelease` is one that hits the release itself. A batch may be broken off as a whole: the
Run's task is cancelled or a listener fails (`BreakOff`), or a listener failed on a
partial result and the result is given up for its error (`ObserverFails`). The calls that are not
done are then cancelled and end without a result (`CancelTask`), and the Agent's repair says
that they were not executed (`RepairBatch`). `Commit` is the side effect, `effects` counts it.

**CatalogState, SessionJournal.** A row carries its stream, body, sequence
number, expiry and source number. `Insert` takes the next number above the
high-water mark; `Resigned` signs the manifest of every tenant again, which is
what a manifest is: the content it signs. A writer is `LoadStream` and `AppendEvent`
(or `AppendFenced`); a catalog process is `LoadSnapshot`, `LoadEvents`,
`AppendCatalog`, `SaveSnapshot`, each a transaction. `PurgeExpired`,
`DeleteSession`, `Export`, `RotateKeys` and the three steps of the snapshot migration
are the administration. An empty file and a legacy one (`schema` 1) are both
initial states; `Bootstrap` signs a legacy file once.

**Transcript, Compaction, RunState, AgentLoop.** A message keeps its role, its
call ids and how a result came about. The steps of `AgentLoop` are the events the
loop emits, because that is where it awaits: `Emit` updates the Agent's state
and then either goes on or, if a fault is left, loses the tracker's append,
has the observer raise or the task cancelled (`Faults`, `Struck`, `Raise`). Turn:
`BeginTurn`, `Inject`, `RequestModel`, `ForwardStreamEvent`, `Overflow` (compaction),
`ModelReplies`, `CommitReply`; batch: `DenyBudget`, `Refuse...`, `Guard...`,
`Dispatch`, `HandlerReturns`, `ScheduleRetry`, `Retry`, `EndCall`, `EmitResult`;
after it `EndTurn`, `StopAfterTurn`, `NextTurn`, `AgentEnd`. A raising step leads to
`Interrupted`, `RepairTranscript` and the four `Fail...` events. The router in front is
`RoutedPrompt`, `RouteOpens`, `RouteDecided`, `EnterAgent` and `RunSettles`, the approval that a
routed Run waits for `ApprovalGranted` or `ApprovalRefused`, `ApprovedWriteEnds`, `ApprovalRejected`:
one awaited record each, which may fail or be cancelled (`RecordExternal`), and nobody
finishes the Run then. `Restart` is the recovery of an interrupted Run.

**RunLedger, Autonomous.** The ledger is the record `_decode` makes, folded event
by event; `ok` turns false where `_decode` would raise. `Published` is the batch
that bootstrap appends for the first Plan. A Host is a program
counter with what it holds in memory; its calls (`Prompt`, `Submit`, `Resume`,
`Open`) run through model stages (`ReserveStage`, `DispatchStage`, `SettleStage`),
the bootstrap of Plan, Run and Conversation, the controller lease (`LoadRun` reads the
Run before it is claimed, `AcquireController` claims, `Reload` reads again), the closed
loop (`StartAction`, `ExecutePlan`, `ReserveStep`, `StartStep`, `EndStep`, `Validate`,
`ReserveCorrection`, `RegisterCorrection`, `CheckCorrection`) and the answer
(`Synthesized`, `FinalizeRun`, `ProjectFinal`, `Acknowledge`). A Host is opened in three steps:
`Open` takes the Writer claim, `InspectAll` looks at the other Operations, `RecoverAll` looks again
and resumes what it may (`RetryRecovery` starts over); the gap between its last look and
the resumption is one step. `BeginWrite` and `SettleWrite` are a Write of another Operation, which the claim
of its Approval fences and not the Writer's: any Host that is still running may begin one,
also one that has lost the Session. `Crash`, `Close`, `Stall`
and the expiry of each lease come between any two. A Plan is one step, safe to
repeat or not. A Plan that is not safe is a write, which always needs an approval (`gated`), or
a never-replay step that is not a write and may need none. `PlanExecution` has Plans of many steps. Ticket ids are the smallest free
number instead of a UUID, the Usage Meter is external.

### The abstract specification

`ToolProtocol` has one variable, a transcript, and three steps: say something
while nothing is pending, answer some of the pending calls, clear. With
fairness it also promises that pending calls are answered. `AgentLoop` implements it
under the mapping `log <- agent.messages` (property `TranscriptProtocol` of run
`agent_loop`), so the tool executors, the refusals, the staged results and the
repair after a failure together never break the form that providers and the
recovery planner rely on.

## 3. Runs

| Run | Question | Bounds and why they suffice |
|---|---|---|
| `fenced_claims` | Do generations fence off every replaced worker? | 2 owners, 1 key (keys share nothing), 3 generations, 2 calls in flight, clock 1..4 with lease 2: a lease can be granted, lapse, be replaced, released and granted again while old calls are pending. The theorems remove the bounds. |
| `write_service` | Is the external write made at most once, are verdicts true, Approvals decided in time, uncertain Writes settled? | 2 workers (races are pairwise on one log), 1 fault besides the deadline and the external system's delay, 8 generations: enough that the bound never stops a worker. 178 thousand states, safety and liveness. |
| `recovery` | Can two workers recover every crash state without a second effect or a damaged transcript? | 2 workers, 3 generations of the recovery lease, 1 of the reconciliation lease; 152 initial states, 1.9 million states. |
| `event_stream` | Does the stream keep its facts and its end? | room for 3 events and 4 units, sizes 1, 2 and 5 (5 never fits), one delta and one snapshot key, 5 pushes: merging, eviction, trimming and overflow all happen, under both policies. |
| `model_router` | No splicing, one terminal event, a consistent breaker? | 2 routes over 2 candidates, threshold 2, one cooldown, 2 attempts per route; routes start anew for ever, so a candidate opens, is probed, and late outcomes arrive. 2.5 million states. |
| `model_retry` | Does only the last attempt reach the consumer, and do calls end? | 3 calls, threshold 2, 1 retry, two recovery windows; calls start anew for ever. |
| `plan_execution` | Is a Plan executed once and its last state delivered? | 2 workers, 3 steps (a read with a result contract, a side effect, an approved write that needs the read), 2 attempts, 3 generations, 2 faults: a take-over, and a fault of the one that took over. 1.6 million states. |
| `tool_scheduler` | Are grants accounted for, waits free of circles, outcomes honest? | three request sets over 5 calls: writers of two keys in opposite orders with an exclusive call, two processes with one key, a writer and a reader; limits 1, so every slot is contended; 2 interruptions, 1 lapse, 1 batch broken off. 492 thousand states. |
| `session_journal` | Do manifests, cursors and histories survive concurrent use and administration? | 7 deployments: two writers with a reader and retention, the same on a runtime stream, claims, one catalog client with every request, two with the conflicting ones, two tenants under administration. 3 or 4 events, one tick. |
| `agent_loop` | Does the loop implement the protocol, keep messages, budgets and the truth of the Run? | 4 deployments: two turns with queued messages, retries competing for the budget, two runs with malformed ids, two routed runs; 2 user messages, batches of 2 with raw ids up to `IdWidth`, 1 fault, also of a record of the router or the approval. 493 thousand states. |
| `autonomous` | Is the ledger sound, the answer true, the write made once, the Run settled, and no Host recovered past an open Write? | 2 Hosts, 1 fault, 2 Plans, 1 correction; 4 deployments: a write behind an approval (`Approved`), a corrected read (`Corrected`), a routed prompt with a never-replay step (`Routed`), a read beside the Writes of another Operation (`Beside`). 674 thousand states, safety and liveness. |
| `unsafe_correction` | The documented safety of corrections: see section 5. | `Corrected` with Plans that are safe to repeat or never-replay, none of them a write |

Deadlock is checked in `fenced_claims`. The other systems may stop: a Write is
settled, a stream is over, a Plan or a Run is finished, the bounded
generations, faults or clock are used up.

### What the properties say

* Claims: `OneOwnerPerGeneration`, `AppendsInGenerationOrder`,
  `AppendUnderNewestLease`, `LostLeaseStaysLost`.
* Writes: `SentOnce`, `VerdictIsTrue` (success was applied, failure was not and
  never will be), `DecidedInTime`, `UnknownIsSettled`.
* Recovery: `TranscriptIntact` (with at most one open Model Request),
  `UnsafeToolOnce`, `ResultMatchesWrite`, `CompletedIsClosed`.
* Stream: `FactsInOrder`, `ConsumerStops`. Router and retry: `NoSplice` (with
  exactly one terminal event), `BreakerConsistent`, `OnlyLastAttempt`, `CallEnds`.
* Plans: `NeverStepOnce` (a step without replay is dispatched once, whoever
  takes over), `SideEffectsInOrder`, `AcknowledgedStateWasTold`.
* Tools: `GrantsAccountedFor`, `NoCircularWait` (and no missed wake-up),
  `HonestOutcome` (a committed side effect is not repeated and is reported as success or unknown,
  unless its batch was broken off: see section 5), `NewerOwnerFencesOlder`.
* Journal: `ManifestsVerify` (an append of one tenant does not invalidate
  another's manifest), `CursorMissesNothing` (numbers are not reused),
  `JournalReplays` (streams and catalog; of the catalog it holds while audit events are kept,
  `AuditRetention = Forever`, and the catalog's own session is not deleted).
* Agent: `TranscriptProtocol`, `CommittedResultKept`, `MessagesOnce`, `TruthfulRun` (the loop
  leaves no Run open behind an idle Agent; the router and the approval may, when one of their own records
  fails: `Abandoned`, section 5), `WithinBudget`, `RequestIsFaithful`.
* Autonomous: `LedgerCovers` (what the Run's controllers spent is charged, what is charged is in
  the budget), `LedgerReplays`, `AnswerIsTrue`, `WritesOnce`, `RunSettles`, and
  `StartupBarrier`: a Host that serves beside an open Write inspected the Session before that Write began.
  A Write left open by a crash, or begun by a Host that lost the Session while the next one was between its
  two inspections, holds up the recovery. A Host that was recovered before goes on beside a Write of
  unknown outcome, its own too: only the startup report is asked (`harness/durable_agent_host.py:1211-1214`).

`VerdictIsTrue` rests on an assumption about write handlers, as the code does: a
handler that reports "not committed", and a reconciliation that answers
"failed", tell the truth (`HandlerNotCommitted`, `Answers`). `LedgerCovers` rests on
a meter that reports at least the attempts that were observed, which the code
checks (`Actual`).

## 4. Fairness

* `EventStream`: the event loop schedules the consumer's task
  (`WF(Take \/ TakeMarker)`); nothing is assumed of the producer.
* `ModelRetry`: tasks are scheduled and an attempt ends, because every attempt is
  bounded by the timeout of its provider; the recovery window need not pass.
* `WriteSettlement`: workers are scheduled; somebody calls `reconcile` again
  while the Write is uncertain (startup recovery reports such a Write and
  keeps the Session blocked until then); the external system eventually decides
  about a request in flight; a lease nobody renews runs out. Crashes, store
  errors, deferred answers and starved heartbeats are finitely many
  (`MaxFaults`): with infinitely many the property would be false.
* `AgentLoop`: the task of the loop and of its tools is scheduled and a provider or a
  tool that was called comes back (`WF(Turn \/ Tools)`), as its timeout
  ensures. Users, queues and aborts are not fair.
* `Autonomous`: a Host's task is scheduled; somebody opens the Session again after a
  crash; a Host that lost its claims is closed in the end; leases of the dead expire;
  a Write of another Operation is settled in the end (`SettleWrite`: by its outcome, or by a person
  who reconciles it). Approvals
  are not assumed. `RunSettles` is stated for Runs without a deadline (section 5).

## 5. Where code and documentation disagree

Checked by `unsafe_correction`, quoted in `PROJECT.json`: the runner registers a
replanned Plan as dispatchable (`harness/autonomous.py:1057`) before the closed loop examines it. The loop
then rejects a write or a never-replay step and says that "the entire correction batch was
not executed" (`planning/closed_loop.py:752`). But a Host that is reopened before the Run is
finalized takes the newest registered Plan as its initial action, and executes the never-replay step
without anybody's consent. The runner's docstring says that "corrections are accepted only after
`PlanValidator` and the closed-loop safety boundary agree that every automatically repeated action is
read-only and replay-safe" (`harness/autonomous.py:140-142`). A write is not executed that way: a write step
must require an approval (`planning/types.py:560-561` and `757-758`, `planning/executor.py:232-239`,
`harness/plan_tool_runtime.py:375-379`), so a resumed write correction stops at `waiting_approval`.

Met while modelling; the models have these behaviours unless noted, and the properties
are stated so that they hold nevertheless:

* *Writes.* The planner sends a Write in `submitting` to `reconcile`, which refuses it
  (`write_not_uncertain`): a crash between the claim of a Write and its outcome leaves
  a Write recovery cannot settle. After `tool_outcome_unknown` the reducer rejects
  `write_succeeded` and `write_failed` (`WriteAgreesWithTool`): a Write bound to a tool
  call that was answered as unknown is never settled, and its reconciliation is
  repeated without end. `UnknownIsSettled` is about Writes bound to no tool call.
* *Recovery.* `reconcile_tool` is planned for a dispatched tool that may not be replayed;
  the reducer rejects its first event, since it wants `outcome_unknown`. The finish planned
  after an unknown tool result, or after a direct Write whose Approval is `consumed`,
  is rejected as well, so that the attempt raises each time.
* *Gateway.* After a guarded Write fails, the workflow stores the tool result under the
  `approval_resume` lease that the gateway released before it raised; the store refuses it
  and the tool call stays open (`GuardedEnd`).
* *Breakers.* A cancellation recorded for an attempt admitted earlier clears the flag of a
  probe in flight, and a second probe is admitted, against "only one probe" of the README.
  A half-open probe whose task is cancelled or whose sink raises is never recorded: the
  retry breaker then refuses every call, the router's candidate keeps its probe.
* *Stream.* All `message_update` events share one coalesce key, so under pressure an update
  of a later message is delivered in the place of an earlier one, before the
  facts between them (`Coalesce`); `FactsInOrder` is about facts only.
* *Plans.* Some states the workers leave behind fail `_validate_state_coherence` when they are
  loaded again (`Coherent`), which stops the Plan. A denial with a real approval id
  for a step that waits under the placeholder id is rejected. An expired receipt leaves an
  approved step that can never start. `_deliver_completion` may hand over a state that is no
  longer deliverable.
* *Tools.* When a listener fails on a partial result, or the Run's task is cancelled, the batch is broken off:
  a never-replay call that has committed its side effect ends without a result
  (`tool_runtime.py:2028-2035`, `2528-2530`, `2545-2571`), and the repair answers it as
  `tool_not_executed_due_run_error` (`agent.py:677-681`). The comment at `agent.py:783-784` says that
  after the commit a failing observer can neither turn a side effect into "not executed" nor cancel the
  siblings; that is so for the result's own events, not for these. `HonestOutcome` excepts exactly this case.
  A cancellation delivered at the first await of a release leaves the lock with
  a call that has ended, although the docs say that "resource locks are held only during the
  actual attempt". `acquire_many` does not drop its reference when it times out after counting
  it (the registry's references are left out of the model).
* *Journal.* Catalog events have kind "audit" and are hidden once they expire
  (`journal.py:1963`), against the comment at `catalog.py:737` that the event is authoritative;
  the run gives them the retention of the catalog's lifetime. Deleting the catalog's own session while a
  client is about to save a snapshot could bring state back (left out).
* *Agent.* A second failure during `_handle_run_failure` leaves the Run open: `MaxFaults` is 1 in the
  run, and `TruthfulRunHolds` has it as a hypothesis.
  A cancellation at the `tool_execution_end` of one call cancels its executing siblings,
  whose results then say that they were not executed. The sliding window may start with
  a tool result and then fails its verification. Drained steering messages are lost when a
  listener fails before their `message_end` (`lost`). The phase `outcome_unknown` after an
  approval blocks routed prompts until a restart. A record of the router (`routing/routed_agent.py:158-294`) or of an
  approval (`harness/approval.py:979-1103`) that fails or is cancelled leaves an open Run behind an idle Agent; the
  next routed prompt is refused (`run_already_active`) until a restart.
* *Autonomous.* A deadline that passes before the Run is finalized strands it, against
  the comment at `autonomous.py:1146`; `RunSettles` leaves such Runs out. The background
  Plan worker, and `Host.execute_plan` (`harness/durable_agent_host.py:351-383`), execute without a resource reserver,
  so that their attempts are not charged; `LedgerCovers` is about the controllers of the Run. A Host that is running when a Write
  of the Session becomes unknown is not blocked. A stalled Host may acknowledge an
  envelope newer than the one it showed. A crash after a correction was registered and before
  `correction_planned` leaves its round uncharged. `route_accounted` is not set after
  a success, so finishing an admission again with another reason hides the first error.
  A Plan lease still live after a crash counts as a failure for a person. A resumed Run
  that waits words its text anew, and `project_waiting` refuses other words under the same
  key, so that the Host is blocked.
* *Children, orchestration* (read, not modelled). A child message cancelled after its dispatch
  is reported as cancelled before it. Synchronous workers go on in their thread after
  a cancellation while their resource locks are released; a cancellation while a
  result is being stored leaves store and result apart.

## 6. Proofs

Each theorem holds for every value of the constants that satisfies the assumptions named
below: any number of workers, hosts, keys, calls or candidates, any limits and bounds. A
bound that a run needs (generations, faults, clock) is a constant here and may
be any number, except in `TruthfulRunHolds`.

| Module | Theorems (the specification implies `[]...` unless said otherwise) |
|---|---|
| `FencedClaims_proofs` | `TypeCorrect`, `OneOwnerPerGenerationHolds`, `AppendsInGenerationOrderHolds`; the action properties `AppendUnderNewestLeaseHolds`, `LostLeaseStaysLostHolds` |
| `WriteService_proofs` | `TypeCorrect`, `SentOnceHolds`, `VerdictIsTrueHolds`; the action property `DecidedInTimeHolds`; `SettlementRefines`: `LSpec => Spec`. Of `Recovery`: `RecoveryTypeCorrect`, `TranscriptIntactHolds`, `UnsafeToolOnceHolds`, `ResultMatchesWriteHolds`, `CompletedIsClosedHolds` |
| `PlanExecution_proofs` | `TypeCorrect`, `NeverStepOnceHolds`, `SideEffectsInOrderHolds`, `AcknowledgedStateWasToldHolds` |
| `ModelCalls_proofs` | of the router: `TypeCorrect`, `BreakerConsistentHolds`, `NoSpliceHolds`; of the retry loop: `OnlyLastAttemptHolds`; of the stream: `FactsInOrderHolds` |
| `SessionJournal_proofs` | `ManifestsVerifyHolds`, `CursorMissesNothingHolds` |
| `ToolScheduler_proofs` | `TypeCorrect`, `HonestOutcomeHolds`, `NewerOwnerFencesOlderHolds`, `GrantsAccountedForHolds`, `NoCircularWaitHolds` |
| `AgentLoop_proofs` | `MessagesOnceHolds`, `CommittedResultKeptHolds`, `WithinBudgetHolds`, `RequestIsFaithfulHolds`; `TruthfulRunHolds`, for at most one failure; `ProtocolSafety`: the specification implies the safety half of `ToolProtocol` |
| `Autonomous_proofs` | `LedgerCoversHolds`, `LedgerReplaysHolds`, `AnswerIsTrueHolds`, `WritesOnceHolds`, `StartupBarrierHolds` |

None of the properties is inductive as it stands. Each component has an invariant (`Inv`, or the name given
below), which holds initially, is kept by every step, and implies the property.

**FencedClaims.** `ClaimsAssumption`: `NoOwner` is no owner, the lease time is positive, the
bounds are numbers; nothing about the clock or the order of calls. `Inv` adds
`LeasesBehindRow` (no lease has a generation above its row's, and one with the
row's generation has the row's owner) and `LogFromLeases` (only leases handed out
have appended). An acquisition either raises the generation, so the new lease is
above all old ones, or keeps generation and owner. An append is made by a lease
that names its row, so no lease is newer, and everything
appended so far is not newer either. `GenerationNeverFalls` gives
`LostLeaseStaysLost`.

**WriteService.** `WriteServiceAssumption`: `NoOwner` is no worker, `MaxGen` is a number;
`SettlementRefines` needs nothing else. `Inv` relates three things. `WriteOK`: what the
recorded state of the Write says about the external system (nothing is sent before the
Write is claimed; a verdict agrees with what was applied). `Evidence`: what each event a
worker *holds* says about it, which no later step makes false. `AppendOK`: a worker at
the append has a batch that replays over the log of its version, so if the log has not
grown the batch is accepted. At most one worker is at `submitted`, the point before the
request is sent, and then nothing was sent yet: that is `SentOnce`. `ReduceFacts` has what
one accepted event does to Write and Approval; `BatchFacts` extends it to a batch by
induction on its length. The reconciliation claim is not needed for any of these
theorems: the compare and set of the log is enough.

**Recovery.** `RecoveryAssumption`: the four kinds of run, a number of recoveries. The invariant `RInv`
has one part for each thing that outlives a crash. `LogOK`: the transcript is whole, at most one
Model Request is open, a completed tool agrees with its Write, a completed Operation is closed. `FlightOK`:
only an uncertain Write may be in flight. `Serving`: the service calls made during a recovery append one
event at most, and a verdict only once nothing is in flight. `RecOK` relates the plan of a worker to
the log, but only while the worker *holds the lease*: the plan of one that lost it may be stale, and
the fence of the append keeps it out of the log. `ToolOK` is about every worker, with or
without a lease, because a tool is run without asking the store: of a tool that may not be replayed, at
most one worker is about to run it, and it has not run. That `RInv` holds initially is a walk along
each log a crashed host leaves, batch by batch (`Host`, `Leads`).

**PlanExecution.** `ExecutionAssumption`: hints, denial ids and bounds have their types. `Synced`:
a worker's copy is the stored Plan if its head is the journal's. Every change of the stored
Plan is then one accepted event, and `PlanOK` is what those keep: a step without replay has no
second attempt and none while it is pending, and a running step has its dependencies met.
`SideEffectsInOrder` follows because `BoundDependencies` orders any two side effects that
may not run together. `Telling` carries the outbox: the Plan told of is the stored one as long as
the envelope is. Neither claim is used: a worker that lost its claim
is stopped by the head of the journal already.

**ModelRouter.** `RouterAssumption`: the candidates are finitely many, a candidate is neither
`NoCandidate` nor the terminal event, threshold and attempts are positive. `RoutesOK` says
for each place of a route what it has published: nothing while it may still fail over,
afterwards the events of the candidate it is attempting. The health records are
independent of the routes; `HealthFacts` shows that each method of the registry keeps
the count of failures and the status in step.

**ModelRetry, EventStream.** `RetryAssumption`: threshold and recovery time are positive.
`CallsOK`: a call publishes nothing before it is over, and then the events of one attempt, so an
attempt that failed leaves nothing behind. `StreamAssumption`: limits and sizes are positive, the two sorts of key are
different. `StreamOK`: an event that the index finds under a coalesce key is an update. Eviction,
trimming and merging therefore touch updates only, and leave the sequence of facts as it is;
that the facts of what is left are the facts of the whole is proved for each of these three operators.

**SessionJournal.** `JournalAssumption`: what the deployments are made of, and that `Forever`
is later than any time reached. `Inv`: every row and the reader's cursor are below the
high-water mark, the reader has seen the rows its cursor passed, and every tenant that has
a manifest, a row or a snapshot has signed exactly its present content. No transaction
lowers the mark, a deletion of the newest rows included. A file of the
old schema has no such manifests; `BootstrapKeeps` shows that its first opening makes them.

**ToolScheduler.** `LimitAssumption` (positive limits), `CallAssumption` (finitely many calls, each reads or
writes), `KeyAssumption` (the lock order names each key once). `HonestCall` follows
a call that must not be replayed from its guard to its outcome: its side effect happens at most
once, only while it runs and has entered the handler, and every way out of there reports
success or an unknown outcome, or cancels the call with its batch; from then on the batch stays broken. `Fenced`: of two calls that conflict, the one whose rows are
in the table has the larger token. Neither of these two depends on how locks are granted; `Moved` and
`SameCall` say that waking other calls changes nothing they depend on.

The other two are about the locks. `FlowOK`: every call stands on its path where it says (`AtOK`), and
every lock and semaphore stands for the calls that have passed it and the calls queued
at it (`LocksOK`), whoever waits being kept out by a holder. Each operation of a lock is shown to keep
its own part, for any holders and any queue. Then no circle: take a waiting call whose next stop has
the highest rank (`Rank`: barrier, keys in their order, table, tenant slot, parallel slot). Somebody
holds that stop, and a holder that waits itself waits at a higher one; so some holder does not wait.

**AgentLoop.** `AgentAssumption`: budgets are positive (`agent.py:202-210` refuses others), the compactor keeps at
least one message (`compaction.py:44`), and raw call ids and the length of a batch have a
bound, `IdWidth`, any number. The code keeps three copies of one conversation: the Agent's messages, the
loop's context, and the results that are announced and not committed. `AInv` relates them:

* `PlaceOK`: for every place of the loop, which calls are open and how far the context is ahead. The
  protocol of the transcript becomes a matter of places; `ProtocolSafety` follows step by step.
* `StagedAt`, `KeptOK`: an announced result is in the messages, or staged and its call open, so that the
  repair after a failure finds it.
* `QueuesOK`: a user message is in one queue, about to be injected, or said, and in one of these only.
* `BudgetOK`: the attempts the calls of a batch have still to make are charged already; without it a
  retry could use up what a sibling's first attempt was admitted for.
* `LogOK`: the ids in the messages are bounded, so that the id that replaces a bad one is new.

`GInv` adds `Formed` (a result follows its call, nothing is said over an open one, at every step of the
conversation) and `GivenOK`: the Provider is asked with the whole conversation, and what takes
its place ends with the same message, whichever compactor made it (`RetainedEnds`, `CompactedEnds`).

`TInv` adds `Truth`: what the Run says at each place of the loop, of the router and of the approval. The router's
places come before any Tool Call, and a Run that is left open there has none and a fault behind
it (`Leaves`); that is why `Abandoned` is the only exception. A Run without a failure follows
a good reply. While nothing has failed, its open Tool Calls are the unfinished calls of the batch
(`Mirrors`), so that no event is refused and the end of the run is accepted. After one failure
`Mirrors` is lost for good (a lost `tool_started` is never made up), and the argument is another one:
the cleanup runs undisturbed and its error reply gives the Run a failure, with which it can be finished whatever
is still open. A second failure breaks that; the theorem therefore says `MaxFaults <= 1`.

**Autonomous.** `AutonomousAssumption`: the types of deployments and bounds. The invariant is stated as
a predicate of the parts of the state (`InvAt`), so that a step is a change of one part at
a time:

* `LedgerOK`, `PlansOK`: Run, Plans and Conversation are bound together; a Plan that is not safe to
  repeat has no attempt before it runs.
* `HostsOK`: what each Host has in its locals fits the ledger, even if it has lost every
  lease. `LeasesOK`: what it may rely on while its leases are good: as the
  controller, the Run is not finalized; with the Plan's lease, an unsafe step is not running yet; and
  a Host that has not inspected the Session since an open Write began is not recovered (`Barred`), which is
  `StartupBarrier`.
* `ApartsOK`: no two Hosts have the same ticket, admission or correction.
* `Reservations`, `SpentOK`: there is a function `used` from the open reservations to numbers, each at
  most what is reserved, and what was spent is at most what was settled plus the sum of `used`.
  A stalled Host's ticket keeps its reservation, so that what it spends later is covered, and
  a settlement charges at least what was observed. From this and the check of the budget
  when reserving, `LedgerCovers`.

A new ticket differs from all open ones, because the reservations are finitely many.

**Induction.** The prover cannot instantiate an induction theorem whose parameter is an operator. Where
induction is needed it is made over a set of numbers: a set that has 0 and is closed under
adding 1 is `Nat` (`SetInduction`, from the well-foundedness of `<`). With it: a batch of any
length that replays (`ReplayPasses`), the largest element of a bounded set (`BoundedMax`), that
finite sums exist, grow with their terms and lose exactly a term that is taken out (`SumsExist`, `SumLeq`, `SumSplit`),
the sorted keys of a call, the facts of a buffer, the open calls and the last reply of a transcript, and what a compactor keeps.

**What the proofs changed.** The attempt on `WriteService` showed a batch of the recorder that held
the message twice after a lost race (the code builds it anew: `ReportSpecs`). The attempt on
`Autonomous` showed that the snapshot of a Run is read before its controller lease (`LoadRun`)
and that a call that is dispatched too late has no observed attempts (`DispatchLate`). The attempt on
`Recovery` showed crash states that no crash leaves: a Write recorded as failed whose request was still in flight
(`EffectsAt`). The attempt on `AgentLoop` showed that a fresh call id was only fresh
for small ids (`FreshId`, `IdWidth`). `Without`, `SortedKeys`, `Kept`, `Retained`, `Selected` and `WithQueued` were
rewritten without recursive operators or overriding of functions, with the same values.

**Only model-checked.**

* Liveness, which rests on fairness and ENABLED, outside the prover: `UnknownIsSettled`,
  `ConsumerStops`, `CallEnds`, `RunSettles`, and the fairness half of `TranscriptProtocol`.
* `JournalReplays`: it folds reducers over the whole history of a stream, and compares two folds.
* The behaviour of a Run after two failures: there `TruthfulRun` is false.

## 7. Plan

The modules of the plan are written, except those of section 8, and every safety property of a passing
run but `JournalReplays` is a theorem. What is left, most important first:

1. `JournalReplays` as a theorem. It needs the catalog's fold from a snapshot and the fold from the start
   to be related event by event, for every retention that the deployments allow.
2. `SessionJournal`, `Autonomous`, `AgentLoop`: type theorems of their own; so far their invariants hold the
   types that the proofs need.
3. Durable children: the inbox and outbox as a module over `ClaimRows`, with a promise like
   `AcknowledgedStateWasTold`.
4. The Approval gateway as an actor beside `WriteService`, with its resume lease.

## 8. Not modelled

* Durable children and multi-agent orchestration. They were read: both are built from
  what other modules model (fenced claims, compare-and-swap appends, acknowledged
  envelopes; sorted locks and semaphores), and what a child or a worker does is an
  Operation or a call of its own.
* The Approval gateway as an actor: its batches are the crash states of `Recovery`; its
  resume lease, re-entry and `request_many` are not actions.
* Several tool calls, Writes or Approvals in one Operation of `WriteService` and `Recovery`:
  chains share the log and its sequence number, which the second worker already contends for.
  `AgentLoop` and `ToolScheduler` have several calls.
* Journal: encryption, redaction, roles, schema migrations of events. Autonomous: tool calls,
  tokens and cost as resources (charged by the same comparisons), and the `bind_initial_plan`, `begin` and
  `run` paths, which have no caller. Loop: the older executors in `loop.py` 1244-1921,
  which have no caller, hooks that rewrite the context, a process crash inside a run
  (the tracker's recovery of an open Run is `Restart`).
* File formats, fsync, migrations, process and file I/O, HTTP and SSE parsing,
  MCP clients: no state of their own that a small model could check.
* Scoring and ranking heuristics of routing, memory and evaluation: pure data;
  the router's ranking is an arbitrary order instead.
* Identity and role checks: they depend on nothing that changes.
* The compactor's critical messages: it chooses them by their words. They are kept besides what the
  window selects by position.
* Telemetry, gauges, logging and messages shown to users.

Simplifications inside what is modelled. Some only add behaviours (`Prepare`, `FinalizeSpecs`,
`Dispatch` of the loop); the others take behaviours away, of which the properties say nothing.

* Tools: the awaited releases of one attempt are one step (`Unwind`; `InterruptRelease` and `CancelTask` have the
  cancellation that hits them). In `AgentLoop.Dispatch` a listener error fails the Run,
  where the code makes it the error result of that call.
* Agent: an approval that is taken up again after a cancellation. `RunState.PhaseAfter` leaves out
  `model_retry_finished` without success and the reconciliation events (`reducer.py:60-66`, `139-147`).
* `Recovery.FinalizeSpecs` leaves out the guard of `resume.py:962-967`. `ModelRetry.RecordAttempt` pushes the
  buffered events in one step (`retry/model.py:255-259`). `PlanExecution.Dispatch` compares the expiry of a
  receipt at the append, not at the reading before (`executor.py:441-444`).
* Journal: fenced appends of the catalog (`catalog.py:712-723`), the deletion of the catalog's own session
  (`journal.py:698-708`), the upgrade of a version 1 manifest (`journal.py:1273-1288`).
* Autonomous: a correction that loses its one compare-and-swap (`autonomous_durability.py:746-763`), the outcome of a
  failing event sink (`autonomous.py:1116-1119`), the settlement after a timeout (`1307-1317`) and the caller's
  cancellation token (`closed_loop.py:473-491`). `Prepare` reserves a planner ticket also where a `task_decision`
  makes it unnecessary (`autonomous.py:430`).
