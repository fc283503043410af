# Verification of baymax's orchestration core

baymax is a Go library for running agents: a model-and-tool loop (`core/runner`),
orchestration of child tasks (`orchestration/*`), remote agents (`a2a`), tool servers
(`mcp`), context assembly, memory, configuration and diagnostics. This directory holds
TLA+ models of the parts whose correctness depends on the order of steps, the TLC
configurations that check them and the TLAPS proofs about them. Paths below are relative
to the repository.

## The system and what is modelled

| Part | Source | Module | Status |
|---|---|---|---|
| Scheduler state machine | `orchestration/scheduler/state.go`, `types.go` | `Scheduler`, `ClaimFairness`, `TaskLifecycle` | modelled, proved |
| Scheduler calls, reconcile cycle | `scheduler.go`, `async_reconcile.go`, `a2a_adapter.go` | `Scheduler` | partly |
| Scheduler file backend | `store_file.go`, `restore` in `state.go` | `SchedulerFileStore` | partly, proved |
| Task board query and its cache | `query.go`, `scheduler.go` | `TaskBoardQuery` | partly, proved |
| Mailbox state machine, history journal | `orchestration/mailbox/state.go`, `history.go` | `Mailbox` | modelled, proved |
| Handler continuations | `continuation.go` | `Mailbox`, `MailboxWorkers` | partly, proved |
| Mailbox file backend, workers, resume | `store_file.go`, `worker.go`, `mailbox.go` | `MailboxWorkers` | partly, proved |
| Asynchronous calls between agents | `a2a/interop.go`, `async_reporting.go` | `A2A` | partly, proved |
| Workflow engine | `orchestration/workflow/engine.go`, `legacy_checkpoint.go` | `Workflow` | partly, proved |
| Workflow continuations | `orchestration/workflow/continuation.go` | `Continuation` | partly, proved |
| Run checkpoints over the file coordinator | `core/checkpoint`, `core/sourcecoordination` | `CheckpointStore` | partly, proved |
| History journal and projection ledger | `core/history` | `HistoryLedger` | partly, proved |
| Host source adapter | `host/sourceadapter` | `SourceAdapter` | partly, proved |
| Memory file engine | `memory/filesystem_engine.go` | `MemoryEngine` | partly, proved |
| Delivery of security alerts | `core/runner/security_delivery.go` | `AlertDelivery` | partly, proved |
| Adapter health probes | `adapter/health/health.go` | `HealthProbe` | partly, proved |
| Export of runtime events | `observability/event/runtime_exporter.go` | `RuntimeExporter` | partly, proved |
| Everything else | see "Not modelled" | - | not modelled |

`PROJECT.json` has the complete list, with the reason for each part that is left out, and
the hazards (`hazards`), each at the line where it bites.

How the parts interact: a host enqueues tasks with the scheduler, workers claim them under
a lease, and a task that is dispatched to a remote agent waits for its report, which comes
by callback or is fetched by the reconcile cycle. Independently, hosts and agents exchange
messages through the mailbox; a worker consumes a message under a lease, and its handler
may pause and be resumed from a checkpoint. Both have a memory and a file backend with
the same scheme: change memory, then write the whole state, at once or in batches.
A remote agent is called through the A2A client, which reports the end of a task to a
sink. A workflow runs its steps from a graph; it can be paused, and its continuation is
claimed by one of several resumes. Runs keep their checkpoints in a store that processes
share through a coordinator with leases. A source's events go to a journal and from there
to a ledger whose records consumers acknowledge; the host's source adapter does the same
for facts from outside, with a cursor. Around these, the memory engine keeps records in a
log and a snapshot, alerts and health probes go through circuit breakers, and events are
exported in batches.

## Modules

`Lists` has the list operations that the scheduler and the mailbox share.

`Scheduler` has one action per store operation, which runs under the store's mutex.

| Action | Code |
|---|---|
| `Enqueue` | `enqueue`, also reached through `SpawnChild` |
| `ClaimTask`, `ClaimNone` | `claim`: expires leases first, then `nextClaimableIndex` |
| `ExpireLeasesCall`, `ExpireAwaitingReports` | the two lock sections of `Scheduler.ExpireLeases` |
| `Heartbeat`, `Requeue`, `MarkAwaitingReport` | the operations of those names |
| `CommitTerminal` | `Complete` and `Fail` |
| `AsyncReport` | `CommitAsyncReportTerminal` by callback |
| `ReconcileList`, `ReconcileSkip`, `ReconcileCommit` | the copy, and the polls outside the lock |
| `ManualCancel`, `ManualRetry` | `ControlTask` |
| `Tick` | time |

Callers are not trusted: a call may be made for any attempt that was ever handed out, so
repeated, delayed and stale calls are covered. A deadline is the time left to it. Payloads,
tokens, statistics and timeline text are left out; an outcome is its status, its source
and a key that tells two outcomes apart.

`TaskLifecycle` is the abstract specification: an open task is granted to one worker at a
time, a grant is settled once, a success is final. `ImplementsLifecycle` says that
`Scheduler` implements it under the mapping `lifeBar`. `ClaimFairness` adds to the scheduler
a count, for each task that can be claimed, of the claims in a row that served each priority
meanwhile; `FairnessWindow` is stated over it.

`SchedulerFileStore` puts the file under the scheduler: writes that are put off, fail, or
are flushed; a crash; `restore` with the checks it makes. The ghosts `told` and `kept` are
what callers were told, before and after a write covered it. The reconcile cycle is left out
there: it changes the store by the operation that callbacks use. `TaskBoardQuery` adds the
queries, whose reading of the epoch, cache and snapshot and writing of the cache are
separate steps between which operations run.

`Mailbox` is the mailbox's state machine with arbitrary callers: `Publish`, `Consume` with
expiry and reclaim, `Heartbeat`, `Ack`, `Nack`, `Requeue`, and the save, claim, run and
result of continuations. `MailboxWorkers` has the real callers on the file backend:
`Worker.RunOnce` with its heartbeat goroutine, `ResumeHandlerContinuation` as the seven
steps between which others run, failed writes, rollback of continuation changes, crash and
restart, and the answers `Query` may give from its cache.

`A2A` follows a call of `SubmitAsync` through its goroutine: the submission with its
retries (`Accepted`, `Duplicate`, the requests that are lost), the wait in either delivery
mode, the resolution of the result, and the report with deduplication, retry and drop. The
server is the package's `InMemoryServer`; a transport that loses requests and answers lies
between. `serverLocked` says that its mutex was left locked.

`Workflow` starts from any graph, for a plan or for a run. `SubmitWorkflow` is the check for
steps that depend on themselves. The depth-first search of `hasCycle` is taken one call at a
time: `VisitNext` and `FollowDependency` enter `dfs`, `LeaveStep` returns from it, `path` is
its stack. `ListStep` is one turn of the loop of `Plan`, whose in-degree of a step is 0 when
all it depends on is listed. The other steps are `execute`, split at every point where a
step's attempt, a skip or a checkpoint write can be followed by a cancellation, a pause or a
crash. `ResumeRun` and
`ResumePaused` are the two ways back. `Continuation` is the file store behind the second:
load, claim, run and commit are separate lock sections, so resumes of one continuation
interleave; a failed write undoes a part of what it changed in memory.

`CheckpointStore` has the processes that share checkpoints: `AcquireLease` takes the lease
from whoever has it; an operation synchronises and prepares its records, and
`PublishSucceeds` or `PublishFails` is the compare-and-swap, which may fail before or after
the file was swapped. `HistoryLedger` splits `Append` between its two files
(`AppendEvent`, `CommitRetained`) and the repair into `CheckRepair`, `Repair`,
`ClearError`. `SourceAdapter` has the operations of `deliver` one store access at a time
(`AdapterStep`), polled and offered pages, facts that the source changes, and
interruptions. `MemoryEngine` keeps an agenda of file operations, so that a crash, a power
loss or an error may come before each; `Open` is the recovery, `OpenRefused` the cases in
which the engine does not start.

`AlertDelivery`, `HealthProbe` and `RuntimeExporter` have one action per critical section
of the respective mutex; a callback, probe or export runs between two of them. Settings are
read once per call, as in the code, so calls under old and new settings overlap.

The modules of this second group do not interact. `MCStores` and `MCFlows` put several into
one run: a variable `subject` picks the part that moves while the others stay in their
initial states. The states of the run are the sum of the parts' states, and each property
is about the variables of its own part.

Proofs are in modules of their own (`*Proofs`). Modules named `MC*`
give the constants their values. Operators marked as mutants are defined next to the
definition they vary: each plants one plausible bug that the named property finds.

## Runs

| Run | Bounds | What it shows |
|---|---|---|
| `scheduler_core` | 2 tasks (high and low priority, one with a workspace binding), 2 attempts, 2 control operations, timers of 1 | Safety and refinement, with operator control |
| `scheduler_live` | 2 tasks, 4 attempts under a reentry budget of 2, backoff with jitter, timers of 2, reconcile batch 2 | The race of callback, poll and timeout; every task ends |
| `scheduler_file_store` | 2 tasks, batch of 2, one failed write, one crash | What was written survives; the restart is sound |
| `mailbox` | 2 messages (one expires, one is delayed), 2 workers, 2 deliveries, retention 2 | Queue, budget and journal under any calls |
| `mailbox_workers` | 1 message, 2 workers, 2 resume requests, batch of 2, one failed write, one crash | Ownership, resume at most once, durable answers; every message settles |
| `stores`, 920,524 states | see below | What each store acknowledges is kept; no breaker loses a slot |
| `flows`, 207,963 states | see below | Runs, calls and exports end, with results that follow from what happened |

Five more runs show disagreements between code and documents; see below.

`stores` and `flows`, part by part:

| Part | Bounds | Property |
|---|---|---|
| `TaskBoardQuery` | 1 task, 2 queries, 2 operations between store and invalidation | The epoch keeps old answers out of the cache (`CacheIsCurrentBarBlindSpots`) |
| `MemoryEngine` | 2 ids, 3 kinds of batches, 2 operations, fsync every 2, compaction at 3, retention 1, 1 fault | What an operation acknowledged of a record is what a query shows, through crashes, power losses and every stage of a compaction (`AcknowledgedRecordsSurvive`); a drift that recovery reports has a cause (`DriftIsExplained`) |
| `HistoryLedger` | retention 2 of both, 4 events, 1 failed write, 2 crashes | The ledger is a stretch of the journal (`LedgerFollowsJournal`), can be repaired (`RepairStaysPossible`) and opened (`ReopensUnlessAckTrimmed`) |
| `SourceAdapter` | 2 adapters, 2 facts, 1 change of a fact, 1 interruption, 6 revisions | The cursor never passes an unanswered fact (`CursorCoversAnswered`), no fact is seen with two contents (`OneContentPerFact`) |
| `CheckpointStore` | 2 processes, 2 checkpoints, 2 leases, 3 publications, 1 fault | A checkpoint is given to one attempt (`OneAttemptPerCheckpoint`); no writer undoes what a caller was told (`AcknowledgedIsDurable`) |
| `Continuation` | 2 resumes, 2 identities, 2 generations, 2 failed writes, 1 restart | Nothing is executed twice (`ExecutedOnce`) |
| `AlertDelivery` | 3 alerts, queue of 1, 2 attempts, threshold 2, 2 half-open slots | Slots are held by running calls (`AlertSlotsInUse`) |
| `HealthProbe` | 2 callers, every mix of settings, 3 time units | The same for probes (`ProbeSlotsInUse`) |
| `Workflow` | every graph of 3 steps, 2 assignments of conditions, 1 retry, 1 resume, 1 fault | `Plan` and the cycle check agree (`PlansAreOrders`); a step is skipped exactly when its condition says so (`ResultsFollowConditions`); a resume repeats no step whose success is saved (`SavedWorkIsKept`); runs end (`RunsEnd`) |
| `A2A` | 2 calls, 2 tasks, 2 requests per call, 1 reconnect, 2 reports, 1 lost message | The sink hears one story per task (`OneStoryPerTask`); an acknowledged call is answered (`AcknowledgedCallsAreAnswered`) |
| `RuntimeExporter` | 3 events, queue of 1, batches of 2, 2 workers, 3 configurations | Accepted events are exported (`AcceptedEventsAreExported`) |

The bounds are the smallest at which the cases of interest happen. Two tasks are needed
for the order of the queue and for a step that expires one task and claims another. Two
attempts or deliveries give a stale worker and a budget that is used up. A timer of 1 with
its floor tells before, at and after the deadline apart. A batch of 2 gives a change that
is told but not written. One failed write and one crash suffice for each place where they
can happen; two of the same kind in one behaviour are covered only where the tables say so. The mailbox journal
with retention 2 drops entries all the time. Two adapters, processes, resumes or probers
are what a race needs. Larger instances of single parts were checked once, with the same
result: the memory engine with two faults (1.45 million states), four publications of
checkpoints (172,000), three generations of continuations (76,000), four alerts (646,000)
and three probers (4.9 million). `scheduler_file_store` has no control
operations, because with them the file cannot always be opened again (the second
disagreement).

### Fairness

`EveryTaskEnds` assumes that time passes, that workers keep claiming, that the host keeps
calling `ExpireLeases` (no code of the library calls it), and that a worker does not renew
a lease for ever without a result. Nothing is assumed of reports, polls or heartbeats: a
worker that dies and a remote agent that is never heard of are among the behaviours.
`EveryMessageSettles` assumes that time passes, that some worker polls, that the mailbox is
opened again after a crash, and that handlers end. `Worker.Run` returns at the first
error, so the host has to run it again; that it does is part of the second assumption.

`RunsEnd` assumes that the engine's loop runs on and that attempts return, which the step
timeout enforces. `AcknowledgedCallsAreAnswered` assumes that the goroutines of the server
and of each call go on and that the task's handler returns; lost requests and answers are
finitely many (`MaxTransportFaults`), as the client's retries are. `AcceptedEventsAreExported`
assumes that goroutines that can go on do, that the flush timer fires and that
`ExportEvents` returns. Deadlock is not checked in `stores` and `flows`: their parts may
come to rest.

## Where code and documents disagree

- **A late report is refused, not recorded** (`scheduler_late_report`).
  `commitAsyncReportTerminal` compares workspace bindings with the current attempt
  (`state.go:987`) before it looks whether the report is late. A task that was cancelled
  while it awaited its report has no current attempt, so the report is answered with a
  binding mismatch. `openspec/specs/multi-agent-async-reporting/spec.md:64` wants late
  reports recorded.
- **Cancelling a queued task makes the file unreadable** (`scheduler_file_store_cancel`).
  `applyManualCancel` (`state.go:496`) leaves the id in the queue, and `restore` refuses a
  queue with a task that is not queued.
- **An empty claim leaves the query cache stale** (`task_board_query_stale`).
  `Scheduler.Claim` (`scheduler.go:196`) returns before it invalidates the cache although
  the claim has expired leases.
- **A resume call may act on a later delivery** (`mailbox_resume`).
  `ResumeHandlerContinuation` checks the delivery and then renews and settles by consumer
  id alone (`worker.go:338`). If the message was delivered to the same consumer again in
  between, the comment above the function ("the same live delivery") does not hold.

- **A refused submission locks the server** (`a2a_lock`). `InMemoryServer.Submit`
  (`a2a/interop.go:288`) returns without unlocking its mutex when the agent or peer id is
  missing. A task that was taken before never ends and cannot be queried, against
  `openspec/specs/a2a-minimal-interoperability/spec.md:14`. `flows` checks the calls with
  this behaviour in it: an acknowledged call is answered unless the mutex is gone.

Met on the way, modelled as the code has it, and not decided by a run, since no document is
definite about it:

- The memory engine does not open after a crash between truncating and writing
  `index.json`, or with a torn last line in its log (`OpenRefused`), while
  `memory/README.md:12` speaks of crash-safe recovery. `AcknowledgedRecordsSurvive` is about
  the engine once it is up.
- A success of an alert attempt that began before the circuit opened closes the circuit
  before its window has passed (`Finished`).
- A half-open health circuit that is reset while probes of an earlier phase run counts
  fewer probes than are running; no slot is lost by it.
- Under `fail_fast`, a failed export of a replaced worker takes the exporter in use out of
  use (`ExportReturns`).

## Proofs

Every theorem holds for every value of the constants that the named assumptions of its
module allow. For the scheduler those are: task ids are numbers (in the order the code
sorts them) and finitely many, timeouts and `MaxAttempts` are positive, the backoff's
initial delay does not exceed its maximum, and the timeout's outcome differs from every
reported one. The mailbox assumes the same of its ids and policy. The other modules assume
that their limits are natural numbers, positive where the code refuses zero. Where a model
has a mark beside data (no file, a torn file, no record), the mark is assumed to be none of
the data (`MemoryMarksAssumption`). One theorem has a hypothesis of its own: `FileReopens`
is about a scheduler without control operations, since with them it is false (the second
disagreement above).

| Module | Theorem | States |
|---|---|---|
| `SchedulerProofs` | `TypeCorrect` | `TypeOK` |
| | `OneWorkerPerTask` | `OneLiveAttempt` |
| | `QueuedTasksAreFound` | `NoLostTask` |
| | `AttemptsAreBounded` | `RetryBudget` |
| | `HistoryIsTrue` | `CommitsMatchAttempts` |
| | `SourceIsTrue` | `SourceTellsTheTruth` |
| | `FirstCommitStands` | `FirstTerminalWins` (an action property) |
| | `SchedulerRefines` | `ImplementsLifecycle` |
| | `ClaimsAreFair` | `FairnessWindow` |
| `SchedulerStoreProofs` | `CacheIsCurrent` | `CacheIsCurrentBarBlindSpots` |
| | `WrittenFactsStand` | `WrittenFactsSurvive` |
| | `RestartIsSound` | `RestartedStateIsSound` |
| | `FileReopens` | `Reopenable`, without control operations |
| `MailboxProofs` | `MailboxQueue` | `QueueIsTheQueued` |
| | `MailboxDeliveries` | `DeliveriesBounded` |
| | `MailboxHistory` | `HistoryIsFaithful` |
| | `MailboxForward` | no operation takes back a settled message, a key, a claim or a result (an action property) |
| `MailboxWorkersProofs` | `MailboxSurvivesRestart` | `SurvivesRestart` |
| | `ServedHistoryIsDurable` | `ReadableHistoryIsDurable` |
| | `WorkersOwnDeliveries` | `WorkerOwnsDelivery` |
| | `PausedOnceResumedOnce` | `ResumedOnce` |
| | `CommittedResultIsTrue` | `ResultIsTrue` |
| `WorkflowProofs` | `ContinuationExecutedOnce` | `ExecutedOnce` |
| | `ContinuationSuccessors` | a successor runs only after its predecessor's pause is in the file |
| | `PlansAreSound` | `PlansAreOrders` |
| | `ResultsAreSound` | `ResultsFollowConditions` |
| | `SavedWorkStays` | `SavedWorkIsKept` (an action property) |
| | `ContinuationClaims` | no write takes back a claim or a committed result (an action property) |
| `StoreProofs` | `CheckpointDurability` | `AcknowledgedIsDurable` |
| | `CheckpointOneAttempt` | `OneAttemptPerCheckpoint` |
| | `CheckpointStoresAgree` | a store with the current revision has the current records |
| | `CheckpointForward` | no publication takes a checkpoint back (an action property) |
| | `AdapterCursor` | `CursorCoversAnswered` |
| | `AdapterOneContent` | `OneContentPerFact` |
| | `AdapterEffects` | what the consumer was called with is behind the cursor or pending |
| | `AdapterStoreMoves` | a write prepares a fact, or moves the cursor by one over an answered fact (an action property) |
| | `HistoryFollows` | `LedgerFollowsJournal` |
| | `HistoryRepair` | `RepairStaysPossible` |
| | `HistoryReopens` | `ReopensUnlessAckTrimmed` |
| | `HistoryOnce` | retained entries, sequences and acknowledgements are not rewritten (an action property) |
| `MemoryProofs` | `AcknowledgedIsKept` | `AcknowledgedRecordsSurvive` |
| | `DriftHasACause` | `DriftIsExplained` (an action property) |
| `GuardProofs` | `A2AOneStory` | `OneStoryPerTask` |
| | `AlertSlots` | `AlertSlotsInUse` |
| | `AlertTurns` | the queue holds the alerts that wait, each once; one is delivered at a time |
| | `ProbeSlots` | `ProbeSlotsInUse` |
| | `ExporterWorkers` | a worker that runs is in use, was canceled or is about to be |
| | `ExporterKeepsEvents` | an accepted event is held once, by one worker that has not ended |

Where the last column has no name in code font, the property is defined beside its theorem
and has no run of its own.

**Scheduler.** A claim changes several tasks at once, which makes a proof by action
unwieldy. `SchedulerProofs` therefore shows first (`StepByTask`) that each step treats each
task in one of a few ways: `QuietStep` lists those without a verdict, `DecideStep` those
with one, and `TaskStep` adds what happens to the commits. What concerns one record is then
proved over these few cases; the queue and the other variables are followed action by
action (`QueueStep`, `CommitsStep`, `OthersStep`). The inductive invariant `IInv` is the
conjunction of the invariants above and of `Fresh`: a task that is not known yet has no
attempts, so that no commit can speak of one when it is enqueued. Most conjuncts are not
inductive alone. That a commit rewrites no older attempt needs `OneLiveAttempt` (the current
attempt is the newest). That a commit is new needs `CommitsMatchAttempts` (an attempt with a
commit is closed, so it is not the current one). `SourceTellsTheTruth` needs both.
`FairnessWindow` follows from `FairInv`: the claims of one priority that a waiting task has
seen go by are the last ones there were, so `lastConsecutive` has counted them. A claim that
would take the count over `FairnessMax` finds the waiting task in the queue (`NoLostTask`),
so its priority is among those that wait and the selection passes on (`TurnIsGivenUp`).
`RetryBudget` needs the attempt count of queued tasks. The refinement then follows from
`IInv` and the cases of `RecordStep`.

**Query cache.** An operation changes the tasks and invalidates later; until then it owes an
invalidation, which raises the epoch. `QueryInv` says that a query whose epoch is still the
current one has a snapshot of the tasks as they are, unless an invalidation is owed or a
change went by without one. Without this about queries under way the property of the cache
is not inductive, since it is they who write to it.

**File store.** `Sound` is the scheduler's `IInv` as a statement about any tasks, queue,
commits and operations, so that it can be said of the file too. `StoreInv` says it of both.
An operation keeps it in memory by the scheduler's proof; a write copies it; `restore`
changes timers and drops sources only, which keeps it (`SoundKept`). The facts that were
told are in memory, and those a write covered in the file: a commit stays as it is, and
attempts are only added. `ReopenInv` adds that the queue has each queued task once
and nothing else, which is what `restore` asks for.

**Mailbox.** The invariant `MailboxInv` is the three properties with the types. The
difficulty is the size of a step: one `consume` expires and takes back any number of
messages, appends their events and delivers another message. Lemmas say what sorting,
filtering and removal do to a list (`AscendingFacts`, `FilteredFacts`, `WithoutFacts`), what
the sweep does to the records, the queue and the events (`SweptRecords`, `SweptQueue`,
`SweepEventsFacts`), and that the journal stays true when events are appended whose last
word on each message is its new state and which leave out nobody whose state changed
(`AppendHistoryTold`), whatever the retention drops. Each action then only supplies its
events. `MailboxForward` needs two facts besides: a message that is not there has no
delivery yet (so `publish` resets no count), and what type a continuation has. It holds
although any caller may ack, nack or requeue any message at any time.

**Mailbox workers.** The mailbox in memory and the one in the file both satisfy the invariant
of the mailbox, though the file may be any number of operations behind; their continuations
agree, since a change of one is written at once or undone. On the way from an operation to
the workers lies one lemma about what any operation may do to a message (`Moves`): a settled
message stays so, the count of deliveries does not fall, and nobody but `consume` makes a
delivery. `WorkerInv` then says that a worker whose consumer id is on a message has its
latest delivery; `ResumeInv`, that a resume call past its claim has the claim in the file
and is the only one on its way, and that a handler that was entered has a claim nobody is
on the way to again.

**A2A.** Of the calls that were acknowledged no two are for one task, because the server
takes a task id once; a final status stays; every report the sink has is the report of the
one call of its task.

**Continuation.** The invariant is about the file, since memory is lost and reread: a call
past its claim has its claim in the file, which does not yet say completed, and no other
such call is for the same continuation; memory that shows a continuation free is never ahead
of a file that shows it taken. For `ContinuationClaims` it is added that a claim in memory,
and the one a call goes by, is the file's: what a call writes from memory then repeats the
claims that are there.

**Checkpoints.** A store that is not poisoned and has the current revision has the current
records, so what it publishes follows what the coordinator has; and every claim that was
given stands in the coordinator's file under its attempt. The same comparison, for every
checkpoint of the file at once, is `CheckpointForward`.

**Source adapter.** What an operation holds was the store's state at its revision, and every
write raises the revision. The facts an operation holds are those after its cursor, one
after the other, so the pending fact is the one next to the cursor, and a fact that is
prepared is that one or new. `AdapterStoreMoves` follows: the revision a writer compares is
the only thing that ties its old copy to the store.

**History.** The invariant follows the entries on their way (the one that is in the journal
only, the one a repair has checked), the acknowledgements, and how far the ledger is behind:
by as many events as the journal forgot while it was behind, and one more while `Append` is
between its two writes or refused. `HistoryOnce` rests on the lists having no hole, so that
an entry's number tells which entry it is.

**Guards.** Slots are counted against the calls that run. For the alerts the invariant adds
that only a half-open circuit has slots in use and that what is queued is not under way; for
the exporter, that the events a worker has are not those of a call that still has a worker
to cancel. `AlertTurns` needs that an alert in the queue is not under way elsewhere.
`ExporterKeepsEvents` needs that the worker in use is neither canceled nor about to be
(`CurrentIsLive`), and that only a canceled worker ends (`OnlyCanceledEnd`): so no event
enters a queue that was drained. A worker that a failed export stops keeps what it had, which
is why the theorem says held and not exported.

**Workflow.** The search: the steps marked 1 are those on the path, each a dependency of the
one before, so that an edge back to one of them closes a circle; the steps marked 2 have all
their dependencies among themselves and are `Grounded`, that is, every part of them has a
step that depends on nothing in the part. The plan: a step is ready exactly when it is not
listed and all it depends on is. If the loop ended with steps left, these would be a part
without such a step; so all are listed, once each, and the list has as many entries as there
are steps (`ListLength`, by induction over the length with the library's `WFMin`). The run:
memory, checkpoint and continuation are all `Consistent`, that is, a step is over only when
its dependencies are, and is skipped exactly when its condition fails, unless a resume
reopened one of them. That a run that finds nothing ready is over needs `Grounded` again.
`SavedWorkIsKept` needs that what a run was resumed from, and saves since, as succeeded has
succeeded in memory (`RoundOf`).

**Memory.** The invariant is about `OnDisk`, what recovery would read now: the snapshot it
would choose, with the newer entries of the log replayed. What is acknowledged is in memory
and in `OnDisk`; no number on disk exceeds the engine's, or the next entry would be taken for
an old one; and memory equals `OnDisk` as long as no record changed without an entry. Each
step of a compaction keeps `OnDisk`: what it promotes is what memory holds, and what it cuts
from the log is covered by then. What replaying does to a record (`Replayed` is a recursive
function) is proved by taking the first entry at which a claim about it would fail.

Checked by TLC only: liveness (`EveryTaskEnds`, `EveryMessageSettles`, `RunsEnd`,
`AcknowledgedCallsAreAnswered`, `AcceptedEventsAreExported`), which needs fairness and
`ENABLED`.

## Not modelled

Of the modelled parts:

- Scheduler: spawn guardrails, admission scopes, statistics, filters and paging of queries,
  the import of a foreign snapshot (`Restore`).
- Mailbox: `InvokeSync`, `Restore`, seals and deployment scopes of continuations, lifecycle
  observers, paging of `Query` and `ReadAfter`, workers that share one consumer id.
- A2A: synchronous calls, routing, version negotiation, the callback of `WaitResult`.
- Workflow: templates of the definition language, the bindings of a continuation, the
  history events of a run.
- Checkpoints: the store without a coordinator (the case of one writer), limits on sizes.
- History: paged reads, health, journals that are shared over a coordinator.
- Memory: the facade and its fallback, scoring of searches, external providers.
- Runner: the model and tool loop, which calls external services one after the other.

Not modelled at all, because they hold no protocol state of their own: composer and invoke
adapters (single calls of parts that are modelled), the plan bridge (a compiler from data
to data), projections and snapshots of other parts, configuration and its validation, core
types, diagnostics, manifests, tools, model providers, examples and development tools. The
teams engine repeats the continuation store of the workflow engine. The MCP clients
(pool, heartbeat, reconnect) are driven by wall-clock timers against a process of which
the source shows one side only. The integer widths play no role: the counters that could
overflow are bounded by budgets.
