# Verification of the Vibewatch update core

Vibewatch updates Docker containers on several hosts from one controller
process. It queues updates, serialises them per host, records each in a
persistent transaction, captures what a rollback needs, lets a worker container
replace the image, verifies the result, rolls back on failure, and after a crash
reconciles what it finds. Around that core it checks registries, runs
automations, cleans hosts and updates itself. This directory holds TLA+ models
of all of that, TLC configurations for small instances, and TLAPS proofs for all
instances.

Paths below are relative to `src/internal/app/` unless they begin with
`internal/`, `cmd/` or `docs/`. `PROJECT.json` maps each definition to its
source lines and lists components, runs, findings, hazards, theorems and, per
property, a mutant of the model that violates it.

Run a configuration with `tlc -config X.cfg MCModule.tla`, a proof module with
`tlapm X.tla`.

## 1. Inventory

| Part | State | Operations | Hard behaviour | What makes it correct |
|---|---|---|---|---|
| Mutation scheduler (`mutation_scheduler.go`) | one channel of one place per host, one of three places for all hosts, a marker in the context | acquire (host, then slot), abort, release, nested entry | aborts between the two channels, nested entries with and without the marker | one pipeline per host, three in all, no token lost, everybody served |
| Update dispatcher (`app.go` 2546–2650) | `App.Queue` (200 places), local backlog, busy hosts, running count, done channel | enqueue, dispatch, acknowledge, cancel of a queued job, claim | cancel against claim, full queue, a hung host ahead of others, contention with users of the gate the worker does not know | books agree with reality, host order kept, no starvation |
| Operation leases (`internal/db/reliability.go`, `reliability.go`) | rows (key, scope, owner, expiry) that outlive the process | acquire with purge and hierarchical conflict, renew, release, reclaim by job, expire | crash with a live row, expiry against a live owner, a reclaim from a live owner, host scope against container scope | conflicting operations exclude each other; dead rows go |
| Update transactions (`reliability.go`) | state and status per update | `txTransition` over a table with blanket rules, recovery status | two statements per transition, ignored errors, writes from stale copies | the row never says less than what happened to the container |
| Update pipeline (`app.go` 2624–3344) | job row, transaction, restore point, lease, gate, context | about thirty steps from claim to deferred releases | cancel at every point, deadline, worker that outlives the caller, every early return | the row tells the truth about the container, one mutator, a cancelled job never mutated |
| Job lifecycle and cancellation (`job_lifecycle.go`) | registered cancel functions, job status | register, signal, cancel queued or running, durable finish, safety net, orphaned cancel | a cancel that meets the commit, the safety net or a restart | a cancelled job never touched its container; every job is settled |
| Rollback engine (`rollback.go`) | own job, gate entry, lease, 20-minute context, safety image | manual, automatic and recovery rollbacks; stop, restore data, recreate, verify, undo | nesting under a held gate and lease, deadline, a failing command at each step | rolled back means image and data of the restore point; an undo gives back what was found |
| Crash recovery (`reliability.go` 498–680, `app.go` 369–419) | listed transactions, one recovery at a time in the scan, orphan recoveries beside it | repair of jobs, scan, reconcile, keep, roll back, ask the operator | races with new updates, rollbacks and the remote worker | success only for the target image, one mutator |
| Continuity guard (`continuity.go`) with `workerOpMu` | an RWMutex, context markers, an RWMutex for the workers | read, shared, exclusive, hand-over, release | writer priority, nesting, two locks in two orders, markers that outlive the lock | nothing else uses the network while a DNS provider is down; no deadlock |
| Update chains (`chains.go`) | chain, run and step rows, the chain's job, reservations in memory, locals of the executor | start, check all, plan, update/restart/recreate each, wait for child updates, undo completed members, safe cancel | child updates in other goroutines, recreate under the gate, cancel between any two steps, need for an undo known to locals only | nothing is touched before the plan allows it, steps in order, what a run reports is what its members run |
| Chain recovery (`v095_recovery.go`, `job_lifecycle.go` 222–244) | rows read before the gate | list, wait for the gate, sort each row, undo, settle | scan and orphaned cancel recover the same run; a crash between a row and its effect | a run ends or is left to the operator; members on one data baseline stay together |
| Restore points and data protection (`restore_points.go`, `data_protection.go`) | restore point row, image, archives, stopped writers, safety copies | stop writers, commit, archive, restart, write the row; unpack behind a safety copy | a failure or a crash with writers down; one archive restored and the next not | writers come back; a ready row is whole; version and data stay together |
| Retention and recovery GC (`container_backups.go`, `reliability.go` 270–355, `v095_recovery.go`) | snapshot files, rows, images, pins | retention with each snapshot, validate and mark, remove orphan images, clean unusable points, delete an archive | what to keep is read before the lease is taken; two passes at once; pins that come and go | a fresh image is no orphan, units stay bounded, garbage and hollow points are found |
| Preflight and verification (`preflight.go`, `verification.go`) | profiles with a version, stored states, runs with retries | checks, verdict, approval rules, second verdict, run from an update or by hand | profiles edited between announcement and use, a call that fails, results of older versions | an unattended update is protected, the announced is done, what is shown was run |
| Update tracking, automation, cron (`update_tracking.go`, `app.go` 1820–2110, 3573–3690, `internal/scheduler/cron.go`) | one cache row per container, snooze, policies, last-run stamp | check, snooze, clear, hold after a rollback, minute loop, policy scan | a row read, minutes of work, and all of it written back; a registry that moves | a snooze is bound to its digest, offers are real, automatic updates arrive |
| Storage cleanup and volumes (`app.go` 1560–1810, `volumes.go`, `internal/dockercli/docker.go`) | jobs, host lease, inventories, protection from snapshots and points | image, network, build cache, volume cleanup, deletion by name, scheduled runs | inventories that age while updates, retention and the owner go on; a cancel of a queued job, a claim or a final write that fails | what a rollback needs and what is used stays; every cleanup ends |
| Developer update (`developer_update.go`, `internal/devupdate`, `cmd/devupdater`) | status file, marker, two trees, image references, database backup, helper container | upload, install, cancel, recover, reconcile; the helper's steps and its undo | two programs that share only files, either dies anywhere, several tabs, two installs at once | a settled status is true, one owner of the tree, every update ends |
| Config drift, clients (docker, registry, SSH), auth, notifications, exports, web | – | comparison, formatting, I/O | – | not modelled: their results are outcomes the models choose |

How they interact: HTTP handlers and the scheduler enqueue jobs; the dispatcher
starts a goroutine per update; that goroutine enters the gate, takes the lease,
writes transaction rows, takes the continuity guard, calls the worker container
and may call the rollback engine under its own gate and lease. Rollbacks, chain
actions and recovery enter the same gate from goroutines the dispatcher does not
know. The scan runs eight seconds after start, at the same time as the
dispatcher. Cleanups and collections take the host's lease and no gate;
retention and the deletion of archives take neither. Everything meets in the
store, where one mutex makes every statement atomic.

## 2. Modules

| Module | Models | Used by |
|---|---|---|
| `MutationExclusion` | abstract: at most one mutation per host, a bounded number in all | refined by `MutationGate` |
| `MutationGate` | `mutationPipelineGate`: the two channels, aborts, markers | instanced by `UpdateDispatcher` |
| `UpdateDispatcher` | `enqueueUpdate`, `updateWorker`, cancel and claim, over the gate | run `dispatcher` |
| `UpdateDispatcherProofs` | theorems on the gate and on the worker over it | |
| `ScopedExclusion` | abstract: owners of hosts and containers that never conflict | refined by `OperationLeases` |
| `OperationLeases` | the lease rows with time, crash and restart | run `leases` |
| `TransactionStates` | the transition table and its consequences for jobs | `UpdateState` |
| `UpdateState` | rows, container and process memory seen from one container | the next three |
| `UpdatePipeline` | `executeUpdate` and safe cancellation | `UpdateSystem` |
| `RestoreRollback` | `executeRestorePointRollback`, `handleRollback` as jobs | `UpdateSystem` |
| `CrashRecovery` | crash, `recoverInterruptedJobs`, the scan, `recoverUpdateTransaction`, orphaned cancels | `UpdateSystem` |
| `UpdateSystem` | the three together, their fairness and properties | run `update` |
| `UpdateSystemProofs` | theorems on the mutator, the rows and the outcomes | |
| `Continuity` | `continuity.go` and `workerOpMu` with the programs that use them | run `continuity` |
| `ContinuityProofs` | theorems on the two locks and the programs | |
| `ChainExecutor` | `startUpdateChain`, `executeUpdateChain` and the functions it calls, the child updates by their outcomes | `ChainRecovery` |
| `ChainRecovery` | cancel from outside, crash, restart, `recoverInterruptedChainRun` from both its callers | `UpdateChain` |
| `UpdateChain` | one run with everything around it, its fairness and properties | runs `chain`, `chain_baseline` |
| `UpdateChainProofs` | theorems on the executor, recovery and children of a run | |
| `DataRecovery` | the inside of a capture and of a rollback: writers, image, archives, safety copies, undo | run `data_recovery` |
| `DataRecoveryProofs` | theorems on captures, writers and rollbacks | |
| `RecoveryStore` | snapshots, images and rows of one unit with everybody who removes them | run `recovery_store` |
| `RecoveryStoreProofs` | theorems on the image of a capture under way and on retention | |
| `UpdateReadiness` | preflight, approval, announced protection, verification and its profiles | run `update_readiness` |
| `UpdateTracking` | the cache row between checks, snooze, rollback and automation; cron fields | run `update_tracking` |
| `StorageCleanup` | cleanup jobs of one host, by hand and scheduled, and the named volume | run `storage_cleanup` |
| `LeasesAndCleanupProofs` | theorems on leases, and on what cleanups that hold one leave | |
| `DeveloperUpdate` | self-update: controller, helper, trees, images, markers | run `developer_update` |
| `ShownStateProofs` | theorems on what is shown of developer updates, offered updates and verifications | |

`MC*` modules only give the constants values. Where a proof module covers several
components, their definitions carry the component's name (`LeasesInit`,
`TrackingNext`, `DeveloperSpec`).

How the models fit together. `UpdateSystem` sees a rollback as one step with an
outcome; `DataRecovery` opens that step. It sees preflight and verification as
outcomes; `UpdateReadiness` opens those. It takes the gate and the lease as one
variable each, by what `MutationGate` and `OperationLeases` are proved to give.
`UpdateChain` sees a child update by the outcomes `UpdateSystem` shows.
`RecoveryStore` sees an update as capture, row, pin, settlement. A composition
of all in one state space is out of TLC's reach and would add interleavings the
gate and the lease exclude.

### How state and actions correspond to the code

*Gate.* `hostGate[h]` and `slots` are how full the channels are; the code keeps
no owner in them, so neither does the model. `stage` says where a goroutine is
in `acquire`. `ended` are goroutines whose context is done; a select that has
both its channel and `ctx.Done()` ready may take either, hence `AbortOnHost` and
`AcquireHost` are both enabled then. `Unmarked` are pipelines whose nested
rollback gets a fresh context, which is what `recreateCurrentChainMember`
(`chains.go` 1152) does.

*Dispatcher.* `queue` is the buffered channel, `pending`, `busyHosts` and
`running` the worker's locals, `done` the channel pipelines report to. The
worker is one goroutine: it dispatches as long as it can, then receives one
message. The gate is an instance of `MutationGate` over updates and other users.
How an update ends is not told apart: its job is `ended`.

*Leases.* `owner[r]` is the owner column of row r or `NoOwner`, `age[r]` the
time since it was written or renewed, `holding` the operations of the running
process that believe they hold theirs. `Acquire` purges and inserts in one step,
as the store's mutex makes it. The collectors (`Unrenewed`) start no heartbeat.
`ReleaseOperationLeaseByJob` deletes the rows of a job and asks nobody whether
its owner works, so `Reclaim` has no such guard either: it may hit any job its
callers name (`Reclaimable`: updates and chains by the scan, deletions by name
by a cancel), and `robbed` are those it hit at work. `Guarded` are the
operations with a heartbeat that still have their row.

*Update system.* One container is in view. `pc[u]` is the state the pipeline
holds in memory (the Go variable `tx.State`) or one of the stages that have
none, `tx[u]` the row. `runtime` is the image the container runs, named by the
update it is the target of, `Base`, or `Broken`. `worker` is the outstanding
worker request, which a late worker may carry out after the caller or the
process is gone. `gate` is the holder of the host's gate, by what `MutationGate`
proves. `lease` is the owner of the row that covers the container. `ctx[j]`
is the context job j's store calls are bound to: a safe cancel kills it before
the commit to `updating`, only its deadline afterwards. `faults` is the scenario
of the behaviour: who may be cancelled, outlast a deadline or answer late, how
many crashes and lost writes, and whether a cleanup competes. Each conditional
return of the code is an action, and each multi-statement step with an
observable gap is two: the commit writes the row (`Commit`) and then its event
(`RecordCommit`), since a cancel in between makes the code believe the write
failed.

*Continuity.* A goroutine is its sequence of calls on the two locks and of the
work between them, in source order. `marker` is what its context carries, which
is not the same as what it holds: `close` goes back to the context before the
acquisition, `keep` releases and stays with the context (`app.go` 3321–3323).

*Chains.* One run of one chain. `run`, `job`, `row` and `link` are the stored
rows: the status of the run (and whether an orphaned cancel marked it), of its
job and of each step, and which steps hold a child's job id. `child`, `hit`,
`point` and `image` are the child updates' rows and what the members run;
`reused` are the steps started with `skipDataCapture`. The rest are locals: `pc`
and `at` say where `executeUpdateChain` is, `found` is its map `states`,
`completed` the list to undo, `captured` whether `capturedDataScopes` has the
scope of `chain.scope`, `err` the class of `chainErr`, `notes` its flags.
Executor and recovery of a run never overlap and two recoverers exclude each
other by the gate, so they share these; all of them vanish in a crash
(`Forget`). `turn` says how far each of the two recoverers is (listed, waiting
for the gate with its copy of the rows in `seen`, working). Between two
statements that both reach the store there is a state in which the process may
die: the child is enqueued before its id is recorded, the failed row is written
before anything is undone, the run is finished before its job.

*Data recovery.* One target with a dependent in its network namespace and
another writer, all of which write to every mount. `op` is the job under way
with the step of the code it is at and its locals: who was stopped, what failed
to start. `up`, `image`, `data`, `point` and `safety` are what Docker, the disk
and the store have. Each docker command is a step that may fail (`faults`), and
a crash may fall between any two. `began` remembers what a job found, for the
properties only.

*Recovery store.* A snapshot is its number in the order of creation; its restore
point has the same number, as one names the other. `sweep[w]` is a retention
pass with its excess and the file it is about to remove: the check of the pin
and the removal are two steps. `gc` and `cleanup` hold the lists they were
given, which age while others act. `doomed` is what a deletion of an archive has
yet to remove.

*Readiness.* A situation says what a preflight would find: state, dependents,
health check, registry, platform, version jump, mounts, protection, room, swarm,
configuration. The checks are a set of verdicts on it in the code's wording;
`Block` is the rule for modes. `run[p]` is a verification with the version of
the profile it was started for; `result` is what is stored per scope.

*Tracking.* Digests are numbers in the order of publication. `row` is the cache
row; each writer in `proc` has the copy it read (`old`), the image it inspected
before that (`cur`) and the registry's digest it has learned since (`late`).
`job.state` is `stuck` while a failed rollback awaits its recovery, which keeps
further updates out; `job.held` says that the digest of the last rollback is
still the registry's. The container is in no chain and none of the program's
own. A cron field is a list of items, matched as `fieldMatch` does.

*Cleanup.* Objects of one host and one container, with the image and the volume
of the data archives; `zip` and `row` are what snapshots and restore points
name. `work[p]` is a goroutine with its inventory and what it may remove; `job`
is its row, which a cancel changes while it is queued, `end` what the goroutine
will write there, and `lost` says that the row could not be read, claimed or
written, and stays behind. Docker's own refusal to remove a used object is
`DockerRefuses`.

*Developer update.* `st` is the status file, `flag` the cancel marker, `helper`
the helper's own copy with its step, `req[t]` a request of a tab with the copy
of the status it read, `look` the reconciliation with the status it took up.
`started` is the look the controller takes before it listens; the others are
`Look` (settings page, upload, install) and `CancelLook`. The route an update's
page polls does not reconcile (505–520), so no fairness is assumed of `Look`. A
helper step goes from one write of the status to the next. `crossed` says that a
helper was launched after another one had copied the tree. `asked` counts
requests, for the bound.

## 3. Properties and runs

| Run | Bounds | What it shows |
|---|---|---|
| `dispatcher` | two updates on a host that may hang, two on other hosts, a rollback that loses its marker on the hung host; 2 slots, queue of 2, one cancellable | `BooksBalance`, `GateInv` (token accounting, one per host, the bound), `BacklogInOrder`, refinement of `MutationExclusion`, and `QueuedUpdatesEnd`: no starvation behind a hung host |
| `leases` | two updates of one container, a rollback of another, a deletion by name on their host and a collector; heartbeat 1, lifetimes 2 and 1 ticks; crashes, restarts, reclaims of the updates' and the deletion's rows at any time | `LeasesExclude`, refinement of `ScopedExclusion`, `StaleRowGoes` |
| `update` | 1 update, 1 rollback (and the automatic one, the scan and an orphan's recovery), four scenarios: cancels with a cleanup and a lost write; two crashes with passed deadlines and a lost write; one crash with passed deadlines and every worker in time; one crash with cancels and a late worker | `OneMutator`, `RowsTell`, `OutcomesAreTrue`, `SettledOnce`, `JobsSettle`, `GateIsFreed` |
| `continuity` | DNS update with a cold capture, rollback, check, worker replacement | `NoOverlap`, `OperationsEnd`, and `CircleIsForGood` for the one circle that stops them |
| `chain` | 3 members, two definitions (automatic, tolerant, undoing, one red plan; manual, strict, not undoing), members 1 and 3 share data, 1 crash, one cancel at any point | `NothingBeforePlan`, `OneAtATime`, `SettledRunsAreTrue`, `RunsSettle` |
| `chain_baseline` | two members on one data baseline, 1 crash | a finding: `BaselineIsRestored` is violated |
| `data_recovery` | target, dependent, other writer, one mount; 3 failing commands, 1 crash, 2 rollbacks | `RollbackIsHonest`, `WritersComeBack`, `ReadyPointIsWhole` |
| `recovery_store` | 2 snapshots of a unit that keeps one, 1 crash | `CapturedImageStays`, `UnitsStayBounded`, `GarbageIsFound` |
| `update_readiness` | every subset of profiles, a clear situation and 23 deviations; 2 checks, 1 retry, 1 edit, 1 update, 1 test by hand, 1 failing call, 1 crash | `UpdatesAreCovered`, `ShownIsTrue`, `VerificationEnds` |
| `update_tracking` | 3 digests, policies auto and ignore, an hour of 2 minutes, 1 rollback, 1 click, 1 failing call; publications, clicks and failures are 3 in all | `OffersAreReal`, `SnoozeIsBoundToItsDigest`, `RowSettles`, `AutoUpdatesArrive` |
| `storage_cleanup` | one container, 2 images and the helper's, a network, a named and an anonymous volume and that of the archives; 1 update, 2 requests, two rules for the scheduled one, 1 failure, any cancels of what is queued | `RetainedStays`, `ReferencedStays`, `CleanupsEnd` |
| `developer_update` | two tabs that both install, one of which also cancels and recovers; 3 requests, 1 restart of the controller, the helper may die anywhere | `SettledIsTrue`, `HelperOwnsTheTree`, `UpdatesEnd` |

Why the bounds are enough. A conflict over a container takes two actors of which
one may have a nested child: an update and a rollback, or either and a recoverer
(there are always two recoverers, the scan and an orphan). Two crashes are the
fewest with which recovery itself is interrupted and resumed. `OneMutator` is
proved for any number of updates, and most properties of the other runs are
proved likewise (section 5). Three members are the fewest with a completed one,
an untouched one between two that share data, and a failing one; the two
definitions differ in every flag, and one crash suffices for two recoverers,
since an orphaned cancel brings the second. Two slots and three hosts make both
selects of `acquire` block. A queue of two overflows with four updates; both
updates of the hung host may wait while the worker is busy elsewhere, so their
order is at stake and a third overtakes them. A heartbeat shorter than the
lifetime by one tick is the tightest relation `TimingAssumption` admits with a
purge possible in between. One goroutine of each kind suffices for the
continuity guard's cycles, since each lock is waited for by one reader and one
writer. Three faults fail a rollback, its undo and the restart after it. Two
snapshots and a retention of one are the fewest with something to remove and
something to keep; the passes of update, administrator and collection overlap in
threes. Three digests are the one installed, one that is snoozed, or rolled
back, and a newer one, which an automatic policy must still install; the third
leaves room for one click or one failing call, with the rollback in addition.
One update and two cleanups are an old and a new image, and a runner that meets
another; the failure is one of Docker or of the store. Two installs are enough
to cross, and a third request is the cancel or the recovery that meets them.

Bounds in guards are constants named `Max…`, `QueueCap` and `Checks`/`Retries`;
ages of leases beyond `TTL` are merged; each update or rollback of
`UpdateSystem` is requested once.

Deadlock is checked in `leases` and `continuity`. In the other runs the set of
requests is finite, so the system may stop when all are done.

### Disagreements between code and text

`PROJECT.json` has nine findings, each with the line it quotes. One is the run
`chain_baseline`; two rest on properties that pass and describe the flaw
(`FreshContextWaitsForever`, part of `GateInv`: the nested rollback of a
recreate never gets past the gate its caller holds; `CircleIsForGood`: pipeline,
worker replacement and check wait for each other); the others have a
configuration here that gives the trace:

| Configuration | Module | Violated | What happens |
|---|---|---|---|
| `UpdateOrphans.cfg` | `MCUpdateSystem` | `RecoveryTakesOnlyOrphans` | the scan lists transactions eight seconds after the dispatcher has started, so also those of live pipelines; it takes them over and reclaims their leases |
| `ContinuityStale.cfg` | `MCContinuity` | `OutageStopsAllChecks` | the post-update check runs with the marker of a lock already released |
| `DataPartialRestore.cfg` | `MCDataRecovery` | `RestoreIsAllOrNothing` | with two mounts, an archive that does not unpack is not noticed when the next one does: the helper's shell tests the list with `if ! (…)`, which ignores `set -e` |
| `DeveloperUpdateCancel.cfg` | `MCDeveloperUpdate` | `CancelledIsFinal` | a cancel between the queued status and the launch settles the update, and the helper then replaces the controller |
| `UpdateTrackingUndone.cfg` | `MCUpdateTracking` | `UndoneStaysOut` | a check that read the row before the rollback's snooze writes it back without, and the next automation installs the digest just rolled back |
| `UpdateTrackingCron.cfg` | `MCUpdateTracking` | `ListsAreAlternatives` | a list such as `*/20,5` stops at its step item |

### Seen while modelling, stated by no run

The properties above are shaped around these.

*Updates, recovery, chains.*

- Recovery of a live pipeline reclaims its lease, so `RowsTell` claims the
  mutator's lease without crashes only (`reliability.go` 551, 573). Between that
  reclaim and the recovery rollback's own lease a cleanup may get in (657). A
  cancel of a deletion by name that has its lease and is still queued reclaims
  that too, and the deletion goes on (`volumes.go` 132–139, `app.go` 4013); an
  orphaned cancel goes the same ways as the scan (`job_lifecycle.go` 194–237).
  Hence `LeasesExclude` and `HolderKeepsRow` are about `Guarded` owners.
- The scan lists chain runs like transactions (`v095_recovery.go` 63), so a run
  started in the eight seconds after a start may be recovered while its executor
  works. `OperationLeases` has that reclaim; `ChainRecovery` begins a recovery
  only when the executor is gone.
- A cancel between the two statements of the commit leaves a cancelled job with
  a transaction in `updating` (`internal/db/reliability.go` 135); the container
  is not touched, which is what `CancelledNeverMutated` says.
- `recovery_required` is checked at admission only: an update admitted before
  another one ended there changes the container afterwards (`app.go` 2527).
- The scan's first write is judged by the state it listed, so it may reopen a
  transaction an orphaned cancel has recovered meanwhile (`reliability.go` 512);
  an orphaned cancel does not wait for the worker as the scan does
  (`job_lifecycle.go` 218). Hence `SettledOnce` is claimed while nothing
  disturbs (`Undisturbed`), and the rolled-back half of `OutcomesAreTrue` while
  no worker request outlives its caller into a rollback (`WorkersInTime`).
- With two crashes a worker may be late without anything of the above. The scan
  of the process between them has listed the update before it mutates, and calls
  it interrupted although its pipeline goes on (`SafeAbort`, `reliability.go`
  546–551). When that process dies with a worker request outstanding, the job is
  failed already and its transaction closed, so a rollback by hand is admitted
  before the next scan has waited for the worker, which then applies between the
  restore and the report. Hence `WorkersInTime` admits one crash. This came up
  when the proof for two crashes failed; TLC confirms it.
- A rollback whose 20-minute context has run out writes its final job status
  with that context and stays running for ever (`rollback.go` 1105; the durable
  write exists to prevent that, `job_lifecycle.go` 84). When the durable write
  of an early return fails before the safety net is deferred (`app.go` 2702),
  nothing settles the job until the next restart. Recovery that meets a lease
  conflict ends without settling its job (`reliability.go` 575); it takes a
  second crash, during the recovery rollback. These three are `Abandoned`, the
  exceptions of `JobsSettle`.
- The rollback after a dead pipeline context inherits it (`rollback.go` 727).
- A child update enqueued by a run that dies before it has recorded the job id
  (`chains.go` 1424) is unknown to that run: its row becomes "interrupted before
  this chain step mutated the container", and a cancel may settle the run while
  the child's transaction is still open. `CancelSettlesSteps` is about the
  children the rows name.
- A cancel may be requested after a run has been finished and before its job has
  (`chains.go` 1519–1549). It is then an orphaned one: it marks the finished run
  for recovery, which sorts its terminal rows and reports it cancelled.
- A chain's job carries the chain's name in the container column; a chain named
  like one of its members would make `HasActiveJob` refuse that member's own
  update (`chains.go` 805).
- A collector may outlive its unrenewed host lease (`reliability.go` 304);
  `LeasesExclude` is stated for owners with a heartbeat.
- `enqueueUpdate` goes on when it cannot read the cache row (`app.go` 2544): the
  snooze is then not looked at.

*Restore points and retention.*

- Two retention passes at once each count an excess of their own and remove more
  than they should between them; a pinned file is skipped without lowering the
  excess, so newer files go instead, although the comment says pinned ones "may
  temporarily push this unit above its nominal retention count".
  `UnitsStayBounded` is the upper bound that holds.
- A collection reads its points before it takes the host's lease
  (`v095_recovery.go` 519): a point captured and recorded in between is not in
  its list, and its image goes; `CapturedImageStays` is about the capture under
  way. Orphan images of a host without any point stay. A mark may set an expired
  row back to ready or degraded until the next collection.

*Readiness.*

- A profile edited during its own verification run is shown verified though that
  version was never run; the comment (`verification.go` 95) has versions prevent
  it. A stored "running" left by a crash or a failed write stays.
- A failing container list or inspect hides a stack profile and is taken for
  "none" (`data_protection.go` 1032, `restore_points.go` 189), and a
  verification not found counts as not configured, so the update is kept
  (`app.go` 3298). A failed storage probe returns the cached capacity with a
  green check (`data_protection.go` 758). The history keeps "pending" for
  updates that were blocked or cancelled before verification (`app.go` 2777).

*Tracking.*

- A rollback snoozes the row's latest digest, also when the registry has moved
  on since (`restore_points.go` 604). After a success with registry and worker
  unreachable a row offers what already runs. A check by way of the worker may
  clear a snooze. The policy is read before the check, and the pipeline does not
  look at snoozes again. `HasActiveJob` and `CreateJob` are two statements. The
  scan runs in the ticker's goroutine.
- An answer of the worker without digests, over a snooze of what now runs, makes
  that an offer (`app.go` 2447–2466): current, latest and snoozed are one digest.
  A hold that a rollback sets keeps the date of another digest
  (`restore_points.go` 592, `update_tracking.go` 62), although "FirstDetectedAt
  tracks current LatestDigest" (`update_tracking.go` 16), and when it is released
  the offer carries that date. `OffersAreReal` excepts the first by the
  snooze and the second by the rollback. The attempt to prove the property for
  any number of digests brought them to light.

*Cleanup.*

- The image inventory ignores a failing `ps` or `inspect`
  (`internal/dockercli/docker.go` 583, 587): all images then count as unused,
  against `app.go` 1631; Docker's refusal is what `ReferencedStays` rests on.
  Networks of stopped containers count as unused. The deletion of a named volume
  reads protection before the lease (`volumes.go` 123). An unreadable archive or
  a failed read of the points unprotects silently (`container_backups.go` 764,
  811) in spite of the comment at 745; only the newest 2000 points count. These
  are the exceptions `RetainedStays` names. A failed refresh reports a failed job
  though objects are gone; a removal of images or networks that fails throughout
  reports success.
- A cleanup writes its end once and ignores the error (`app.go` 1627, 1638,
  1645; `volumes.go` 58, 72, 79), although the durable write exists for this
  (`job_lifecycle.go` 84–87), and its goroutine ends when it cannot read or
  claim its row (`app.go` 2276–2288). Such a row stays running, or queued until
  somebody cancels it or the next start fails it; `CleanupsEnd` says that the
  lease comes back all the same, and excepts these rows (`lost`).
- A deletion by name is cancelled while it is queued, but it does not claim its
  row: it goes on without its lease and writes success or failed over
  "cancelled", although the comment at `internal/db/store.go` 1066–1069 has the
  claim prevent such overwriting for asynchronous workers.
- A crash leaves the host's lease with nobody to reclaim it, until its two hours
  are over; the run has no crash, and `StaleRowGoes` of `leases` is about that.

*Developer update.*

- Cancel and recover write a status they read earlier
  (`developer_update.go` 430, 489); `SettledIsTrue` excepts what a stale copy
  has overwritten (`lost`). A second recover bypasses the guard and may end
  "completed" on a mixed tree. Install checks (351), backs the database up for
  up to two minutes, writes (392) and launches (397) without the mutex, so two
  tabs may both install: the second launch removes the helper of the first,
  which has the same name, at its work (`internal/dockercli/docker.go` 2135). As
  long as that one has not copied the tree this is harmless, and both properties
  cover it; afterwards the second helper copies what the first one left, and
  they claim nothing (`crossed`). When the helper dies nothing looks at the
  active status it left until the controller starts, or an owner opens the
  settings, uploads, installs or cancels (`UpdatesEnd`): the page that follows an
  update polls the status route, which does not reconcile. The rollback tag
  leaks when the reconciler settles; after a cancelled or failed build the image
  reference names a build nobody accepted. The rollback image is unprotected
  against an image cleanup during the health window (`cmd/devupdater/main.go`
  267–297).

## 4. Fairness

- Gate: a Go channel wakes blocked senders first come, first served, so a waiter
  whose channel has room infinitely often gets in: strong fairness of the two
  acquisitions. Work under the gate is bounded by timeouts and calls nested
  recovery finitely often: strong fairness of release, which nested calls
  interrupt.
- Dispatcher: the worker goroutine runs and its select picks at random among
  ready cases (strong fairness of receive and acknowledge); pipelines of hosts
  outside `StuckHosts` run and end, nothing is assumed of the others.
- Leases: the clock, the heartbeat, the restart, the end of operations, and
  another try of whoever is blocked.
- Update system: weak fairness of the disjunction of all steps of running
  goroutines, the worker container and the supervisor that restarts the process,
  and of the cleanup on its own. Requests, cancels, crashes, failures of Docker
  and the loss of points are not in it. That is enough, as every goroutine's
  path is finite.
- Chains: weak fairness of the disjunction of all steps of the executor, the
  child updates, the restart and the recoverers; starting a chain, cancels,
  crashes and the user's rollback are not in it. A run is a finite sequence of
  steps with timeouts, except that the rollback of a failed recreate hangs
  (`stuck`): `RunsSettle` leaves that out, and a crash ends it.
- Continuity: goroutines run (weak); writers announce themselves in the order
  of the mutex inside `sync.RWMutex` (strong). No fairness for new requests.
- Data recovery: the one job under way goes on (weak); failures and crashes are
  bounded.
- Recovery store: retention passes, the update and a collection that runs go on,
  and the daily loop starts another collection (`GcSweep` is part of `GcStep`).
  No fairness for requests or cleanups.
- Readiness: the update goes on, and a verification's checks have timeouts and a
  bounded number of retries. No fairness for edits and requests.
- Tracking: goroutines run, registry and worker calls have timeouts, and the
  ticker fires more often than once a minute, so a due automation starts in its
  minute unless the previous scan is still at work. The browser clicks when it
  likes, but what it has begun is finished.
- Cleanup: the goroutine of a job runs and every Docker call has a deadline; the
  loop carries on with a scheduled run's plan. The owner, cancels, failures and
  the updates are free.
- Developer update: the helper, the look a starting controller takes before it
  listens (`app.go` 401), begun requests and reconciliations run on. Nothing
  obliges an owner to open the settings, upload, install, cancel, recover, or
  start a controller that is down. `UpdatesEnd` therefore has three parts: an
  active status ends or is left behind without a helper; one that is left behind
  ends when the controller starts, unless Docker cannot be asked then; and it
  ends if an owner keeps opening the settings, where the weak fairness of `Look`
  is a hypothesis of that part alone.

## 5. Proofs

| Theorem | Says | Inductive invariant |
|---|---|---|
| `GateInvariant`, `ExclusionPerHost`, `BoundedConcurrency`, `FreshContextNeverReturns` | `GateInv`, `OnePerHost`, `AtMostCapacity`, `FreshContextWaitsForever` always hold, for any pipelines, hosts, limit, cancellations | `GateInv` |
| `GateImplementsExclusion` | the gate implements `MutationExclusion` | `GateInv` |
| `DispatcherRunsTheGate`, `DispatcherKeepsGate`, `DispatcherExcludes` | the dispatcher implements `MutationGate`, and so keeps `GateInv` and `MutationExclusion` | none |
| `WorkerBooksBalance` | `BooksBalance` always holds, for any updates, hosts, limit, queue and cancellations | `WorkerInv` |
| `BacklogKeepsOrder` | `BacklogInOrder`, an action property, likewise | `WorkerInv` |
| `LiveLeasesExclude` | `LeasesExclude` always holds, for any operations, scopes, lifetimes, and reclaims of any rows | `LeaseInv` |
| `LeasesImplementScopedExclusion` | the leases implement `ScopedExclusion`, where a reclaim from a live owner ends its operation | `LeaseInv` |
| `UpdatesExclude` | `OneMutator` always holds, for any updates, rollbacks, crashes, lost writes | `OwnershipInv` |
| `RowsAreTrue` | `RowsTell` always holds, for any updates, rollbacks, scenarios of crashes, cancels, lost writes | `RowsInv` |
| `RowsSettleOnce` | `SettledOnce`, an action property, likewise | `RowsInv` and `Settled` |
| `ReportsAreTrue` | `OutcomesAreTrue`, an action property, likewise | these and `OutcomesInv` |
| `NothingOverlaps` | `NoOverlap` always holds, for any goroutines and programs of the given shapes | `LocksInv` |
| `CircleStays` | `CircleIsForGood`, an action property, likewise | `LocksInv` |
| `MembersOneAtATime` | `OneAtATime` always holds, for any members, definitions, crashes | `ChainInv` |
| `PlanComesFirst` | `NothingBeforePlan`, an action property, likewise | `ChainInv` |
| `SettledRunsTellTheTruth` | `SettledRunsAreTrue` always holds, likewise | `ChainInv` and `TruthInv` |
| `ReadyPointsAreWhole` | `ReadyPointIsWhole` always holds, for any writers, dependents, mounts, failures, crashes | `PointInv` |
| `WritersReturn` | `WritersComeBack` always holds, likewise | `PointInv` and `WritersInv` |
| `RollbacksAreHonest` | `RollbackIsHonest` always holds, likewise, with one mount | these and `HonestInv` |
| `RuntimesAreTrue` | what a rollback reports of image and containers is so, for any mounts too | likewise |
| `CaptureSurvives` | `CapturedImageStays` always holds, for any number of snapshots, any retention, any crashes | `CaptureInv` |
| `UnitsBounded` | `UnitsStayBounded` always holds, likewise | `RetentionInv` |
| `RetainedObjectsStay` | `RetainedStays` always holds, for any images, networks, volumes, requests, cancels, failures | `CleanupInv` |
| `ReferencedObjectsStay` | `ReferencedStays` always holds, likewise | `CleanupInv` |
| `FinishedUpdatesAreTrue` | `SettledIsTrue` always holds, for any tabs, all of which may install, any requests and restarts | `DevInv` |
| `TreeIsTheHelpers` | `HelperOwnsTheTree`, an action property, likewise | `DevInv` |
| `TrackingInvariant` | `TrackingInv` always holds, for any digests, cron rules, clicks, failures, rollbacks | `TrackingInv` |
| `OffersAreTrue` | `OffersAreReal` always holds, likewise | `TrackingInv` |
| `SnoozeKeepsItsDigest` | `SnoozeIsBoundToItsDigest`, an action property, likewise | `TrackingInv` |
| `ShownResultsAreTrue` | `ShownIsTrue` always holds, for any situations, profiles, checks, edits, updates, tests, faults, crashes | `ReadinessInv` |
| `EveryUpdateIsCovered` | `UpdatesAreCovered`, an action property, likewise | `ReadinessInv` |

*Gate.* `OnePerHost` does not carry itself: a token in a channel names no owner.
`GateInv` adds the type, that a host's channel is full exactly while some
pipeline past the first select has not given it back, that it is one pipeline
only, and that the global channel counts the holders. `AtMostCapacity` follows
from the count, with the theorems on cardinalities for the one pipeline that
enters or leaves. Assumptions: the host of each pipeline is a host, the limit an
integer, the pipelines finitely many.

*Dispatcher.* Each step of the worker, of an update and of the other users is a
step of the gate or leaves it alone, so the gate's theorems carry over. What the
worker knows of a pipeline is what it wrote down when it started it and what the
`done` channel tells. `WorkerInv` therefore follows each request to the one
place it is in: a slot of the queue or of the backlog (`WaitsOnce`), a running
pipeline or one message in `done` (`BusyOnce`); `Counted` says that `running` is
the number of the latter two, and `Claimed` that only claimed jobs are in the
gate, none of them cancelled. Assumption: `WorkerAssumption`, a positive limit and
a queue with a length.

*Leases.* `LeasesExclude` follows from the rows if live owners have rows.
`LeaseInv` says that the row of a guarded owner, one with a heartbeat whose row
was not reclaimed under it, names it and is no older than a heartbeat
(`HolderKeepsRow`), that rows of different keys do not conflict, that a row
is filed under what its owner works on, and that a process that is down holds
nothing. A reclaim from a live owner takes that owner out of the guarded ones
and disturbs no other row, which is why it needs no guard: what the theorems say
is that no purge, release, crash or reclaim of another job takes an operation's
protection. Assumptions: heartbeat at most lifetime, a host is its own host,
collectors are not reclaimed.

*Update system.* The gate variable does not say by whom it is used: a nested
rollback works under its caller's entry. `OwnershipInv` says that pipelines,
manual rollbacks and recoverers between entry and exit hold the gate themselves,
that a nested rollback's caller waits in `rolling`, and that a caller has one
such child. Two mutators would then be the same gate holder or two children of
it. The proof has one lemma per kind of step (entry, exit, birth and end of a
child, crash, and steps that move within a region). Assumption:
`NamesAssumption`, that jobs and the other names are distinct.

*Rows.* `RowsTell` speaks of updates that changed the container, whose rows are
written by whoever deals with them later. `RowsInv` follows an update through
its stages (`Recorded`): before its commit nothing has touched the container,
and only an untouched update is called cancelled; from the commit on its
transaction is in a state that admits the change, and everybody who writes it
(settlement, safety net, rollback, recovery, orphaned cancel) keeps it there;
until it is claimed nobody else knows of it, so a restart does not take it up.
`Partners` says that whoever works on an update has one. Without crashes, `Calm`
adds that every stage in the gate, and a rollback of its own, has the lease, and
that nobody recovers an update whose pipeline still runs: with a crash this is
false, which is why `RowsTell` claims the lease only without one. The proof has
a lemma per group of steps, for the record and again for the lease. Assumptions:
`NamesAssumption`, `ScenariosAssumption` (each scenario has numbers as bounds).

*Settlement.* That a terminal row is never opened again is claimed while nothing
disturbs (no crash, no deadline that passes during Docker work). Then there is
one writer at a time, but two that are unaware of each other, the pipeline and
an orphaned cancel's recovery. `Fate` says what a pipeline finds in its rows at
each stage, so that each of its writes goes from an open state to the next, and
`Handled` the same for a recovery, which closes the transaction before the job.

*Outcomes.* A reported success or rollback is about the container, whose image
changes by the hand of others. `Verified` says that from the comparison of
images to the report the update's target runs, `Restored` that a rollback's
image runs until its caller has heard of it, and both need that nobody else
changes the container in between: other pipelines are kept out by the gate
(`UpdatesExclude`), and a worker request that outlived its process by
`WorkerWaits`, as the scan of the next process waits for it before it acts and
no rollback is admitted while the job it works for is open.

*Continuity.* The locks do their part (`WriterAlone`: a writer that has entered is
alone), and the programs must do theirs: what runs between two calls is covered
by the lock only if marker and release functions are what the source supposes.
That is a fact about the text of a program, stated as a path: `Leads` says that a
sequence of calls takes a goroutine from one state of marker and guards to
another, and `Sound`, that the calls it has left lead from the state it is in to
one without guards. Each kind of program is shown to be such a path once; each
step of a goroutine then moves along it. For `CircleIsForGood` the proof goes
through the calls three goroutines in the circle could make and finds each one
blocked. Assumption: `ThreadsAssumption`, what the kinds of goroutines are.

*Chains.* `OneAtATime` and `NothingBeforePlan` do not carry themselves: a
recoverer works from rows it read before it had the gate, and the other recoverer
may have worked on them since. `ChainInv` says what executor and recovery
remember (`Memory`), what the executor has not come to yet and what it has at
hand (`Before`, `AtHand`, `Plan`), that a row which says that work has begun has
a reason that stays (`Begins`), that a stale row is of the same kind as the row
now (`Views`, `SameKind`), that recovery leaves no row open behind it
(`Resolved`), and that a cancel is left to the recovery of a run at most once and
only when its executor is gone (`Turns`). `TruthInv` adds what a settled run's
report rests on: which children can be active (`Children`), what a row says of
its child (`RowsOfChildren`), what the executor's list of completed members and
its flags say of the rows (`Books`), the same for a recovery (`Sorts`), and that
of two recoverers only the one that works last may have read a row the other has
settled since (`UpToDate`); without it a recovery could forget to undo a member.
Afterwards only the user changes a settled member, and one whose row says
success has nothing to roll back. Assumption: `ChainAssumption`, that
definitions are definitions and there is a member.

*Data recovery.* That a ready row is whole does not carry itself: the row is
written last, by a step that does not look at image or archives.
`PartsFollowSteps` says which step of a capture has which part already, and that
a rollback past its restore found both. `WritersInv` says for each step who is
still owed a start: a capture between its first stop and its restart owes the
writers it found running, except what failed; a rollback owes them until it
restores; a step that ended owes nobody. `HonestInv` says what a rollback has
replaced at each step and what its safety copy, its count of faults and the
stopped containers allow it to put back. `RollbacksAreHonest` has the hypothesis
`OneMount`: with two mounts an unpacked archive is missed (see the findings),
and `RuntimesAreTrue` is what holds then. Assumption: the target is a writer,
its dependents are others (`WritersAssumption`).

*Recovery store.* Nothing refers to an image between its commit and its row.
`CaptureInv` gives the two facts that protect it: the update has the host's
lease, which whoever removes images without a row must have; and its point has
no row, while everybody else works from lists of rows. `RetentionInv` says what
makes up for a unit that is over its bound: a pass under way that has all
unpinned snapshots still before it and an excess large enough (`Owes`), or two
such passes of which the second answers for every snapshot but the newest. A
crash ends both and adds two. Assumption: the bounds are numbers, the retention
a positive one.

*Cleanup.* What a cleanup removes was chosen from what it read some steps
earlier. `CleanupInv` says that this reading still covers what is protected: as
long as a cleanup has the host's lease no update adds a snapshot or changes the
container, so what is retained or in use only shrinks. A deletion by name reads
protection before its lease; it knows the snapshots it saw (`seen`) and no later
ones, which is what the property asks of it, and it needs no lease for that: a
cancel may reclaim it. The other cleanups claim their row before they take the
lease, so no cancel can (`Claimed`). The image of the data archives is in what
an image cleanup read (`Covers`), their volume is never chosen (`Spares`).
Retention marks a snapshot as gone and leaves the positions of the others, so
what `seen` counts stays the same. Assumptions: images, networks and volumes are
of different kinds (`ObjectsAssumption`), the bounds are numbers.

*Developer update.* Controller and helper share only files, so at each step one
of them acts on what the other may have changed since. `DevInv` divides an
update into three phases. Until a helper has copied the tree (`Fresh`) nothing has
been touched, and every copy of the status a request or the reconciliation holds
is one of an update that had not come further, so whatever they write is
harmless, and so is a second install that kills the first helper. While the
helper works on the tree (`Helping`) its position alone says what trees, backup,
image and containers are, and nobody else restores: a reconciliation or a
recovery under way looked before there was a copy (`LookedEarly`). When it is
gone (`Ended`), by its own end or by a crash, the status it left must say enough
to restore by: `Told` lists what each status promises of the tree, the backup
and the database, unless somebody has overwritten it from an older copy
(`lost`). A launch after the copy leaves all three phases; `DevInv` says nothing
from there on (`crossed`), as the two properties do. No hypothesis on the tabs.

*Tracking.* Three goroutines each put back a row they read minutes ago.
`TrackingInv` therefore says of every copy what it says of the row: it is a real
offer (`RealOffer`), and until a rollback holds a digest back its date and its
snooze are those of the digest it names (`Dated`); an update being verified
knows the image before it, which a rollback that half fails (`stuck`) brings
back or not. `Learnt` says what each writer knows when it is about to write, for
instance that one on the way of the worker has read a digest whenever the
worker's answer carried one. What a row becomes is then a matter of
`applyTrackedUpdateState` and of the row it is given alone, which is a lemma on
rows (`AppliedRow`). Assumption: `TrackingAssumption`, that there is a digest
and the policies are the code's.

*Readiness.* What a preflight announces was read from profiles that others edit.
`Prepared` carries the verdict through the stages: what the mode demanded has
been seen, the snapshots and the point it asked for exist. `PromisesHold` says
that what was promised is still in force unless it is recorded as lost, by an
edit or a failed call. `RunInv` counts the checks of a run, so that a run that
ends verified has passed all of them; `ResultOf` ties a stored result to the
version of its profile, and "running" to a run. `ShownIsTrue` takes the
resolution from the container's profile to the stack's on top of that.
Assumption: `ReadinessAssumption`, that situations are of the shape `Situation`,
there is a check, and the bounds are numbers.

Only model-checked: all liveness (fairness and `ENABLED` are outside the
prover), which is `QueuedUpdatesEnd`, `StaleRowGoes`, `JobsSettle`,
`GateIsFreed`, `OperationsEnd`, `RunsSettle`, `GarbageIsFound`,
`VerificationEnds`, `RowSettles`, `AutoUpdatesArrive`, `CleanupsEnd` and
`UpdatesEnd`. Every invariant and every action property of a passing run is
proved. Induction over data is outside the prover too, so what the folds over
sequences compute for every input (a cron list, a retention pass as a whole) is
checked on small inputs only.

## 6. Abstractions

- A safe cancel's check of the row and the store call that follows are one step:
  a request between them has the effect of one after. The check before the
  commit is apart.
- In `UpdatePipeline` preflight, verification and Docker calls are choices of
  outcome, and restoring a container from its point is one step, with success or
  a broken container.
- `finishFailed` without a rollback writes an intermediate `rollback` state
  before its final one; the model has the final one.
- An orphan's recovery goroutine starts in the step that reads its row.
- Recovery waits for the gate up to 45 minutes; the branch of giving up is not
  modelled.
- Store errors are those of dead contexts and lost final job writes in
  `UpdateSystem`, one failing read or write in `UpdateReadiness` and
  `UpdateTracking`, and in `StorageCleanup` one
  failure, which may also be the read, the claim or the final write of a
  cleanup's row.
- The 20-minute deadline of a rollback and the 45-minute one of an update may
  pass during Docker work only for jobs in `overrun`.
- The role of a container as DNS provider is fixed, although an update may
  change it (`continuity.go` 94); the continuity model's calls from chain
  actions are represented by rollbacks.
- Chains: one run of one chain, so that two runs competing for members
  (`reserveChainMembers`) are left out; one data scope; the writes of a safe
  cancel are one step; a child update is reduced to the outcomes `UpdateSystem`
  shows, its restore point taken with its mutation; the text of an error decides
  its class, so a failure's class is a choice unless its text is known; wait
  times, the 12-hour context, a read error of a row and lost store writes are
  not modelled; verification is an outcome. A chain that reuses the data
  baseline of an earlier member (`SkipDataProtectionCapture`) is in
  `ChainExecutor`, not in `DataRecovery`.
- Data recovery: one container is updated and rolled back; all writers write to
  all mounts; contents are "before" and "after"; a safety copy of a mount is
  whole or absent. One job at a time, by the gate.
- Recovery store: one unit on one host; its containers share a snapshot's fate. A
  removal by the cleanup may fail and keeps the row; one of
  the collection does not fail.
- Readiness: the verification of a rollback and of a crash recovery is that of
  an update and not modelled again.
- Tracking: one container, one automation; an update or a rollback of the
  container is reduced to its effect on the running image and the row.
- Cleanup: no restart of the controller; the time an inventory takes is a step;
  a job and its host lease are what keeps others out.
- Developer update: one package; a tree is its version and whether it is whole.

### Not modelled

The rollback from the update history, which has no restore point; the editing of
chains; restore from a configuration archive and system backups; supervision of
worker containers; the browser's discovery of mounts; event history and pruning;
why-texts; config drift, a comparison without state; the clients of Docker,
registry and SSH beyond the loops of the cleanup; authentication, notifications,
logging, exports, icons, releases and the web interface. They are sequential
I/O, presentation, or repeat a pattern modelled elsewhere.

## 7. Plan

Done: every component listed as modelled, and proofs of the gate, the dispatcher,
the leases, the update system, the continuity guard, chains and their recovery,
captures and rollbacks from the inside, the recovery store, the cleanup, the
developer update, tracking and readiness.

Worth doing next, in this order:

1. Two chain runs that compete for members (`reserveChainMembers`).
2. Two units of one host in `RecoveryStore`, and the collection that reads its
   list before the lease as a run of its own.
3. The rollback from the update history.
4. Supervision and replacement of worker containers beyond `workerOpMu`.

A new component joins the run of a related one where one configuration answers
both questions.
