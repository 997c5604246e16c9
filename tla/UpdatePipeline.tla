---------------------------- MODULE UpdatePipeline ----------------------------
(* enqueueUpdate, executeUpdate and safe cancellation (src/internal/app).    *)
(* The stage of a pipeline is the transaction state it holds in memory, plus *)
(* the stages that have none.  Before the commit to "updating" every store   *)
(* call is bound to a context that a safe cancel kills; after it, to a       *)
(* 45-minute context that only its deadline kills.  A check of the persisted *)
(* cancel request and the store call that follows it are one step: a request *)
(* that arrives between them has the effect of one that arrives after.  The  *)
(* last check is kept apart from the commit it precedes.                     *)
EXTENDS UpdateState

records == <<job, tx, point, lease>>
control == <<gate, boot, target, bounds, cleaning>>

Cancelled(u) == job[u] = "cancel_requested"

\* Stages before the deferred safety net is installed.
BeforeNet == {"claimed", "leasing", "creating", "created"}

-----------------------------------------------------------------------------
\* enqueueUpdate checks first and creates the row later.
AdmitUpdate(u) ==
    /\ up
    /\ pc[u] = "idle"
    /\ ~HasActiveJob
    /\ ~HasRecoveryRequiredTransaction
    /\ Goto(u, "admitted")
    /\ UNCHANGED <<records, docker, control, children, verdict, ctx, cancelling>>

EnqueueUpdate(u) ==
    /\ pc[u] = "admitted"
    /\ SetJob(u, "queued")
    /\ Goto(u, "queued")
    /\ UNCHANGED <<tx, point, lease, docker, control, children, verdict, ctx, cancelling>>

\* The worker runs one pipeline of a host at a time; a job cancelled while it
\* was queued is not claimed.
ClaimUpdate(u) ==
    /\ pc[u] = "queued"
    /\ \A v \in Updates : ~Registered(v)
    /\ IF job[u] = "queued"
       THEN SetJob(u, "running") /\ Goto(u, "claimed")
       ELSE Goto(u, "done") /\ UNCHANGED job
    /\ UNCHANGED <<tx, point, lease, docker, control, children, verdict, ctx, cancelling>>

\* cancelUpdateBeforeMutation: the transaction is read again, and cancelled
\* only if it is still before mutation; the job is cancelled either way.
CancelSafely(u) ==
    /\ Cancelled(u)
    /\ \/ pc[u] \in {"claimed", "created", "preflight", "snapshot", "restore_point", "prepared"}
       \/ pc[u] \in {"leasing", "creating", "window", "committing"} /\ ctx[u] = "dead"
    /\ IF tx[u].state \in PreMutation THEN SetTx(u, "cancelled", "cancelled") ELSE UNCHANGED tx
    /\ Goto(u, IF pc[u] \in BeforeNet THEN "exit" ELSE "settle")
    /\ verdict' = [verdict EXCEPT ![u] = "cancelled"]
    /\ UNCHANGED <<job, point, lease, docker, control, children, ctx, cancelling>>

\* A store call fails under a dead context while the row no longer asks for a
\* cancel: recovery has settled the job meanwhile.
ContextLost(u) ==
    /\ ctx[u] = "dead"
    /\ ~Cancelled(u)
    /\ pc[u] \in BeforeNet \cup {"preflight", "snapshot", "window", "committing"}
    /\ Goto(u, IF pc[u] \in BeforeNet THEN "exit" ELSE "settle")
    /\ verdict' = [verdict EXCEPT ![u] = "failed"]
    /\ UNCHANGED <<records, docker, control, children, ctx, cancelling>>

EnterGate(u) ==
    /\ pc[u] = "claimed"
    /\ ~Cancelled(u)
    /\ gate = Nobody
    /\ gate' = u
    /\ Goto(u, "leasing")
    /\ UNCHANGED <<records, docker, boot, target, bounds, cleaning, children, verdict, ctx, cancelling>>

AcquireLease(u) ==
    /\ pc[u] = "leasing"
    /\ ctx[u] = "live"
    /\ lease = Nobody
    /\ lease' = u
    /\ Goto(u, "creating")
    /\ UNCHANGED <<job, tx, point, docker, control, children, verdict, ctx, cancelling>>

LeaseConflict(u) ==
    /\ pc[u] = "leasing"
    /\ lease # Nobody
    /\ Goto(u, "exit")
    /\ verdict' = [verdict EXCEPT ![u] = IF Cancelled(u) THEN "cancelled" ELSE "failed"]
    /\ UNCHANGED <<records, docker, control, children, ctx, cancelling>>

-----------------------------------------------------------------------------
\* Up to the commit.
CreateTransaction(u) ==
    /\ pc[u] = "creating"
    /\ ctx[u] = "live"
    /\ SetTx(u, "queued", "running")
    /\ Goto(u, "created")
    /\ UNCHANGED <<job, point, lease, docker, control, children, verdict, ctx, cancelling>>

\* txTransition to the next preparation stage.
Advance(u, to) ==
    /\ SetTx(u, to, "running")
    /\ Goto(u, to)
    /\ UNCHANGED <<job, lease, docker, control, children, verdict, ctx, cancelling>>

StartPreflight(u) ==
    /\ pc[u] = "created" /\ ~Cancelled(u) /\ ctx[u] = "live"
    /\ Advance(u, "preflight") /\ UNCHANGED point

TakeSnapshot(u) ==
    pc[u] = "preflight" /\ ctx[u] = "live" /\ Advance(u, "snapshot") /\ UNCHANGED point

\* A configuration-only restore point cannot be restored automatically.
CaptureRestorePoint(u) ==
    /\ pc[u] = "snapshot"
    /\ ctx[u] = "live"
    /\ Advance(u, "restore_point")
    /\ \E kind \in {"full", "config"} :
          point' = [point EXCEPT ![u] = [kind |-> kind, image |-> runtime]]

\* A blocked preflight; an automatic update held for safety is skipped.
Block(u) ==
    /\ pc[u] \in {"preflight", "snapshot", "restore_point"}
    /\ ~Cancelled(u)
    /\ \E outcome \in {"failed", "skipped"} :
          SetTxIfLive(u, outcome, outcome) /\ SettleAs(u, outcome)
    /\ UNCHANGED <<job, point, lease, docker, control, children, ctx, cancelling>>

Prepare(u) ==
    /\ pc[u] = "restore_point" /\ ~Cancelled(u) /\ ctx[u] = "live"
    /\ Advance(u, "prepared") /\ UNCHANGED point

\* The target image, the runtime contract or the worker cannot be prepared.
\* The contract is derived without a cancel check, and the failed state is
\* then written under a context the cancel may have killed.
PreparationFails(u) ==
    /\ \/ pc[u] = "restore_point" /\ ~Cancelled(u)
       \/ pc[u] = "prepared"
    /\ SetTxIfLive(u, "failed", "failed")
    /\ SettleAs(u, "failed")
    /\ UNCHANGED <<job, point, lease, docker, control, children, ctx, cancelling>>

\* The worker is ready, the continuity guard is held and the last check passed.
OpenWindow(u) ==
    /\ pc[u] = "prepared"
    /\ ~Cancelled(u) /\ ctx[u] = "live"
    /\ Goto(u, "window")
    /\ UNCHANGED <<records, docker, control, children, verdict, ctx, cancelling>>

\* TransitionUpdateTransaction is two statements: the row, then its event.
Commit_RowNotWritten(u) ==
    /\ pc[u] = "window"
    /\ ctx[u] = "live"
    /\ Goto(u, "committing")
    /\ UNCHANGED <<records, docker, control, children, verdict, ctx, cancelling>>
Commit(u) ==
    /\ pc[u] = "window"
    /\ ctx[u] = "live"
    /\ SetTx(u, "updating", "running")
    /\ Goto(u, "committing")
    /\ UNCHANGED <<job, point, lease, docker, control, children, verdict, ctx, cancelling>>

RecordCommit(u) ==
    /\ pc[u] = "committing"
    /\ ctx[u] = "live"
    /\ Goto(u, "updating")
    /\ UNCHANGED <<records, docker, control, children, verdict, ctx, cancelling>>

-----------------------------------------------------------------------------
\* Mutation and verification.
CallWorker(u) ==
    /\ pc[u] = "updating"
    /\ worker = Nobody
    /\ worker' = u
    /\ mutated' = mutated \cup {u}
    /\ Goto(u, "applying")
    /\ UNCHANGED <<records, runtime, control, children, verdict, ctx, cancelling>>

\* The worker is a container of its own: it goes on without the controller.
WorkerApplies ==
    /\ worker # Nobody
    /\ runtime' \in {runtime, worker, Broken}
    /\ worker' = Nobody
    /\ UNCHANGED <<records, mutated, control, pc, children, verdict, ctx, cancelling>>

WorkerReturns(u) ==
    /\ pc[u] = "applying"
    /\ worker # u
    /\ ctx[u] = "live"
    /\ Advance(u, "image_verify") /\ UNCHANGED point

\* An engine error, or a call that ends before the worker does.
WorkerFails(u) ==
    /\ pc[u] = "applying"
    /\ worker # u \/ u \in faults.late
    /\ Goto(u, "failing")
    /\ UNCHANGED <<records, docker, control, children, verdict, ctx, cancelling>>

\* One deterministic correction of a wrong image; it is verified again.
CorrectImage(u) ==
    /\ pc[u] = "image_verify"
    /\ ctx[u] = "live"
    /\ runtime # u
    /\ runtime' \in {runtime, u, Broken}
    /\ Goto(u, "corrected")
    /\ UNCHANGED <<records, worker, mutated, control, children, verdict, ctx, cancelling>>

ConfirmImage(u) ==
    /\ pc[u] \in {"image_verify", "corrected"}
    /\ ctx[u] = "live"
    /\ runtime = u
    /\ Advance(u, "docker_health") /\ UNCHANGED point

\* The original image still runs: there is nothing to roll back.
TargetNotApplied(u) ==
    /\ pc[u] \in {"image_verify", "corrected"}
    /\ ctx[u] = "live"
    /\ runtime = point[u].image
    /\ SetTx(u, "failed", "failed")
    /\ SettleAs(u, "failed")
    /\ UNCHANGED <<job, point, lease, docker, control, children, ctx, cancelling>>

\* Any other mismatch, an image that cannot be read, or a broken contract.
WrongImage(u) ==
    /\ pc[u] \in {"image_verify", "corrected"}
    /\ runtime # point[u].image \/ ctx[u] = "dead"
    /\ Goto(u, "failing")
    /\ UNCHANGED <<records, docker, control, children, verdict, ctx, cancelling>>

\* The errors of these transitions are ignored.  Docker does not answer under
\* a dead context; a verification that is not configured passes under one.
PassStage(u) ==
    /\ pc[u] \in DOMAIN NextStage
    /\ ctx[u] = "live" \/ pc[u] = "verifying"
    /\ runtime # Broken
    /\ \E next \in NextStage[pc[u]] : SetTxIfLive(u, next, "running") /\ Goto(u, next)
    /\ UNCHANGED <<job, point, lease, docker, control, children, verdict, ctx, cancelling>>

FailStage(u) ==
    /\ pc[u] \in DOMAIN NextStage
    /\ Goto(u, "failing")
    /\ UNCHANGED <<records, docker, control, children, verdict, ctx, cancelling>>

FinishUpdate(u) ==
    /\ pc[u] = "refreshing"
    /\ SetTxIfLive(u, "success", "success")
    /\ SettleAs(u, "success")
    /\ UNCHANGED <<job, point, lease, docker, control, children, ctx, cancelling>>

-----------------------------------------------------------------------------
\* finishFailed with automatic rollback allowed.
Restorable(u) == point[u].kind \in {"full", "lost"}

\* shouldAutoRollback says no: nothing to restore from, or nothing to repair.
NoRollback(u) ==
    /\ pc[u] = "failing"
    /\ ~Restorable(u) \/ (ctx[u] = "live" /\ runtime = point[u].image)
    /\ SetTxIfLive(u, "failed", "failed")
    /\ SettleAs(u, "failed")
    /\ UNCHANGED <<job, point, lease, docker, control, children, ctx, cancelling>>

\* runAutomaticRollback runs the rollback engine under this pipeline's gate
\* and lease.
AutoRollback(u, r) ==
    /\ pc[u] = "failing" /\ pc[r] = "idle"
    /\ Restorable(u)
    /\ ctx[u] = "live"
    /\ SetTx(u, "rollback", "running")
    /\ SetJob(r, "queued")
    /\ parent' = [parent EXCEPT ![r] = u]
    /\ source' = [source EXCEPT ![r] = u]
    /\ pc' = [pc EXCEPT ![u] = "rolling", ![r] = "queued"]
    /\ UNCHANGED <<point, lease, docker, control, verdict, ctx, cancelling>>

\* The status is written outside the context, the state under it.
RequireRecovery(u) ==
    /\ IF ctx[u] = "live"
       THEN SetTx(u, "recovery_required", "recovery_required")
       ELSE SetStatus(u, "recovery_required")
    /\ SettleAs(u, "failed")
    /\ UNCHANGED <<job, point, lease, docker, control, source, ctx, cancelling>>

\* The rollback job cannot be created.
RollbackUnavailable(u) ==
    pc[u] = "failing" /\ Restorable(u) /\ RequireRecovery(u) /\ UNCHANGED parent

\* The nested call returns.
RollbackEnded(u, r) ==
    /\ pc[u] = "rolling" /\ parent[r] = u /\ pc[r] = "done"
    /\ parent' = [parent EXCEPT ![r] = Nobody]

RolledBack(u, r) ==
    /\ RollbackEnded(u, r)
    /\ verdict[r] = "success"
    /\ SetTxIfLive(u, "rolled_back", "rolled_back")
    /\ SettleAs(u, "failed")
    /\ UNCHANGED <<job, point, lease, docker, control, source, ctx, cancelling>>

\* It failed, or DNS did not come back after it.
RollbackFailed(u, r) == RollbackEnded(u, r) /\ RequireRecovery(u)

\* The critical context runs out, for the pipeline and for what is nested in it.
Deadline(u) ==
    /\ u \in faults.overrun
    /\ ctx[u] = "live"
    /\ pc[u] \in {"applying", "image_verify", "corrected", "refreshing", "failing", "rolling"}
                 \cup DOMAIN NextStage
    /\ ctx' = [j \in Jobs |->
                 IF j = u \/ (j \in Rollbacks /\ parent[j] = u) THEN "dead" ELSE ctx[j]]
    /\ UNCHANGED <<records, docker, control, pc, children, verdict, cancelling>>

-----------------------------------------------------------------------------
\* Every path ends in finishJobDurable, an unconditional write ...
SettleUpdate(u) ==
    /\ pc[u] \in {"settle", "exit"}
    /\ SetJob(u, verdict[u])
    /\ Goto(u, "leave")
    /\ UNCHANGED <<tx, point, lease, docker, control, children, verdict, ctx, cancelling>>

\* ... or, when all its attempts fail, in the deferred safety net, which is
\* installed once preflight has started.
LoseSettle(u) ==
    /\ pc[u] \in {"settle", "exit"}
    /\ lost < faults.lostWrites
    /\ lost' = lost + 1
    /\ Goto(u, IF pc[u] = "settle" THEN "ensure" ELSE "leave")
    /\ UNCHANGED <<records, docker, gate, boot, target, crashes, faults, cleaning, children,
                   verdict, ctx, cancelling>>

\* ensureUpdateJobTerminal.
EnsureTerminal(u) ==
    /\ pc[u] = "ensure"
    /\ \/ job[u] \in FinalJob /\ UNCHANGED <<job, tx>>
       \/ /\ job[u] \in ActiveJob /\ tx[u].state \in Terminal
          /\ SetJob(u, terminalJobStateForTransaction(tx[u].state)) /\ UNCHANGED tx
       \/ /\ job[u] \in ActiveJob /\ tx[u].state \in PreMutation
          /\ LET outcome == IF Cancelled(u) THEN "cancelled" ELSE "failed"
             IN  SetTx(u, outcome, outcome) /\ SetJob(u, outcome)
       \/ /\ job[u] \in ActiveJob /\ tx[u].state \in PostMutation
          /\ SetStatus(u, "recovery_required") /\ SetJob(u, "failed")
    /\ Goto(u, "leave")
    /\ UNCHANGED <<point, lease, docker, control, children, verdict, ctx, cancelling>>

\* The deferred releases: a lease only under its own owner, then the gate.
Leave_GateKept(j) ==
    /\ j \in Jobs /\ pc[j] = "leave"
    /\ lease' = IF lease = j THEN Nobody ELSE lease
    /\ Goto(j, "done")
    /\ UNCHANGED <<job, tx, point, docker, control, children, verdict, ctx, cancelling>>
Leave(j) ==
    /\ pc[j] = "leave"
    /\ lease' = IF lease = j THEN Nobody ELSE lease
    /\ gate' = IF gate = j THEN Nobody ELSE gate
    /\ Goto(j, "done")
    /\ UNCHANGED <<job, tx, point, docker, boot, target, bounds, cleaning, children,
                   verdict, ctx, cancelling>>

-----------------------------------------------------------------------------
\* handleJobCancel.
CancelQueued(j) ==
    /\ up
    /\ job[j] = "queued"
    /\ SetJob(j, "cancelled")
    /\ UNCHANGED <<tx, point, lease, docker, control, pc, children, verdict, ctx, cancelling>>

RequestCancel(u) ==
    /\ u \in faults.cancellable
    /\ up
    /\ job[u] = "running"
    /\ SetJob(u, "cancel_requested")
    /\ cancelling' = cancelling \cup {u}
    /\ UNCHANGED <<tx, point, lease, docker, control, pc, children, verdict, ctx>>

\* signalJobCancellation finds a registered pipeline.  Its context matters
\* until the commit is recorded.
SignalCancel(u) ==
    /\ u \in cancelling /\ Registered(u)
    /\ ctx' = IF pc[u] \in PreMutation \cup {"claimed", "leasing", "creating", "created",
                                             "window", "committing"}
              THEN [ctx EXCEPT ![u] = "dead"] ELSE ctx
    /\ cancelling' = cancelling \ {u}
    /\ UNCHANGED <<records, docker, control, pc, children, verdict>>

UpdateStep(u) ==
    \/ AdmitUpdate(u) \/ EnqueueUpdate(u) \/ ClaimUpdate(u) \/ CancelSafely(u)
    \/ ContextLost(u) \/ EnterGate(u) \/ AcquireLease(u) \/ LeaseConflict(u) \/ CreateTransaction(u)
    \/ StartPreflight(u) \/ TakeSnapshot(u) \/ CaptureRestorePoint(u) \/ Block(u)
    \/ Prepare(u) \/ PreparationFails(u) \/ OpenWindow(u) \/ Commit(u) \/ RecordCommit(u)
    \/ CallWorker(u) \/ WorkerReturns(u) \/ WorkerFails(u) \/ CorrectImage(u)
    \/ ConfirmImage(u) \/ TargetNotApplied(u) \/ WrongImage(u) \/ PassStage(u)
    \/ FailStage(u) \/ FinishUpdate(u) \/ NoRollback(u) \/ RollbackUnavailable(u)
    \/ \E r \in Rollbacks : AutoRollback(u, r) \/ RolledBack(u, r) \/ RollbackFailed(u, r)
    \/ Deadline(u) \/ SettleUpdate(u) \/ LoseSettle(u) \/ EnsureTerminal(u) \/ Leave(u)
    \/ CancelQueued(u) \/ RequestCancel(u) \/ SignalCancel(u)
=============================================================================
