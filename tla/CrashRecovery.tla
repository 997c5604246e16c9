---------------------------- MODULE CrashRecovery ----------------------------
(* Crashes, the repair of jobs at start, the scan that follows it, and the   *)
(* recovery of one transaction (src/internal/app/reliability.go and app.go), *)
(* which an orphaned safe cancel starts too (job_lifecycle.go).  The scan    *)
(* works from the rows it listed once; a recoverer writes "recovering"       *)
(* before it has the gate.                                                   *)
EXTENDS UpdateState

others == <<point, cleaning, bounds, ctx>>

\* A crash erases the memory of the process and leaves rows and containers.
Crash ==
    /\ up
    /\ crashes < faults.crashes
    /\ crashes' = crashes + 1
    /\ up' = FALSE /\ scanned' = FALSE
    /\ seen' = [u \in Updates |-> "none"]
    /\ pc' = [a \in Actors |->
                IF a \in Recoverers \/ pc[a] = "idle" THEN "idle" ELSE "done"]
    /\ gate' = Nobody
    /\ verdict' = [a \in Actors |-> "none"]
    /\ ctx' = [j \in Jobs |-> "live"]
    /\ cancelling' = {} /\ cleaning' = FALSE
    /\ target' = [w \in Recoverers |-> Nobody]
    /\ parent' = [r \in Rollbacks |-> Nobody]
    /\ source' = [r \in Rollbacks |-> Nobody]
    /\ UNCHANGED <<job, tx, point, lease, docker, lost, faults>>

\* recoverInterruptedJobs: jobs of terminal transactions first, then every
\* active job without an active transaction.
RepairedJob(j) ==
    IF job[j] \notin ActiveJob THEN job[j]
    ELSE IF j \in Updates /\ job[j] # "queued" /\ tx[j].state \in Terminal
         THEN terminalJobStateForTransaction(tx[j].state)
    ELSE IF j \in Updates /\ tx[j].status \in ActiveTxStatus THEN job[j]
    ELSE "failed"

Restart_JobsNotRepaired ==
    /\ ~up
    /\ up' = TRUE
    /\ UNCHANGED <<job, tx, lease, docker, scanned, seen, pc, gate, verdict, cancelling, target,
                   children, others>>
Restart ==
    /\ ~up
    /\ up' = TRUE
    /\ job' = [j \in Jobs |-> RepairedJob(j)]
    /\ UNCHANGED <<tx, lease, docker, scanned, seen, pc, gate, verdict, cancelling, target,
                   children, others>>

\* ActiveUpdateTransactions, eight seconds after the start: by then a worker
\* request of the last process has ended, unless the worker is late.
StartScan ==
    /\ up /\ ~scanned
    /\ worker \notin faults.late \cup {Nobody} => Registered(worker)
    /\ scanned' = TRUE
    /\ seen' = [u \in Updates |-> IF tx[u].status \in ActiveTxStatus THEN tx[u].state ELSE "none"]
    /\ UNCHANGED <<job, tx, lease, docker, up, pc, gate, verdict, cancelling, target, children,
                   others>>

-----------------------------------------------------------------------------
\* recoverUpdateTransaction.  Before mutation only the status is settled.
SafeAbort(u) ==
    /\ pc[Scan] = "idle" /\ seen[u] \in PreMutation
    /\ SetStatus(u, "interrupted")
    /\ target' = [target EXCEPT ![Scan] = u]
    /\ seen' = [seen EXCEPT ![u] = "none"]
    /\ SettleAs(Scan, "failed")
    /\ UNCHANGED <<job, lease, docker, up, scanned, gate, cancelling, children, others>>

\* The transition is judged by the state the caller holds in memory.
StartRecovery(w, u, state) ==
    /\ tx' = [tx EXCEPT ![u] =
                [state |-> IF validTransactionTransition(state, "recovering")
                           THEN "recovering" ELSE tx[u].state,
                 status |-> "recovering"]]
    /\ target' = [target EXCEPT ![w] = u]
    /\ Goto(w, "claimed")

ScanRecovers(u) ==
    /\ pc[Scan] = "idle" /\ seen[u] \in PostMutation
    /\ StartRecovery(Scan, u, seen[u])
    /\ seen' = [seen EXCEPT ![u] = "none"]
    /\ UNCHANGED <<job, lease, docker, up, scanned, gate, verdict, cancelling, children, others>>

\* With the gate, the lease of the dead process is reclaimed.
RecoveryEntersGate_Unguarded(w) ==
    /\ pc[w] = "claimed"
    /\ gate' = IF gate = Nobody THEN w ELSE gate
    /\ lease' = IF lease = target[w] THEN Nobody ELSE lease
    /\ Goto(w, "leasing")
    /\ UNCHANGED <<job, tx, docker, boot, verdict, cancelling, target, children, others>>
RecoveryEntersGate(w) ==
    /\ pc[w] = "claimed" /\ gate = Nobody
    /\ gate' = w
    /\ lease' = IF lease = target[w] THEN Nobody ELSE lease
    /\ Goto(w, "leasing")
    /\ UNCHANGED <<job, tx, docker, boot, verdict, cancelling, target, children, others>>

RecoveryLeases(w) ==
    /\ pc[w] = "leasing" /\ lease = Nobody
    /\ lease' = target[w]
    /\ Goto(w, "reconcile")
    /\ UNCHANGED <<job, tx, docker, boot, gate, verdict, cancelling, target, children, others>>

\* The transaction is put on hold; the job is left as it is.
RecoveryLeaseConflict(w) ==
    /\ pc[w] = "leasing" /\ lease # Nobody
    /\ SetStatus(target[w], "recovery_required")
    /\ Goto(w, "leave")
    /\ UNCHANGED <<job, lease, docker, boot, gate, verdict, cancelling, target, children, others>>

\* Each outcome of the reconciliation writes the transaction, then the job.
Reconcile(w, state, status, outcome) ==
    /\ pc[w] = "reconcile"
    /\ SetTx(target[w], state, status)
    /\ SettleAs(w, outcome)
    /\ UNCHANGED <<job, lease, docker, boot, gate, cancelling, target, children, others>>

\* The restore point is degraded, or its row cannot be read and the target is
\* not proven live: the operator decides.
RecoveryNeedsOperator(w) == Reconcile(w, tx[target[w]].state, "recovery_required", "failed")

RecoveryFindsOriginal(w) ==
    LET u == target[w] IN
    /\ pc[w] = "reconcile" /\ point[u].kind # "lost" /\ runtime = point[u].image
    /\ Reconcile(w, "failed", "interrupted", "failed")

RecoveryKeepsTarget(w) ==
    /\ pc[w] = "reconcile" /\ point[target[w]].kind # "lost" /\ runtime = target[w]
    /\ Reconcile(w, "success", "success", "success")

\* Another image runs, or the target fails verification.  The lease is
\* released before the rollback job exists.
RecoveryHandsOff(w) ==
    LET u == target[w] IN
    /\ pc[w] = "reconcile" /\ point[u].kind # "lost" /\ runtime # point[u].image
    /\ SetTx(u, "rollback", "recovering")
    /\ lease' = Nobody
    /\ Goto(w, "handoff")
    /\ UNCHANGED <<job, docker, boot, gate, verdict, cancelling, target, children, others>>

RecoveryRollsBack(w, r) ==
    /\ pc[w] = "handoff" /\ pc[r] = "idle"
    /\ SetJob(r, "queued")
    /\ parent' = [parent EXCEPT ![r] = w]
    /\ source' = [source EXCEPT ![r] = target[w]]
    /\ pc' = [pc EXCEPT ![w] = "rolling", ![r] = "queued"]
    /\ UNCHANGED <<tx, lease, docker, boot, gate, verdict, cancelling, target, others>>

RecoverySettles(w, state) ==
    /\ SetTx(target[w], state, state)
    /\ SettleAs(w, "failed")
    /\ UNCHANGED <<job, lease, docker, boot, gate, cancelling, target, source, others>>

\* The rollback job cannot be created.
RecoveryCannotRollBack(w) ==
    pc[w] = "handoff" /\ RecoverySettles(w, "recovery_required") /\ UNCHANGED parent

\* The nested call returns.
RecoveryRollbackEnded(w, r) ==
    /\ pc[w] = "rolling" /\ parent[r] = w /\ pc[r] = "done"
    /\ parent' = [parent EXCEPT ![r] = Nobody]

AfterRecoveryRollback_AlwaysRolledBack(w, r) ==
    /\ RecoveryRollbackEnded(w, r)
    /\ RecoverySettles(w, "rolled_back")
AfterRecoveryRollback(w, r) ==
    /\ RecoveryRollbackEnded(w, r)
    /\ RecoverySettles(w, IF verdict[r] = "success" THEN "rolled_back" ELSE "recovery_required")

RecoveryFinishesJob(w) ==
    /\ pc[w] = "settle"
    /\ SetJob(target[w], verdict[w])
    /\ Goto(w, "leave")
    /\ UNCHANGED <<tx, lease, docker, boot, gate, verdict, cancelling, target, children, others>>

RecoveryLeaves(w) ==
    /\ pc[w] = "leave"
    /\ lease' = IF lease = target[w] THEN Nobody ELSE lease
    /\ gate' = IF gate = w THEN Nobody ELSE gate
    /\ Goto(w, "idle")
    /\ target' = [target EXCEPT ![w] = Nobody]
    /\ UNCHANGED <<job, tx, docker, boot, verdict, cancelling, children, others>>

-----------------------------------------------------------------------------
\* handleJobCancel without a pipeline in memory: reconcileOrphanedUpdateCancel.
OrphanCancel(u) ==
    /\ u \in cancelling /\ ~Registered(u)
    /\ tx[u].state \notin PostMutation
    /\ IF tx[u].state \in Terminal
       THEN SetJob(u, terminalJobStateForTransaction(tx[u].state)) /\ UNCHANGED tx
       ELSE /\ SetJob(u, "cancelled")
            /\ IF tx[u].state \in PreMutation THEN SetTx(u, "cancelled", "cancelled")
                                              ELSE UNCHANGED tx
    /\ lease' = IF lease = u THEN Nobody ELSE lease
    /\ cancelling' = cancelling \ {u}
    /\ UNCHANGED <<pc, target, docker, boot, gate, verdict, children, others>>

OrphanRecovers(u) ==
    /\ u \in cancelling /\ ~Registered(u)
    /\ tx[u].state \in PostMutation
    /\ pc[Orphan] = "idle"
    /\ StartRecovery(Orphan, u, tx[u].state)
    /\ cancelling' = cancelling \ {u}
    /\ UNCHANGED <<job, lease, docker, boot, gate, verdict, children, others>>

-----------------------------------------------------------------------------
\* A host cleanup needs the lease, not the gate.
StartCleanup ==
    /\ faults.cleanups
    /\ up /\ ~cleaning /\ lease = Nobody
    /\ cleaning' = TRUE /\ lease' = Cleanup
    /\ UNCHANGED <<job, tx, point, docker, boot, bounds, ctx, pc, gate, verdict, cancelling, target, children>>

EndCleanup ==
    /\ cleaning
    /\ cleaning' = FALSE
    /\ lease' = IF lease = Cleanup THEN Nobody ELSE lease
    /\ UNCHANGED <<job, tx, point, docker, boot, bounds, ctx, pc, gate, verdict, cancelling, target, children>>

\* No heartbeat renews the row of a dead owner; after its two hours the next
\* purge removes it.
LeaseAlive ==
    \/ lease = Cleanup /\ cleaning
    \/ lease \in Jobs /\ pc[lease] \notin {"idle", "done"}
    \/ \E w \in Recoverers : gate = w /\ lease = target[w]
LeaseExpires ==
    /\ lease # Nobody /\ ~LeaseAlive
    /\ lease' = Nobody
    /\ UNCHANGED <<job, tx, docker, boot, pc, gate, verdict, cancelling, target, children, others>>

\* The restore image is removed behind the controller's back.
LosePoint(u) ==
    /\ point[u].kind = "full"
    /\ point' = [point EXCEPT ![u].kind = "lost"]
    /\ UNCHANGED <<job, tx, lease, docker, boot, pc, gate, verdict, cancelling, target, children,
                   cleaning, bounds, ctx>>

RecoveryStep(w) ==
    \/ RecoveryEntersGate(w) \/ RecoveryLeases(w) \/ RecoveryLeaseConflict(w)
    \/ RecoveryNeedsOperator(w) \/ RecoveryFindsOriginal(w) \/ RecoveryKeepsTarget(w)
    \/ RecoveryHandsOff(w) \/ RecoveryCannotRollBack(w)
    \/ \E r \in Rollbacks : RecoveryRollsBack(w, r) \/ AfterRecoveryRollback(w, r)
    \/ RecoveryFinishesJob(w) \/ RecoveryLeaves(w)
=============================================================================
