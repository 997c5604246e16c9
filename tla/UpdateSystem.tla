----------------------------- MODULE UpdateSystem -----------------------------
(* One container under update: its pipelines, rollbacks, cancellations,      *)
(* crashes and recovery together.                                            *)
EXTENDS UpdatePipeline, RestoreRollback, CrashRecovery

Next ==
    \/ \E u \in Updates :
          UpdateStep(u) \/ SafeAbort(u) \/ ScanRecovers(u) \/ OrphanCancel(u)
          \/ OrphanRecovers(u) \/ LosePoint(u)
    \/ \E r \in Rollbacks : RollbackStep(r) \/ Leave(r) \/ CancelQueued(r)
    \/ \E w \in Recoverers : RecoveryStep(w)
    \/ WorkerApplies \/ Crash \/ Restart \/ StartScan
    \/ StartCleanup \/ EndCleanup \/ LeaseExpires

Spec == Init /\ [][Next]_vars

\* The goroutines of a running process and the worker container go on, those
\* of cleanups beside the others; the process is restarted.  Nothing obliges a
\* user to act, a point to be lost or a call to fail, but one whose context is
\* dead.
Progress ==
    \/ \E u \in Updates :
          \/ EnqueueUpdate(u) \/ ClaimUpdate(u) \/ CancelSafely(u) \/ ContextLost(u)
          \/ EnterGate(u)
          \/ AcquireLease(u) \/ LeaseConflict(u) \/ CreateTransaction(u) \/ StartPreflight(u)
          \/ TakeSnapshot(u) \/ CaptureRestorePoint(u) \/ Prepare(u) \/ PreparationFails(u)
          \/ OpenWindow(u)
          \/ Commit(u) \/ RecordCommit(u) \/ CallWorker(u) \/ WorkerReturns(u)
          \/ (ctx[u] = "dead" /\ WorkerFails(u))
          \/ CorrectImage(u) \/ ConfirmImage(u) \/ TargetNotApplied(u) \/ WrongImage(u)
          \/ PassStage(u) \/ FailStage(u) \/ FinishUpdate(u) \/ NoRollback(u)
          \/ RollbackUnavailable(u) \/ SettleUpdate(u) \/ EnsureTerminal(u) \/ Leave(u)
          \/ SignalCancel(u) \/ SafeAbort(u) \/ ScanRecovers(u) \/ OrphanCancel(u)
          \/ OrphanRecovers(u)
          \/ \E r \in Rollbacks : RolledBack(u, r) \/ RollbackFailed(u, r)
    \/ \E r \in Rollbacks :
          \/ EnqueueRollback(r) \/ ClaimRollback(r) \/ RollbackEntersGate(r)
          \/ RollbackLeases(r) \/ RollbackLeaseConflict(r) \/ RollbackRestores(r)
          \/ RollbackRefused(r) \/ RollbackBreaks(r) \/ RollbackCompletes(r)
          \/ SettleRollback(r) \/ Leave(r)
    \/ \E w \in Recoverers : RecoveryStep(w)
    \/ WorkerApplies \/ Restart \/ StartScan \/ LeaseExpires

FairSpec == Spec /\ WF_vars(Progress) /\ WF_vars(EndCleanup)

-----------------------------------------------------------------------------
UpdateStages ==
    PreMutation \cup {"idle", "admitted", "claimed", "leasing", "creating", "created", "window",
     "committing", "updating", "applying", "image_verify", "corrected", "docker_health",
     "dependencies", "verifying", "refreshing", "failing", "rolling", "settle", "exit",
     "ensure", "leave", "done"}
RollbackStages ==
    {"idle", "admitted", "queued", "claimed", "leasing", "restoring", "restored", "settle",
     "report", "leave", "done"}
RecoveryStages ==
    {"idle", "claimed", "leasing", "reconcile", "handoff", "rolling", "settle", "leave"}

\* Every row, every goroutine and every ownership has a value the code can
\* give it.
TypeOK ==
    /\ job \in [Jobs -> JobStates \cup {"none"}]
    /\ tx \in [Updates -> [state : TxStates \cup {"none"}, status : TxStatuses \cup {"none"}]]
    /\ point \in [Updates -> [kind : {"none", "config", "full", "lost"}, image : Images]]
    /\ lease \in Jobs \cup {Cleanup, Nobody}
    /\ runtime \in Images /\ worker \in Updates \cup {Nobody} /\ mutated \subseteq Updates
    /\ up \in BOOLEAN /\ scanned \in BOOLEAN /\ cleaning \in BOOLEAN
    /\ seen \in [Updates -> TxStates \cup {"none"}]
    /\ pc \in [Actors -> UpdateStages \cup RollbackStages \cup RecoveryStages]
    /\ \A u \in Updates : pc[u] \in UpdateStages
    /\ \A r \in Rollbacks : pc[r] \in RollbackStages
    /\ \A w \in Recoverers : pc[w] \in RecoveryStages
    /\ gate \in Actors \cup {Nobody}
    /\ verdict \in [Actors -> FinalJob \cup {"none"}]
    /\ ctx \in [Jobs -> {"live", "dead"}]
    /\ cancelling \subseteq Updates
    /\ target \in [Recoverers -> Updates \cup {Nobody}]
    /\ parent \in [Rollbacks -> Updates \cup Recoverers \cup {Nobody}]
    /\ source \in [Rollbacks -> Updates \cup {Nobody}]
    /\ faults \in Scenarios
    /\ crashes \in 0..faults.crashes /\ lost \in 0..faults.lostWrites

\* At most one pipeline or rollback is changing the container, whatever was
\* cancelled, recovered or taken over meanwhile (acquireMutationPipeline around
\* executeUpdate, the rollback engine and recoverUpdateTransaction).
OneMutator == \A a, b \in Jobs : Mutating(a) /\ Mutating(b) => a = b

\* Whoever changes the container owns the persisted lease on it, an automatic
\* rollback through its update; so no host cleanup runs meanwhile.
MutatorHoldsLease ==
    \A j \in Jobs : Mutating(j) =>
        lease = IF j \in Rollbacks /\ Automatic(j) THEN parent[j] ELSE j

\* Once an update has begun to change the container, its transaction says so:
\* no crash can find it before mutation, cancelled or skipped (the commit of
\* txUpdating comes before the worker call), and its restore point exists.
MutationIsRecorded ==
    \A u \in mutated :
        /\ tx[u].state \notin PreMutation \cup {"none", "cancelled", "skipped"}
        /\ point[u].kind # "none"

\* A job reported as cancelled never touched the container: neither the safe
\* points, the orphaned cancel nor the deferred safety net cancel too late.
CancelledNeverMutated == \A u \in Updates : job[u] = "cancelled" => u \notin mutated

\* The rows tell what is done to the container: the transaction and the job of
\* an update that began to change it, and, unless a crash makes recovery take
\* over a transaction whose pipeline runs in the new process, the lease of
\* whoever changes it.
RowsTell ==
    /\ TypeOK
    /\ MutationIsRecorded
    /\ CancelledNeverMutated
    /\ faults.crashes = 0 => MutatorHoldsLease

\* A transaction becomes successful only while its own target image runs
\* (FinishUpdate after verification, or recovery that proves the image live).
SuccessMeansTarget ==
    [][\A u \in Updates :
          tx[u].state # "success" /\ tx'[u].state = "success" => runtime = u]_vars

\* No worker request outlives its caller into a rollback: neither a late one,
\* nor one that an orphaned cancel does not wait for after a crash, nor one
\* whose job a scan that went by the rows it had listed, from before mutation,
\* left failed to a second crash.
WorkersInTime ==
    /\ faults.late = {}
    /\ faults.crashes = 0 \/ (faults.crashes = 1 /\ faults.cancellable = {})

\* A transaction becomes rolled back only while the image its restore point
\* holds runs, whoever performed the rollback.
RolledBackMeansRestored ==
    [][\A u \in Updates :
          WorkersInTime /\ tx[u].state # "rolled_back" /\ tx'[u].state = "rolled_back"
              => runtime = point[u].image]_vars

\* What a transaction reports is what the container runs, through the pipeline,
\* both kinds of rollback, and recovery.
OutcomesAreTrue == SuccessMeansTarget /\ RolledBackMeansRestored

\* Neither recovery nor a passed deadline interferes.
Undisturbed == faults.crashes = 0 /\ faults.overrun = {}

\* A job turns successful only after its transaction has: a final job write
\* that is lost is made up for from the transaction.
JobSuccessFollowsTransaction ==
    [][\A u \in Updates :
          Undisturbed /\ job[u] # "success" /\ job'[u] = "success"
              => tx[u].state = "success"]_vars

\* Nothing reopens a settled transaction: a late write
\* of a cancelled pipeline, of the safety net or of a rollback leaves a terminal
\* state alone (cancelUpdateBeforeMutation, ensureUpdateJobTerminal and
\* ResolveRecoveryRequired read the row before they write it).
TerminalIsFinal ==
    [][\A u \in Updates :
          Undisturbed /\ tx[u].state \in Terminal => tx'[u].state = tx[u].state]_vars

\* The two rows of an update are settled once, and alike, while no recovery
\* works on them beside the pipeline and no deadline loses the pipeline's writes.
SettledOnce == JobSuccessFollowsTransaction /\ TerminalIsFinal

\* A job whose settlement the code gives up until the next start: a final write
\* was lost, its Docker work has outlasted its deadline, or a second crash left
\* the lease of a recovery rollback, which nobody reclaims, to its recovery.
Abandoned(j) ==
    \/ lost > 0
    \/ j \in faults.overrun /\ ctx[j] = "dead"
    \/ crashes > 1 /\ j \in Updates /\ tx[j].status = "recovery_required"

\* A job that was started is eventually settled, across crashes, cancels and
\* failed rollbacks (ensureUpdateJobTerminal, recoverInterruptedJobs and the
\* recovery scan), unless it is abandoned.
JobsSettle ==
    \A j \in Jobs : job[j] \in ActiveJob ~> job[j] \in FinalJob \/ Abandoned(j)

\* "The previous controller process cannot still own this job after startup"
\* (reliability.go): recovery never takes over a transaction whose pipeline is
\* running in this process.
RecoveryTakesOnlyOrphans ==
    \A w \in Recoverers : target[w] # Nobody => ~Registered(target[w])

\* No process keeps the host gate for ever.
GateIsFreed == []<>(gate = Nobody)
=============================================================================
