--------------------------- MODULE RestoreRollback ---------------------------
(* handleRollback and executeRestorePointRollback                            *)
(* (src/internal/app/rollback.go): a rollback started by the user, by a      *)
(* failed update under that update's gate and lease, or by crash recovery    *)
(* under its gate with a lease of its own.                                   *)
EXTENDS UpdateState

rest == <<boot, target, bounds, cleaning, cancelling>>

Automatic(r) == parent[r] \in Updates
Manual(r) == parent[r] = Nobody

\* handleRollback: the restore point is available and no job is active; as
\* with updates, the row is created after the checks.
AdmitRollback(r, u) ==
    /\ up
    /\ pc[r] = "idle"
    /\ point[u].kind = "full"
    /\ ~HasActiveJob
    /\ Goto(r, "admitted")
    /\ source' = [source EXCEPT ![r] = u]
    /\ UNCHANGED <<job, tx, point, lease, docker, gate, parent, verdict, ctx, rest>>

EnqueueRollback(r) ==
    /\ pc[r] = "admitted"
    /\ SetJob(r, "queued")
    /\ Goto(r, "queued")
    /\ UNCHANGED <<tx, point, lease, docker, gate, children, verdict, ctx, rest>>

\* beginAsyncJob; a job that is not claimed is left as it is.
ClaimRollback(r) ==
    /\ pc[r] = "queued"
    /\ IF job[r] = "queued" /\ ctx[r] = "live"
       THEN SetJob(r, "running") /\ Goto(r, "claimed") /\ UNCHANGED verdict
       ELSE /\ Goto(r, "done")
            /\ verdict' = [verdict EXCEPT ![r] = "failed"]
            /\ UNCHANGED job
    /\ UNCHANGED <<tx, point, lease, docker, gate, children, ctx, rest>>

\* A rollback nested under the holder of the gate passes it at once.
RollbackEntersGate(r) ==
    /\ pc[r] = "claimed"
    /\ IF Manual(r) THEN gate = Nobody /\ gate' = r ELSE UNCHANGED gate
    /\ Goto(r, "leasing")
    /\ UNCHANGED <<job, tx, point, lease, docker, children, verdict, ctx, rest>>

RollbackLeases(r) ==
    /\ pc[r] = "leasing"
    /\ IF Automatic(r) THEN UNCHANGED lease ELSE lease = Nobody /\ lease' = r
    /\ Goto(r, "restoring")
    /\ UNCHANGED <<job, tx, point, docker, gate, children, verdict, ctx, rest>>

RollbackLeaseConflict(r) ==
    /\ pc[r] = "leasing"
    /\ ~Automatic(r) /\ lease # Nobody
    /\ SettleAs(r, "failed")
    /\ UNCHANGED <<job, tx, point, lease, docker, gate, children, ctx, rest>>

\* Integrity, snapshot, image or dependencies are not what they must be.
RollbackRefused(r) ==
    /\ pc[r] = "restoring"
    /\ SettleAs(r, "failed")
    /\ UNCHANGED <<job, tx, point, lease, docker, gate, children, ctx, rest>>

RollbackRestores(r) ==
    /\ pc[r] = "restoring"
    /\ point[source[r]].kind = "full"
    /\ ctx[r] = "live"
    /\ runtime' = point[source[r]].image
    /\ Goto(r, "restored")
    /\ UNCHANGED <<job, tx, point, lease, worker, mutated, gate, children, verdict, ctx, rest>>

\* A failed restore, or a restored container that fails verification, is
\* answered by recoverSafety, which puts the container back or fails too.  The
\* restore point is then degraded, unless only DNS did not come back.
RollbackBreaks(r) ==
    /\ pc[r] \in {"restoring", "restored"}
    /\ point[source[r]].kind = "full"
    /\ runtime' \in {runtime, Broken}
    /\ \E kind \in {"full", "lost"} : point' = [point EXCEPT ![source[r]].kind = kind]
    /\ Goto(r, "report") /\ verdict' = [verdict EXCEPT ![r] = "failed"]
    /\ UNCHANGED <<job, tx, lease, worker, mutated, gate, children, ctx, rest>>

\* A verified rollback also resolves the transaction that waits for recovery
\* on its restore point.
RollbackCompletes_ResolvesAny(r) ==
    /\ pc[r] = "restored"
    /\ SetTx(source[r], "rolled_back", "rolled_back")
    /\ Goto(r, "report") /\ verdict' = [verdict EXCEPT ![r] = "success"]
    /\ UNCHANGED <<job, point, lease, docker, gate, children, ctx, rest>>
RollbackCompletes(r) ==
    /\ pc[r] = "restored"
    /\ IF ctx[r] = "live" /\ tx[source[r]].status = "recovery_required"
       THEN SetTx(source[r], "rolled_back", "rolled_back") ELSE UNCHANGED tx
    /\ Goto(r, "report") /\ verdict' = [verdict EXCEPT ![r] = "success"]
    /\ UNCHANGED <<job, point, lease, docker, gate, children, ctx, rest>>

\* The operation's own 20-minute deadline.
RollbackDeadline(r) ==
    /\ r \in faults.overrun
    /\ pc[r] \in {"restoring", "restored"}
    /\ ctx' = [ctx EXCEPT ![r] = "dead"]
    /\ UNCHANGED <<job, tx, point, lease, docker, pc, gate, children, verdict, rest>>

\* failJob before the destructive part is durable; the write after it is bound
\* to the operation's context and not retried.
SettleRollback(r) ==
    /\ pc[r] \in {"settle", "report"}
    /\ IF pc[r] = "settle" \/ ctx[r] = "live" THEN SetJob(r, verdict[r]) ELSE UNCHANGED job
    /\ Goto(r, "leave")
    /\ UNCHANGED <<tx, point, lease, docker, gate, children, verdict, ctx, rest>>

RollbackStep(r) ==
    \/ \E u \in Updates : AdmitRollback(r, u)
    \/ EnqueueRollback(r) \/ ClaimRollback(r) \/ RollbackEntersGate(r) \/ RollbackLeases(r)
    \/ RollbackLeaseConflict(r) \/ RollbackRefused(r) \/ RollbackRestores(r)
    \/ RollbackBreaks(r) \/ RollbackCompletes(r) \/ RollbackDeadline(r) \/ SettleRollback(r)
=============================================================================
