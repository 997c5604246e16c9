-------------------------- MODULE UpdateSystemProofs --------------------------
(* Three results, for any number of updates, rollbacks, crashes and lost     *)
(* writes: the gate excludes, the rows are true and are settled once, and    *)
(* the outcomes they report are those of the container.                      *)
(* At most one pipeline or rollback changes the container.  The argument is  *)
(* about who holds the gate: a pipeline, a manual rollback and a recoverer   *)
(* between their entry and their exit hold it themselves; a nested rollback  *)
(* runs while its caller waits in "rolling", and a caller has one such       *)
(* rollback.                                                                 *)
EXTENDS UpdateSystem, TLAPS

UpdateInGate ==
    {"leasing", "creating", "created", "preflight", "snapshot", "restore_point", "prepared",
     "window", "committing", "updating", "applying", "image_verify", "corrected",
     "docker_health", "dependencies", "verifying", "refreshing", "failing", "rolling"}
RollbackInGate == {"leasing", "restoring", "restored"}
RecovererInGate == {"leasing", "reconcile", "handoff", "rolling"}

ControlTyped ==
    /\ DOMAIN pc = Actors
    /\ parent \in [Rollbacks -> Updates \cup Recoverers \cup {Nobody}]
UpdatesOwnGate == \A u \in Updates : pc[u] \in UpdateInGate => gate = u
RollbacksOwnGate ==
    \A r \in Rollbacks : pc[r] \in RollbackInGate /\ parent[r] = Nobody => gate = r
RecoverersOwnGate == \A w \in Recoverers : pc[w] \in RecovererInGate => gate = w
CallersWait == \A r \in Rollbacks : parent[r] # Nobody => pc[parent[r]] = "rolling"
OneChild ==
    \A r, s \in Rollbacks : parent[r] = parent[s] /\ parent[r] # Nobody => r = s

\* The inductive invariant.
OwnershipInv ==
    /\ ControlTyped
    /\ UpdatesOwnGate /\ RollbacksOwnGate /\ RecoverersOwnGate
    /\ CallersWait /\ OneChild

-----------------------------------------------------------------------------
\* The actors are distinct, and none of them is Nobody.
LEMMA ActorsDistinct ==
    /\ Updates \cap Rollbacks = {}
    /\ Updates \cap Recoverers = {}
    /\ Rollbacks \cap Recoverers = {}
    /\ Nobody \notin Actors
    /\ Actors = Updates \cup Rollbacks \cup Recoverers
BY NamesAssumption DEF Actors, Recoverers, Jobs

\* The invariant gives each gate holder exclusivity.
LEMMA OwnershipExcludes == OwnershipInv => OneMutator
<1> SUFFICES ASSUME OwnershipInv,
                    NEW a \in Jobs, NEW b \in Jobs, Mutating(a), Mutating(b)
             PROVE  a = b
    BY DEF OneMutator
<1> USE ActorsDistinct DEF OwnershipInv
<1>1. a \in Updates => gate = a /\ pc[a] # "rolling"
    BY DEF Mutating, UpdatesOwnGate, UpdateInGate
<1>2. b \in Updates => gate = b /\ pc[b] # "rolling"
    BY DEF Mutating, UpdatesOwnGate, UpdateInGate
<1>3. \A r \in Rollbacks : Mutating(r) =>
        \/ parent[r] = Nobody /\ gate = r
        \/ parent[r] # Nobody /\ pc[parent[r]] = "rolling" /\ gate = parent[r]
              /\ parent[r] \in Updates \cup Recoverers
    <2> TAKE r \in Rollbacks
    <2> HAVE Mutating(r)
    <2>1. pc[r] \in RollbackInGate
        BY DEF Mutating, RollbackInGate
    <2>2. CASE parent[r] = Nobody
        BY <2>1, <2>2 DEF RollbacksOwnGate
    <2>3. CASE parent[r] # Nobody
        <3>1. parent[r] \in Updates \cup Recoverers
            BY <2>3 DEF ControlTyped
        <3>2. pc[parent[r]] = "rolling"
            BY <2>3 DEF CallersWait
        <3> QED BY <2>3, <3>1, <3>2 DEF UpdatesOwnGate, RecoverersOwnGate, UpdateInGate, RecovererInGate
    <2> QED BY <2>2, <2>3
<1>4. CASE a \in Updates /\ b \in Updates
    BY <1>1, <1>2, <1>4
<1>5. CASE a \in Updates /\ b \in Rollbacks
    BY <1>1, <1>3, <1>5
<1>6. CASE a \in Rollbacks /\ b \in Updates
    BY <1>2, <1>3, <1>6
<1>7. CASE a \in Rollbacks /\ b \in Rollbacks
    BY <1>3, <1>7 DEF OneChild
<1> QED BY <1>4, <1>5, <1>6, <1>7 DEF Jobs

LEMMA InitOwns == Init => OwnershipInv
<1> SUFFICES ASSUME Init PROVE OwnershipInv
    OBVIOUS
<1>1. pc = [a \in Actors |-> "idle"] /\ parent = [r \in Rollbacks |-> Nobody]
    BY DEF Init
<1>2. ControlTyped
    <2>1. DOMAIN pc = Actors
        BY <1>1, Zenon
    <2>2. parent \in [Rollbacks -> Updates \cup Recoverers \cup {Nobody}]
        BY <1>1, Zenon
    <2> QED BY <2>1, <2>2 DEF ControlTyped
<1>3. \A a \in Actors : pc[a] = "idle"
    BY <1>1
<1>4. \A r \in Rollbacks : parent[r] = Nobody
    BY <1>1
<1>5. UpdatesOwnGate /\ RollbacksOwnGate /\ RecoverersOwnGate
    BY <1>3, ActorsDistinct
    DEF UpdatesOwnGate, RollbacksOwnGate, RecoverersOwnGate, UpdateInGate, RollbackInGate,
        RecovererInGate
<1>6. CallersWait /\ OneChild
    BY <1>4 DEF CallersWait, OneChild
<1> QED BY <1>2, <1>5, <1>6 DEF OwnershipInv

-----------------------------------------------------------------------------
\* Four shapes of steps that leave the gate alone.
LEMMA NobodyMoves ==
    ASSUME OwnershipInv, UNCHANGED <<pc, gate, parent>> PROVE OwnershipInv'
BY DEF OwnershipInv, ControlTyped, UpdatesOwnGate, RollbacksOwnGate, RecoverersOwnGate,
    CallersWait, OneChild

LEMMA UpdateMoves ==
    ASSUME OwnershipInv, NEW u \in Updates, NEW to,
           pc' = [pc EXCEPT ![u] = to], gate' = gate, parent' = parent,
           pc[u] # "rolling",
           to \in UpdateInGate => pc[u] \in UpdateInGate
    PROVE  OwnershipInv'
<1> USE ActorsDistinct DEF OwnershipInv
<1>1. ControlTyped'
    BY DEF ControlTyped
<1>2. UpdatesOwnGate' /\ RollbacksOwnGate' /\ RecoverersOwnGate'
    BY DEF ControlTyped, UpdatesOwnGate, RollbacksOwnGate, RecoverersOwnGate
<1>3. CallersWait' /\ OneChild'
    BY DEF ControlTyped, CallersWait, OneChild
<1> QED BY <1>1, <1>2, <1>3

LEMMA RollbackMoves ==
    ASSUME OwnershipInv, NEW r \in Rollbacks, NEW to,
           pc' = [pc EXCEPT ![r] = to], gate' = gate, parent' = parent,
           to \in RollbackInGate /\ parent[r] = Nobody => pc[r] \in RollbackInGate
    PROVE  OwnershipInv'
<1> USE ActorsDistinct DEF OwnershipInv
<1>1. ControlTyped'
    BY DEF ControlTyped
<1>2. UpdatesOwnGate' /\ RollbacksOwnGate' /\ RecoverersOwnGate'
    BY DEF ControlTyped, UpdatesOwnGate, RollbacksOwnGate, RecoverersOwnGate
<1>3. CallersWait' /\ OneChild'
    BY DEF ControlTyped, CallersWait, OneChild
<1> QED BY <1>1, <1>2, <1>3

LEMMA RecovererMoves ==
    ASSUME OwnershipInv, NEW w \in Recoverers, NEW to,
           pc' = [pc EXCEPT ![w] = to], gate' = gate, parent' = parent,
           pc[w] # "rolling",
           to \in RecovererInGate => pc[w] \in RecovererInGate
    PROVE  OwnershipInv'
<1> USE ActorsDistinct DEF OwnershipInv
<1>1. ControlTyped'
    BY DEF ControlTyped
<1>2. UpdatesOwnGate' /\ RollbacksOwnGate' /\ RecoverersOwnGate'
    BY DEF ControlTyped, UpdatesOwnGate, RollbacksOwnGate, RecoverersOwnGate
<1>3. CallersWait' /\ OneChild'
    BY DEF ControlTyped, CallersWait, OneChild
<1> QED BY <1>1, <1>2, <1>3

-----------------------------------------------------------------------------
\* The gate is entered only when it is free, so by somebody who is alone.
LEMMA GateEntered ==
    ASSUME OwnershipInv, NEW a \in Actors, NEW to,
           gate = Nobody, gate' = a, pc' = [pc EXCEPT ![a] = to], parent' = parent,
           pc[a] # "rolling"
    PROVE  OwnershipInv'
<1> USE ActorsDistinct DEF OwnershipInv
<1>1. ControlTyped'
    BY DEF ControlTyped
<1>2. \A u \in Updates : pc[u] \notin UpdateInGate
    BY DEF UpdatesOwnGate
<1>3. \A r \in Rollbacks : ~(pc[r] \in RollbackInGate /\ parent[r] = Nobody)
    BY DEF RollbacksOwnGate
<1>4. \A w \in Recoverers : pc[w] \notin RecovererInGate
    BY DEF RecoverersOwnGate
<1>5. \A b \in Actors : b # a => pc'[b] = pc[b]
    BY DEF ControlTyped
<1>6. UpdatesOwnGate'
    BY <1>2, <1>5 DEF UpdatesOwnGate
<1>7. RollbacksOwnGate'
    BY <1>3, <1>5 DEF RollbacksOwnGate
<1>8. RecoverersOwnGate'
    BY <1>4, <1>5 DEF RecoverersOwnGate
<1>9. CallersWait' /\ OneChild'
    BY <1>5 DEF ControlTyped, CallersWait, OneChild
<1> QED BY <1>1, <1>6, <1>7, <1>8, <1>9

\* It is left by its holder, after everything the holder did inside.
LEMMA GateLeft ==
    ASSUME OwnershipInv, NEW a \in Actors, NEW to, to \in {"done", "idle"},
           pc[a] = "leave", gate' = IF gate = a THEN Nobody ELSE gate,
           pc' = [pc EXCEPT ![a] = to], parent' = parent
    PROVE  OwnershipInv'
<1> USE ActorsDistinct DEF OwnershipInv
<1>1. ControlTyped'
    BY DEF ControlTyped
<1>2. pc'[a] = to /\ \A b \in Actors : b # a => pc'[b] = pc[b]
    BY DEF ControlTyped
<1>3. \A b \in Actors : b # a /\ gate = b => gate' = b
    OBVIOUS
<1>4. UpdatesOwnGate'
    BY <1>2, <1>3 DEF UpdatesOwnGate, UpdateInGate
<1>5. RollbacksOwnGate'
    BY <1>2, <1>3 DEF RollbacksOwnGate, RollbackInGate
<1>6. RecoverersOwnGate'
    BY <1>2, <1>3 DEF RecoverersOwnGate, RecovererInGate
<1>7. CallersWait' /\ OneChild'
    BY <1>2 DEF ControlTyped, CallersWait, OneChild
<1> QED BY <1>1, <1>4, <1>5, <1>6, <1>7

\* A caller that holds the gate starts its one rollback and waits ...
LEMMA ChildStarts ==
    ASSUME OwnershipInv, NEW a \in Updates \cup Recoverers, NEW r \in Rollbacks,
           a \in Updates => pc[a] = "failing",
           a \in Recoverers => pc[a] = "handoff",
           pc' = [pc EXCEPT ![a] = "rolling", ![r] = "queued"],
           parent' = [parent EXCEPT ![r] = a], gate' = gate
    PROVE  OwnershipInv'
<1> USE ActorsDistinct DEF OwnershipInv
<1>1. ControlTyped'
    BY DEF ControlTyped
<1>2. /\ pc'[a] = "rolling" /\ pc'[r] = "queued"
      /\ \A b \in Actors \ {a, r} : pc'[b] = pc[b]
    BY DEF ControlTyped
<1>3. parent'[r] = a /\ \A s \in Rollbacks \ {r} : parent'[s] = parent[s]
    BY DEF ControlTyped
<1>4. gate = a
    BY DEF UpdatesOwnGate, RecoverersOwnGate, UpdateInGate, RecovererInGate
<1>5. UpdatesOwnGate'
    BY <1>2, <1>4 DEF UpdatesOwnGate
<1>6. RollbacksOwnGate'
    BY <1>2, <1>3 DEF RollbacksOwnGate, RollbackInGate
<1>7. RecoverersOwnGate'
    BY <1>2, <1>4 DEF RecoverersOwnGate
<1>8. \A s \in Rollbacks : parent[s] # a
    BY DEF CallersWait
<1>9. CallersWait'
    BY <1>2, <1>3 DEF ControlTyped, CallersWait
<1>10. OneChild'
    BY <1>3, <1>8 DEF OneChild
<1> QED BY <1>1, <1>5, <1>6, <1>7, <1>9, <1>10

\* ... and goes on when that rollback has ended.
LEMMA ChildEnds ==
    ASSUME OwnershipInv, NEW a \in Updates \cup Recoverers, NEW r \in Rollbacks,
           parent[r] = a, pc[r] = "done",
           pc' = [pc EXCEPT ![a] = "settle"],
           parent' = [parent EXCEPT ![r] = Nobody], gate' = gate
    PROVE  OwnershipInv'
<1> USE ActorsDistinct DEF OwnershipInv
<1>1. ControlTyped'
    BY DEF ControlTyped
<1>2. /\ pc'[a] = "settle"
      /\ \A b \in Actors \ {a} : pc'[b] = pc[b]
    BY DEF ControlTyped
<1>3. parent'[r] = Nobody /\ \A s \in Rollbacks \ {r} : parent'[s] = parent[s]
    BY DEF ControlTyped
<1>4. UpdatesOwnGate'
    BY <1>2 DEF UpdatesOwnGate, UpdateInGate
<1>5. RollbacksOwnGate'
    BY <1>2, <1>3 DEF RollbacksOwnGate, RollbackInGate
<1>6. RecoverersOwnGate'
    BY <1>2 DEF RecoverersOwnGate, RecovererInGate
<1>7. \A s \in Rollbacks \ {r} : parent[s] # a
    BY DEF OneChild
<1>8. CallersWait'
    BY <1>2, <1>3, <1>7 DEF ControlTyped, CallersWait
<1>9. OneChild'
    BY <1>3 DEF OneChild
<1> QED BY <1>1, <1>4, <1>5, <1>6, <1>8, <1>9

-----------------------------------------------------------------------------
\* Every step of a pipeline, by stage.
LEMMA PreparationOwns ==
    ASSUME OwnershipInv, NEW u \in Updates,
           \/ AdmitUpdate(u) \/ EnqueueUpdate(u) \/ ClaimUpdate(u) \/ CancelSafely(u)
           \/ ContextLost(u) \/ EnterGate(u) \/ AcquireLease(u) \/ LeaseConflict(u)
           \/ CreateTransaction(u) \/ StartPreflight(u) \/ TakeSnapshot(u)
           \/ CaptureRestorePoint(u) \/ Block(u) \/ Prepare(u) \/ PreparationFails(u)
           \/ OpenWindow(u) \/ Commit(u) \/ RecordCommit(u)
    PROVE  OwnershipInv'
<1> USE DEF control, children, Goto, SettleAs, UpdateInGate
<1>1. CASE AdmitUpdate(u)
    BY <1>1, UpdateMoves DEF AdmitUpdate
<1>2. CASE EnqueueUpdate(u)
    BY <1>2, UpdateMoves DEF EnqueueUpdate
<1>3. CASE ClaimUpdate(u)
    BY <1>3, UpdateMoves DEF ClaimUpdate
<1>4. CASE CancelSafely(u)
    BY <1>4, UpdateMoves DEF CancelSafely
<1>5. CASE ContextLost(u)
    BY <1>5, UpdateMoves DEF ContextLost, BeforeNet
<1>6. CASE EnterGate(u)
    BY <1>6, GateEntered DEF EnterGate, Actors, Jobs
<1>7. CASE AcquireLease(u)
    BY <1>7, UpdateMoves DEF AcquireLease
<1>8. CASE LeaseConflict(u)
    BY <1>8, UpdateMoves DEF LeaseConflict
<1>9. CASE CreateTransaction(u)
    BY <1>9, UpdateMoves DEF CreateTransaction
<1>10. CASE StartPreflight(u)
    BY <1>10, UpdateMoves DEF StartPreflight, Advance
<1>11. CASE TakeSnapshot(u)
    BY <1>11, UpdateMoves DEF TakeSnapshot, Advance
<1>12. CASE CaptureRestorePoint(u)
    BY <1>12, UpdateMoves DEF CaptureRestorePoint, Advance
<1>13. CASE Block(u)
    BY <1>13, UpdateMoves DEF Block
<1>14. CASE Prepare(u)
    BY <1>14, UpdateMoves DEF Prepare, Advance
<1>15. CASE PreparationFails(u)
    BY <1>15, UpdateMoves DEF PreparationFails
<1>16. CASE OpenWindow(u)
    BY <1>16, UpdateMoves DEF OpenWindow
<1>17. CASE Commit(u)
    BY <1>17, UpdateMoves DEF Commit
<1>18. CASE RecordCommit(u)
    BY <1>18, UpdateMoves DEF RecordCommit
<1> QED BY <1>1, <1>2, <1>3, <1>4, <1>5, <1>6, <1>7, <1>8, <1>9, <1>10, <1>11, <1>12,
           <1>13, <1>14, <1>15, <1>16, <1>17, <1>18

LEMMA MutationOwns ==
    ASSUME OwnershipInv, NEW u \in Updates,
           \/ CallWorker(u) \/ WorkerReturns(u) \/ WorkerFails(u) \/ CorrectImage(u)
           \/ ConfirmImage(u) \/ TargetNotApplied(u) \/ WrongImage(u) \/ PassStage(u)
           \/ FailStage(u) \/ FinishUpdate(u) \/ NoRollback(u) \/ RollbackUnavailable(u)
           \/ Deadline(u)
    PROVE  OwnershipInv'
<1> USE DEF control, children, Goto, SettleAs, UpdateInGate
<1>1. CASE CallWorker(u)
    BY <1>1, UpdateMoves DEF CallWorker
<1>2. CASE WorkerReturns(u)
    BY <1>2, UpdateMoves DEF WorkerReturns, Advance
<1>3. CASE WorkerFails(u)
    BY <1>3, UpdateMoves DEF WorkerFails
<1>4. CASE CorrectImage(u)
    BY <1>4, UpdateMoves DEF CorrectImage
<1>5. CASE ConfirmImage(u)
    BY <1>5, UpdateMoves DEF ConfirmImage, Advance
<1>6. CASE TargetNotApplied(u)
    BY <1>6, UpdateMoves DEF TargetNotApplied
<1>7. CASE WrongImage(u)
    BY <1>7, UpdateMoves DEF WrongImage
<1>8. pc[u] \in DOMAIN NextStage => pc[u] \in {"docker_health", "dependencies", "verifying"}
    BY DEF NextStage
<1>9. CASE PassStage(u)
    <2>1. PICK next \in NextStage[pc[u]] : Goto(u, next)
        BY <1>9 DEF PassStage
    <2>2. next \in UpdateInGate
        BY <1>8, <1>9, <2>1 DEF PassStage, NextStage
    <2> QED BY <1>8, <1>9, <2>1, <2>2, UpdateMoves DEF PassStage
<1>10. CASE FailStage(u)
    BY <1>8, <1>10, UpdateMoves DEF FailStage
<1>11. CASE FinishUpdate(u)
    BY <1>11, UpdateMoves DEF FinishUpdate
<1>12. CASE NoRollback(u)
    BY <1>12, UpdateMoves DEF NoRollback
<1>13. CASE RollbackUnavailable(u)
    BY <1>13, UpdateMoves DEF RollbackUnavailable, RequireRecovery
<1>14. CASE Deadline(u)
    BY <1>14, NobodyMoves DEF Deadline
<1> QED BY <1>1, <1>2, <1>3, <1>4, <1>5, <1>6, <1>7, <1>9, <1>10, <1>11, <1>12, <1>13, <1>14

LEMMA SettlementOwns ==
    ASSUME OwnershipInv, NEW u \in Updates,
           \/ \E r \in Rollbacks : AutoRollback(u, r) \/ RolledBack(u, r) \/ RollbackFailed(u, r)
           \/ SettleUpdate(u) \/ LoseSettle(u) \/ EnsureTerminal(u) \/ Leave(u)
           \/ CancelQueued(u) \/ RequestCancel(u) \/ SignalCancel(u)
    PROVE  OwnershipInv'
<1> USE DEF control, children, Goto, SettleAs, UpdateInGate
<1>1. ASSUME NEW r \in Rollbacks, AutoRollback(u, r) PROVE OwnershipInv'
    BY <1>1, ChildStarts, ActorsDistinct DEF AutoRollback
<1>2. ASSUME NEW r \in Rollbacks, RolledBack(u, r) PROVE OwnershipInv'
    BY <1>2, ChildEnds DEF RolledBack, RollbackEnded
<1>3. ASSUME NEW r \in Rollbacks, RollbackFailed(u, r) PROVE OwnershipInv'
    BY <1>3, ChildEnds DEF RollbackFailed, RollbackEnded, RequireRecovery
<1>4. CASE SettleUpdate(u)
    BY <1>4, UpdateMoves DEF SettleUpdate
<1>5. CASE LoseSettle(u)
    BY <1>5, UpdateMoves DEF LoseSettle
<1>6. CASE EnsureTerminal(u)
    BY <1>6, UpdateMoves DEF EnsureTerminal
<1>7. CASE Leave(u)
    BY <1>7, GateLeft DEF Leave, Actors, Jobs
<1>8. CASE CancelQueued(u) \/ RequestCancel(u) \/ SignalCancel(u)
    BY <1>8, NobodyMoves DEF CancelQueued, RequestCancel, SignalCancel
<1> QED BY <1>1, <1>2, <1>3, <1>4, <1>5, <1>6, <1>7, <1>8

\* Every step of a rollback.
LEMMA RollbackOwns ==
    ASSUME OwnershipInv, NEW r \in Rollbacks, RollbackStep(r) \/ Leave(r) \/ CancelQueued(r)
    PROVE  OwnershipInv'
<1> USE DEF control, children, Goto, SettleAs, RollbackInGate
<1>1. ASSUME NEW u \in Updates, AdmitRollback(r, u) PROVE OwnershipInv'
    BY <1>1, RollbackMoves DEF AdmitRollback
<1>2. CASE EnqueueRollback(r)
    BY <1>2, RollbackMoves DEF EnqueueRollback
<1>3. CASE ClaimRollback(r)
    BY <1>3, RollbackMoves DEF ClaimRollback
<1>4. CASE RollbackEntersGate(r)
    <2>1. CASE parent[r] = Nobody
        BY <1>4, <2>1, GateEntered DEF RollbackEntersGate, Manual, Actors, Jobs
    <2>2. CASE parent[r] # Nobody
        BY <1>4, <2>2, RollbackMoves DEF RollbackEntersGate, Manual
    <2> QED BY <2>1, <2>2
<1>5. CASE RollbackLeases(r)
    BY <1>5, RollbackMoves DEF RollbackLeases
<1>6. CASE RollbackLeaseConflict(r)
    BY <1>6, RollbackMoves DEF RollbackLeaseConflict
<1>7. CASE RollbackRefused(r)
    BY <1>7, RollbackMoves DEF RollbackRefused
<1>8. CASE RollbackRestores(r)
    BY <1>8, RollbackMoves DEF RollbackRestores
<1>9. CASE RollbackBreaks(r)
    BY <1>9, RollbackMoves DEF RollbackBreaks
<1>10. CASE RollbackCompletes(r)
    BY <1>10, RollbackMoves DEF RollbackCompletes
<1>11. CASE RollbackDeadline(r) \/ CancelQueued(r)
    BY <1>11, NobodyMoves DEF RollbackDeadline, CancelQueued
<1>12. CASE SettleRollback(r)
    BY <1>12, RollbackMoves DEF SettleRollback
<1>13. CASE Leave(r)
    BY <1>13, GateLeft DEF Leave, Actors, Jobs
<1> QED BY <1>1, <1>2, <1>3, <1>4, <1>5, <1>6, <1>7, <1>8, <1>9, <1>10, <1>11, <1>12, <1>13
        DEF RollbackStep

\* Every step of a recoverer.
LEMMA RecoveryOwns ==
    ASSUME OwnershipInv, NEW w \in Recoverers, RecoveryStep(w)
    PROVE  OwnershipInv'
<1> USE DEF others, children, Goto, SettleAs, RecovererInGate
<1>1. CASE RecoveryEntersGate(w)
    BY <1>1, GateEntered DEF RecoveryEntersGate, Actors
<1>2. CASE RecoveryLeases(w)
    BY <1>2, RecovererMoves DEF RecoveryLeases
<1>3. CASE RecoveryLeaseConflict(w)
    BY <1>3, RecovererMoves DEF RecoveryLeaseConflict
<1>4. CASE RecoveryNeedsOperator(w) \/ RecoveryFindsOriginal(w) \/ RecoveryKeepsTarget(w)
    BY <1>4, RecovererMoves
    DEF RecoveryNeedsOperator, RecoveryFindsOriginal, RecoveryKeepsTarget, Reconcile
<1>5. CASE RecoveryHandsOff(w)
    BY <1>5, RecovererMoves DEF RecoveryHandsOff
<1>6. CASE RecoveryCannotRollBack(w)
    BY <1>6, RecovererMoves DEF RecoveryCannotRollBack, RecoverySettles
<1>7. ASSUME NEW r \in Rollbacks, RecoveryRollsBack(w, r) PROVE OwnershipInv'
    BY <1>7, ChildStarts, ActorsDistinct DEF RecoveryRollsBack
<1>8. ASSUME NEW r \in Rollbacks, AfterRecoveryRollback(w, r) PROVE OwnershipInv'
    BY <1>8, ChildEnds DEF AfterRecoveryRollback, RecoveryRollbackEnded, RecoverySettles
<1>9. CASE RecoveryFinishesJob(w)
    BY <1>9, RecovererMoves DEF RecoveryFinishesJob
<1>10. CASE RecoveryLeaves(w)
    BY <1>10, GateLeft DEF RecoveryLeaves, Actors
<1> QED BY <1>1, <1>2, <1>3, <1>4, <1>5, <1>6, <1>7, <1>8, <1>9, <1>10 DEF RecoveryStep

\* A crash empties the gate and ends everybody at once.
LEMMA CrashOwns == ASSUME OwnershipInv, Crash PROVE OwnershipInv'
<1> USE ActorsDistinct
<1>1. DOMAIN pc' = Actors /\ \A a \in Actors : pc'[a] \in {"idle", "done"}
    BY DEF Crash
<1>2. \A r \in Rollbacks : parent'[r] = Nobody
    BY DEF Crash
<1>3. parent' \in [Rollbacks -> Updates \cup Recoverers \cup {Nobody}]
    BY Zenon DEF Crash
<1>4. ControlTyped'
    BY <1>1, <1>3 DEF ControlTyped
<1>5. UpdatesOwnGate' /\ RollbacksOwnGate' /\ RecoverersOwnGate'
    BY <1>1
    DEF UpdatesOwnGate, RollbacksOwnGate, RecoverersOwnGate, UpdateInGate, RollbackInGate,
        RecovererInGate
<1>6. CallersWait' /\ OneChild'
    BY <1>2 DEF CallersWait, OneChild
<1> QED BY <1>4, <1>5, <1>6 DEF OwnershipInv

\* What starts a recoverer, and what touches no goroutine.
LEMMA SurroundingsOwn ==
    ASSUME OwnershipInv,
           \/ \E u \in Updates :
                 SafeAbort(u) \/ ScanRecovers(u) \/ OrphanCancel(u) \/ OrphanRecovers(u)
                 \/ LosePoint(u)
           \/ WorkerApplies \/ Restart \/ StartScan \/ StartCleanup \/ EndCleanup \/ LeaseExpires
    PROVE  OwnershipInv'
<1> USE DEF others, children, control, Goto, SettleAs, RecovererInGate
<1>1. ASSUME NEW u \in Updates, SafeAbort(u) \/ ScanRecovers(u) PROVE OwnershipInv'
    BY <1>1, RecovererMoves DEF SafeAbort, ScanRecovers, StartRecovery, Recoverers
<1>2. ASSUME NEW u \in Updates, OrphanRecovers(u) PROVE OwnershipInv'
    BY <1>2, RecovererMoves DEF OrphanRecovers, StartRecovery, Recoverers
<1>3. ASSUME NEW u \in Updates, OrphanCancel(u) \/ LosePoint(u) PROVE OwnershipInv'
    BY <1>3, NobodyMoves DEF OrphanCancel, LosePoint
<1>4. CASE WorkerApplies \/ Restart \/ StartScan \/ StartCleanup \/ EndCleanup \/ LeaseExpires
    BY <1>4, NobodyMoves
    DEF WorkerApplies, Restart, StartScan, StartCleanup, EndCleanup, LeaseExpires
<1> QED BY <1>1, <1>2, <1>3, <1>4

LEMMA NextOwns == OwnershipInv /\ [Next]_vars => OwnershipInv'
<1> SUFFICES ASSUME OwnershipInv, [Next]_vars PROVE OwnershipInv'
    OBVIOUS
<1>1. ASSUME NEW u \in Updates, UpdateStep(u) PROVE OwnershipInv'
    BY <1>1, PreparationOwns, MutationOwns, SettlementOwns, Zenon DEF UpdateStep
<1>2. ASSUME NEW r \in Rollbacks, RollbackStep(r) \/ Leave(r) \/ CancelQueued(r)
      PROVE OwnershipInv'
    BY <1>2, RollbackOwns
<1>3. ASSUME NEW w \in Recoverers, RecoveryStep(w) PROVE OwnershipInv'
    BY <1>3, RecoveryOwns
<1>4. CASE Crash
    BY <1>4, CrashOwns
<1>5. CASE \/ \E u \in Updates :
                 SafeAbort(u) \/ ScanRecovers(u) \/ OrphanCancel(u) \/ OrphanRecovers(u)
                 \/ LosePoint(u)
           \/ WorkerApplies \/ Restart \/ StartScan \/ StartCleanup \/ EndCleanup \/ LeaseExpires
    BY <1>5, SurroundingsOwn
<1>6. CASE UNCHANGED vars
    BY <1>6, NobodyMoves DEF vars, children
<1> QED BY <1>1, <1>2, <1>3, <1>4, <1>5, <1>6, Zenon DEF Next

\* Whatever crashes, is cancelled, times out or is taken over by recovery, at
\* most one pipeline or rollback is changing the container at a time: the host
\* gate around executeUpdate, the rollback engine and recoverUpdateTransaction.
THEOREM UpdatesExclude == Spec => []OneMutator
<1>1. Init => OwnershipInv
    BY InitOwns
<1>2. OwnershipInv /\ [Next]_vars => OwnershipInv'
    BY NextOwns
<1>3. OwnershipInv => OneMutator
    BY OwnershipExcludes
<1> QED BY <1>1, <1>2, <1>3, PTL DEF Spec

-----------------------------------------------------------------------------
(* What the rows say of an update is true, for any number of updates,        *)
(* rollbacks, crashes, cancels and lost writes.  An update is followed       *)
(* through its stages: before its commit nothing has touched the container,  *)
(* and from then on nobody writes a row that denies it.  Without crashes the *)
(* lease is with whoever the gate is with, as nobody takes over an update    *)
(* whose pipeline still runs.                                                *)

BeforeClaim == {"idle", "admitted", "queued"}
BeforeCall ==
    {"claimed", "leasing", "creating", "created", "preflight", "snapshot", "restore_point",
     "prepared", "window", "committing", "updating"}
HasPoint == {"restore_point", "prepared", "window", "committing", "updating"}
\* What the transaction of a changed container may say.
Touched == PostMutation \cup {"success", "failed", "rolled_back"}

\* Nobody but its own pipeline knows of an update before it is claimed.
Unknown(u) ==
    /\ tx[u] = NoTransaction /\ seen[u] = "none" /\ u \notin cancelling
    /\ \A w \in Recoverers : target[w] # u
    /\ IF pc[u] = "queued" THEN job[u] \in {"queued", "cancelled"} ELSE job[u] = "none"

\* What is known of one update by its stage and its history.
Recorded(u) ==
    /\ pc[u] \in BeforeClaim => Unknown(u)
    /\ pc[u] \in BeforeClaim \cup BeforeCall => u \notin mutated /\ verdict[u] = "none"
    /\ pc[u] \in BeforeCall \/ u \in mutated => job[u] \notin {"queued", "cancelled"}
    /\ pc[u] \in {"committing", "updating"} \/ u \in mutated => tx[u].state \in Touched
    /\ pc[u] \in HasPoint \/ u \in mutated => point[u].kind # "none"
    /\ u \in mutated => verdict[u] # "cancelled"
    /\ ~up => pc[u] \in {"idle", "done"}

\* Whom the others work for.
Partners ==
    /\ \A w \in Recoverers : pc[w] # "idle" => target[w] \in Updates
    /\ \A w \in Recoverers : verdict[w] \in {"none", "success", "failed"}
    /\ \A r \in Rollbacks : pc[r] \notin {"idle", "done"} => source[r] \in Updates

\* Without crashes.
LeaseStages ==
    {"creating", "created", "preflight", "snapshot", "restore_point", "prepared", "window",
     "committing", "updating", "applying", "image_verify", "corrected", "docker_health",
     "dependencies", "verifying", "refreshing", "failing", "rolling"}
HasLease(j) ==
    \/ j \in Updates /\ pc[j] \in LeaseStages
    \/ j \in Rollbacks /\ pc[j] \in {"restoring", "restored"} /\ parent[j] \notin Updates
LeaseHeld == \A j \in Jobs : HasLease(j) => lease = j
OrphansOnly ==
    /\ scanned /\ \A u \in Updates : seen[u] = "none"
    /\ \A w \in Recoverers : target[w] # Nobody => pc[target[w]] = "done"
Calm == LeaseHeld /\ OrphansOnly

-----------------------------------------------------------------------------
Txs == [state : TxStates \cup {"none"}, status : TxStatuses \cup {"none"}]
Points == [kind : {"none", "config", "full", "lost"}, image : Images]

\* The type invariant in the parts that steps change.
JobsTyped == job \in [Jobs -> JobStates \cup {"none"}]
TxsTyped == tx \in [Updates -> Txs]
PointsTyped == point \in [Updates -> Points]
VerdictsTyped == verdict \in [Actors -> FinalJob \cup {"none"}]
StagesTyped ==
    /\ pc \in [Actors -> UpdateStages \cup RollbackStages \cup RecoveryStages]
    /\ \A u \in Updates : pc[u] \in UpdateStages
    /\ \A r \in Rollbacks : pc[r] \in RollbackStages
    /\ \A w \in Recoverers : pc[w] \in RecoveryStages
ContainerTyped ==
    /\ lease \in Jobs \cup {Cleanup, Nobody} /\ gate \in Actors \cup {Nobody}
    /\ runtime \in Images /\ worker \in Updates \cup {Nobody} /\ mutated \subseteq Updates
ProcessTyped ==
    /\ up \in BOOLEAN /\ scanned \in BOOLEAN /\ cleaning \in BOOLEAN
    /\ seen \in [Updates -> TxStates \cup {"none"}]
    /\ ctx \in [Jobs -> {"live", "dead"}]
    /\ cancelling \subseteq Updates
WorkTyped ==
    /\ target \in [Recoverers -> Updates \cup {Nobody}]
    /\ parent \in [Rollbacks -> Updates \cup Recoverers \cup {Nobody}]
    /\ source \in [Rollbacks -> Updates \cup {Nobody}]
BoundsTyped ==
    /\ faults \in Scenarios
    /\ crashes \in 0..faults.crashes /\ lost \in 0..faults.lostWrites

Typed ==
    /\ JobsTyped /\ TxsTyped /\ PointsTyped /\ VerdictsTyped /\ StagesTyped
    /\ ContainerTyped /\ ProcessTyped /\ WorkTyped /\ BoundsTyped

\* The parts are the type invariant.
LEMMA TypeParts == Typed <=> TypeOK
BY Zenon DEF Typed, TypeOK, JobsTyped, TxsTyped, Txs, PointsTyped, Points, VerdictsTyped,
   StagesTyped, ContainerTyped, ProcessTyped, WorkTyped, BoundsTyped

\* What all steps preserve but the lease.
Told == Typed /\ Partners /\ \A u \in Updates : Recorded(u)
RowsInv == Told /\ OwnershipInv /\ (faults.crashes = 0 => Calm)

\* Nothing of an update changes.
SameRow(u) ==
    /\ pc'[u] = pc[u] /\ job'[u] = job[u] /\ tx'[u] = tx[u] /\ point'[u] = point[u]
    /\ verdict'[u] = verdict[u] /\ (u \in mutated' <=> u \in mutated)
    /\ (u \in cancelling' <=> u \in cancelling)
    /\ UNCHANGED <<up, seen, target>>
\* Its record then stays true.
LEMMA RowStays == ASSUME NEW u, Recorded(u), SameRow(u) PROVE Recorded(u)'
BY DEF Recorded, SameRow, Unknown

\* How a step writes a row of one update, or leaves it.
JobWritten(j) == job' = job \/ \E s \in JobStates \cup {"none"} : job' = [job EXCEPT ![j] = s]
TxWritten(u) == tx' = tx \/ \E t \in Txs : tx' = [tx EXCEPT ![u] = t]
PointWritten(u) == point' = point \/ \E p \in Points : point' = [point EXCEPT ![u] = p]
VerdictGiven(a) ==
    verdict' = verdict \/ \E v \in FinalJob \cup {"none"} : verdict' = [verdict EXCEPT ![a] = v]

\* One row of each kind at most is written, the others stay.
LEMMA OneRow ==
    ASSUME Told, NEW u \in Updates, NEW a \in Actors, NEW j \in Jobs,
           JobWritten(j), TxWritten(u), PointWritten(u), VerdictGiven(a)
    PROVE  /\ JobsTyped' /\ TxsTyped' /\ PointsTyped' /\ VerdictsTyped'
           /\ \A k \in Jobs \ {j} : job'[k] = job[k]
           /\ \A v \in Updates \ {u} : tx'[v] = tx[v] /\ point'[v] = point[v]
           /\ \A b \in Actors \ {a} : verdict'[b] = verdict[b]
<1> USE DEF Told, Typed
<1>1. JobsTyped' /\ \A k \in Jobs \ {j} : job'[k] = job[k]
    BY DEF JobWritten, JobsTyped
<1>2. TxsTyped' /\ \A v \in Updates \ {u} : tx'[v] = tx[v]
    BY DEF TxWritten, TxsTyped
<1>3. PointsTyped' /\ \A v \in Updates \ {u} : point'[v] = point[v]
    BY DEF PointWritten, PointsTyped
<1>4. VerdictsTyped' /\ \A b \in Actors \ {a} : verdict'[b] = verdict[b]
    BY DEF VerdictGiven, VerdictsTyped
<1> QED BY <1>1, <1>2, <1>3, <1>4

\* A step of a pipeline.
LEMMA OwnStep ==
    ASSUME Told, NEW u \in Updates, NEW to \in UpdateStages, pc' = [pc EXCEPT ![u] = to],
           JobWritten(u), TxWritten(u), PointWritten(u), VerdictGiven(u), Recorded(u)',
           ContainerTyped', mutated' \ {u} = mutated \ {u},
           WorkTyped', lost' \in 0 .. faults.lostWrites,
           UNCHANGED <<boot, target, source, cancelling, cleaning, ctx, faults, crashes>>
    PROVE  Told'
<1> USE ActorsDistinct DEF Told, Typed
<1>1. u \in Actors /\ u \in Jobs
    BY DEF Actors, Jobs
<1>2. /\ JobsTyped' /\ TxsTyped' /\ PointsTyped' /\ VerdictsTyped'
      /\ \A k \in Jobs \ {u} : job'[k] = job[k]
      /\ \A v \in Updates \ {u} : tx'[v] = tx[v] /\ point'[v] = point[v]
      /\ \A b \in Actors \ {u} : verdict'[b] = verdict[b]
    BY <1>1, OneRow
<1>3. StagesTyped' /\ \A b \in Actors \ {u} : pc'[b] = pc[b]
    BY <1>1 DEF StagesTyped
<1>4. ProcessTyped' /\ BoundsTyped'
    BY DEF ProcessTyped, BoundsTyped, boot
<1>5. Partners'
    BY <1>2, <1>3 DEF Partners
<1>6. ASSUME NEW v \in Updates PROVE Recorded(v)'
  <2>1. CASE v = u
    BY <2>1
  <2>2. CASE v # u
    <3>1. SameRow(v)
        BY <1>1, <1>2, <1>3, <2>2 DEF SameRow, boot, Actors, Jobs
    <3> QED BY <3>1, RowStays
  <2> QED BY <2>1, <2>2
<1> QED BY <1>2, <1>3, <1>4, <1>5, <1>6

\* What the operators of the model write.
LEMMA Writes ==
    ASSUME Typed, NEW u \in Actors
    PROVE  /\ job' = job => JobWritten(u)
           /\ tx' = tx => TxWritten(u)
           /\ point' = point => PointWritten(u)
           /\ verdict' = verdict => VerdictGiven(u)
           /\ UNCHANGED <<target, children>> => WorkTyped'
           /\ \A s \in JobStates \cup {"none"} : SetJob(u, s) => JobWritten(u)
           /\ \A state \in TxStates, status \in TxStatuses :
                 SetTx(u, state, status) \/ SetTxIfLive(u, state, status) => TxWritten(u)
           /\ u \in Updates => \A status \in TxStatuses : SetStatus(u, status) => TxWritten(u)
           /\ \A v \in FinalJob : SettleAs(u, v) => VerdictGiven(u) /\ Goto(u, "settle")
           /\ \A v \in FinalJob : verdict' = [verdict EXCEPT ![u] = v] => VerdictGiven(u)
<1>1. \A s \in JobStates \cup {"none"} : SetJob(u, s) => JobWritten(u)
    BY DEF SetJob, JobWritten
<1>2. \A state \in TxStates, status \in TxStatuses : [state |-> state, status |-> status] \in Txs
    BY DEF Txs
<1>3. \A state \in TxStates, status \in TxStatuses :
          SetTx(u, state, status) \/ SetTxIfLive(u, state, status) => TxWritten(u)
    BY <1>2, Zenon DEF SetTx, SetTxIfLive, TxWritten
<1>4. ASSUME u \in Updates, NEW status \in TxStatuses, SetStatus(u, status) PROVE TxWritten(u)
  <2>1. [tx[u] EXCEPT !.status = status] \in Txs
    BY <1>4 DEF Typed, TxsTyped, Txs
  <2>2. tx' = [tx EXCEPT ![u] = [tx[u] EXCEPT !.status = status]]
    BY <1>4 DEF SetStatus
  <2> QED BY <2>1, <2>2 DEF TxWritten
<1>5. /\ \A v \in FinalJob : SettleAs(u, v) => VerdictGiven(u) /\ Goto(u, "settle")
      /\ \A v \in FinalJob : verdict' = [verdict EXCEPT ![u] = v] => VerdictGiven(u)
    BY DEF SettleAs, VerdictGiven
<1>6. UNCHANGED <<target, children>> => WorkTyped'
    BY DEF Typed, WorkTyped, children
<1> QED BY <1>1, <1>3, <1>4, <1>5, <1>6 DEF JobWritten, TxWritten, PointWritten, VerdictGiven

\* What the others may do to the rows of an update.
Outside(u) ==
    /\ pc'[u] = pc[u] /\ verdict'[u] = verdict[u] /\ (u \in mutated' => u \in mutated)
    /\ point'[u].kind = "none" => point[u].kind = "none"
    /\ ~up' => ~up
    /\ pc[u] \in BeforeClaim => Unknown(u)'
    /\ \/ pc[u] \notin BeforeCall /\ u \notin mutated
       \/ /\ job'[u] = job[u] \/ job'[u] \notin {"queued", "cancelled"}
          /\ tx'[u].state = tx[u].state \/ tx'[u].state \in Touched

\* The record of the update stays true.
LEMMA OutsideTells == ASSUME NEW u, Recorded(u), Outside(u) PROVE Recorded(u)'
BY DEF Recorded, Outside, BeforeCall, BeforeClaim, HasPoint

\* A step of a rollback or a recoverer a, about the job j and the update u.
LEMMA HelperStep ==
    ASSUME Told, NEW a \in Rollbacks \cup Recoverers, NEW u \in Updates, NEW j \in Jobs,
           NEW to, pc' = [pc EXCEPT ![a] = to],
           a \in Rollbacks => to \in RollbackStages, a \in Recoverers => to \in RecoveryStages,
           j \in Rollbacks \/ j = u,
           JobWritten(j), TxWritten(u), PointWritten(u), VerdictGiven(a), Outside(u),
           ContainerTyped', WorkTyped', Partners',
           cancelling' \subseteq cancelling, seen' \in [Updates -> TxStates \cup {"none"}],
           \A v \in Updates : seen'[v] \in {seen[v], "none"},
           \A w \in Recoverers : target'[w] \in {target[w], u, Nobody},
           UNCHANGED <<up, scanned, mutated, cleaning, bounds>>,
           ctx' \in [Jobs -> {"live", "dead"}]
    PROVE  Told'
<1> USE ActorsDistinct DEF Told, Typed
<1>1. a \in Actors /\ a \notin Updates /\ j \notin Updates \ {u} /\ Updates \subseteq Jobs
    BY DEF Jobs
<1>2. /\ JobsTyped' /\ TxsTyped' /\ PointsTyped' /\ VerdictsTyped'
      /\ \A k \in Jobs \ {j} : job'[k] = job[k]
      /\ \A v \in Updates \ {u} : tx'[v] = tx[v] /\ point'[v] = point[v]
      /\ \A b \in Actors \ {a} : verdict'[b] = verdict[b]
    BY <1>1, OneRow
<1>3. StagesTyped' /\ \A b \in Actors \ {a} : pc'[b] = pc[b]
    BY <1>1 DEF StagesTyped
<1>4. ProcessTyped' /\ BoundsTyped'
    BY DEF ProcessTyped, BoundsTyped, bounds
<1>5. ASSUME NEW v \in Updates, v # u PROVE Outside(v)
  <2>1. /\ pc'[v] = pc[v] /\ verdict'[v] = verdict[v] /\ point'[v] = point[v] /\ job'[v] = job[v]
        /\ tx'[v] = tx[v] /\ seen'[v] \in {seen[v], "none"}
    BY <1>1, <1>2, <1>3, <1>5
  <2>2. Unknown(v) => Unknown(v)'
    BY <1>5, <2>1 DEF Unknown
  <2> QED BY <2>1, <2>2 DEF Outside, Recorded
<1>6. \A v \in Updates : Recorded(v)'
    BY <1>5, OutsideTells
<1> QED BY <1>2, <1>3, <1>4, <1>6

\* A step that touches no stage, no verdict and none of the rows.
LEMMA OtherStep ==
    ASSUME Told, JobsTyped', ContainerTyped', ProcessTyped', PointsTyped',
           \A u \in Updates : Outside(u),
           UNCHANGED <<tx, pc, verdict, target, children, faults, crashes, lost>>
    PROVE  Told'
<1>1. /\ TxsTyped' /\ VerdictsTyped' /\ StagesTyped' /\ WorkTyped' /\ BoundsTyped'
    BY DEF Told, Typed, TxsTyped, VerdictsTyped, StagesTyped, WorkTyped, BoundsTyped, children
<1>2. Partners'
    BY DEF Told, Partners, children
<1>3. \A u \in Updates : Recorded(u)'
    BY OutsideTells DEF Told
<1> QED BY <1>1, <1>2, <1>3 DEF Told, Typed

\* The pipeline up to its commit: the transaction says so before the worker is called.
LEMMA PreparationTells ==
    ASSUME Told, NEW u \in Updates,
           \/ AdmitUpdate(u) \/ EnqueueUpdate(u) \/ ClaimUpdate(u) \/ CancelSafely(u)
           \/ ContextLost(u) \/ EnterGate(u) \/ AcquireLease(u) \/ LeaseConflict(u)
           \/ CreateTransaction(u) \/ StartPreflight(u) \/ TakeSnapshot(u)
           \/ CaptureRestorePoint(u) \/ Block(u) \/ Prepare(u) \/ PreparationFails(u)
           \/ OpenWindow(u) \/ Commit(u) \/ RecordCommit(u)
    PROVE  Told'
<1> USE DEF control, children, boot, bounds, docker, records, Goto
<1>1. /\ tx \in [Updates -> Txs] /\ job \in [Jobs -> JobStates \cup {"none"}]
      /\ point \in [Updates -> Points] /\ verdict \in [Actors -> FinalJob \cup {"none"}]
      /\ DOMAIN pc = Actors /\ u \in Jobs /\ u \in Actors /\ Recorded(u)
      /\ runtime \in Images /\ Typed /\ BoundsTyped /\ ContainerTyped
    BY DEF Told, Typed, TxsTyped, JobsTyped, PointsTyped, VerdictsTyped, StagesTyped,
       ContainerTyped, Jobs, Actors
<1>2. CASE AdmitUpdate(u)
  <2>1. Recorded(u)'
    BY <1>1, <1>2 DEF Recorded, Unknown, BeforeClaim, BeforeCall, HasPoint,
       AdmitUpdate, SetJob, SetTx, SettleAs
  <2> QED
    BY <1>1, <1>2, <2>1, OwnStep, Writes
    DEF AdmitUpdate, UpdateStages, PreMutation, ContainerTyped, BoundsTyped
<1>3. CASE EnqueueUpdate(u)
  <2>1. Recorded(u)'
    BY <1>1, <1>3 DEF Recorded, Unknown, BeforeClaim, BeforeCall, HasPoint,
       EnqueueUpdate, SetJob, SetTx, SettleAs
  <2> QED
    BY <1>1, <1>3, <2>1, OwnStep, Writes
    DEF EnqueueUpdate, UpdateStages, PreMutation, ContainerTyped, BoundsTyped, JobStates,
        ActiveJob
<1>4. CASE ClaimUpdate(u)
  <2>1. Recorded(u)'
    BY <1>1, <1>4 DEF Recorded, Unknown, BeforeClaim, BeforeCall, HasPoint,
       ClaimUpdate, SetJob, SetTx, SettleAs
  <2> QED
    BY <1>1, <1>4, <2>1, OwnStep, Writes
    DEF ClaimUpdate, UpdateStages, PreMutation, ContainerTyped, BoundsTyped, JobStates, ActiveJob
<1>5. CASE CancelSafely(u)
  <2>1. Recorded(u)'
    BY <1>1, <1>5 DEF Recorded, Unknown, BeforeClaim, BeforeCall, HasPoint,
       CancelSafely, SetJob, SetTx, SettleAs, PreMutation, BeforeNet
  <2> QED
    BY <1>1, <1>5, <2>1, OwnStep, Writes
    DEF CancelSafely, UpdateStages, PreMutation, ContainerTyped, BoundsTyped, TxStates, Terminal,
        TxStatuses, FinalJob
<1>6. CASE ContextLost(u)
  <2>1. Recorded(u)'
    BY <1>1, <1>6 DEF Recorded, Unknown, BeforeClaim, BeforeCall, HasPoint,
       ContextLost, SetJob, SetTx, SettleAs, BeforeNet
  <2> QED
    BY <1>1, <1>6, <2>1, OwnStep, Writes
    DEF ContextLost, UpdateStages, PreMutation, ContainerTyped, BoundsTyped, FinalJob
<1>7. CASE EnterGate(u)
  <2>1. Recorded(u)'
    BY <1>1, <1>7 DEF Recorded, Unknown, BeforeClaim, BeforeCall, HasPoint,
       EnterGate, SetJob, SetTx, SettleAs
  <2> QED
    BY <1>1, <1>7, <2>1, OwnStep, Writes
    DEF EnterGate, UpdateStages, PreMutation, ContainerTyped, BoundsTyped
<1>8. CASE AcquireLease(u)
  <2>1. Recorded(u)'
    BY <1>1, <1>8 DEF Recorded, Unknown, BeforeClaim, BeforeCall, HasPoint,
       AcquireLease, SetJob, SetTx, SettleAs
  <2> QED
    BY <1>1, <1>8, <2>1, OwnStep, Writes
    DEF AcquireLease, UpdateStages, PreMutation, ContainerTyped, BoundsTyped
<1>9. CASE LeaseConflict(u)
  <2>1. Recorded(u)'
    BY <1>1, <1>9 DEF Recorded, Unknown, BeforeClaim, BeforeCall, HasPoint,
       LeaseConflict, SetJob, SetTx, SettleAs
  <2> QED
    BY <1>1, <1>9, <2>1, OwnStep, Writes
    DEF LeaseConflict, UpdateStages, PreMutation, ContainerTyped, BoundsTyped, FinalJob
<1>10. CASE CreateTransaction(u)
  <2>1. Recorded(u)'
    BY <1>1, <1>10 DEF Recorded, Unknown, BeforeClaim, BeforeCall, HasPoint,
       CreateTransaction, SetJob, SetTx, SettleAs
  <2> QED
    BY <1>1, <1>10, <2>1, OwnStep, Writes
    DEF CreateTransaction, UpdateStages, PreMutation, ContainerTyped, BoundsTyped, TxStates,
        TxStatuses, ActiveTxStatus
<1>11. CASE StartPreflight(u)
  <2>1. Recorded(u)'
    BY <1>1, <1>11 DEF Recorded, Unknown, BeforeClaim, BeforeCall, HasPoint,
       StartPreflight, SetJob, SetTx, SettleAs, Advance
  <2> QED
    BY <1>1, <1>11, <2>1, OwnStep, Writes
    DEF StartPreflight, UpdateStages, PreMutation, ContainerTyped, BoundsTyped, Advance,
        TxStates, TxStatuses, ActiveTxStatus
<1>12. CASE TakeSnapshot(u)
  <2>1. Recorded(u)'
    BY <1>1, <1>12 DEF Recorded, Unknown, BeforeClaim, BeforeCall, HasPoint,
       TakeSnapshot, SetJob, SetTx, SettleAs, Advance
  <2> QED
    BY <1>1, <1>12, <2>1, OwnStep, Writes
    DEF TakeSnapshot, UpdateStages, PreMutation, ContainerTyped, BoundsTyped, Advance, TxStates,
        TxStatuses, ActiveTxStatus
<1>13. CASE CaptureRestorePoint(u)
  <2>1. Recorded(u)'
    BY <1>1, <1>13 DEF Recorded, Unknown, BeforeClaim, BeforeCall, HasPoint,
       CaptureRestorePoint, SetJob, SetTx, SettleAs, Advance, Points
  <2> QED
    BY <1>1, <1>13, <2>1, OwnStep, Writes
    DEF CaptureRestorePoint, UpdateStages, PreMutation, ContainerTyped, BoundsTyped,
        PointWritten, Points, Advance, TxStates, TxStatuses, ActiveTxStatus
<1>14. CASE Block(u)
  <2>1. Recorded(u)'
    BY <1>1, <1>14 DEF Recorded, Unknown, BeforeClaim, BeforeCall, HasPoint,
       Block, SetJob, SetTx, SettleAs, SetTxIfLive
  <2> QED
    BY <1>1, <1>14, <2>1, OwnStep, Writes
    DEF Block, UpdateStages, PreMutation, ContainerTyped, BoundsTyped, SetTxIfLive, FinalJob,
        TxStates, Terminal, TxStatuses
<1>15. CASE Prepare(u)
  <2>1. Recorded(u)'
    BY <1>1, <1>15 DEF Recorded, Unknown, BeforeClaim, BeforeCall, HasPoint,
       Prepare, SetJob, SetTx, SettleAs, Advance
  <2> QED
    BY <1>1, <1>15, <2>1, OwnStep, Writes
    DEF Prepare, UpdateStages, PreMutation, ContainerTyped, BoundsTyped, Advance, TxStates,
        TxStatuses, ActiveTxStatus
<1>16. CASE PreparationFails(u)
  <2>1. Recorded(u)'
    BY <1>1, <1>16 DEF Recorded, Unknown, BeforeClaim, BeforeCall, HasPoint,
       PreparationFails, SetJob, SetTx, SettleAs, SetTxIfLive
  <2> QED
    BY <1>1, <1>16, <2>1, OwnStep, Writes
    DEF PreparationFails, UpdateStages, PreMutation, ContainerTyped, BoundsTyped, FinalJob,
        TxStates, Terminal, TxStatuses
<1>17. CASE OpenWindow(u)
  <2>1. Recorded(u)'
    BY <1>1, <1>17 DEF Recorded, Unknown, BeforeClaim, BeforeCall, HasPoint,
       OpenWindow, SetJob, SetTx, SettleAs
  <2> QED
    BY <1>1, <1>17, <2>1, OwnStep, Writes
    DEF OpenWindow, UpdateStages, PreMutation, ContainerTyped, BoundsTyped
<1>18. CASE Commit(u)
  <2>1. Recorded(u)'
    BY <1>1, <1>18 DEF Recorded, Unknown, BeforeClaim, BeforeCall, HasPoint,
       Commit, SetJob, SetTx, SettleAs, Touched, PostMutation
  <2> QED
    BY <1>1, <1>18, <2>1, OwnStep, Writes
    DEF Commit, UpdateStages, PreMutation, ContainerTyped, BoundsTyped, PostMutation, TxStates,
        TxStatuses, ActiveTxStatus
<1>19. CASE RecordCommit(u)
  <2>1. Recorded(u)'
    BY <1>1, <1>19 DEF Recorded, Unknown, BeforeClaim, BeforeCall, HasPoint,
       RecordCommit, SetJob, SetTx, SettleAs
  <2> QED
    BY <1>1, <1>19, <2>1, OwnStep, Writes
    DEF RecordCommit, UpdateStages, PreMutation, ContainerTyped, BoundsTyped
<1> QED BY <1>2, <1>3, <1>4, <1>5, <1>6, <1>7, <1>8, <1>9, <1>10, <1>11, <1>12, <1>13, <1>14,
    <1>15, <1>16, <1>17, <1>18, <1>19

\* The pipeline from the worker call on, and how it settles.
LEMMA MutationTells ==
    ASSUME Told, NEW u \in Updates,
           \/ CallWorker(u) \/ WorkerReturns(u) \/ WorkerFails(u) \/ CorrectImage(u)
           \/ ConfirmImage(u) \/ TargetNotApplied(u) \/ WrongImage(u) \/ FailStage(u)
           \/ FinishUpdate(u) \/ NoRollback(u) \/ RollbackUnavailable(u) \/ SettleUpdate(u)
           \/ LoseSettle(u) \/ EnsureTerminal(u) \/ Leave(u)
    PROVE  Told'
<1> USE DEF control, children, boot, bounds, docker, records, Goto
<1>1. /\ tx \in [Updates -> Txs] /\ job \in [Jobs -> JobStates \cup {"none"}]
      /\ point \in [Updates -> Points] /\ verdict \in [Actors -> FinalJob \cup {"none"}]
      /\ DOMAIN pc = Actors /\ u \in Jobs /\ u \in Actors /\ Recorded(u)
      /\ runtime \in Images /\ Typed /\ BoundsTyped /\ ContainerTyped
    BY DEF Told, Typed, TxsTyped, JobsTyped, PointsTyped, VerdictsTyped, StagesTyped,
       ContainerTyped, Jobs, Actors
<1>2. CASE CallWorker(u)
  <2>1. Recorded(u)'
    BY <1>1, <1>2 DEF Recorded, Unknown, BeforeClaim, BeforeCall, HasPoint,
       CallWorker, SetJob, SetTx, SettleAs, Touched, PostMutation, PreMutation
  <2> QED
    BY <1>1, <1>2, <2>1, OwnStep, Writes
    DEF CallWorker, UpdateStages, PreMutation, ContainerTyped, BoundsTyped
<1>3. CASE WorkerReturns(u)
  <2>1. Recorded(u)'
    BY <1>1, <1>3 DEF Recorded, Unknown, BeforeClaim, BeforeCall, HasPoint,
       WorkerReturns, SetJob, SetTx, SettleAs, Advance, Touched, PostMutation
  <2> QED
    BY <1>1, <1>3, <2>1, OwnStep, Writes
    DEF WorkerReturns, UpdateStages, PreMutation, ContainerTyped, BoundsTyped, Advance, TxStates,
        PostMutation, TxStatuses, ActiveTxStatus
<1>4. CASE WorkerFails(u)
  <2>1. Recorded(u)'
    BY <1>1, <1>4 DEF Recorded, Unknown, BeforeClaim, BeforeCall, HasPoint,
       WorkerFails, SetJob, SetTx, SettleAs
  <2> QED
    BY <1>1, <1>4, <2>1, OwnStep, Writes
    DEF WorkerFails, UpdateStages, PreMutation, ContainerTyped, BoundsTyped
<1>5. CASE CorrectImage(u)
  <2>1. Recorded(u)'
    BY <1>1, <1>5 DEF Recorded, Unknown, BeforeClaim, BeforeCall, HasPoint,
       CorrectImage, SetJob, SetTx, SettleAs
  <2> QED
    BY <1>1, <1>5, <2>1, OwnStep, Writes
    DEF CorrectImage, UpdateStages, PreMutation, ContainerTyped, BoundsTyped, Images
<1>6. CASE ConfirmImage(u)
  <2>1. Recorded(u)'
    BY <1>1, <1>6 DEF Recorded, Unknown, BeforeClaim, BeforeCall, HasPoint,
       ConfirmImage, SetJob, SetTx, SettleAs, Advance, Touched, PostMutation
  <2> QED
    BY <1>1, <1>6, <2>1, OwnStep, Writes
    DEF ConfirmImage, UpdateStages, PreMutation, ContainerTyped, BoundsTyped, Advance, TxStates,
        PostMutation, TxStatuses, ActiveTxStatus
<1>7. CASE TargetNotApplied(u)
  <2>1. Recorded(u)'
    BY <1>1, <1>7 DEF Recorded, Unknown, BeforeClaim, BeforeCall, HasPoint,
       TargetNotApplied, SetJob, SetTx, SettleAs, Touched
  <2> QED
    BY <1>1, <1>7, <2>1, OwnStep, Writes
    DEF TargetNotApplied, UpdateStages, PreMutation, ContainerTyped, BoundsTyped, FinalJob,
        TxStates, Terminal, TxStatuses
<1>8. CASE WrongImage(u)
  <2>1. Recorded(u)'
    BY <1>1, <1>8 DEF Recorded, Unknown, BeforeClaim, BeforeCall, HasPoint,
       WrongImage, SetJob, SetTx, SettleAs
  <2> QED
    BY <1>1, <1>8, <2>1, OwnStep, Writes
    DEF WrongImage, UpdateStages, PreMutation, ContainerTyped, BoundsTyped
<1>9. CASE FailStage(u)
  <2>1. Recorded(u)'
    BY <1>1, <1>9 DEF Recorded, Unknown, BeforeClaim, BeforeCall, HasPoint,
       FailStage, SetJob, SetTx, SettleAs, NextStage
  <2> QED
    BY <1>1, <1>9, <2>1, OwnStep, Writes
    DEF FailStage, UpdateStages, PreMutation, ContainerTyped, BoundsTyped
<1>10. CASE FinishUpdate(u)
  <2>1. Recorded(u)'
    BY <1>1, <1>10 DEF Recorded, Unknown, BeforeClaim, BeforeCall, HasPoint,
       FinishUpdate, SetJob, SetTx, SettleAs, SetTxIfLive, Touched
  <2> QED
    BY <1>1, <1>10, <2>1, OwnStep, Writes
    DEF FinishUpdate, UpdateStages, PreMutation, ContainerTyped, BoundsTyped, FinalJob, TxStates,
        Terminal, TxStatuses
<1>11. CASE NoRollback(u)
  <2>1. Recorded(u)'
    BY <1>1, <1>11 DEF Recorded, Unknown, BeforeClaim, BeforeCall, HasPoint,
       NoRollback, SetJob, SetTx, SettleAs, SetTxIfLive, Touched
  <2> QED
    BY <1>1, <1>11, <2>1, OwnStep, Writes
    DEF NoRollback, UpdateStages, PreMutation, ContainerTyped, BoundsTyped, FinalJob, TxStates,
        Terminal, TxStatuses
<1>12. CASE RollbackUnavailable(u)
  <2>1. tx'[u].state \in {tx[u].state, "recovery_required"}
    <3>1. CASE SetTx(u, "recovery_required", "recovery_required")
        BY <1>1, <3>1 DEF SetTx
    <3>2. CASE SetStatus(u, "recovery_required")
        BY <1>1, <3>2 DEF SetStatus, Txs
    <3> QED BY <1>12, <3>1, <3>2 DEF RollbackUnavailable, RequireRecovery
  <2>2. Recorded(u)'
    BY <1>1, <1>12, <2>1
    DEF Recorded, Unknown, BeforeClaim, BeforeCall, HasPoint, Touched, PostMutation,
       RollbackUnavailable, RequireRecovery, SettleAs
  <2>3. TxWritten(u) /\ VerdictGiven(u) /\ Goto(u, "settle")
    BY <1>1, <1>12, Writes
    DEF RollbackUnavailable, RequireRecovery, FinalJob, TxStates, PostMutation, TxStatuses,
        ActiveTxStatus
  <2>4. UNCHANGED <<job, point, lease, docker, control, children, ctx, cancelling>>
    BY <1>12 DEF RollbackUnavailable, RequireRecovery
  <2> QED
    BY <1>1, <2>2, <2>3, <2>4, OwnStep, Writes DEF UpdateStages, ContainerTyped, BoundsTyped
<1>13. CASE SettleUpdate(u)
  <2>1. Recorded(u)'
    BY <1>1, <1>13 DEF Recorded, Unknown, BeforeClaim, BeforeCall, HasPoint,
       SettleUpdate, SetJob, SetTx, SettleAs, FinalJob
  <2> QED
    BY <1>1, <1>13, <2>1, OwnStep, Writes
    DEF SettleUpdate, UpdateStages, PreMutation, ContainerTyped, BoundsTyped, FinalJob, JobStates
<1>14. CASE LoseSettle(u)
  <2>1. PICK to \in {"ensure", "leave"} : Goto(u, to)
    BY <1>14 DEF LoseSettle
  <2>2. lost' \in 0 .. faults.lostWrites
    BY <1>1, <1>14, ScenariosAssumption DEF LoseSettle, BoundsTyped
  <2>3. Recorded(u)'
    BY <1>1, <1>14, <2>1 DEF Recorded, Unknown, BeforeClaim, BeforeCall, HasPoint, LoseSettle
  <2> QED
    BY <1>1, <1>14, <2>1, <2>2, <2>3, OwnStep, Writes DEF LoseSettle, UpdateStages, ContainerTyped
<1>15. CASE EnsureTerminal(u)
  <2>1. Goto(u, "leave") /\ pc[u] = "ensure"
        /\ UNCHANGED <<point, lease, docker, control, children, verdict, ctx, cancelling>>
    BY <1>15 DEF EnsureTerminal
  <2>2. CASE job[u] \in FinalJob /\ UNCHANGED <<job, tx>>
    <3>1. Recorded(u)'
        BY <1>1, <2>1, <2>2 DEF Recorded, Unknown, BeforeClaim, BeforeCall, HasPoint
    <3> QED BY <1>1, <2>1, <2>2, <3>1, OwnStep, Writes DEF UpdateStages, ContainerTyped,
        BoundsTyped
  <2>3. CASE /\ job[u] \in ActiveJob /\ tx[u].state \in Terminal
             /\ SetJob(u, terminalJobStateForTransaction(tx[u].state)) /\ UNCHANGED tx
    <3>1. PICK s \in FinalJob : SetJob(u, s) /\ (s = "cancelled" => tx[u].state = "cancelled")
        BY <2>3 DEF terminalJobStateForTransaction, FinalJob, Terminal
    <3>2. Recorded(u)'
        BY <1>1, <2>1, <2>3, <3>1
        DEF Recorded, Unknown, BeforeClaim, BeforeCall, HasPoint, SetJob, FinalJob, Touched,
            PostMutation
    <3>3. JobWritten(u) /\ TxWritten(u)
        BY <1>1, <2>3, <3>1, Writes DEF JobStates
    <3> QED BY <1>1, <2>1, <3>2, <3>3, OwnStep, Writes DEF UpdateStages, ContainerTyped,
        BoundsTyped
  <2>4. CASE /\ job[u] \in ActiveJob /\ tx[u].state \in PreMutation
             /\ LET outcome == IF Cancelled(u) THEN "cancelled" ELSE "failed"
                IN  SetTx(u, outcome, outcome) /\ SetJob(u, outcome)
    <3>1. PICK s \in {"cancelled", "failed"} : SetTx(u, s, s) /\ SetJob(u, s)
        BY <2>4
    <3>2. u \notin mutated
        BY <1>1, <2>4 DEF Recorded, Touched, PreMutation, PostMutation
    <3>3. Recorded(u)'
        BY <1>1, <2>1, <3>1, <3>2 DEF Recorded, Unknown, BeforeClaim, BeforeCall, HasPoint
    <3>4. JobWritten(u) /\ TxWritten(u)
        BY <1>1, <3>1, Writes DEF JobStates, FinalJob, TxStates, Terminal, TxStatuses
    <3> QED BY <1>1, <2>1, <3>3, <3>4, OwnStep, Writes DEF UpdateStages, ContainerTyped,
        BoundsTyped
  <2>5. CASE /\ job[u] \in ActiveJob /\ tx[u].state \in PostMutation
             /\ SetStatus(u, "recovery_required") /\ SetJob(u, "failed")
    <3>1. Recorded(u)'
        BY <1>1, <2>1, <2>5
        DEF Recorded, Unknown, BeforeClaim, BeforeCall, HasPoint, SetStatus, SetJob, Touched
    <3>2. JobWritten(u) /\ TxWritten(u)
        BY <1>1, <2>5, Writes DEF JobStates, FinalJob, TxStatuses, ActiveTxStatus
    <3> QED BY <1>1, <2>1, <3>1, <3>2, OwnStep, Writes DEF UpdateStages, ContainerTyped,
        BoundsTyped
  <2> QED BY <1>15, <2>2, <2>3, <2>4, <2>5 DEF EnsureTerminal
<1>16. CASE Leave(u)
  <2>1. Recorded(u)'
    BY <1>1, <1>16 DEF Recorded, Unknown, BeforeClaim, BeforeCall, HasPoint, Leave
  <2>2. ContainerTyped'
    BY <1>1, <1>16 DEF ContainerTyped, Leave
  <2> QED
    BY <1>1, <1>16, <2>1, <2>2, OwnStep, Writes DEF Leave, UpdateStages, BoundsTyped
<1> QED BY <1>2, <1>3, <1>4, <1>5, <1>6, <1>7, <1>8, <1>9, <1>10, <1>11, <1>12, <1>13, <1>14,
    <1>15, <1>16

\* The stages passed, the deadline, cancels from outside and the rollback a pipeline waits for.
LEMMA SettlementTells ==
    ASSUME Told, NEW u \in Updates,
           \/ PassStage(u) \/ Deadline(u) \/ CancelQueued(u) \/ RequestCancel(u) \/ SignalCancel(u)
           \/ \E r \in Rollbacks : AutoRollback(u, r) \/ RolledBack(u, r) \/ RollbackFailed(u, r)
    PROVE  Told'
<1> USE DEF control, children, boot, bounds, docker, records, Goto
<1>1. /\ tx \in [Updates -> Txs] /\ job \in [Jobs -> JobStates \cup {"none"}]
      /\ point \in [Updates -> Points] /\ verdict \in [Actors -> FinalJob \cup {"none"}]
      /\ DOMAIN pc = Actors /\ Typed /\ BoundsTyped /\ ContainerTyped /\ ProcessTyped
      /\ u \in Jobs /\ u \in Actors /\ Updates \subseteq Jobs /\ Updates \subseteq Actors
      /\ Partners /\ \A v \in Updates : Recorded(v)
    BY DEF Told, Typed, TxsTyped, JobsTyped, PointsTyped, VerdictsTyped, StagesTyped, Jobs, Actors
<1>2. CASE PassStage(u)
  <2>1. pc[u] \in {"docker_health", "dependencies", "verifying"}
        /\ UNCHANGED <<job, point, lease, docker, control, children, verdict, ctx, cancelling>>
    BY <1>2 DEF PassStage, NextStage
  <2>2. PICK next \in NextStage[pc[u]] : SetTxIfLive(u, next, "running") /\ Goto(u, next)
    BY <1>2 DEF PassStage
  <2>3. next \in {"dependencies", "verifying", "refreshing"}
    BY <2>1, <2>2 DEF NextStage
  <2>4. tx'[u].state \in {tx[u].state, next}
    BY <1>1, <2>2 DEF SetTxIfLive, SetTx
  <2>5. Recorded(u)'
    BY <1>1, <2>1, <2>2, <2>3, <2>4
    DEF Recorded, Unknown, BeforeClaim, BeforeCall, HasPoint, Touched, PostMutation
  <2>6. TxWritten(u)
    BY <1>1, <2>2, <2>3, Writes DEF TxStates, PostMutation, TxStatuses, ActiveTxStatus
  <2> QED
    BY <1>1, <2>1, <2>2, <2>3, <2>5, <2>6, OwnStep, Writes
    DEF UpdateStages, ContainerTyped, BoundsTyped
<1>3. CASE Deadline(u) \/ SignalCancel(u)
  <2>1. ctx' \in [Jobs -> {"live", "dead"}] /\ cancelling' \subseteq cancelling
    BY <1>1, <1>3 DEF Deadline, SignalCancel, ProcessTyped
  <2>2. UNCHANGED <<records, docker, control, pc, children, verdict>>
    BY <1>3 DEF Deadline, SignalCancel
  <2>3. ASSUME NEW v \in Updates PROVE Outside(v)
    BY <1>1, <2>1, <2>2, <2>3 DEF Outside, Recorded, Unknown
  <2>4. JobsTyped' /\ ContainerTyped' /\ ProcessTyped' /\ PointsTyped'
    BY <1>1, <2>1, <2>2 DEF Typed, JobsTyped, ContainerTyped, ProcessTyped, PointsTyped
  <2> QED BY <2>2, <2>3, <2>4, OtherStep
<1>4. CASE CancelQueued(u)
  <2>1. job[u] = "queued" /\ job' = [job EXCEPT ![u] = "cancelled"]
        /\ UNCHANGED <<tx, point, lease, docker, control, pc, children, verdict, ctx, cancelling>>
    BY <1>4 DEF CancelQueued, SetJob
  <2>2. u \notin mutated /\ pc[u] \notin BeforeCall
    BY <1>1, <2>1 DEF Recorded
  <2>3. ASSUME NEW v \in Updates PROVE Outside(v)
    BY <1>1, <2>1, <2>2, <2>3 DEF Outside, Recorded, Unknown
  <2>4. JobsTyped' /\ ContainerTyped' /\ ProcessTyped' /\ PointsTyped'
    BY <1>1, <2>1
    DEF Typed, JobsTyped, JobStates, FinalJob, ContainerTyped, ProcessTyped, PointsTyped
  <2> QED BY <2>1, <2>3, <2>4, OtherStep
<1>5. CASE RequestCancel(u)
  <2>1. job[u] = "running" /\ job' = [job EXCEPT ![u] = "cancel_requested"]
        /\ cancelling' = cancelling \cup {u}
        /\ UNCHANGED <<tx, point, lease, docker, control, pc, children, verdict, ctx>>
    BY <1>5 DEF RequestCancel, SetJob
  <2>2. pc[u] \notin BeforeClaim
    BY <1>1, <2>1 DEF Recorded, Unknown
  <2>3. ASSUME NEW v \in Updates PROVE Outside(v)
    BY <1>1, <2>1, <2>2, <2>3 DEF Outside, Recorded, Unknown
  <2>4. JobsTyped' /\ ContainerTyped' /\ ProcessTyped' /\ PointsTyped'
    BY <1>1, <2>1
    DEF Typed, JobsTyped, JobStates, ActiveJob, ContainerTyped, ProcessTyped, PointsTyped
  <2> QED BY <2>1, <2>3, <2>4, OtherStep
<1>6. ASSUME NEW r \in Rollbacks, AutoRollback(u, r) PROVE Told'
  <2> USE ActorsDistinct
  <2>1. /\ pc[u] = "failing" /\ pc[r] = "idle"
        /\ tx' = [tx EXCEPT ![u] = [state |-> "rollback", status |-> "running"]]
        /\ job' = [job EXCEPT ![r] = "queued"]
        /\ parent' = [parent EXCEPT ![r] = u] /\ source' = [source EXCEPT ![r] = u]
        /\ pc' = [pc EXCEPT ![u] = "rolling", ![r] = "queued"]
        /\ UNCHANGED <<point, lease, docker, control, verdict, ctx, cancelling>>
    BY <1>6 DEF AutoRollback, SetTx, SetJob
  <2>2. r \in Jobs /\ r \notin Updates /\ r \in Actors
    BY DEF Jobs
  <2>3. [state |-> "rollback", status |-> "running"] \in Txs /\ "queued" \in JobStates
    BY DEF Txs, TxStates, PostMutation, TxStatuses, ActiveTxStatus, JobStates, ActiveJob
  <2>4. /\ TxsTyped' /\ JobsTyped' /\ PointsTyped' /\ VerdictsTyped' /\ ContainerTyped'
        /\ ProcessTyped' /\ BoundsTyped'
    BY <1>1, <2>1, <2>2, <2>3
    DEF TxsTyped, JobsTyped, PointsTyped, VerdictsTyped, ContainerTyped, ProcessTyped, BoundsTyped
  <2>5. StagesTyped' /\ pc'[r] = "queued" /\ pc'[u] = "rolling"
        /\ \A a \in Actors \ {u, r} : pc'[a] = pc[a]
    BY <1>1, <2>1, <2>2 DEF Typed, StagesTyped, UpdateStages, RollbackStages, PreMutation
  <2>6. WorkTyped' /\ source'[r] = u /\ \A s \in Rollbacks \ {r} : source'[s] = source[s]
    BY <1>1, <2>1 DEF Typed, WorkTyped
  <2>7. Partners'
    BY <1>1, <2>1, <2>2, <2>5, <2>6 DEF Partners
  <2>8. Recorded(u)'
    BY <1>1, <2>1, <2>2, <2>5
    DEF Recorded, Unknown, BeforeClaim, BeforeCall, HasPoint, Touched, PostMutation
  <2>9. ASSUME NEW v \in Updates, v # u PROVE Recorded(v)'
    <3>1. SameRow(v)
        BY <1>1, <2>1, <2>2, <2>5, <2>9 DEF SameRow
    <3> QED BY <1>1, <3>1, RowStays
  <2> QED BY <2>4, <2>5, <2>6, <2>7, <2>8, <2>9 DEF Told, Typed
<1>7. ASSUME NEW r \in Rollbacks, RolledBack(u, r) \/ RollbackFailed(u, r) PROVE Told'
  <2>1. /\ pc[u] = "rolling" /\ parent' = [parent EXCEPT ![r] = Nobody] /\ SettleAs(u, "failed")
        /\ \/ SetTxIfLive(u, "rolled_back", "rolled_back")
           \/ SetTx(u, "recovery_required", "recovery_required")
           \/ SetStatus(u, "recovery_required")
        /\ UNCHANGED <<job, point, lease, docker, control, source, ctx, cancelling>>
    BY <1>7 DEF RolledBack, RollbackFailed, RollbackEnded, RequireRecovery
  <2>2. tx'[u].state \in {tx[u].state, "rolled_back", "recovery_required"}
    <3>1. CASE SetTxIfLive(u, "rolled_back", "rolled_back")
        BY <1>1, <3>1 DEF SetTxIfLive, SetTx
    <3>2. CASE SetTx(u, "recovery_required", "recovery_required")
        BY <1>1, <3>2 DEF SetTx
    <3>3. CASE SetStatus(u, "recovery_required")
        BY <1>1, <3>3 DEF SetStatus, Txs
    <3> QED BY <2>1, <3>1, <3>2, <3>3
  <2>3. Recorded(u)'
    BY <1>1, <2>1, <2>2
    DEF Recorded, Unknown, BeforeClaim, BeforeCall, HasPoint, Touched, PostMutation, SettleAs
  <2>4. TxWritten(u) /\ VerdictGiven(u) /\ Goto(u, "settle")
    BY <1>1, <2>1, Writes
    DEF FinalJob, TxStates, PostMutation, Terminal, TxStatuses, ActiveTxStatus
  <2>5. WorkTyped'
    BY <1>1, <2>1 DEF Typed, WorkTyped
  <2> QED
    BY <1>1, <2>1, <2>3, <2>4, <2>5, OwnStep, Writes DEF UpdateStages, ContainerTyped, BoundsTyped
<1> QED BY <1>2, <1>3, <1>4, <1>5, <1>6, <1>7

\* Every step of a rollback.
LEMMA RollbackTells ==
    ASSUME Told, NEW r \in Rollbacks, RollbackStep(r) \/ Leave(r) \/ CancelQueued(r)
    PROVE  Told'
<1> USE ActorsDistinct DEF rest, control, children, boot, bounds, docker, Goto
<1>1. /\ job \in [Jobs -> JobStates \cup {"none"}] /\ verdict \in [Actors -> FinalJob \cup {"none"}]
      /\ tx \in [Updates -> Txs] /\ point \in [Updates -> Points]
      /\ DOMAIN pc = Actors /\ Typed /\ BoundsTyped /\ ContainerTyped /\ ProcessTyped /\ WorkTyped
      /\ r \in Jobs /\ r \in Actors /\ Updates \subseteq Jobs /\ Updates \subseteq Actors
      /\ Partners /\ \A v \in Updates : Recorded(v)
    BY DEF Told, Typed, TxsTyped, JobsTyped, PointsTyped, VerdictsTyped, StagesTyped, WorkTyped,
        Jobs, Actors
\* A step that leaves the rows of updates alone.
<1>2. ASSUME pc[r] \notin {"idle", "done"}, NEW to \in RollbackStages, Goto(r, to),
             JobWritten(r), VerdictGiven(r), ContainerTyped',
             UNCHANGED <<tx, point, ctx, mutated, children, rest>>
      PROVE  Told'
  <2>1. PICK u \in Updates : u = source[r]
    BY <1>1, <1>2 DEF Partners
  <2>2. Outside(u)
    BY <1>1, <1>2 DEF Outside, Recorded, Unknown, JobWritten, VerdictGiven
  <2>3. Partners'
    BY <1>1, <1>2 DEF Partners, VerdictGiven
  <2> QED BY <1>1, <1>2, <2>2, <2>3, HelperStep, Writes DEF ProcessTyped
<1>3. ASSUME NEW u \in Updates, AdmitRollback(r, u) PROVE Told'
  <2>1. Outside(u)
    BY <1>1, <1>3 DEF AdmitRollback, Outside, Recorded, Unknown
  <2>2. Partners'
    BY <1>1, <1>3 DEF AdmitRollback, Partners, WorkTyped
  <2>3. WorkTyped' /\ ContainerTyped' /\ "admitted" \in RollbackStages
    BY <1>1, <1>3 DEF AdmitRollback, WorkTyped, ContainerTyped, RollbackStages
  <2> QED BY <1>1, <1>3, <2>1, <2>2, <2>3, HelperStep, Writes DEF AdmitRollback, ProcessTyped
<1>4. CASE EnqueueRollback(r)
    BY <1>1, <1>2, <1>4, Writes
    DEF EnqueueRollback, RollbackStages, ContainerTyped, JobStates, ActiveJob
<1>5. CASE ClaimRollback(r)
  <2>1. CASE SetJob(r, "running") /\ Goto(r, "claimed") /\ UNCHANGED verdict
    BY <1>1, <1>2, <1>5, <2>1, Writes
    DEF ClaimRollback, RollbackStages, ContainerTyped, JobStates, ActiveJob
  <2>2. CASE Goto(r, "done") /\ verdict' = [verdict EXCEPT ![r] = "failed"] /\ UNCHANGED job
    BY <1>1, <1>2, <1>5, <2>2, Writes DEF ClaimRollback, RollbackStages, ContainerTyped, FinalJob
  <2> QED BY <1>5, <2>1, <2>2 DEF ClaimRollback
<1>6. CASE RollbackEntersGate(r)
    BY <1>1, <1>2, <1>6, Writes DEF RollbackEntersGate, RollbackStages, ContainerTyped
<1>7. CASE RollbackLeases(r)
    BY <1>1, <1>2, <1>7, Writes DEF RollbackLeases, RollbackStages, ContainerTyped
<1>8. CASE RollbackLeaseConflict(r)
    BY <1>1, <1>2, <1>8, Writes DEF RollbackLeaseConflict, RollbackStages, ContainerTyped,
        FinalJob
<1>9. CASE RollbackRefused(r)
    BY <1>1, <1>2, <1>9, Writes DEF RollbackRefused, RollbackStages, ContainerTyped, FinalJob
<1>10. CASE RollbackRestores(r)
  <2>1. runtime' \in Images
    BY <1>1, <1>10 DEF RollbackRestores, Partners, Points
  <2> QED BY <1>1, <1>2, <1>10, <2>1, Writes DEF RollbackRestores, RollbackStages, ContainerTyped
<1>11. CASE RollbackBreaks(r)
  <2>1. PICK u \in Updates : u = source[r]
    BY <1>1, <1>11 DEF Partners, RollbackBreaks
  <2>2. PICK kind \in {"full", "lost"} : point' = [point EXCEPT ![u].kind = kind]
    BY <1>11, <2>1 DEF RollbackBreaks
  <2>3. point'[u].kind = kind /\ PointWritten(u)
    <3>1. [point[u] EXCEPT !.kind = kind] \in Points
        BY <1>1, <2>2 DEF Points
    <3>2. point' = [point EXCEPT ![u] = [point[u] EXCEPT !.kind = kind]]
        BY <2>2
    <3> QED BY <1>1, <3>1, <3>2 DEF PointWritten, Points
  <2>4. /\ verdict' = [verdict EXCEPT ![r] = "failed"] /\ Goto(r, "report") /\ runtime' \in Images
        /\ UNCHANGED <<job, tx, lease, worker, mutated, gate, children, ctx, rest>>
    BY <1>1, <1>11 DEF RollbackBreaks, ContainerTyped, Images
  <2>5. Outside(u)
    BY <1>1, <2>3, <2>4 DEF Outside, Recorded, Unknown
  <2>6. Partners'
    BY <1>1, <1>11, <2>4 DEF RollbackBreaks, Partners
  <2>7. VerdictGiven(r) /\ ContainerTyped' /\ "report" \in RollbackStages
    BY <1>1, <2>4, Writes DEF ContainerTyped, RollbackStages, FinalJob
  <2> QED BY <1>1, <2>3, <2>4, <2>5, <2>6, <2>7, HelperStep, Writes DEF ProcessTyped
<1>12. CASE RollbackCompletes(r)
  <2>1. PICK u \in Updates : u = source[r]
    BY <1>1, <1>12 DEF Partners, RollbackCompletes
  <2>2. /\ verdict' = [verdict EXCEPT ![r] = "success"] /\ Goto(r, "report")
        /\ UNCHANGED <<job, point, lease, docker, gate, children, ctx, rest>>
        /\ \/ UNCHANGED tx
           \/ tx[u].status = "recovery_required" /\ SetTx(u, "rolled_back", "rolled_back")
    BY <1>12, <2>1 DEF RollbackCompletes
  <2>3. TxWritten(u) /\ VerdictGiven(r) /\ ContainerTyped' /\ "report" \in RollbackStages
    BY <1>1, <2>2, Writes
    DEF TxStates, Terminal, TxStatuses, ContainerTyped, RollbackStages, FinalJob
  <2>4. tx[u].status = "recovery_required" => pc[u] \notin BeforeClaim
    BY <1>1 DEF Recorded, Unknown, NoTransaction
  <2>5. Outside(u)
    BY <1>1, <2>2, <2>4 DEF Outside, Recorded, Unknown, SetTx, Touched
  <2>6. Partners'
    BY <1>1, <1>12, <2>2 DEF RollbackCompletes, Partners
  <2> QED BY <1>1, <2>2, <2>3, <2>5, <2>6, HelperStep, Writes DEF ProcessTyped
<1>13. CASE SettleRollback(r)
  <2>1. JobWritten(r)
    BY <1>1, <1>13, Writes DEF SettleRollback, JobStates
  <2> QED BY <1>1, <1>2, <1>13, <2>1, Writes DEF SettleRollback, RollbackStages, ContainerTyped
<1>14. CASE Leave(r)
    BY <1>1, <1>2, <1>14, Writes DEF Leave, RollbackStages, ContainerTyped
<1>15. CASE RollbackDeadline(r) \/ CancelQueued(r)
  <2>1. /\ UNCHANGED <<tx, point, lease, docker, pc, gate, children, verdict, rest>>
        /\ ctx' \in [Jobs -> {"live", "dead"}] /\ JobWritten(r)
    BY <1>1, <1>15, Writes
    DEF RollbackDeadline, CancelQueued, ProcessTyped, JobStates, FinalJob
  <2>2. JobsTyped' /\ \A v \in Updates : job'[v] = job[v]
    BY <1>1, <2>1 DEF JobsTyped, JobWritten
  <2>3. ASSUME NEW v \in Updates PROVE Outside(v)
    BY <1>1, <2>1, <2>2 DEF Outside, Recorded, Unknown
  <2>4. ContainerTyped' /\ ProcessTyped' /\ PointsTyped'
    BY <1>1, <2>1 DEF Typed, ContainerTyped, ProcessTyped, PointsTyped
  <2> QED BY <2>1, <2>2, <2>3, <2>4, OtherStep
<1> QED BY <1>3, <1>4, <1>5, <1>6, <1>7, <1>8, <1>9, <1>10, <1>11, <1>12, <1>13, <1>14, <1>15
        DEF RollbackStep

\* Every step of a recoverer.
LEMMA RecoveryTells ==
    ASSUME Told, NEW w \in Recoverers, RecoveryStep(w)
    PROVE  Told'
<1> USE ActorsDistinct DEF others, children, boot, bounds, docker, Goto
<1>1. /\ job \in [Jobs -> JobStates \cup {"none"}] /\ verdict \in [Actors -> FinalJob \cup {"none"}]
      /\ tx \in [Updates -> Txs] /\ point \in [Updates -> Points]
      /\ DOMAIN pc = Actors /\ Typed /\ BoundsTyped /\ ContainerTyped /\ ProcessTyped /\ WorkTyped
      /\ w \in Actors /\ Updates \subseteq Jobs /\ Updates \subseteq Actors
      /\ Partners /\ \A v \in Updates : Recorded(v)
    BY DEF Told, Typed, TxsTyped, JobsTyped, PointsTyped, VerdictsTyped, StagesTyped, WorkTyped,
       Jobs, Actors
<1>2. PICK u \in Updates : u = target[w]
    BY <1>1
    DEF Partners, RecoveryStep, RecoveryEntersGate, RecoveryLeases, RecoveryLeaseConflict,
        RecoveryNeedsOperator, RecoveryFindsOriginal, RecoveryKeepsTarget, Reconcile,
        RecoveryHandsOff, RecoveryCannotRollBack, RecoveryRollsBack, AfterRecoveryRollback,
        RecoveryRollbackEnded, RecoveryFinishesJob, RecoveryLeaves
<1>3. pc[u] \notin BeforeClaim
    BY <1>1, <1>2 DEF Recorded, Unknown
\* A step about the update it recovers.
<1>4. ASSUME NEW to \in RecoveryStages, Goto(w, to), TxWritten(u),
             tx'[u].state \in {tx[u].state} \cup Touched,
             job' = job \/ SetJob(u, verdict[w]),
             \/ verdict' = verdict
             \/ \E v \in {"success", "failed"} : verdict' = [verdict EXCEPT ![w] = v],
             ContainerTyped', parent' \in [Rollbacks -> Updates \cup Recoverers \cup {Nobody}],
             \/ UNCHANGED target /\ to # "idle"
             \/ target' = [target EXCEPT ![w] = Nobody] /\ to = "idle",
             UNCHANGED <<mutated, boot, cancelling, source, others>>
      PROVE  Told'
  <2>1. JobWritten(u) /\ (job'[u] = job[u] \/ job'[u] \notin {"queued", "cancelled"})
    BY <1>1, <1>4, Writes DEF Partners, SetJob, JobStates, FinalJob
  <2>2. VerdictGiven(w) /\ verdict'[w] \in {"none", "success", "failed"}
        /\ \A a \in Actors \ {w} : verdict'[a] = verdict[a]
    BY <1>1, <1>4 DEF Partners, VerdictGiven, FinalJob
  <2>3. Outside(u)
    BY <1>1, <1>3, <1>4, <2>1, <2>2 DEF Outside
  <2>4. Partners'
    BY <1>1, <1>2, <1>4, <2>2 DEF Partners, WorkTyped
  <2>5. WorkTyped' /\ \A x \in Recoverers : target'[x] \in {target[x], u, Nobody}
    BY <1>1, <1>4 DEF WorkTyped
  <2>6. point' = point
    BY <1>4
  <2> QED BY <1>1, <1>4, <2>1, <2>2, <2>3, <2>4, <2>5, <2>6, HelperStep, Writes DEF ProcessTyped
<1>5. tx' = tx => TxWritten(u)
    BY DEF TxWritten
<1>6. parent \in [Rollbacks -> Updates \cup Recoverers \cup {Nobody}]
    BY <1>1 DEF WorkTyped
<1>7. CASE RecoveryEntersGate(w)
    BY <1>1, <1>2, <1>4, <1>5, <1>6, <1>7 DEF RecoveryEntersGate, RecoveryStages, ContainerTyped
<1>8. CASE RecoveryLeases(w)
    BY <1>1, <1>2, <1>4, <1>5, <1>6, <1>8 DEF RecoveryLeases, RecoveryStages, ContainerTyped
<1>9. CASE RecoveryLeaseConflict(w)
  <2>1. SetStatus(u, "recovery_required")
    BY <1>2, <1>9 DEF RecoveryLeaseConflict
  <2>2. TxWritten(u)
    BY <1>1, <2>1, Writes DEF TxStatuses, ActiveTxStatus
  <2>3. tx'[u].state = tx[u].state
    BY <1>1, <2>1 DEF SetStatus, Txs
  <2> QED
    BY <1>1, <1>4, <1>6, <1>9, <2>2, <2>3 DEF RecoveryLeaseConflict, RecoveryStages,
        ContainerTyped
\* An outcome of the reconciliation.
<1>10. ASSUME NEW state \in {tx[u].state} \cup Touched, NEW status \in TxStatuses,
              NEW v \in {"success", "failed"}, SetTx(u, state, status), SettleAs(w, v),
              ContainerTyped', parent' \in [Rollbacks -> Updates \cup Recoverers \cup {Nobody}],
              UNCHANGED <<job, mutated, boot, cancelling, target, source, others>>
       PROVE  Told'
  <2>1. [state |-> state, status |-> status] \in Txs
    BY <1>1, <1>10 DEF Txs, Touched, TxStates, PostMutation, Terminal
  <2>2. TxWritten(u) /\ tx'[u].state = state
    BY <1>1, <1>10, <2>1 DEF SetTx, TxWritten
  <2> QED BY <1>4, <1>10, <2>2 DEF SettleAs, RecoveryStages
<1>11. CASE RecoveryNeedsOperator(w) \/ RecoveryFindsOriginal(w) \/ RecoveryKeepsTarget(w)
  <2>1. PICK state \in {tx[u].state} \cup Touched, status \in TxStatuses,
                v \in {"success", "failed"} :
            SetTx(u, state, status) /\ SettleAs(w, v)
    BY <1>2, <1>11
    DEF RecoveryNeedsOperator, RecoveryFindsOriginal, RecoveryKeepsTarget, Reconcile, Touched,
        TxStatuses, ActiveTxStatus, Terminal
  <2>2. UNCHANGED <<job, lease, docker, boot, gate, cancelling, target, children, others>>
    BY <1>11 DEF RecoveryNeedsOperator, RecoveryFindsOriginal, RecoveryKeepsTarget, Reconcile
  <2> QED BY <1>1, <1>6, <1>10, <2>1, <2>2 DEF ContainerTyped
<1>12. CASE RecoveryHandsOff(w)
  <2>1. SetTx(u, "rollback", "recovering") /\ Goto(w, "handoff") /\ lease' = Nobody
        /\ UNCHANGED <<job, docker, boot, gate, verdict, cancelling, target, children, others>>
    BY <1>2, <1>12 DEF RecoveryHandsOff
  <2>2. TxWritten(u) /\ tx'[u].state \in Touched
    BY <1>1, <2>1, Writes DEF SetTx, Touched, TxStates, PostMutation, TxStatuses, ActiveTxStatus
  <2> QED BY <1>1, <1>4, <1>6, <2>1, <2>2 DEF RecoveryStages, ContainerTyped
<1>13. CASE RecoveryCannotRollBack(w)
  <2>1. SetTx(u, "recovery_required", "recovery_required") /\ SettleAs(w, "failed")
        /\ parent' = parent
        /\ UNCHANGED <<job, lease, docker, boot, gate, cancelling, target, source, others>>
    BY <1>2, <1>13 DEF RecoveryCannotRollBack, RecoverySettles
  <2>2. "recovery_required" \in Touched /\ "recovery_required" \in TxStatuses
    BY DEF Touched, PostMutation, TxStatuses, ActiveTxStatus
  <2> QED BY <1>1, <1>6, <1>10, <2>1, <2>2 DEF ContainerTyped
<1>14. ASSUME NEW r \in Rollbacks, AfterRecoveryRollback(w, r) PROVE Told'
  <2>1. PICK state \in {"rolled_back", "recovery_required"} : RecoverySettles(w, state)
    BY <1>14 DEF AfterRecoveryRollback
  <2>2. SetTx(u, state, state) /\ SettleAs(w, "failed") /\ parent' = [parent EXCEPT ![r] = Nobody]
        /\ UNCHANGED <<job, lease, docker, boot, gate, cancelling, target, source, others>>
    BY <1>2, <1>14, <2>1 DEF AfterRecoveryRollback, RecoveryRollbackEnded, RecoverySettles
  <2>3. state \in Touched /\ state \in TxStatuses
    BY DEF Touched, PostMutation, TxStatuses, ActiveTxStatus, Terminal
  <2> QED BY <1>1, <1>6, <1>10, <2>2, <2>3 DEF ContainerTyped
<1>15. CASE RecoveryFinishesJob(w)
    BY <1>1, <1>2, <1>4, <1>5, <1>6, <1>15 DEF RecoveryFinishesJob, RecoveryStages, ContainerTyped
<1>16. CASE RecoveryLeaves(w)
    BY <1>1, <1>2, <1>4, <1>5, <1>6, <1>16 DEF RecoveryLeaves, RecoveryStages, ContainerTyped
<1>17. ASSUME NEW r \in Rollbacks, RecoveryRollsBack(w, r) PROVE Told'
  <2>1. /\ pc[w] = "handoff" /\ pc[r] = "idle" /\ job' = [job EXCEPT ![r] = "queued"]
        /\ parent' = [parent EXCEPT ![r] = w] /\ source' = [source EXCEPT ![r] = u]
        /\ pc' = [pc EXCEPT ![w] = "rolling", ![r] = "queued"]
        /\ UNCHANGED <<tx, lease, docker, boot, gate, verdict, cancelling, target, others>>
    BY <1>2, <1>17 DEF RecoveryRollsBack, SetJob
  <2>2. r \in Jobs /\ r \notin Updates /\ r \in Actors /\ "queued" \in JobStates
    BY DEF Jobs, JobStates, ActiveJob
  <2>3. /\ TxsTyped' /\ JobsTyped' /\ PointsTyped' /\ VerdictsTyped' /\ ContainerTyped'
        /\ ProcessTyped' /\ BoundsTyped'
    BY <1>1, <2>1, <2>2
    DEF TxsTyped, JobsTyped, PointsTyped, VerdictsTyped, ContainerTyped, ProcessTyped, BoundsTyped
  <2>4. StagesTyped' /\ pc'[r] = "queued" /\ pc'[w] = "rolling"
        /\ \A a \in Actors \ {w, r} : pc'[a] = pc[a]
    BY <1>1, <2>1, <2>2 DEF Typed, StagesTyped, RecoveryStages, RollbackStages
  <2>5. WorkTyped' /\ source'[r] = u /\ \A s \in Rollbacks \ {r} : source'[s] = source[s]
    BY <1>1, <2>1 DEF WorkTyped
  <2>6. Partners'
    BY <1>1, <2>1, <2>2, <2>4, <2>5 DEF Partners
  <2>7. ASSUME NEW v \in Updates PROVE Recorded(v)'
    <3>1. SameRow(v)
        BY <1>1, <2>1, <2>2, <2>4, <2>7 DEF SameRow
    <3> QED BY <1>1, <3>1, RowStays
  <2> QED BY <2>3, <2>4, <2>5, <2>6, <2>7 DEF Told, Typed
<1> QED BY <1>7, <1>8, <1>9, <1>11, <1>12, <1>13, <1>14, <1>15, <1>16, <1>17 DEF RecoveryStep

\* Everybody's memory is gone, the rows are as they were.
LEMMA CrashTells == ASSUME Told, Crash PROVE Told'
<1> USE ActorsDistinct
<1>1. /\ Typed /\ Partners /\ \A u \in Updates : Recorded(u)
      /\ DOMAIN pc = Actors
    BY DEF Told, Typed, StagesTyped
<1>2. /\ pc' = [a \in Actors |-> IF a \in Recoverers \/ pc[a] = "idle" THEN "idle" ELSE "done"]
      /\ verdict' = [a \in Actors |-> "none"] /\ target' = [w \in Recoverers |-> Nobody]
      /\ seen' = [u \in Updates |-> "none"] /\ cancelling' = {} /\ up' = FALSE
      /\ UNCHANGED <<job, tx, point, lease, runtime, worker, mutated>>
    BY DEF Crash, docker
<1>3. \A u \in Updates : /\ pc'[u] = (IF pc[u] = "idle" THEN "idle" ELSE "done")
                         /\ verdict'[u] = "none" /\ seen'[u] = "none"
    BY <1>2
<1>4. StagesTyped'
    BY <1>2 DEF StagesTyped, UpdateStages, RollbackStages, RecoveryStages
<1>5. JobsTyped' /\ TxsTyped' /\ PointsTyped'
    BY <1>1, <1>2 DEF Typed, JobsTyped, TxsTyped, PointsTyped
<1>6. VerdictsTyped'
    BY <1>2 DEF VerdictsTyped
<1>7. ContainerTyped'
    BY <1>1, <1>2 DEF Typed, ContainerTyped, Crash
<1>8. ProcessTyped'
    BY DEF ProcessTyped, Crash
<1>9. WorkTyped'
    BY DEF WorkTyped, Crash
<1>10. BoundsTyped'
    BY <1>1, ScenariosAssumption DEF Typed, BoundsTyped, Crash
<1>11. Partners'
    BY <1>2 DEF Partners
<1>12. ASSUME NEW u \in Updates PROVE Recorded(u)'
  <2>1. Recorded(u)
    BY <1>1
  <2>2. pc'[u] \in BeforeClaim => pc[u] = "idle" /\ pc'[u] = "idle"
    BY <1>3 DEF BeforeClaim
  <2>3. Unknown(u) /\ pc[u] = "idle" => Unknown(u)'
    BY <1>2, <1>3 DEF Unknown
  <2> QED BY <1>2, <1>3, <2>1, <2>2, <2>3 DEF Recorded, BeforeClaim, BeforeCall, HasPoint
<1> QED BY <1>4, <1>5, <1>6, <1>7, <1>8, <1>9, <1>10, <1>11, <1>12 DEF Told, Typed

\* The start of a recoverer, on what it was told of an update.
LEMMA RecoveryStartTells ==
    ASSUME Told, NEW u \in Updates, SafeAbort(u) \/ ScanRecovers(u) \/ OrphanRecovers(u)
    PROVE  Told'
<1> USE ActorsDistinct DEF others, children, boot, bounds, docker, Goto
<1>1. /\ verdict \in [Actors -> FinalJob \cup {"none"}]
      /\ tx \in [Updates -> Txs] /\ target \in [Recoverers -> Updates \cup {Nobody}]
      /\ DOMAIN pc = Actors /\ Typed /\ BoundsTyped /\ ContainerTyped /\ ProcessTyped /\ WorkTyped
      /\ Updates \subseteq Jobs /\ Scan \in Recoverers /\ Orphan \in Recoverers
      /\ u \in Jobs /\ u \in Actors /\ Recoverers \subseteq Actors
      /\ Partners /\ Recorded(u)
    BY DEF Told, Typed, TxsTyped, VerdictsTyped, StagesTyped, WorkTyped, Jobs, Recoverers
<1>2. PICK w \in Recoverers, to \in {"settle", "claimed"} :
         /\ pc[w] = "idle" /\ Goto(w, to) /\ target' = [target EXCEPT ![w] = u]
         /\ verdict' = verdict \/ verdict' = [verdict EXCEPT ![w] = "failed"]
         /\ seen' = seen \/ seen' = [seen EXCEPT ![u] = "none"]
         /\ cancelling' \subseteq cancelling
         /\ UNCHANGED <<job, lease, docker, up, scanned, gate, children, others>>
    BY <1>1 DEF SafeAbort, ScanRecovers, OrphanRecovers, StartRecovery, SettleAs
<1>3. seen[u] # "none" \/ u \in cancelling
    BY DEF SafeAbort, ScanRecovers, OrphanRecovers, PreMutation, PostMutation
<1>4. pc[u] \notin BeforeClaim
    BY <1>1, <1>3 DEF Recorded, Unknown
<1>5. TxWritten(u) /\ tx'[u].state \in {tx[u].state, "recovering"}
  <2>1. CASE SafeAbort(u)
    <3>1. SetStatus(u, "interrupted")
        BY <2>1 DEF SafeAbort
    <3>2. TxWritten(u)
        BY <1>1, <3>1, Writes DEF TxStatuses
    <3> QED BY <1>1, <3>1, <3>2 DEF SetStatus, Txs
  <2>2. CASE ScanRecovers(u) \/ OrphanRecovers(u)
    <3>1. PICK state \in {tx[u].state, "recovering"} :
              tx' = [tx EXCEPT ![u] = [state |-> state, status |-> "recovering"]]
        BY <2>2 DEF ScanRecovers, OrphanRecovers, StartRecovery
    <3>2. [state |-> state, status |-> "recovering"] \in Txs
        BY <1>1, <3>1 DEF Txs, TxStates, PostMutation, TxStatuses, ActiveTxStatus
    <3> QED BY <1>1, <3>1, <3>2 DEF TxWritten
  <2> QED BY <2>1, <2>2
<1>6. Outside(u)
    BY <1>1, <1>2, <1>4, <1>5 DEF Outside, Touched, PostMutation
<1>7. VerdictGiven(w) /\ verdict'[w] \in {verdict[w], "failed"}
      /\ \A a \in Actors \ {w} : verdict'[a] = verdict[a]
    BY <1>1, <1>2 DEF VerdictGiven, FinalJob
<1>8. Partners'
    BY <1>1, <1>2, <1>7 DEF Partners
<1>9. WorkTyped' /\ ContainerTyped' /\ to \in RecoveryStages
      /\ \A x \in Recoverers : target'[x] \in {target[x], u, Nobody}
    BY <1>1, <1>2 DEF WorkTyped, ContainerTyped, RecoveryStages
<1>10. /\ seen' \in [Updates -> TxStates \cup {"none"}]
       /\ \A v \in Updates : seen'[v] \in {seen[v], "none"}
    BY <1>1, <1>2 DEF ProcessTyped
<1> QED BY <1>1, <1>2, <1>5, <1>6, <1>7, <1>8, <1>9, <1>10, HelperStep, Writes DEF ProcessTyped

\* An orphaned job is cancelled only while its transaction is before mutation.
LEMMA OrphanCancelTells == ASSUME Told, NEW u \in Updates, OrphanCancel(u) PROVE Told'
<1> USE DEF others, children, boot, bounds, docker
<1>1. /\ tx \in [Updates -> Txs] /\ job \in [Jobs -> JobStates \cup {"none"}]
      /\ Typed /\ Partners /\ u \in Jobs /\ u \in Actors /\ Updates \subseteq Jobs
      /\ \A v \in Updates : Recorded(v)
    BY DEF Told, Typed, TxsTyped, JobsTyped, Jobs, Actors
<1>2. /\ u \in cancelling /\ ~Registered(u) /\ cancelling' = cancelling \ {u}
      /\ lease' \in {lease, Nobody}
      /\ UNCHANGED <<pc, target, docker, boot, gate, verdict, children, others>>
    BY DEF OrphanCancel
<1>3. pc[u] \notin BeforeCall \cup BeforeClaim
    BY <1>1, <1>2 DEF Recorded, Unknown, Registered, BeforeCall, BeforeClaim
<1>4. /\ JobWritten(u) /\ TxWritten(u)
      /\ u \in mutated => job'[u] \notin {"queued", "cancelled"} /\ tx'[u] = tx[u]
  <2>1. CASE tx[u].state \in Terminal
    <3>1. PICK s \in FinalJob :
             SetJob(u, s) /\ tx' = tx /\ (s = "cancelled" => tx[u].state = "cancelled")
        BY <2>1 DEF OrphanCancel, terminalJobStateForTransaction, FinalJob, Terminal
    <3>2. u \in mutated => tx[u].state # "cancelled"
        BY <1>1 DEF Recorded, Touched, PostMutation
    <3> QED BY <1>1, <3>1, <3>2 DEF JobWritten, TxWritten, SetJob, JobStates, FinalJob
  <2>2. CASE tx[u].state \notin Terminal
    <3>1. u \notin mutated
        BY <1>1, <2>2 DEF OrphanCancel, Recorded, Touched, Terminal
    <3>2. SetJob(u, "cancelled") /\ (SetTx(u, "cancelled", "cancelled") \/ tx' = tx)
        BY <2>2 DEF OrphanCancel
    <3> QED
        BY <1>1, <3>1, <3>2, Writes DEF JobStates, FinalJob, TxStates, Terminal, TxStatuses
  <2> QED BY <2>1, <2>2
<1>5. /\ JobsTyped' /\ TxsTyped'
      /\ \A v \in Updates \ {u} : job'[v] = job[v] /\ tx'[v] = tx[v]
    BY <1>1, <1>4 DEF JobsTyped, JobWritten, TxsTyped, TxWritten
<1>6. ASSUME NEW v \in Updates PROVE Outside(v)
  <2>1. CASE v = u
    BY <1>1, <1>2, <1>3, <1>4, <2>1 DEF Outside
  <2>2. CASE v # u
    BY <1>1, <1>2, <1>5, <2>2 DEF Outside, Recorded, Unknown
  <2> QED BY <2>1, <2>2
<1>7. \A v \in Updates : Recorded(v)'
    BY <1>1, <1>6, OutsideTells
<1>8. Partners'
    BY <1>1, <1>2 DEF Partners
<1>9. /\ PointsTyped' /\ VerdictsTyped' /\ StagesTyped' /\ ContainerTyped' /\ ProcessTyped'
      /\ WorkTyped' /\ BoundsTyped'
    BY <1>1, <1>2
    DEF Typed, PointsTyped, VerdictsTyped, StagesTyped, ContainerTyped, ProcessTyped, WorkTyped,
        BoundsTyped
<1> QED BY <1>5, <1>7, <1>8, <1>9 DEF Told, Typed

\* The worker container, crashes, leases and cleanups.
LEMMA SurroundingsTell ==
    ASSUME Told,
           \/ \E u \in Updates : LosePoint(u)
           \/ WorkerApplies \/ Restart \/ StartScan \/ StartCleanup \/ EndCleanup \/ LeaseExpires
    PROVE  Told'
<1> USE DEF others, children, boot, bounds, docker, control, records
<1>1. /\ tx \in [Updates -> Txs] /\ job \in [Jobs -> JobStates \cup {"none"}]
      /\ point \in [Updates -> Points]
      /\ Typed /\ JobsTyped /\ PointsTyped /\ ContainerTyped /\ ProcessTyped
      /\ \A v \in Updates : Recorded(v) /\ v \in Jobs
    BY DEF Told, Typed, TxsTyped, JobsTyped, PointsTyped, Jobs
<1>2. ASSUME NEW u \in Updates, LosePoint(u) PROVE Told'
  <2>1. point' = [point EXCEPT ![u].kind = "lost"]
        /\ UNCHANGED <<job, tx, lease, docker, boot, pc, gate, verdict, cancelling, target,
                       children, cleaning, bounds, ctx>>
    BY <1>2 DEF LosePoint
  <2>2. PointsTyped' /\ \A v \in Updates : point'[v].kind \in {point[v].kind, "lost"}
    BY <1>1, <2>1 DEF PointsTyped, Points
  <2>3. ASSUME NEW v \in Updates PROVE Outside(v)
    BY <1>1, <2>1, <2>2 DEF Outside, Recorded, Unknown
  <2>4. JobsTyped' /\ ContainerTyped' /\ ProcessTyped'
    BY <1>1, <2>1 DEF JobsTyped, ContainerTyped, ProcessTyped
  <2> QED BY <2>1, <2>2, <2>3, <2>4, OtherStep
<1>3. CASE WorkerApplies \/ StartCleanup \/ EndCleanup \/ LeaseExpires
  <2>1. /\ UNCHANGED <<job, tx, point, mutated, boot, bounds, ctx, pc, gate, verdict, cancelling,
                       target, children>>
        /\ runtime' \in Images /\ worker' \in Updates \cup {Nobody}
        /\ lease' \in {lease, Cleanup, Nobody} /\ cleaning' \in BOOLEAN
    BY <1>1, <1>3
    DEF WorkerApplies, StartCleanup, EndCleanup, LeaseExpires, ContainerTyped, ProcessTyped,
        Images
  <2>2. ASSUME NEW v \in Updates PROVE Outside(v)
    BY <1>1, <2>1 DEF Outside, Recorded, Unknown
  <2>3. JobsTyped' /\ ContainerTyped' /\ ProcessTyped' /\ PointsTyped'
    BY <1>1, <2>1 DEF JobsTyped, ContainerTyped, ProcessTyped, PointsTyped
  <2> QED BY <2>1, <2>2, <2>3, OtherStep
<1>4. CASE Restart
  <2>1. /\ ~up /\ up' = TRUE /\ job' = [j \in Jobs |-> RepairedJob(j)]
        /\ UNCHANGED <<tx, lease, docker, scanned, seen, pc, gate, verdict, cancelling, target,
                       children, others>>
    BY <1>4 DEF Restart
  <2>2. \A j \in Jobs : RepairedJob(j) \in JobStates \cup {"none"}
    BY <1>1 DEF RepairedJob, terminalJobStateForTransaction, JobStates, FinalJob, Terminal
  <2>3. JobsTyped'
    BY <2>1, <2>2 DEF JobsTyped
  <2>4. ASSUME NEW v \in Updates PROVE Outside(v)
    <3>1. job'[v] = RepairedJob(v)
        BY <1>1, <2>1
    <3>2. pc[v] \in {"idle", "done"}
        BY <1>1, <2>1 DEF Recorded
    <3>3. pc[v] = "idle" => Unknown(v)'
        BY <1>1, <2>1, <3>1 DEF Recorded, Unknown, BeforeClaim, RepairedJob, ActiveJob
    <3>4. v \in mutated => job'[v] = job[v] \/ job'[v] \notin {"queued", "cancelled"}
      <4>1. v \in mutated => tx[v].state \in Touched
        BY <1>1 DEF Recorded
      <4> QED
        BY <3>1, <4>1 DEF RepairedJob, terminalJobStateForTransaction, Touched, PostMutation
    <3> QED BY <1>1, <2>1, <3>2, <3>3, <3>4 DEF Outside, BeforeClaim, BeforeCall
  <2>5. ContainerTyped' /\ ProcessTyped' /\ PointsTyped'
    BY <1>1, <2>1 DEF ContainerTyped, ProcessTyped, PointsTyped
  <2> QED BY <2>1, <2>3, <2>4, <2>5, OtherStep
<1>5. CASE StartScan
  <2>1. /\ scanned' = TRUE
        /\ seen' = [u \in Updates |->
                       IF tx[u].status \in ActiveTxStatus THEN tx[u].state ELSE "none"]
        /\ UNCHANGED <<job, tx, lease, docker, up, pc, gate, verdict, cancelling, target,
                       children, others>>
    BY <1>5 DEF StartScan
  <2>2. \A v \in Updates : seen'[v] \in TxStates \cup {"none"}
                           /\ (tx[v] = NoTransaction => seen'[v] = "none")
    BY <1>1, <2>1 DEF Txs, NoTransaction, ActiveTxStatus
  <2>3. ASSUME NEW v \in Updates PROVE Outside(v)
    BY <1>1, <2>1, <2>2 DEF Outside, Recorded, Unknown
  <2>4. seen' \in [Updates -> TxStates \cup {"none"}]
    BY <2>1, <2>2
  <2>5. JobsTyped' /\ ContainerTyped' /\ ProcessTyped' /\ PointsTyped'
    BY <1>1, <2>1, <2>4 DEF JobsTyped, ContainerTyped, ProcessTyped, PointsTyped
  <2> QED BY <2>1, <2>3, <2>5, OtherStep
<1> QED BY <1>2, <1>3, <1>4, <1>5

\* Every step.
LEMMA NextTells == ASSUME Told, [Next]_vars PROVE Told'
<1>1. ASSUME NEW u \in Updates, UpdateStep(u) PROVE Told'
    BY <1>1, PreparationTells, MutationTells, SettlementTells, Zenon DEF UpdateStep
<1>2. ASSUME NEW r \in Rollbacks, RollbackStep(r) \/ Leave(r) \/ CancelQueued(r) PROVE Told'
    BY <1>2, RollbackTells
<1>3. ASSUME NEW w \in Recoverers, RecoveryStep(w) PROVE Told'
    BY <1>3, RecoveryTells
<1>4. ASSUME NEW u \in Updates, SafeAbort(u) \/ ScanRecovers(u) \/ OrphanRecovers(u) PROVE Told'
    BY <1>4, RecoveryStartTells
<1>5. ASSUME NEW u \in Updates, OrphanCancel(u) PROVE Told'
    BY <1>5, OrphanCancelTells
<1>6. CASE Crash
    BY <1>6, CrashTells
<1>7. CASE \/ \E u \in Updates : LosePoint(u)
           \/ WorkerApplies \/ Restart \/ StartScan \/ StartCleanup \/ EndCleanup \/ LeaseExpires
    BY <1>7, SurroundingsTell
<1>8. CASE UNCHANGED vars
    BY <1>8
    DEF vars, docker, boot, children, bounds, Told, Typed, JobsTyped, TxsTyped, PointsTyped,
        VerdictsTyped, StagesTyped, ContainerTyped, ProcessTyped, WorkTyped, BoundsTyped,
        Partners,
        Recorded, Unknown
<1> QED BY <1>1, <1>2, <1>3, <1>4, <1>5, <1>6, <1>7, <1>8, Zenon DEF Next

-----------------------------------------------------------------------------
\* The lease, as long as nothing crashes.
LEMMA FaultsStay == [Next]_vars => faults' = faults
<1> SUFFICES ASSUME [Next]_vars PROVE faults' = faults
    OBVIOUS
<1> USE DEF control, bounds, rest, others
<1>1. ASSUME NEW u \in Updates, UpdateStep(u) PROVE faults' = faults
    BY <1>1
    DEF UpdateStep, AdmitUpdate, EnqueueUpdate, ClaimUpdate, CancelSafely, ContextLost, EnterGate,
        AcquireLease, LeaseConflict, CreateTransaction, StartPreflight, TakeSnapshot,
        CaptureRestorePoint, Block, Prepare, PreparationFails, OpenWindow, Commit, RecordCommit,
        CallWorker, WorkerReturns, WorkerFails, CorrectImage, ConfirmImage, TargetNotApplied,
        WrongImage, PassStage, FailStage, FinishUpdate, NoRollback, RollbackUnavailable,
        AutoRollback, RolledBack, RollbackFailed, Deadline, SettleUpdate, LoseSettle,
        EnsureTerminal, Leave, CancelQueued, RequestCancel, SignalCancel, Advance, RequireRecovery
<1>2. ASSUME NEW r \in Rollbacks, RollbackStep(r) \/ Leave(r) \/ CancelQueued(r)
      PROVE faults' = faults
    BY <1>2
    DEF RollbackStep, AdmitRollback, EnqueueRollback, ClaimRollback, RollbackEntersGate,
        RollbackLeases, RollbackLeaseConflict, RollbackRefused, RollbackRestores, RollbackBreaks,
        RollbackCompletes, RollbackDeadline, SettleRollback, Leave, CancelQueued
<1>3. ASSUME NEW w \in Recoverers, RecoveryStep(w) PROVE faults' = faults
    BY <1>3
    DEF RecoveryStep, RecoveryEntersGate, RecoveryLeases, RecoveryLeaseConflict,
        RecoveryNeedsOperator, RecoveryFindsOriginal, RecoveryKeepsTarget, Reconcile,
        RecoveryHandsOff, RecoveryCannotRollBack, RecoveryRollsBack, AfterRecoveryRollback,
        RecoverySettles, RecoveryFinishesJob, RecoveryLeaves
<1>4. ASSUME NEW u \in Updates,
             SafeAbort(u) \/ ScanRecovers(u) \/ OrphanCancel(u) \/ OrphanRecovers(u) \/ LosePoint(u)
      PROVE faults' = faults
    BY <1>4 DEF SafeAbort, ScanRecovers, OrphanCancel, OrphanRecovers, LosePoint
<1>5. CASE \/ WorkerApplies \/ Crash \/ Restart \/ StartScan \/ StartCleanup \/ EndCleanup
           \/ LeaseExpires \/ UNCHANGED vars
    BY <1>5
    DEF WorkerApplies, Crash, Restart, StartScan, StartCleanup, EndCleanup, LeaseExpires, vars
<1> QED BY <1>1, <1>2, <1>3, <1>4, <1>5, Zenon DEF Next

\* Actor a moves on its own.  Whoever lets the lease go does not need it any
\* more, and whoever takes it finds it free.
LEMMA CalmMove ==
    ASSUME Told, Calm, NEW a \in Actors, NEW to, pc' = [pc EXCEPT ![a] = to], pc[a] # "done",
           UNCHANGED boot,
           \A r \in Rollbacks : parent'[r] = parent[r] \/ pc'[r] \notin {"restoring", "restored"},
           target' = target \/ (a \in Recoverers /\ target' = [target EXCEPT ![a] = Nobody]),
           a \in Jobs /\ HasLease(a)' => lease' = a,
           \A j \in Jobs \ {a} : HasLease(j) => lease' = j
    PROVE  Calm'
<1> USE ActorsDistinct DEF boot
<1>1. /\ DOMAIN pc = Actors /\ target \in [Recoverers -> Updates \cup {Nobody}]
      /\ Jobs \subseteq Actors
    BY DEF Told, Typed, StagesTyped, WorkTyped, Actors
<1>2. \A b \in Actors \ {a} : pc'[b] = pc[b]
    BY <1>1
<1>3. \A j \in Jobs \ {a} : HasLease(j)' => HasLease(j)
    BY <1>1, <1>2 DEF HasLease, Jobs
<1>4. LeaseHeld'
    BY <1>3 DEF LeaseHeld
<1>5. ASSUME NEW w \in Recoverers, target'[w] # Nobody PROVE pc'[target'[w]] = "done"
  <2>1. target'[w] = target[w]
    BY <1>1, <1>5
  <2>2. target[w] \in Updates /\ pc[target[w]] = "done"
    BY <1>1, <1>5, <2>1 DEF Calm, OrphansOnly
  <2> QED BY <1>2, <2>1, <2>2
<1>6. OrphansOnly'
    BY <1>5 DEF Calm, OrphansOnly
<1> QED BY <1>4, <1>6 DEF Calm

\* The same with the lease left alone.
LEMMA CalmUpdate ==
    ASSUME Told, Calm, NEW u \in Updates, NEW to, pc' = [pc EXCEPT ![u] = to], pc[u] # "done",
           UNCHANGED <<boot, lease, parent, target>>, to \in LeaseStages => pc[u] \in LeaseStages
    PROVE  Calm'
<1>1. u \in Actors /\ u \in Jobs /\ u \notin Rollbacks /\ DOMAIN pc = Actors
    BY ActorsDistinct DEF Jobs, Told, Typed, StagesTyped
<1>2. HasLease(u)' => HasLease(u)
    BY <1>1 DEF HasLease
<1>3. \A j \in Jobs : HasLease(j) => lease' = j
    BY DEF Calm, LeaseHeld
<1> QED BY <1>1, <1>2, <1>3, CalmMove

\* The same for a rollback.
LEMMA CalmRollback ==
    ASSUME Told, Calm, NEW r \in Rollbacks, NEW to, pc' = [pc EXCEPT ![r] = to], pc[r] # "done",
           UNCHANGED <<boot, lease, parent, target>>,
           to \in {"restoring", "restored"} =>
              parent[r] \in Updates \/ pc[r] \in {"restoring", "restored"}
    PROVE  Calm'
<1>1. r \in Actors /\ r \in Jobs /\ r \notin Updates /\ DOMAIN pc = Actors
    BY ActorsDistinct DEF Jobs, Told, Typed, StagesTyped
<1>2. HasLease(r)' => HasLease(r)
    BY <1>1 DEF HasLease
<1>3. \A j \in Jobs : HasLease(j) => lease' = j
    BY DEF Calm, LeaseHeld
<1> QED BY <1>1, <1>2, <1>3, CalmMove

\* Nobody moves, and the lease is let go by nobody who needs it.
LEMMA CalmStill ==
    ASSUME Calm, UNCHANGED <<pc, boot, parent, target>>, \A j \in Jobs : HasLease(j) => lease' = j
    PROVE  Calm'
BY DEF Calm, LeaseHeld, HasLease, OrphansOnly, boot

\* A caller starts its rollback, which has no lease yet.
LEMMA CalmChild ==
    ASSUME Told, Calm, NEW a \in Updates \cup Recoverers, NEW r \in Rollbacks,
           pc' = [pc EXCEPT ![a] = "rolling", ![r] = "queued"], pc[a] # "done", pc[r] # "done",
           a \in Updates => pc[a] \in LeaseStages,
           parent' = [parent EXCEPT ![r] = a], UNCHANGED <<boot, lease, target>>
    PROVE  Calm'
<1> USE ActorsDistinct DEF boot
<1>1. /\ DOMAIN pc = Actors /\ target \in [Recoverers -> Updates \cup {Nobody}]
      /\ DOMAIN parent = Rollbacks
    BY DEF Told, Typed, StagesTyped, WorkTyped
<1>2. pc'[r] = "queued" /\ \A b \in Actors \ {a, r} : pc'[b] = pc[b]
    BY <1>1
<1>3. \A s \in Rollbacks \ {r} : parent'[s] = parent[s]
    BY <1>1
<1>4. \A j \in Jobs : HasLease(j)' => HasLease(j)
    BY <1>2, <1>3 DEF HasLease, Jobs
<1>5. LeaseHeld'
    BY <1>4 DEF Calm, LeaseHeld
<1>6. OrphansOnly'
    BY <1>1, <1>2 DEF Calm, OrphansOnly
<1> QED BY <1>5, <1>6 DEF Calm

\* The steps of a pipeline.
LEMMA UpdateCalm ==
    ASSUME Told, Calm, NEW u \in Updates, UpdateStep(u)
    PROVE  Calm'
<1> USE DEF control, children, boot, records, Goto, SettleAs, LeaseStages
<1>1. CASE \/ AdmitUpdate(u) \/ EnqueueUpdate(u) \/ ClaimUpdate(u) \/ EnterGate(u)
           \/ LeaseConflict(u) \/ CreateTransaction(u) \/ OpenWindow(u) \/ Commit(u)
           \/ RecordCommit(u) \/ CallWorker(u) \/ WorkerFails(u) \/ CorrectImage(u)
           \/ TargetNotApplied(u) \/ WrongImage(u) \/ FinishUpdate(u) \/ NoRollback(u)
           \/ Block(u) \/ PreparationFails(u)
  <2>1. PICK to : Goto(u, to) /\ pc[u] # "done" /\ (to \in LeaseStages => pc[u] \in LeaseStages)
    BY <1>1
    DEF AdmitUpdate, EnqueueUpdate, ClaimUpdate, EnterGate, LeaseConflict, CreateTransaction,
        OpenWindow, Commit, RecordCommit, CallWorker, WorkerFails, CorrectImage, TargetNotApplied,
        WrongImage, FinishUpdate, NoRollback, Block, PreparationFails
  <2>2. UNCHANGED <<boot, lease, parent, target>>
    BY <1>1
    DEF AdmitUpdate, EnqueueUpdate, ClaimUpdate, EnterGate, LeaseConflict, CreateTransaction,
        OpenWindow, Commit, RecordCommit, CallWorker, WorkerFails, CorrectImage, TargetNotApplied,
        WrongImage, FinishUpdate, NoRollback, Block, PreparationFails
  <2> QED BY <2>1, <2>2, CalmUpdate
<1>2. CASE \/ StartPreflight(u) \/ TakeSnapshot(u) \/ CaptureRestorePoint(u) \/ Prepare(u)
           \/ WorkerReturns(u) \/ ConfirmImage(u) \/ RollbackUnavailable(u) \/ SettleUpdate(u)
           \/ LoseSettle(u) \/ EnsureTerminal(u) \/ CancelSafely(u) \/ ContextLost(u)
  <2>1. PICK to : Goto(u, to) /\ pc[u] # "done" /\ (to \in LeaseStages => pc[u] \in LeaseStages)
    BY <1>2
    DEF StartPreflight, TakeSnapshot, CaptureRestorePoint, Prepare, WorkerReturns, ConfirmImage,
        RollbackUnavailable, SettleUpdate, LoseSettle, EnsureTerminal, CancelSafely, ContextLost,
        Advance, RequireRecovery, BeforeNet
  <2>2. UNCHANGED <<boot, lease, parent, target>>
    BY <1>2
    DEF StartPreflight, TakeSnapshot, CaptureRestorePoint, Prepare, WorkerReturns, ConfirmImage,
        RollbackUnavailable, SettleUpdate, LoseSettle, EnsureTerminal, CancelSafely, ContextLost,
        Advance, RequireRecovery
  <2> QED BY <2>1, <2>2, CalmUpdate
<1>3. CASE PassStage(u) \/ FailStage(u)
  <2>1. pc[u] \in {"docker_health", "dependencies", "verifying"}
    BY <1>3 DEF PassStage, FailStage, NextStage
  <2>2. PICK to : Goto(u, to)
    BY <1>3 DEF PassStage, FailStage
  <2>3. UNCHANGED <<boot, lease, parent, target>>
    BY <1>3 DEF PassStage, FailStage
  <2> QED BY <2>1, <2>2, <2>3, CalmUpdate
<1>4. u \in Jobs /\ u \in Actors /\ u \notin Rollbacks
    BY ActorsDistinct DEF Jobs
<1>5. \A j \in Jobs : HasLease(j) => lease = j
    BY DEF Calm, LeaseHeld
<1>6. CASE AcquireLease(u)
  <2>1. \A j \in Jobs : ~HasLease(j)
    BY <1>5, <1>6, ActorsDistinct DEF AcquireLease, Actors
  <2> QED BY <1>4, <1>6, <2>1, CalmMove DEF AcquireLease
<1>7. CASE Leave(u)
  <2>1. HasLease(u)' = FALSE
    BY <1>4, <1>7 DEF Leave, HasLease, Told, Typed, StagesTyped
  <2>2. \A j \in Jobs \ {u} : HasLease(j) => lease' = j
    BY <1>5, <1>7 DEF Leave
  <2> QED BY <1>4, <1>7, <2>1, <2>2, CalmMove DEF Leave
<1>8. CASE Deadline(u) \/ CancelQueued(u) \/ RequestCancel(u) \/ SignalCancel(u)
    BY <1>5, <1>8, CalmStill DEF Deadline, CancelQueued, RequestCancel, SignalCancel
<1>9. ASSUME NEW r \in Rollbacks, AutoRollback(u, r) PROVE Calm'
    BY <1>9, CalmChild DEF AutoRollback
<1>10. ASSUME NEW r \in Rollbacks, RolledBack(u, r) \/ RollbackFailed(u, r) PROVE Calm'
  <2>1. /\ pc[u] = "rolling" /\ pc[r] = "done" /\ pc' = [pc EXCEPT ![u] = "settle"]
        /\ parent' = [parent EXCEPT ![r] = Nobody] /\ UNCHANGED <<boot, lease, target>>
    BY <1>10 DEF RolledBack, RollbackFailed, RollbackEnded, RequireRecovery
  <2>2. /\ DOMAIN pc = Actors /\ DOMAIN parent = Rollbacks /\ r \in Actors /\ r # u
    BY <1>4, ActorsDistinct DEF Told, Typed, StagesTyped, WorkTyped
  <2>3. ~HasLease(u)'
    BY <1>4, <2>1, <2>2 DEF HasLease
  <2>4. \A s \in Rollbacks : parent'[s] = parent[s] \/ pc'[s] = "done"
    BY <2>1, <2>2
  <2> QED BY <1>4, <1>5, <2>1, <2>3, <2>4, CalmMove
<1> QED BY <1>1, <1>2, <1>3, <1>6, <1>7, <1>8, <1>9, <1>10 DEF UpdateStep

\* The steps of a rollback.
LEMMA RollbackCalm ==
    ASSUME Told, Calm, NEW r \in Rollbacks, RollbackStep(r) \/ Leave(r) \/ CancelQueued(r)
    PROVE  Calm'
<1> USE DEF control, rest, children, boot, Goto, SettleAs
<1>1. r \in Jobs /\ r \in Actors /\ r \notin Updates
    BY ActorsDistinct DEF Jobs
<1>2. \A j \in Jobs : HasLease(j) => lease = j
    BY DEF Calm, LeaseHeld
<1>3. CASE \/ \E u \in Updates : AdmitRollback(r, u)
           \/ EnqueueRollback(r) \/ ClaimRollback(r) \/ RollbackEntersGate(r)
           \/ RollbackLeaseConflict(r) \/ RollbackRefused(r) \/ RollbackRestores(r)
           \/ RollbackBreaks(r) \/ RollbackCompletes(r) \/ SettleRollback(r)
  <2>1. PICK to : /\ Goto(r, to) /\ pc[r] # "done"
                  /\ to \in {"restoring", "restored"} => pc[r] \in {"restoring", "restored"}
    BY <1>3
    DEF AdmitRollback, EnqueueRollback, ClaimRollback, RollbackEntersGate, RollbackLeaseConflict,
        RollbackRefused, RollbackRestores, RollbackBreaks, RollbackCompletes, SettleRollback
  <2>2. UNCHANGED <<boot, lease, parent, target>>
    BY <1>3
    DEF AdmitRollback, EnqueueRollback, ClaimRollback, RollbackEntersGate, RollbackLeaseConflict,
        RollbackRefused, RollbackRestores, RollbackBreaks, RollbackCompletes, SettleRollback
  <2> QED BY <2>1, <2>2, CalmRollback
<1>4. CASE RollbackLeases(r)
  <2>1. CASE Automatic(r)
    BY <1>4, <2>1, CalmRollback DEF RollbackLeases, Automatic
  <2>2. CASE ~Automatic(r)
    <3>1. \A j \in Jobs : ~HasLease(j)
        BY <1>2, <1>4, <2>2, ActorsDistinct DEF RollbackLeases, Actors
    <3> QED BY <1>1, <1>4, <2>2, <3>1, CalmMove DEF RollbackLeases
  <2> QED BY <2>1, <2>2
<1>5. CASE Leave(r)
  <2>1. HasLease(r)' = FALSE
    BY <1>1, <1>5 DEF Leave, HasLease, Told, Typed, StagesTyped
  <2>2. \A j \in Jobs \ {r} : HasLease(j) => lease' = j
    BY <1>2, <1>5 DEF Leave
  <2> QED BY <1>1, <1>5, <2>1, <2>2, CalmMove DEF Leave
<1>6. CASE RollbackDeadline(r) \/ CancelQueued(r)
    BY <1>2, <1>6, CalmStill DEF RollbackDeadline, CancelQueued
<1> QED BY <1>3, <1>4, <1>5, <1>6 DEF RollbackStep

\* A recoverer that holds the gate and waits for nobody is alone.
LEMMA RecovererAlone ==
    ASSUME OwnershipInv, NEW w \in Recoverers, pc[w] = "reconcile"
    PROVE  \A j \in Jobs : ~HasLease(j)
<1> USE ActorsDistinct DEF OwnershipInv
<1>1. gate = w
    BY DEF RecoverersOwnGate, RecovererInGate
<1>2. ASSUME NEW u \in Updates PROVE pc[u] \notin LeaseStages
    BY <1>1 DEF UpdatesOwnGate, UpdateInGate, LeaseStages
<1>3. ASSUME NEW r \in Rollbacks, pc[r] \in {"restoring", "restored"}, parent[r] \notin Updates
      PROVE FALSE
  <2>1. parent[r] # Nobody
    BY <1>1, <1>3 DEF RollbacksOwnGate, RollbackInGate
  <2>2. parent[r] \in Recoverers /\ pc[parent[r]] = "rolling"
    BY <1>3, <2>1 DEF ControlTyped, CallersWait
  <2> QED BY <1>1, <2>2 DEF RecoverersOwnGate, RecovererInGate
<1> QED BY <1>2, <1>3 DEF HasLease

\* The steps of a recovery.
LEMMA RecoveryCalm ==
    ASSUME Told, OwnershipInv, Calm, NEW w \in Recoverers, RecoveryStep(w)
    PROVE  Calm'
<1> USE DEF others, children, boot, Goto, SettleAs
<1>1. w \in Actors /\ w \notin Jobs
    BY ActorsDistinct DEF Jobs
<1>2. \A j \in Jobs : HasLease(j) => lease = j
    BY DEF Calm, LeaseHeld
<1>3. \A j \in Jobs : HasLease(j) => j # target[w]
  <2> TAKE j \in Jobs
  <2>1. j = target[w] => pc[j] = "done"
    BY <1>1, ActorsDistinct DEF Calm, OrphansOnly, Actors
  <2> QED BY <2>1 DEF HasLease, LeaseStages
\* A step that does not take the lease from anybody who needs it.
<1>4. ASSUME NEW to, Goto(w, to), pc[w] # "done", UNCHANGED <<boot, parent>>,
             target' = target \/ target' = [target EXCEPT ![w] = Nobody],
             \A j \in Jobs : HasLease(j) => lease' = j
      PROVE  Calm'
    BY <1>1, <1>4, CalmMove
<1>5. CASE \/ RecoveryLeaseConflict(w) \/ RecoveryNeedsOperator(w) \/ RecoveryFindsOriginal(w)
           \/ RecoveryKeepsTarget(w) \/ RecoveryCannotRollBack(w) \/ RecoveryFinishesJob(w)
    BY <1>2, <1>4, <1>5
    DEF RecoveryLeaseConflict, RecoveryNeedsOperator, RecoveryFindsOriginal, RecoveryKeepsTarget,
        Reconcile, RecoveryCannotRollBack, RecoverySettles, RecoveryFinishesJob
<1>6. CASE RecoveryEntersGate(w)
    BY <1>2, <1>3, <1>4, <1>6 DEF RecoveryEntersGate
<1>7. CASE RecoveryLeases(w)
    BY <1>2, <1>4, <1>7, ActorsDistinct DEF RecoveryLeases, Actors
<1>8. CASE RecoveryHandsOff(w)
    BY <1>4, <1>8, RecovererAlone DEF RecoveryHandsOff
<1>9. CASE RecoveryLeaves(w)
    BY <1>2, <1>3, <1>4, <1>9 DEF RecoveryLeaves
<1>10. ASSUME NEW r \in Rollbacks, RecoveryRollsBack(w, r) PROVE Calm'
    BY <1>1, <1>10, CalmChild, ActorsDistinct DEF RecoveryRollsBack
<1>11. ASSUME NEW r \in Rollbacks, AfterRecoveryRollback(w, r) PROVE Calm'
  <2>1. /\ pc[w] = "rolling" /\ pc[r] = "done" /\ pc' = [pc EXCEPT ![w] = "settle"]
        /\ parent' = [parent EXCEPT ![r] = Nobody] /\ UNCHANGED <<boot, lease, target>>
    BY <1>11 DEF AfterRecoveryRollback, RecoveryRollbackEnded, RecoverySettles
  <2>2. /\ DOMAIN pc = Actors /\ DOMAIN parent = Rollbacks /\ r \in Actors /\ r # w
    BY <1>1, ActorsDistinct DEF Told, Typed, StagesTyped, WorkTyped
  <2>3. \A s \in Rollbacks : parent'[s] = parent[s] \/ pc'[s] = "done"
    BY <2>1, <2>2
  <2> QED BY <1>1, <1>2, <2>1, <2>3, CalmMove
<1> QED BY <1>5, <1>6, <1>7, <1>8, <1>9, <1>10, <1>11 DEF RecoveryStep

\* The steps of the others; nobody crashes, so nobody scans.
LEMMA SurroundingsCalm ==
    ASSUME Told, Calm, faults.crashes = 0,
           \/ \E u \in Updates :
                 SafeAbort(u) \/ ScanRecovers(u) \/ OrphanCancel(u) \/ OrphanRecovers(u)
                 \/ LosePoint(u)
           \/ WorkerApplies \/ Crash \/ Restart \/ StartScan \/ StartCleanup \/ EndCleanup
           \/ LeaseExpires
    PROVE  Calm'
<1> USE DEF others, control, children, boot, records, Goto
<1>1. \A j \in Jobs : HasLease(j) => lease = j /\ pc[j] \notin {"idle", "done"}
    BY DEF Calm, LeaseHeld, HasLease, LeaseStages
<1>2. Updates \subseteq Jobs /\ Cleanup \notin Jobs /\ Nobody \notin Jobs
    BY NamesAssumption DEF Jobs
<1>3. ASSUME NEW u \in Updates, SafeAbort(u) \/ ScanRecovers(u) PROVE FALSE
    BY <1>3 DEF SafeAbort, ScanRecovers, PreMutation, PostMutation, Calm, OrphansOnly
<1>4. ASSUME NEW u \in Updates, u \in cancelling, ~Registered(u) PROVE pc[u] = "done"
    BY <1>4 DEF Told, Recorded, Unknown, BeforeClaim, Registered
<1>5. ASSUME NEW u \in Updates, OrphanCancel(u) PROVE Calm'
  <2>1. pc[u] = "done"
    BY <1>4, <1>5 DEF OrphanCancel
  <2>2. \A j \in Jobs : HasLease(j) => lease' = j
    BY <1>1, <1>5, <2>1 DEF OrphanCancel
  <2> QED BY <1>5, <2>2, CalmStill DEF OrphanCancel
<1>6. ASSUME NEW u \in Updates, OrphanRecovers(u) PROVE Calm'
  <2> USE ActorsDistinct
  <2>1. /\ pc[u] = "done" /\ pc[Orphan] = "idle" /\ target' = [target EXCEPT ![Orphan] = u]
        /\ pc' = [pc EXCEPT ![Orphan] = "claimed"] /\ UNCHANGED <<lease, boot, parent>>
    BY <1>4, <1>6 DEF OrphanRecovers, StartRecovery
  <2>2. /\ DOMAIN pc = Actors /\ target \in [Recoverers -> Updates \cup {Nobody}]
        /\ Orphan \in Recoverers
    BY DEF Told, Typed, StagesTyped, WorkTyped, Recoverers
  <2>3. \A a \in Actors \ {Orphan} : pc'[a] = pc[a]
    BY <2>1, <2>2
  <2>4. LeaseHeld'
    BY <1>1, <2>1, <2>2, <2>3 DEF LeaseHeld, HasLease, Jobs
  <2>5. OrphansOnly'
    BY <2>1, <2>2, <2>3 DEF Calm, OrphansOnly
  <2> QED BY <2>4, <2>5 DEF Calm
<1>7. CASE \/ \E u \in Updates : LosePoint(u)
           \/ WorkerApplies \/ Restart \/ StartCleanup \/ EndCleanup
  <2>1. UNCHANGED <<pc, parent, target, scanned, seen>>
        /\ \A j \in Jobs : HasLease(j) => lease' = j
    BY <1>1, <1>2, <1>7 DEF LosePoint, WorkerApplies, Restart, StartCleanup, EndCleanup
  <2> QED BY <2>1 DEF Calm, LeaseHeld, HasLease, OrphansOnly
<1>8. CASE LeaseExpires
  <2>1. \A j \in Jobs : ~HasLease(j)
    BY <1>1, <1>8 DEF LeaseExpires, LeaseAlive
  <2> QED BY <1>8, <2>1, CalmStill DEF LeaseExpires
<1>9. ~StartScan
    BY DEF StartScan, Calm, OrphansOnly
<1>10. ~Crash
  <2>1. crashes \in 0 .. faults.crashes
    BY DEF Told, Typed, BoundsTyped
  <2> QED BY <2>1 DEF Crash
<1> QED BY <1>3, <1>5, <1>6, <1>7, <1>8, <1>9, <1>10

-----------------------------------------------------------------------------
\* The invariant, initially ...
LEMMA InitTells == Init => RowsInv
<1> SUFFICES ASSUME Init PROVE RowsInv
    OBVIOUS
<1>1. OwnershipInv
    BY InitOwns
<1>2. /\ JobsTyped /\ VerdictsTyped /\ WorkTyped /\ ProcessTyped
    BY Zenon DEF Init, JobsTyped, VerdictsTyped, WorkTyped, ProcessTyped
<1>3. TxsTyped
    BY DEF Init, TxsTyped, Txs, NoTransaction
<1>4. PointsTyped
    BY DEF Init, PointsTyped, Points, NoPoint, Images
<1>5. StagesTyped
    BY DEF Init, StagesTyped, UpdateStages, RollbackStages, RecoveryStages, Actors, Jobs
<1>6. ContainerTyped
    BY DEF Init, ContainerTyped, Images
<1>7. BoundsTyped
    BY ScenariosAssumption DEF Init, BoundsTyped
<1>8. Partners
    BY ActorsDistinct DEF Init, Partners
<1>9. ASSUME NEW u \in Updates PROVE Recorded(u)
  <2>1. u \in Actors /\ u \in Jobs
    BY DEF Actors, Jobs
  <2>2. /\ pc[u] = "idle" /\ job[u] = "none" /\ tx[u] = NoTransaction /\ verdict[u] = "none"
        /\ seen[u] = "none" /\ u \notin cancelling /\ u \notin mutated /\ up
    BY <2>1 DEF Init
  <2>3. \A w \in Recoverers : target[w] # u
    BY NamesAssumption, ActorsDistinct DEF Init
  <2>4. Unknown(u)
    BY <2>2, <2>3 DEF Unknown
  <2> QED BY <2>2, <2>4 DEF Recorded, BeforeCall, HasPoint
<1>10. Calm
    BY ActorsDistinct DEF Init, Calm, LeaseHeld, HasLease, LeaseStages, OrphansOnly
<1> QED
    BY <1>1, <1>2, <1>3, <1>4, <1>5, <1>6, <1>7, <1>8, <1>9, <1>10 DEF RowsInv, Told, Typed

\* ... and after every step; it says what the rows tell.
LEMMA NextKeeps == RowsInv /\ [Next]_vars => RowsInv'
<1> SUFFICES ASSUME RowsInv, [Next]_vars PROVE RowsInv'
    OBVIOUS
<1>1. Told /\ OwnershipInv /\ (faults.crashes = 0 => Calm)
    BY DEF RowsInv
<1>2. Told'
    BY <1>1, NextTells
<1>3. OwnershipInv'
    BY <1>1, NextOwns
<1>4. ASSUME faults'.crashes = 0 PROVE Calm'
  <2>1. faults' = faults
    BY FaultsStay
  <2>2. faults.crashes = 0 /\ Calm
    BY <1>1, <1>4, <2>1
  <2>3. CASE \E u \in Updates : UpdateStep(u)
    BY <1>1, <2>2, <2>3, UpdateCalm
  <2>4. CASE \E r \in Rollbacks : RollbackStep(r) \/ Leave(r) \/ CancelQueued(r)
    BY <1>1, <2>2, <2>4, RollbackCalm
  <2>5. CASE \E w \in Recoverers : RecoveryStep(w)
    BY <1>1, <2>2, <2>5, RecoveryCalm
  <2>6. CASE UNCHANGED vars
    BY <2>2, <2>6, CalmStill DEF vars, children, Calm, LeaseHeld
  <2>7. CASE \/ \E u \in Updates :
                   SafeAbort(u) \/ ScanRecovers(u) \/ OrphanCancel(u) \/ OrphanRecovers(u)
                   \/ LosePoint(u)
             \/ WorkerApplies \/ Crash \/ Restart \/ StartScan \/ StartCleanup \/ EndCleanup
             \/ LeaseExpires
    BY <1>1, <2>2, <2>7, SurroundingsCalm
  <2> QED BY <2>3, <2>4, <2>5, <2>6, <2>7, Zenon DEF Next
<1> QED BY <1>2, <1>3, <1>4 DEF RowsInv

-----------------------------------------------------------------------------
LEMMA InvTells == RowsInv => RowsTell
<1> SUFFICES ASSUME RowsInv PROVE RowsTell
    OBVIOUS
<1> USE DEF RowsInv, Told
<1>1. TypeOK
    BY TypeParts
<1>2. MutationIsRecorded
  <2> SUFFICES ASSUME NEW u \in mutated
               PROVE  /\ tx[u].state \notin PreMutation \cup {"none", "cancelled", "skipped"}
                      /\ point[u].kind # "none"
    BY DEF MutationIsRecorded
  <2>1. u \in Updates
    BY DEF Typed, ContainerTyped
  <2>2. tx[u].state \in Touched /\ point[u].kind # "none"
    BY <2>1 DEF Recorded
  <2> QED BY <2>2 DEF Touched, PostMutation, PreMutation
<1>3. CancelledNeverMutated
    BY DEF CancelledNeverMutated, Recorded
<1>4. ASSUME faults.crashes = 0, NEW j \in Jobs, Mutating(j)
      PROVE  lease = IF j \in Rollbacks /\ Automatic(j) THEN parent[j] ELSE j
  <2> USE ActorsDistinct
  <2>1. \A i \in Jobs : HasLease(i) => lease = i
    BY <1>4 DEF Calm, LeaseHeld
  <2>2. CASE j \in Updates
    BY <1>4, <2>1, <2>2 DEF Mutating, HasLease, LeaseStages
  <2>3. CASE j \in Rollbacks /\ ~Automatic(j)
    BY <1>4, <2>1, <2>3 DEF Mutating, HasLease, Automatic
  <2>4. CASE j \in Rollbacks /\ Automatic(j)
    <3>1. parent[j] \in Updates /\ parent[j] # Nobody
      BY <2>4 DEF Automatic
    <3>2. pc[parent[j]] = "rolling"
      BY <2>4, <3>1 DEF OwnershipInv, CallersWait
    <3>3. parent[j] \in Jobs /\ HasLease(parent[j])
      BY <3>1, <3>2 DEF HasLease, LeaseStages, Jobs
    <3> QED BY <2>1, <2>4, <3>3
  <2> QED BY <2>2, <2>3, <2>4 DEF Jobs
<1>5. faults.crashes = 0 => MutatorHoldsLease
    BY <1>4 DEF MutatorHoldsLease
<1> QED BY <1>1, <1>2, <1>3, <1>5 DEF RowsTell

\* Whatever users, crashes, recovery, failing calls and lost writes do, an
\* update that began to change the container is never found before mutation,
\* cancelled or skipped, nor without a restore point; a cancelled job never
\* changed it; and until a process crashes, who changes it has its lease
\* (executeUpdate, cancelUpdateBeforeMutation, ensureUpdateJobTerminal, the
\* rollback engine and recoverUpdateTransaction).
THEOREM RowsAreTrue == Spec => []RowsTell
<1>1. Init => RowsInv
    BY InitTells
<1>2. RowsInv /\ [Next]_vars => RowsInv'
    BY NextKeeps
<1>3. RowsInv => RowsTell
    BY InvTells
<1> QED BY <1>1, <1>2, <1>3, PTL DEF Spec

-----------------------------------------------------------------------------
\* The rows of an update are settled once.  Without crashes and overrun
\* deadlines, what settles them is the goroutine that owns them: a pipeline
\* finds them open until it writes the terminal state itself, and a recovery
\* those it took over.

\* A pipeline that has the claim.
InFlight == {"claimed"} \cup UpdateInGate
AfterCommit ==
    {"updating", "applying", "image_verify", "corrected", "docker_health", "dependencies",
     "verifying", "refreshing", "failing", "rolling"}
\* What the rows of an update say on its way to being settled.
Fate(u) ==
    /\ tx[u].state \in Terminal => tx[u].status \notin ActiveTxStatus
    /\ pc[u] \in BeforeClaim \cup InFlight =>
          tx[u].state \notin Terminal /\ tx[u].status \in {"none", "running"}
    /\ pc[u] \in AfterCommit => ctx[u] = "live"
    /\ pc[u] \in {"settle", "exit"} /\ verdict[u] = "success" => tx[u].state = "success"
\* A recovery settles what is open, and the job after the transaction.
Handled(w) ==
    /\ pc[w] \in {"claimed", "leasing", "reconcile", "handoff", "rolling"} =>
          tx[target[w]].status = "recovering" /\ tx[target[w]].state \in {"recovering", "rollback"}
    /\ pc[w] = "settle" /\ verdict[w] = "success" => tx[target[w]].state = "success"
Settled ==
    /\ up /\ pc[Scan] = "idle"
    /\ \A u \in Updates : Fate(u)
    /\ \A w \in Recoverers : Handled(w)

\* What a step may do to the two rows of an update.
Keeps(u) ==
    /\ tx[u].state \in Terminal => tx'[u].state = tx[u].state
    /\ job[u] # "success" /\ job'[u] = "success" => tx[u].state = "success"
Settles == Settled' /\ \A u \in Updates : Keeps(u)

SameFate(v) ==
    /\ pc'[v] = pc[v] /\ tx'[v] = tx[v] /\ verdict'[v] = verdict[v] /\ ctx'[v] = ctx[v]
    /\ job'[v] = job[v]

\* A step about one update.
LEMMA FateStep ==
    ASSUME Settled, NEW u \in Updates, up', pc'[Scan] = "idle", Handled(Orphan)',
           \A v \in Updates \ {u} : SameFate(v), Fate(u)', Keeps(u)
    PROVE  Settles
<1>1. ASSUME NEW v \in Updates, v # u PROVE Fate(v)' /\ Keeps(v)
    BY <1>1 DEF SameFate, Settled, Fate, Keeps
<1>2. Handled(Scan)'
    BY DEF Handled
<1> QED BY <1>1, <1>2 DEF Settles, Settled, Recoverers

\* Recovery is not about an update unless its pipeline has ended.
LEMMA RecoveryElsewhere ==
    ASSUME Told, Calm, Settled, \A v \in Updates : tx'[v] = tx[v] \/ pc[v] # "done",
           UNCHANGED target, \A w \in Recoverers : pc'[w] = pc[w] /\ verdict'[w] = verdict[w]
    PROVE  pc'[Scan] = "idle" /\ Handled(Orphan)'
<1> USE ActorsDistinct
<1>1. Orphan \in Recoverers /\ Scan \in Recoverers
    BY DEF Recoverers
<1>2. CASE pc[Orphan] = "idle"
    BY <1>1, <1>2 DEF Settled, Handled
<1>3. CASE pc[Orphan] # "idle"
  <2>1. target[Orphan] \in Updates
    BY <1>1, <1>3 DEF Told, Partners
  <2>2. pc[target[Orphan]] = "done"
    BY <1>1, <2>1 DEF Calm, OrphansOnly
  <2>3. tx'[target[Orphan]] = tx[target[Orphan]]
    BY <2>1, <2>2
  <2> QED BY <1>1, <2>3 DEF Settled, Handled
<1> QED BY <1>2, <1>3

\* A step about no update.
LEMMA RowsStay ==
    ASSUME Told, Calm, Settled, \A v \in Updates : SameFate(v), up', UNCHANGED target,
           \A w \in Recoverers : pc'[w] = pc[w] /\ verdict'[w] = verdict[w]
    PROVE  Settles
<1>1. ASSUME NEW v \in Updates PROVE Fate(v)' /\ Keeps(v)
    BY <1>1 DEF SameFate, Settled, Fate, Keeps
<1>2. pc'[Scan] = "idle" /\ Handled(Orphan)'
    BY RecoveryElsewhere DEF SameFate
<1>3. Handled(Scan)'
    BY <1>2 DEF Handled
<1> QED BY <1>1, <1>2, <1>3 DEF Settles, Settled, Recoverers

\* A step of a pipeline.
LEMMA PipelineStep ==
    ASSUME Told, Calm, Settled, NEW u \in Updates, NEW to, pc' = [pc EXCEPT ![u] = to],
           pc[u] # "done", JobWritten(u), TxWritten(u), VerdictGiven(u),
           UNCHANGED <<up, target, ctx>>, Fate(u)', Keeps(u)
    PROVE  Settles
<1> USE ActorsDistinct
<1>1. /\ u \in Actors /\ u \in Jobs /\ point \in [Updates -> Points]
      /\ DOMAIN pc = Actors /\ DOMAIN job = Jobs /\ DOMAIN tx = Updates /\ DOMAIN verdict = Actors
    BY DEF Actors, Jobs, Told, Typed, StagesTyped, JobsTyped, TxsTyped, VerdictsTyped, PointsTyped
<1>2. \A k \in Jobs \ {u} : job'[k] = job[k]
    BY <1>1 DEF JobWritten
<1>3. \A v \in Updates \ {u} : tx'[v] = tx[v]
    BY <1>1 DEF TxWritten
<1>4. \A b \in Actors \ {u} : verdict'[b] = verdict[b] /\ pc'[b] = pc[b]
    BY <1>1 DEF VerdictGiven
<1>5. \A v \in Updates \ {u} : SameFate(v)
    BY <1>1, <1>2, <1>3, <1>4 DEF SameFate, Jobs, Actors
<1>6. pc'[Scan] = "idle" /\ Handled(Orphan)'
    BY <1>1, <1>3, <1>4, RecoveryElsewhere
<1> QED BY <1>5, <1>6, FateStep DEF Settled

\* The pipeline writes a terminal transaction once, as it goes to its settlement.
LEMMA PipelineSettles ==
    ASSUME Told, Calm, Settled, faults.overrun = {}, NEW u \in Updates, UpdateStep(u)
    PROVE  Settles
<1> USE DEF control, children, boot, bounds, docker, records, Goto
<1>1. /\ tx \in [Updates -> Txs] /\ job \in [Jobs -> JobStates \cup {"none"}]
      /\ verdict \in [Actors -> FinalJob \cup {"none"}] /\ ctx \in [Jobs -> {"live", "dead"}]
      /\ DOMAIN pc = Actors /\ u \in Jobs /\ u \in Actors /\ Typed /\ up /\ Fate(u) /\ Recorded(u)
    BY DEF Told, Typed, TxsTyped, JobsTyped, VerdictsTyped, StagesTyped, ProcessTyped, Jobs, Actors,
       Settled
\* The transaction stays as it is.
<1>2. ASSUME NEW to, pc' = [pc EXCEPT ![u] = to], pc[u] # "done",
             JobWritten(u), VerdictGiven(u), UNCHANGED <<tx, up, target, ctx>>,
             to \in InFlight \cup BeforeClaim => pc[u] \in InFlight \cup BeforeClaim,
             to \in AfterCommit => pc[u] \in AfterCommit \/ ctx[u] = "live",
             to \in {"settle", "exit"} => verdict'[u] # "success",
             job[u] # "success" /\ job'[u] = "success" => tx[u].state = "success"
      PROVE  Settles
  <2>1. Fate(u)' /\ Keeps(u)
    BY <1>1, <1>2 DEF Fate, Keeps
  <2> QED BY <1>1, <1>2, <2>1, PipelineStep, Writes
<1>3. job' = job => JobWritten(u)
    BY DEF JobWritten
<1>4. verdict' = verdict => VerdictGiven(u)
    BY DEF VerdictGiven
<1>5. CASE AdmitUpdate(u) \/ EnterGate(u) \/ AcquireLease(u) \/ OpenWindow(u) \/ RecordCommit(u)
    BY <1>1, <1>2, <1>3, <1>4, <1>5
    DEF AdmitUpdate, EnterGate, AcquireLease, OpenWindow, RecordCommit, InFlight, BeforeClaim,
        UpdateInGate, AfterCommit
<1>6. CASE CallWorker(u) \/ WorkerFails(u) \/ CorrectImage(u) \/ WrongImage(u)
    BY <1>1, <1>2, <1>3, <1>4, <1>6
    DEF CallWorker, WorkerFails, CorrectImage, WrongImage, InFlight, BeforeClaim,
        UpdateInGate, AfterCommit
<1>7. CASE FailStage(u)
  <2>1. pc[u] \in {"docker_health", "dependencies", "verifying"}
    BY <1>7 DEF FailStage, NextStage
  <2> QED
    BY <1>1, <1>2, <1>3, <1>4, <1>7, <2>1
    DEF FailStage, InFlight, BeforeClaim, UpdateInGate, AfterCommit
<1>8. CASE EnqueueUpdate(u)
    BY <1>1, <1>2, <1>4, <1>8, Writes
    DEF EnqueueUpdate, SetJob, InFlight, BeforeClaim, UpdateInGate, AfterCommit, JobStates, ActiveJob
<1>9. CASE ClaimUpdate(u)
  <2>1. PICK to \in {"claimed", "done"} : pc' = [pc EXCEPT ![u] = to]
    BY <1>9 DEF ClaimUpdate
  <2>2. JobWritten(u) /\ job'[u] \in {job[u], "running"}
    BY <1>1, <1>3, <1>9, Writes DEF ClaimUpdate, SetJob, JobStates, ActiveJob
  <2> QED
    BY <1>1, <1>2, <1>4, <1>9, <2>1, <2>2
    DEF ClaimUpdate, InFlight, BeforeClaim, UpdateInGate, AfterCommit
<1>10. CASE LoseSettle(u)
  <2>1. PICK to \in {"ensure", "leave"} : pc' = [pc EXCEPT ![u] = to]
    BY <1>10 DEF LoseSettle
  <2> QED
    BY <1>1, <1>2, <1>3, <1>4, <1>10, <2>1
    DEF LoseSettle, InFlight, BeforeClaim, UpdateInGate, AfterCommit
<1>11. CASE Leave(u)
    BY <1>1, <1>2, <1>3, <1>4, <1>11 DEF Leave, InFlight, BeforeClaim, UpdateInGate, AfterCommit
<1>12. CASE LeaseConflict(u) \/ ContextLost(u)
  <2>1. PICK to \in {"exit", "settle"}, v \in {"cancelled", "failed"} :
           pc' = [pc EXCEPT ![u] = to] /\ verdict' = [verdict EXCEPT ![u] = v]
    BY <1>12 DEF LeaseConflict, ContextLost
  <2>2. VerdictGiven(u) /\ verdict'[u] = v
    BY <1>1, <2>1 DEF VerdictGiven, FinalJob
  <2>3. pc[u] # "done" /\ UNCHANGED <<job, tx, up, target, ctx>>
    BY <1>12 DEF LeaseConflict, ContextLost, BeforeNet
  <2> QED
    BY <1>1, <1>2, <1>3, <2>1, <2>2, <2>3 DEF InFlight, BeforeClaim, UpdateInGate, AfterCommit
\* On to the next stage.
<1>13. ASSUME NEW to \in InFlight, NEW state \in TxStates \ Terminal, pc' = [pc EXCEPT ![u] = to],
              SetTx(u, state, "running"), pc[u] \in InFlight,
              to \in AfterCommit => ctx[u] = "live", UNCHANGED <<job, verdict, up, target, ctx>>
       PROVE  Settles
  <2>1. TxWritten(u) /\ tx'[u].state = state /\ tx'[u].status = "running"
    BY <1>1, <1>13, Writes DEF SetTx, TxStatuses, ActiveTxStatus
  <2>2. Fate(u)' /\ Keeps(u)
    BY <1>1, <1>13, <2>1 DEF Fate, Keeps, InFlight, UpdateInGate
  <2> QED
    BY <1>1, <1>3, <1>4, <1>13, <2>1, <2>2, PipelineStep DEF InFlight, UpdateInGate
<1>14. CASE CreateTransaction(u) \/ Commit(u)
    BY <1>1, <1>13, <1>14
    DEF CreateTransaction, Commit, InFlight, UpdateInGate, AfterCommit, TxStates, PreMutation,
        PostMutation, Terminal
<1>15. CASE StartPreflight(u) \/ TakeSnapshot(u) \/ CaptureRestorePoint(u) \/ Prepare(u)
    BY <1>1, <1>13, <1>15
    DEF StartPreflight, TakeSnapshot, CaptureRestorePoint, Prepare, Advance, InFlight,
        UpdateInGate, AfterCommit, TxStates, PreMutation, Terminal
<1>16. CASE WorkerReturns(u) \/ ConfirmImage(u)
    BY <1>1, <1>13, <1>16
    DEF WorkerReturns, ConfirmImage, Advance, InFlight, UpdateInGate, TxStates, PostMutation,
        Terminal
<1>17. CASE PassStage(u)
  <2>1. pc[u] \in {"docker_health", "dependencies", "verifying"}
        /\ UNCHANGED <<job, point, lease, docker, control, children, verdict, ctx, cancelling>>
    BY <1>17 DEF PassStage, NextStage
  <2>2. PICK next \in NextStage[pc[u]] : SetTxIfLive(u, next, "running") /\ Goto(u, next)
    BY <1>17 DEF PassStage
  <2>3. next \in {"dependencies", "verifying", "refreshing"}
    BY <2>1, <2>2 DEF NextStage
  <2>4. ctx[u] = "live"
    BY <1>1, <2>1 DEF Fate, AfterCommit
  <2>5. SetTx(u, next, "running")
    BY <2>2, <2>4 DEF SetTxIfLive
  <2> QED
    BY <1>1, <1>13, <2>1, <2>2, <2>3, <2>4, <2>5
    DEF InFlight, UpdateInGate, TxStates, PostMutation, Terminal
\* The outcome, under a live context.
<1>18. ASSUME NEW s \in {"success", "failed", "skipped", "rolled_back", "recovery_required"},
              NEW v \in {"success", "failed", "skipped"}, pc[u] \in InFlight,
              SetTxIfLive(u, s, s), SettleAs(u, v), v = "success" => s = "success" /\ ctx[u] = "live",
              UNCHANGED <<job, up, target, ctx>>
       PROVE  Settles
  <2>1. s \in TxStates /\ s \in TxStatuses /\ v \in FinalJob
    BY DEF TxStates, TxStatuses, FinalJob, Terminal, PostMutation, ActiveTxStatus
  <2>2. TxWritten(u) /\ (ctx[u] = "live" => tx'[u].state = s /\ tx'[u].status = s)
        /\ (ctx[u] # "live" => tx'[u] = tx[u])
    BY <1>1, <1>18, <2>1, Writes DEF SetTxIfLive, SetTx
  <2>3. VerdictGiven(u) /\ verdict'[u] = v /\ pc' = [pc EXCEPT ![u] = "settle"] /\ pc'[u] = "settle"
    BY <1>1, <1>18, <2>1, Writes DEF SettleAs
  <2>4. Fate(u)' /\ Keeps(u)
    BY <1>1, <1>18, <2>2, <2>3
    DEF Fate, Keeps, InFlight, UpdateInGate, BeforeClaim, AfterCommit, Terminal, ActiveTxStatus
  <2> QED
    BY <1>1, <1>3, <1>18, <2>2, <2>3, <2>4, PipelineStep DEF InFlight, UpdateInGate
<1>19. CASE Block(u)
    BY <1>1, <1>18, <1>19 DEF Block, InFlight, UpdateInGate
<1>20. CASE PreparationFails(u) \/ NoRollback(u)
    BY <1>1, <1>18, <1>20 DEF PreparationFails, NoRollback, InFlight, UpdateInGate
<1>21. CASE TargetNotApplied(u)
    BY <1>1, <1>18, <1>21 DEF TargetNotApplied, SetTxIfLive, InFlight, UpdateInGate
<1>22. CASE FinishUpdate(u)
  <2>1. ctx[u] = "live" /\ pc[u] \in InFlight
    BY <1>1, <1>22 DEF FinishUpdate, Fate, AfterCommit, InFlight, UpdateInGate
  <2> QED BY <1>1, <1>18, <1>22, <2>1 DEF FinishUpdate
<1>23. CASE RollbackUnavailable(u)
  <2>1. ctx[u] = "live" /\ pc[u] \in InFlight
    BY <1>1, <1>23 DEF RollbackUnavailable, Fate, AfterCommit, InFlight, UpdateInGate
  <2> QED BY <1>1, <1>18, <1>23, <2>1 DEF RollbackUnavailable, RequireRecovery, SetTxIfLive
<1>24. CASE CancelSafely(u)
  <2>1. pc[u] \in InFlight /\ pc[u] # "done" /\ UNCHANGED <<job, up, target, ctx>>
    BY <1>24 DEF CancelSafely, InFlight, UpdateInGate
  <2>2. PICK to \in {"exit", "settle"} : pc' = [pc EXCEPT ![u] = to]
    BY <1>24 DEF CancelSafely
  <2>3. VerdictGiven(u) /\ verdict'[u] = "cancelled"
    BY <1>1, <1>24 DEF CancelSafely, VerdictGiven, FinalJob
  <2>4. TxWritten(u) /\ (tx'[u] = tx[u] \/ (tx'[u].state = "cancelled" /\ tx'[u].status = "cancelled"))
    <3>1. SetTx(u, "cancelled", "cancelled") \/ tx' = tx
      BY <1>24 DEF CancelSafely
    <3>2. TxWritten(u)
      BY <1>1, <3>1, Writes DEF TxStates, TxStatuses, Terminal
    <3> QED BY <1>1, <3>1, <3>2 DEF SetTx
  <2>5. Fate(u)' /\ Keeps(u)
    BY <1>1, <2>1, <2>2, <2>3, <2>4
    DEF Fate, Keeps, InFlight, UpdateInGate, BeforeClaim, AfterCommit, Terminal, ActiveTxStatus
  <2> QED BY <1>1, <1>3, <2>1, <2>2, <2>3, <2>4, <2>5, PipelineStep
<1>25. CASE SettleUpdate(u)
  <2>1. JobWritten(u) /\ job'[u] = verdict[u]
    BY <1>1, <1>25 DEF SettleUpdate, SetJob, JobWritten, JobStates
  <2> QED
    BY <1>1, <1>2, <1>4, <1>25, <2>1
    DEF SettleUpdate, Fate, InFlight, BeforeClaim, UpdateInGate, AfterCommit
<1>26. CASE EnsureTerminal(u)
  <2>1. pc[u] = "ensure" /\ pc' = [pc EXCEPT ![u] = "leave"]
        /\ UNCHANGED <<verdict, up, target, ctx>>
    BY <1>26 DEF EnsureTerminal
  <2>2. CASE UNCHANGED <<job, tx>>
    BY <1>1, <1>2, <1>3, <1>4, <2>1, <2>2 DEF InFlight, BeforeClaim, UpdateInGate, AfterCommit
  <2>3. CASE tx[u].state \in Terminal /\ tx' = tx
             /\ SetJob(u, terminalJobStateForTransaction(tx[u].state))
    <3>1. JobWritten(u) /\ (job'[u] = "success" => tx[u].state = "success")
      BY <1>1, <2>3, Writes
      DEF terminalJobStateForTransaction, SetJob, JobStates, FinalJob, Terminal
    <3> QED
      BY <1>1, <1>2, <1>4, <2>1, <2>3, <3>1 DEF InFlight, BeforeClaim, UpdateInGate, AfterCommit
  <2>4. CASE tx[u].state \in PreMutation /\ \E outcome \in {"cancelled", "failed"} :
                SetTx(u, outcome, outcome) /\ SetJob(u, outcome)
    <3>1. PICK outcome \in {"cancelled", "failed"} :
             SetTx(u, outcome, outcome) /\ SetJob(u, outcome)
      BY <2>4
    <3>2. /\ JobWritten(u) /\ TxWritten(u) /\ job'[u] = outcome
          /\ tx'[u].state = outcome /\ tx'[u].status = outcome
      BY <1>1, <3>1, Writes
      DEF SetTx, SetJob, JobStates, FinalJob, TxStates, TxStatuses, Terminal
    <3>3. Fate(u)' /\ Keeps(u)
      BY <1>1, <2>1, <2>4, <3>2
      DEF Fate, Keeps, InFlight, UpdateInGate, BeforeClaim, AfterCommit, Terminal, ActiveTxStatus,
          PreMutation
    <3> QED BY <1>1, <1>4, <2>1, <3>2, <3>3, PipelineStep
  <2>5. CASE tx[u].state \in PostMutation /\ SetStatus(u, "recovery_required") /\ SetJob(u, "failed")
    <3>1. JobWritten(u) /\ job'[u] = "failed"
      BY <1>1, <2>5, Writes DEF SetJob, JobStates, FinalJob
    <3>3. TxWritten(u)
      BY <1>1, <2>5, Writes DEF TxStatuses, ActiveTxStatus
    <3>4. tx'[u].state = tx[u].state
      BY <1>1, <2>5 DEF SetStatus, Txs
    <3>2. Fate(u)' /\ Keeps(u)
      BY <1>1, <2>1, <2>5, <3>1, <3>4
      DEF Fate, Keeps, InFlight, UpdateInGate, BeforeClaim, AfterCommit, Terminal, PostMutation
    <3> QED BY <1>1, <1>4, <2>1, <3>1, <3>2, <3>3, PipelineStep
  <2> QED BY <1>26, <2>2, <2>3, <2>4, <2>5 DEF EnsureTerminal
<1>27. ~Deadline(u)
    BY DEF Deadline
\* Nothing moves.
<1>28. ASSUME UNCHANGED <<tx, pc, verdict, up, target>>, JobWritten(u), job'[u] # "success",
              \A v \in Updates \ {u} : ctx'[v] = ctx[v],
              pc[u] \in AfterCommit => ctx'[u] = ctx[u]
       PROVE  Settles
  <2>1. Fate(u)' /\ Keeps(u)
    BY <1>1, <1>28 DEF Fate, Keeps
  <2>2. \A v \in Updates \ {u} : SameFate(v)
    BY <1>1, <1>28 DEF SameFate, JobWritten, Jobs
  <2>3. pc'[Scan] = "idle" /\ Handled(Orphan)'
    BY <1>28, RecoveryElsewhere DEF Settled
  <2> QED BY <1>1, <1>28, <2>1, <2>2, <2>3, FateStep
<1>29. CASE CancelQueued(u) \/ RequestCancel(u)
  <2>1. PICK s \in {"cancelled", "cancel_requested"} : SetJob(u, s)
    BY <1>29 DEF CancelQueued, RequestCancel
  <2>2. JobWritten(u) /\ job'[u] # "success"
    BY <1>1, <2>1, Writes DEF SetJob, JobStates, FinalJob, ActiveJob
  <2> QED BY <1>28, <1>29, <2>2 DEF CancelQueued, RequestCancel
<1>30. CASE SignalCancel(u)
  <2>1. \A v \in Updates \ {u} : ctx'[v] = ctx[v]
    BY <1>1, <1>30 DEF SignalCancel
  <2>2. pc[u] \in AfterCommit => ctx'[u] = ctx[u]
    BY <1>30 DEF SignalCancel, AfterCommit, PreMutation
  <2>3. UNCHANGED <<job, tx, pc, verdict, up, target>>
    BY <1>30 DEF SignalCancel
  <2>4. Fate(u)' /\ Keeps(u)
    BY <1>1, <2>2, <2>3 DEF Fate, Keeps
  <2>5. \A v \in Updates \ {u} : SameFate(v)
    BY <2>1, <2>3 DEF SameFate
  <2>6. pc'[Scan] = "idle" /\ Handled(Orphan)'
    BY <2>3, RecoveryElsewhere DEF Settled
  <2> QED BY <1>1, <2>3, <2>4, <2>5, <2>6, FateStep
<1>31. ASSUME NEW r \in Rollbacks, AutoRollback(u, r) PROVE Settles
  <2> USE ActorsDistinct
  <2>1. /\ pc[u] = "failing" /\ ctx[u] = "live" /\ SetTx(u, "rollback", "running")
        /\ job' = [job EXCEPT ![r] = "queued"]
        /\ pc' = [pc EXCEPT ![u] = "rolling", ![r] = "queued"]
        /\ UNCHANGED <<verdict, ctx, up, target>>
    BY <1>31 DEF AutoRollback, SetJob
  <2>2. r \in Jobs /\ r \in Actors /\ r \notin Updates /\ Updates \subseteq Jobs
        /\ Updates \subseteq Actors /\ Recoverers \subseteq Actors
    BY DEF Jobs
  <2>3. pc'[u] = "rolling" /\ job'[u] = job[u] /\ tx'[u].state = "rollback"
        /\ tx'[u].status = "running"
    BY <1>1, <2>1, <2>2 DEF SetTx
  <2>4. \A v \in Updates \ {u} : SameFate(v)
    BY <1>1, <2>1, <2>2 DEF SameFate, SetTx
  <2>5. Fate(u)' /\ Keeps(u)
    BY <1>1, <2>1, <2>3
    DEF Fate, Keeps, InFlight, UpdateInGate, BeforeClaim, AfterCommit, Terminal
  <2>6. \A w \in Recoverers : pc'[w] = pc[w] /\ verdict'[w] = verdict[w]
    BY <1>1, <2>1, <2>2
  <2>7. pc'[Scan] = "idle" /\ Handled(Orphan)'
    BY <1>1, <2>1, <2>4, <2>6, RecoveryElsewhere DEF SameFate
  <2> QED BY <1>1, <2>1, <2>4, <2>5, <2>7, FateStep
<1>32. ASSUME NEW r \in Rollbacks, RolledBack(u, r) \/ RollbackFailed(u, r) PROVE Settles
  <2>1. ctx[u] = "live" /\ pc[u] \in InFlight
    BY <1>1, <1>32
    DEF RolledBack, RollbackFailed, RollbackEnded, Fate, AfterCommit, InFlight, UpdateInGate
  <2>2. PICK s \in {"rolled_back", "recovery_required"} : SetTxIfLive(u, s, s)
    BY <1>32, <2>1 DEF RolledBack, RollbackFailed, RequireRecovery, SetTxIfLive
  <2>3. SettleAs(u, "failed") /\ UNCHANGED <<job, up, target, ctx>>
    BY <1>32 DEF RolledBack, RollbackFailed, RequireRecovery
  <2> QED BY <1>18, <2>1, <2>2, <2>3
<1> QED
    BY <1>5, <1>6, <1>7, <1>8, <1>9, <1>10, <1>11, <1>12, <1>14, <1>15, <1>16, <1>17, <1>19, <1>20,
       <1>21, <1>22, <1>23, <1>24, <1>25, <1>26, <1>27, <1>29, <1>30, <1>31, <1>32 DEF UpdateStep

\* A rollback settles a transaction that waits for recovery.
LEMMA RollbackSettles ==
    ASSUME Told, Calm, Settled, faults.overrun = {}, NEW r \in Rollbacks,
           RollbackStep(r) \/ Leave(r) \/ CancelQueued(r)
    PROVE  Settles
<1> USE ActorsDistinct DEF rest, control, children, boot, bounds, docker, Goto
<1>1. /\ tx \in [Updates -> Txs] /\ job \in [Jobs -> JobStates \cup {"none"}]
      /\ verdict \in [Actors -> FinalJob \cup {"none"}] /\ DOMAIN pc = Actors
      /\ r \in Jobs /\ r \in Actors /\ r \notin Updates /\ r \notin Recoverers
      /\ Updates \subseteq Jobs /\ Updates \subseteq Actors /\ Recoverers \subseteq Actors
      /\ Typed /\ up /\ \A v \in Updates : Fate(v)
    BY DEF Told, Typed, TxsTyped, JobsTyped, VerdictsTyped, StagesTyped, Jobs, Settled
\* Whatever it does to its own rows.
<1>2. ASSUME \A a \in Actors \ {r} : pc'[a] = pc[a] /\ verdict'[a] = verdict[a],
             \A j \in Jobs \ {r} : job'[j] = job[j], UNCHANGED <<tx, ctx, up, target>>
      PROVE  Settles
    BY <1>1, <1>2, RowsStay DEF SameFate
<1>3. CASE RollbackCompletes(r)
  <2>1. PICK u \in Updates : u = source[r]
    BY <1>3 DEF Told, Partners, RollbackCompletes
  <2>2. /\ \A a \in Actors \ {r} : pc'[a] = pc[a] /\ verdict'[a] = verdict[a]
        /\ UNCHANGED <<job, ctx, up, target>>
    BY <1>1, <1>3 DEF RollbackCompletes
  <2>3. CASE tx' = tx
    BY <1>2, <2>2, <2>3
  <2>4. CASE tx[u].status = "recovery_required" /\ SetTx(u, "rolled_back", "rolled_back")
    <3>1. tx'[u].state = "rolled_back" /\ tx'[u].status = "rolled_back"
          /\ \A v \in Updates \ {u} : tx'[v] = tx[v]
      BY <1>1, <2>4 DEF SetTx
    <3>2. tx[u].state \notin Terminal /\ pc[u] \notin BeforeClaim \cup InFlight
      BY <1>1, <2>4 DEF Fate, ActiveTxStatus
    <3>3. Fate(u)' /\ Keeps(u)
      BY <1>1, <2>2, <3>1, <3>2
      DEF Fate, Keeps, Terminal, ActiveTxStatus, AfterCommit, InFlight, UpdateInGate
    <3>4. \A v \in Updates \ {u} : SameFate(v)
      BY <1>1, <2>2, <3>1 DEF SameFate
    <3>5. Orphan \in Recoverers /\ Scan \in Recoverers
      BY DEF Recoverers
    <3>6. Handled(Orphan)'
      <4>1. pc[Orphan] # "idle" => target[Orphan] \in Updates
        BY <3>5 DEF Told, Partners
      <4>2. Handled(Orphan)
        BY <3>5 DEF Settled
      <4>3. CASE target[Orphan] = u
        BY <1>1, <2>2, <2>4, <3>2, <3>5, <4>2, <4>3 DEF Handled, Terminal
      <4>4. CASE target[Orphan] # u
        BY <1>1, <2>2, <3>1, <3>5, <4>1, <4>2, <4>4 DEF Handled
      <4> QED BY <4>3, <4>4
    <3>7. pc'[Scan] = "idle"
      BY <1>1, <2>2, <3>5 DEF Settled
    <3> QED BY <1>1, <2>2, <3>3, <3>4, <3>6, <3>7, FateStep
  <2> QED BY <1>3, <2>1, <2>3, <2>4 DEF RollbackCompletes
<1>4. ~RollbackDeadline(r)
    BY DEF RollbackDeadline
<1>5. CASE \/ \E u \in Updates : AdmitRollback(r, u)
           \/ EnqueueRollback(r) \/ ClaimRollback(r) \/ RollbackEntersGate(r)
           \/ RollbackLeases(r) \/ RollbackLeaseConflict(r)
    BY <1>1, <1>2, <1>5
    DEF AdmitRollback, EnqueueRollback, ClaimRollback, RollbackEntersGate, RollbackLeases,
        RollbackLeaseConflict, SettleAs, SetJob
<1>6. CASE RollbackRefused(r) \/ RollbackRestores(r) \/ RollbackBreaks(r) \/ SettleRollback(r)
    BY <1>1, <1>2, <1>6
    DEF RollbackRefused, RollbackRestores, RollbackBreaks, SettleRollback, SettleAs, SetJob
<1>7. CASE Leave(r) \/ CancelQueued(r)
    BY <1>1, <1>2, <1>7 DEF Leave, CancelQueued, SetJob
<1> QED BY <1>3, <1>4, <1>5, <1>6, <1>7 DEF RollbackStep

\* Only an orphaned cancel recovers anything here, once the pipeline has ended.
LEMMA OrphanSettles ==
    ASSUME Told, Calm, Settled, NEW w \in Recoverers, RecoveryStep(w)
    PROVE  Settles
<1> USE ActorsDistinct DEF others, children, boot, bounds, docker, Goto
<1>1. pc[w] # "idle"
    BY DEF RecoveryStep, RecoveryEntersGate, RecoveryLeases, RecoveryLeaseConflict,
       RecoveryNeedsOperator, RecoveryFindsOriginal, RecoveryKeepsTarget, Reconcile,
       RecoveryHandsOff, RecoveryCannotRollBack, RecoveryRollsBack, AfterRecoveryRollback,
       RecoveryRollbackEnded, RecoveryFinishesJob, RecoveryLeaves
<1>2. w = Orphan /\ Orphan # Scan /\ Orphan \in Recoverers
    BY <1>1, NamesAssumption DEF Settled, Recoverers
<1>3. PICK u \in Updates : u = target[Orphan]
    BY <1>1, <1>2 DEF Told, Partners
<1>4. pc[u] = "done"
    BY <1>2, <1>3 DEF Calm, OrphansOnly
<1>5. /\ tx \in [Updates -> Txs] /\ job \in [Jobs -> JobStates \cup {"none"}]
      /\ verdict \in [Actors -> FinalJob \cup {"none"}] /\ DOMAIN pc = Actors
      /\ Updates \subseteq Jobs /\ Updates \subseteq Actors /\ Recoverers \subseteq Actors
      /\ Scan \in Actors /\ Orphan \in Actors /\ Orphan \notin Updates /\ up /\ pc[Scan] = "idle"
      /\ Fate(u) /\ Handled(Orphan) /\ target \in [Recoverers -> Updates \cup {Nobody}]
    BY <1>2 DEF Told, Typed, TxsTyped, JobsTyped, VerdictsTyped, StagesTyped, WorkTyped, Jobs,
        Settled, Recoverers
\* A step on the way to the settlement, or after it.
<1>6. ASSUME \A a \in Actors \ {Orphan} : pc'[a] = pc[a] /\ verdict'[a] = verdict[a],
             \A v \in Updates \ {u} : tx'[v] = tx[v] /\ job'[v] = job[v],
             UNCHANGED <<ctx, up>>, Keeps(u), Handled(Orphan)',
             tx'[u].state \in Terminal => tx'[u].status \notin ActiveTxStatus
      PROVE  Settles
  <2>1. Fate(u)'
    BY <1>4, <1>5, <1>6 DEF Fate, BeforeClaim, InFlight, UpdateInGate, AfterCommit
  <2>2. \A v \in Updates \ {u} : SameFate(v)
    BY <1>5, <1>6 DEF SameFate
  <2>3. pc'[Scan] = "idle"
    BY <1>2, <1>5, <1>6
  <2> QED BY <1>5, <1>6, <2>1, <2>2, <2>3, FateStep
<1>7. CASE RecoveryEntersGate(Orphan) \/ RecoveryLeases(Orphan)
  <2>1. PICK to \in {"leasing", "reconcile"} : pc' = [pc EXCEPT ![Orphan] = to]
    BY <1>7 DEF RecoveryEntersGate, RecoveryLeases
  <2>2. UNCHANGED <<job, tx, up, verdict, target, ctx>> /\ pc[Orphan] \in {"claimed", "leasing"}
    BY <1>7 DEF RecoveryEntersGate, RecoveryLeases
  <2>3. Handled(Orphan)' /\ Keeps(u)
    BY <1>5, <2>1, <2>2 DEF Handled, Keeps
  <2> QED BY <1>5, <1>6, <2>1, <2>2, <2>3 DEF Fate
<1>8. CASE RecoveryLeaseConflict(Orphan)
  <2>1. /\ pc[Orphan] = "leasing" /\ SetStatus(u, "recovery_required")
        /\ pc' = [pc EXCEPT ![Orphan] = "leave"] /\ UNCHANGED <<job, up, verdict, target, ctx>>
    BY <1>3, <1>8 DEF RecoveryLeaseConflict
  <2>2. tx'[u].state = tx[u].state /\ \A v \in Updates \ {u} : tx'[v] = tx[v]
    BY <1>5, <2>1 DEF SetStatus, Txs
  <2>3. tx[u].state \notin Terminal
    BY <1>3, <1>5, <2>1 DEF Handled, Terminal
  <2>4. Handled(Orphan)' /\ Keeps(u)
    BY <1>5, <2>1, <2>2 DEF Handled, Keeps
  <2> QED BY <1>5, <1>6, <2>1, <2>2, <2>3, <2>4
\* An outcome.
<1>9. ASSUME pc[Orphan] \in {"reconcile", "handoff", "rolling"}, NEW state, NEW status, NEW v,
             SetTx(u, state, status), SettleAs(Orphan, v), v = "success" => state = "success",
             state \in Terminal => status \notin ActiveTxStatus, UNCHANGED <<job, up, target, ctx>>
      PROVE  Settles
  <2>1. tx'[u].state = state /\ tx'[u].status = status /\ \A x \in Updates \ {u} : tx'[x] = tx[x]
    BY <1>5, <1>9 DEF SetTx
  <2>2. tx[u].state \notin Terminal
    BY <1>3, <1>5, <1>9 DEF Handled, Terminal
  <2>3. \A a \in Actors \ {Orphan} : pc'[a] = pc[a] /\ verdict'[a] = verdict[a]
    BY <1>5, <1>9 DEF SettleAs
  <2>4. pc'[Orphan] = "settle" /\ verdict'[Orphan] = v
    BY <1>5, <1>9 DEF SettleAs
  <2>5. Handled(Orphan)' /\ Keeps(u)
    BY <1>3, <1>5, <1>9, <2>1, <2>2, <2>4 DEF Handled, Keeps
  <2> QED BY <1>6, <1>9, <2>1, <2>3, <2>5
<1>10. CASE RecoveryNeedsOperator(Orphan)
  <2>1. tx[u].state \notin Terminal
    BY <1>3, <1>5, <1>10 DEF RecoveryNeedsOperator, Reconcile, Handled, Terminal
  <2> QED BY <1>3, <1>9, <1>10, <2>1 DEF RecoveryNeedsOperator, Reconcile
<1>11. CASE RecoveryFindsOriginal(Orphan) \/ RecoveryKeepsTarget(Orphan)
    BY <1>3, <1>9, <1>11
    DEF RecoveryFindsOriginal, RecoveryKeepsTarget, Reconcile, Terminal, ActiveTxStatus
<1>12. CASE RecoveryCannotRollBack(Orphan)
    BY <1>3, <1>9, <1>12 DEF RecoveryCannotRollBack, RecoverySettles, Terminal
<1>13. ASSUME NEW r \in Rollbacks, AfterRecoveryRollback(Orphan, r) PROVE Settles
  <2>1. PICK state \in {"rolled_back", "recovery_required"} : RecoverySettles(Orphan, state)
    BY <1>13 DEF AfterRecoveryRollback
  <2>2. pc[Orphan] = "rolling"
    BY <1>13 DEF AfterRecoveryRollback, RecoveryRollbackEnded
  <2> QED BY <1>3, <1>9, <2>1, <2>2 DEF RecoverySettles, Terminal, ActiveTxStatus
<1>14. CASE RecoveryHandsOff(Orphan)
  <2>1. /\ pc[Orphan] = "reconcile" /\ SetTx(u, "rollback", "recovering")
        /\ pc' = [pc EXCEPT ![Orphan] = "handoff"] /\ UNCHANGED <<job, up, verdict, target, ctx>>
    BY <1>3, <1>14 DEF RecoveryHandsOff
  <2>2. tx'[u].state = "rollback" /\ tx'[u].status = "recovering"
        /\ \A v \in Updates \ {u} : tx'[v] = tx[v]
    BY <1>5, <2>1 DEF SetTx
  <2>3. Handled(Orphan)' /\ Keeps(u)
    BY <1>3, <1>5, <2>1, <2>2 DEF Handled, Keeps, Terminal
  <2> QED BY <1>5, <1>6, <2>1, <2>2, <2>3 DEF Terminal
<1>15. ASSUME NEW r \in Rollbacks, RecoveryRollsBack(Orphan, r) PROVE Settles
  <2>1. /\ pc[Orphan] = "handoff" /\ job' = [job EXCEPT ![r] = "queued"]
        /\ pc' = [pc EXCEPT ![Orphan] = "rolling", ![r] = "queued"]
        /\ UNCHANGED <<tx, up, verdict, target, ctx>>
    BY <1>15 DEF RecoveryRollsBack, SetJob
  <2>2. r \in Jobs /\ r \notin Updates /\ r \in Actors /\ r \notin Recoverers
    BY DEF Jobs
  <2>3. pc'[Orphan] = "rolling" /\ pc'[Scan] = pc[Scan] /\ \A v \in Updates : pc'[v] = pc[v]
    BY <1>2, <1>5, <2>1, <2>2 DEF Recoverers
  <2>4. Handled(Orphan)'
    BY <1>5, <2>1, <2>3 DEF Handled
  <2>5. \A v \in Updates : SameFate(v)
    BY <1>5, <2>1, <2>2, <2>3 DEF SameFate
  <2>6. Fate(u)' /\ Keeps(u)
    BY <1>5, <2>5 DEF SameFate, Fate, Keeps
  <2> QED BY <1>5, <2>1, <2>3, <2>4, <2>5, <2>6, FateStep
<1>16. CASE RecoveryFinishesJob(Orphan)
  <2>1. /\ pc[Orphan] = "settle" /\ SetJob(u, verdict[Orphan])
        /\ pc' = [pc EXCEPT ![Orphan] = "leave"] /\ UNCHANGED <<tx, up, verdict, target, ctx>>
    BY <1>3, <1>16 DEF RecoveryFinishesJob
  <2>2. Handled(Orphan)' /\ Keeps(u)
    BY <1>3, <1>5, <2>1 DEF Handled, Keeps, SetJob
  <2>3. \A v \in Updates \ {u} : job'[v] = job[v]
    BY <1>5, <2>1 DEF SetJob
  <2> QED BY <1>5, <1>6, <2>1, <2>2, <2>3 DEF Fate
<1>17. CASE RecoveryLeaves(Orphan)
  <2>1. pc' = [pc EXCEPT ![Orphan] = "idle"] /\ UNCHANGED <<job, tx, up, verdict, ctx>>
    BY <1>17 DEF RecoveryLeaves
  <2>2. Handled(Orphan)' /\ Keeps(u)
    BY <1>5, <2>1 DEF Handled, Keeps
  <2> QED BY <1>5, <1>6, <2>1, <2>2 DEF Fate
<1> QED
    BY <1>2, <1>7, <1>8, <1>10, <1>11, <1>12, <1>13, <1>14, <1>15, <1>16, <1>17 DEF RecoveryStep

\* Orphaned cancels; nothing crashes, so nobody restarts or scans.
LEMMA SurroundingsSettle ==
    ASSUME Told, Calm, Settled, faults.crashes = 0,
           \/ \E u \in Updates :
                 SafeAbort(u) \/ ScanRecovers(u) \/ OrphanCancel(u) \/ OrphanRecovers(u)
                 \/ LosePoint(u)
           \/ WorkerApplies \/ Crash \/ Restart \/ StartScan \/ StartCleanup \/ EndCleanup
           \/ LeaseExpires
    PROVE  Settles
<1> USE DEF others, control, children, boot, bounds, docker, records, Goto
<1>1. /\ tx \in [Updates -> Txs] /\ job \in [Jobs -> JobStates \cup {"none"}]
      /\ DOMAIN pc = Actors /\ target \in [Recoverers -> Updates \cup {Nobody}]
      /\ Updates \subseteq Jobs /\ Updates \subseteq Actors /\ Recoverers \subseteq Actors
      /\ Scan \in Recoverers /\ Orphan \in Recoverers /\ Scan # Orphan /\ Orphan \notin Updates
      /\ up /\ pc[Scan] = "idle" /\ Handled(Orphan) /\ \A v \in Updates : Fate(v)
    BY NamesAssumption DEF Told, Typed, TxsTyped, JobsTyped, StagesTyped, WorkTyped, Jobs, Actors,
        Settled, Recoverers
<1>2. \A u \in Updates : ~SafeAbort(u) /\ ~ScanRecovers(u)
    BY DEF SafeAbort, ScanRecovers, PreMutation, PostMutation, Calm, OrphansOnly
<1>3. ~Crash /\ ~Restart /\ ~StartScan
  <2>1. crashes \in 0 .. faults.crashes
    BY DEF Told, Typed, BoundsTyped
  <2> QED BY <1>1, <2>1 DEF Crash, Restart, StartScan, Calm, OrphansOnly
<1>4. ASSUME NEW u \in Updates, u \in cancelling, ~Registered(u) PROVE pc[u] = "done"
    BY <1>4 DEF Told, Recorded, Unknown, BeforeClaim, Registered
<1>5. ASSUME NEW u \in Updates, OrphanCancel(u) PROVE Settles
  <2>1. pc[u] = "done" /\ tx[u].state \notin PostMutation
        /\ UNCHANGED <<pc, target, boot, verdict, ctx>>
    BY <1>4, <1>5 DEF OrphanCancel
  <2>2. PICK s : SetJob(u, s) /\ (s = "success" => tx[u].state = "success")
    BY <1>5 DEF OrphanCancel, terminalJobStateForTransaction
  <2>3. tx' = tx \/ (tx[u].state \notin Terminal /\ SetTx(u, "cancelled", "cancelled"))
    BY <1>5 DEF OrphanCancel
  <2>4. job'[u] = s /\ \A v \in Updates \ {u} : job'[v] = job[v] /\ tx'[v] = tx[v]
    BY <1>1, <2>2, <2>3 DEF SetJob, SetTx
  <2>5. tx'[u] = tx[u] \/ (/\ tx[u].state \notin Terminal /\ tx'[u].state = "cancelled"
                          /\ tx'[u].status = "cancelled")
    BY <1>1, <2>3 DEF SetTx
  <2>6. Fate(u)' /\ Keeps(u)
    BY <1>1, <2>1, <2>2, <2>4, <2>5
    DEF Fate, Keeps, BeforeClaim, InFlight, UpdateInGate, AfterCommit, ActiveTxStatus
  <2>7. \A v \in Updates \ {u} : SameFate(v)
    BY <2>1, <2>4 DEF SameFate
  <2>8. Handled(Orphan)'
    <3>1. pc[Orphan] # "idle" => target[Orphan] \in Updates
      BY <1>1 DEF Told, Partners
    <3>2. CASE target[Orphan] = u
      BY <1>1, <2>1, <2>5, <3>2 DEF Handled, Terminal, PostMutation
    <3>3. CASE target[Orphan] # u
      BY <1>1, <2>1, <2>4, <3>1, <3>3 DEF Handled
    <3> QED BY <3>2, <3>3
  <2> QED BY <1>1, <2>1, <2>6, <2>7, <2>8, FateStep
<1>6. ASSUME NEW u \in Updates, OrphanRecovers(u) PROVE Settles
  <2>1. /\ pc[u] = "done" /\ tx[u].state \in PostMutation /\ pc[Orphan] = "idle"
        /\ target' = [target EXCEPT ![Orphan] = u] /\ pc' = [pc EXCEPT ![Orphan] = "claimed"]
        /\ UNCHANGED <<job, boot, verdict, ctx>>
    BY <1>4, <1>6 DEF OrphanRecovers, StartRecovery
  <2>2. validTransactionTransition(tx[u].state, "recovering")
    BY <2>1 DEF validTransactionTransition, PostMutation
  <2>3. tx' = [tx EXCEPT ![u] = [state |-> "recovering", status |-> "recovering"]]
    BY <1>6, <2>2 DEF OrphanRecovers, StartRecovery
  <2>4. tx'[u].state = "recovering" /\ tx'[u].status = "recovering"
        /\ \A v \in Updates \ {u} : tx'[v] = tx[v]
    BY <1>1, <2>3
  <2>5. Fate(u)' /\ Keeps(u)
    BY <1>1, <2>1, <2>4
    DEF Fate, Keeps, BeforeClaim, InFlight, UpdateInGate, AfterCommit, Terminal, PostMutation
  <2>6. \A v \in Updates \ {u} : SameFate(v)
    BY <1>1, <2>1, <2>4 DEF SameFate
  <2>7. target'[Orphan] = u /\ pc'[Orphan] = "claimed" /\ pc'[Scan] = "idle"
    BY <1>1, <2>1
  <2>8. Handled(Orphan)'
    BY <2>4, <2>7 DEF Handled
  <2> QED BY <1>1, <2>1, <2>5, <2>6, <2>7, <2>8, FateStep
<1>7. CASE \/ \E u \in Updates : LosePoint(u)
           \/ WorkerApplies \/ StartCleanup \/ EndCleanup \/ LeaseExpires
  <2>1. UNCHANGED <<job, tx, pc, up, verdict, ctx, target>>
    BY <1>7 DEF LosePoint, WorkerApplies, StartCleanup, EndCleanup, LeaseExpires
  <2> QED BY <1>1, <2>1, RowsStay DEF SameFate
<1> QED BY <1>2, <1>3, <1>5, <1>6, <1>7

\* Every step of the undisturbed system, and its start.
LEMMA NextSettles ==
    RowsInv /\ Undisturbed /\ Settled /\ [Next]_vars => Settles
<1> SUFFICES ASSUME RowsInv, Undisturbed, Settled, [Next]_vars PROVE Settles
    OBVIOUS
<1>1. Told /\ Calm /\ faults.crashes = 0 /\ faults.overrun = {}
    BY DEF RowsInv, Undisturbed
<1>2. CASE \E u \in Updates : UpdateStep(u)
    BY <1>1, <1>2, PipelineSettles
<1>3. CASE \E r \in Rollbacks : RollbackStep(r) \/ Leave(r) \/ CancelQueued(r)
    BY <1>1, <1>3, RollbackSettles
<1>4. CASE \E w \in Recoverers : RecoveryStep(w)
    BY <1>1, <1>4, OrphanSettles
<1>5. CASE \/ \E u \in Updates :
                 SafeAbort(u) \/ ScanRecovers(u) \/ OrphanCancel(u) \/ OrphanRecovers(u)
                 \/ LosePoint(u)
           \/ WorkerApplies \/ Crash \/ Restart \/ StartScan \/ StartCleanup \/ EndCleanup
           \/ LeaseExpires
    BY <1>1, <1>5, SurroundingsSettle
<1>6. CASE UNCHANGED vars
    BY <1>1, <1>6, RowsStay DEF vars, boot, SameFate, Settled
<1> QED BY <1>2, <1>3, <1>4, <1>5, <1>6, Zenon DEF Next

LEMMA InitSettled == Init => Settled
<1> SUFFICES ASSUME Init PROVE Settled
    OBVIOUS
<1>1. \A a \in Actors : pc[a] = "idle"
    BY DEF Init
<1>2. up /\ pc[Scan] = "idle" /\ \A w \in Recoverers : Handled(w)
    BY <1>1 DEF Init, Actors, Recoverers, Handled
<1>3. ASSUME NEW u \in Updates PROVE Fate(u)
  <2>1. pc[u] = "idle" /\ tx[u].state = "none" /\ tx[u].status = "none"
    BY <1>1 DEF Init, NoTransaction, Actors, Jobs
  <2> QED BY <2>1 DEF Fate, Terminal, AfterCommit
<1> QED BY <1>2, <1>3 DEF Settled

\* While nothing crashes and no deadline passes, a job is reported as successful
\* only after its transaction, and a settled transaction stays as it is,
\* whatever is cancelled, rolled back, orphaned or written by the safety net
\* (finishJobDurable, ensureUpdateJobTerminal, reconcileOrphanedUpdateCancel,
\* ResolveRecoveryRequired).
THEOREM RowsSettleOnce == Spec => SettledOnce
<1>1. Init => RowsInv /\ (Undisturbed => Settled)
    BY InitTells, InitSettled
<1>2. RowsInv /\ (Undisturbed => Settled) /\ [Next]_vars => RowsInv' /\ (Undisturbed => Settled)'
  <2> SUFFICES ASSUME RowsInv, Undisturbed => Settled, [Next]_vars, Undisturbed'
               PROVE  Settled'
    BY NextKeeps
  <2>1. Undisturbed
    BY FaultsStay DEF Undisturbed
  <2> QED BY <2>1, NextSettles DEF Settles
<1>3. RowsInv /\ (Undisturbed => Settled) /\ [Next]_vars =>
        [\A u \in Updates :
            Undisturbed /\ job[u] # "success" /\ job'[u] = "success"
                => tx[u].state = "success"]_vars
  <2> SUFFICES ASSUME RowsInv, Undisturbed => Settled, [Next]_vars, Undisturbed,
                      NEW u \in Updates, job[u] # "success", job'[u] = "success"
               PROVE  tx[u].state = "success"
    OBVIOUS
  <2> QED BY NextSettles DEF Settles, Keeps
<1>4. RowsInv /\ (Undisturbed => Settled) /\ [Next]_vars =>
        [\A u \in Updates :
            Undisturbed /\ tx[u].state \in Terminal => tx'[u].state = tx[u].state]_vars
  <2> SUFFICES ASSUME RowsInv, Undisturbed => Settled, [Next]_vars, Undisturbed,
                      NEW u \in Updates, tx[u].state \in Terminal
               PROVE  tx'[u].state = tx[u].state
    OBVIOUS
  <2> QED BY NextSettles DEF Settles, Keeps
<1> QED
    BY <1>1, <1>2, <1>3, <1>4, PTL DEF Spec, SettledOnce, JobSuccessFollowsTransaction,
        TerminalIsFinal

-----------------------------------------------------------------------------
\* What is reported of an update is what the container runs.  A pipeline
\* verifies, and a rollback hands its result on, while nobody else changes the
\* container: who would is kept out by the gate, and a worker that outlives its
\* process by the scan that waits for it.

\* The stages after the worker call, and those after the comparison of images.
Checked ==
    {"image_verify", "corrected", "docker_health", "dependencies", "verifying", "refreshing"}
Confirmed == {"docker_health", "dependencies", "verifying", "refreshing"}
\* While a pipeline verifies, no worker is under way, and from the comparison
\* of the images on its target runs.
Verified(u) ==
    /\ pc[u] = "applying" => worker \in {u, Nobody}
    /\ pc[u] \in Checked => worker = Nobody
    /\ pc[u] \in Confirmed => runtime = u

\* The pipelines of a process that has nothing to recover ...
FirstProcess ==
    /\ up /\ scanned
    /\ \A u \in Updates :
          /\ pc[u] \in BeforeCall \cup {"applying"} => job[u] = "running"
          /\ pc[u] \in {"committing", "updating", "applying"} =>
                tx[u] = [state |-> "updating", status |-> "running"]
\* ... and what its crash leaves while its worker goes on.
StillRuns ==
    /\ ~scanned /\ \A j \in Jobs : pc[j] \in {"idle", "done"}
    /\ job[worker] = "running" /\ tx[worker] = [state |-> "updating", status |-> "running"]
Untouched ==
    /\ \A u \in Updates : seen[u] = "none"
    /\ cancelling = {} /\ \A w \in Recoverers : pc[w] = "idle"
\* A worker is waited for, by its pipeline or by the scan of the next process.
WorkerWaits ==
    /\ worker = Nobody \/ pc[worker] = "applying" \/ (crashes = 1 /\ Untouched /\ StillRuns)
    /\ crashes = 0 /\ faults.crashes = 1 => Untouched /\ FirstProcess

\* A rollback that has restored the container, until its caller has heard of it.
RestoredBy(r) ==
    \/ pc[r] = "restored"
    \/ parent[r] # Nobody /\ pc[r] \in {"report", "leave", "done"} /\ verdict[r] = "success"
Restored(r) ==
    /\ parent[r] \in Updates => source[r] = parent[r]
    /\ parent[r] \in Recoverers => source[r] = target[parent[r]]
    /\ pc[r] = "idle" => parent[r] = Nobody
    /\ pc[r] = "settle" => verdict[r] = "failed"
    /\ RestoredBy(r) => runtime = point[source[r]].image

OutcomesInv ==
    /\ RowsInv /\ \A u \in Updates : Verified(u)
    /\ WorkersInTime => WorkerWaits /\ \A r \in Rollbacks : Restored(r)

-----------------------------------------------------------------------------
\* Who works inside the gate, and waits for nobody, is alone there ...
LEMMA PipelineAlone ==
    ASSUME OwnershipInv, NEW u \in Updates, pc[u] \in UpdateInGate, pc[u] # "rolling"
    PROVE  /\ \A v \in Updates \ {u} : pc[v] \notin UpdateInGate
           /\ \A r \in Rollbacks : pc[r] \notin RollbackInGate /\ parent[r] = Nobody
<1> USE ActorsDistinct DEF OwnershipInv
<1>1. gate = u
    BY DEF UpdatesOwnGate
<1>2. \A v \in Updates \ {u} : pc[v] \notin UpdateInGate
    BY <1>1 DEF UpdatesOwnGate
<1>3. ASSUME NEW r \in Rollbacks PROVE parent[r] = Nobody
  <2>1. SUFFICES ASSUME parent[r] # Nobody PROVE FALSE
    OBVIOUS
  <2>2. parent[r] \in Updates \cup Recoverers /\ pc[parent[r]] = "rolling"
    BY <2>1 DEF ControlTyped, CallersWait
  <2> QED BY <1>1, <2>2 DEF UpdatesOwnGate, RecoverersOwnGate, UpdateInGate, RecovererInGate
<1>4. \A r \in Rollbacks : pc[r] \notin RollbackInGate
    BY <1>1, <1>3 DEF RollbacksOwnGate
<1> QED BY <1>2, <1>3, <1>4

\* ... and so is a rollback, with the one who waits for it.
LEMMA RollbackAlone ==
    ASSUME OwnershipInv, NEW r \in Rollbacks, pc[r] \in RollbackInGate \/ parent[r] # Nobody
    PROVE  /\ \A v \in Updates : pc[v] \in UpdateInGate => pc[v] = "rolling"
           /\ \A s \in Rollbacks \ {r} : pc[s] \notin RollbackInGate
<1> USE ActorsDistinct DEF OwnershipInv
<1>1. \A v \in Updates : pc[v] \in UpdateInGate => pc[v] = "rolling"
    BY PipelineAlone
<1>2. \A s \in Rollbacks : parent[s] # Nobody =>
          gate = parent[s] /\ parent[s] \in Updates \cup Recoverers
  <2> TAKE s \in Rollbacks
  <2> HAVE parent[s] # Nobody
  <2>1. parent[s] \in Updates \cup Recoverers /\ pc[parent[s]] = "rolling"
    BY DEF ControlTyped, CallersWait
  <2> QED BY <2>1 DEF UpdatesOwnGate, RecoverersOwnGate, UpdateInGate, RecovererInGate
<1>3. \A s \in Rollbacks : pc[s] \in RollbackInGate /\ parent[s] = Nobody => gate = s
    BY DEF RollbacksOwnGate
<1>4. ASSUME NEW s \in Rollbacks \ {r}, pc[s] \in RollbackInGate PROVE FALSE
  <2>1. CASE parent[r] = Nobody
    BY <1>2, <1>3, <1>4, <2>1
  <2>2. CASE parent[r] # Nobody
    BY <1>2, <1>3, <1>4, <2>2 DEF OneChild
  <2> QED BY <2>1, <2>2
<1> QED BY <1>1, <1>4

\* Who changes the container, and who asks a worker to.
LEMMA ContainerMoves ==
    ASSUME [Next]_vars
    PROVE  \/ UNCHANGED <<runtime, worker>>
           \/ WorkerApplies
           \/ \E v \in Updates : CallWorker(v) \/ CorrectImage(v)
           \/ \E r \in Rollbacks : RollbackRestores(r) \/ RollbackBreaks(r)
<1> USE DEF docker
<1>1. ASSUME NEW u \in Updates, UpdateStep(u)
      PROVE  UNCHANGED <<runtime, worker>> \/ CallWorker(u) \/ CorrectImage(u)
    BY <1>1
    DEF UpdateStep, AdmitUpdate, EnqueueUpdate, ClaimUpdate, CancelSafely, ContextLost, EnterGate,
        AcquireLease, LeaseConflict, CreateTransaction, StartPreflight, TakeSnapshot,
        CaptureRestorePoint, Block, Prepare, PreparationFails, OpenWindow, Commit, RecordCommit,
        WorkerReturns, WorkerFails, ConfirmImage, TargetNotApplied,
        WrongImage, PassStage, FailStage, FinishUpdate, NoRollback, RollbackUnavailable,
        AutoRollback, RolledBack, RollbackFailed, Deadline, SettleUpdate, LoseSettle,
        EnsureTerminal, Leave, CancelQueued, RequestCancel, SignalCancel, Advance, RequireRecovery
<1>2. ASSUME NEW r \in Rollbacks, RollbackStep(r) \/ Leave(r) \/ CancelQueued(r)
      PROVE  UNCHANGED <<runtime, worker>> \/ RollbackRestores(r) \/ RollbackBreaks(r)
    BY <1>2
    DEF RollbackStep, AdmitRollback, EnqueueRollback, ClaimRollback, RollbackEntersGate,
        RollbackLeases, RollbackLeaseConflict, RollbackRefused,
        RollbackCompletes, RollbackDeadline, SettleRollback, Leave, CancelQueued
<1>3. ASSUME NEW w \in Recoverers, RecoveryStep(w) PROVE UNCHANGED <<runtime, worker>>
    BY <1>3
    DEF RecoveryStep, RecoveryEntersGate, RecoveryLeases, RecoveryLeaseConflict,
        RecoveryNeedsOperator, RecoveryFindsOriginal, RecoveryKeepsTarget, Reconcile,
        RecoveryHandsOff, RecoveryCannotRollBack, RecoveryRollsBack, AfterRecoveryRollback,
        RecoverySettles, RecoveryFinishesJob, RecoveryLeaves
<1>4. ASSUME NEW u \in Updates,
             SafeAbort(u) \/ ScanRecovers(u) \/ OrphanCancel(u) \/ OrphanRecovers(u) \/ LosePoint(u)
      PROVE  UNCHANGED <<runtime, worker>>
    BY <1>4 DEF SafeAbort, ScanRecovers, OrphanCancel, OrphanRecovers, LosePoint
<1>5. CASE \/ Crash \/ Restart \/ StartScan \/ StartCleanup \/ EndCleanup
           \/ LeaseExpires \/ UNCHANGED vars
    BY <1>5 DEF Crash, Restart, StartScan, StartCleanup, EndCleanup, LeaseExpires, vars
<1> QED BY <1>1, <1>2, <1>3, <1>4, <1>5, Zenon DEF Next

\* Only the capture of a restore point writes the image it holds.
LEMMA ImagesMove ==
    ASSUME Told, [Next]_vars, NEW u \in Updates
    PROVE  point'[u].image = point[u].image \/ CaptureRestorePoint(u)
<1> USE DEF records, others
<1>1. point \in [Updates -> Points]
    BY DEF Told, Typed, PointsTyped
<1>2. ASSUME NEW v \in Updates, UpdateStep(v)
      PROVE  UNCHANGED point \/ CaptureRestorePoint(v)
    BY <1>2
    DEF UpdateStep, AdmitUpdate, EnqueueUpdate, ClaimUpdate, CancelSafely, ContextLost, EnterGate,
        AcquireLease, LeaseConflict, CreateTransaction, StartPreflight, TakeSnapshot,
        Block, Prepare, PreparationFails, OpenWindow, Commit, RecordCommit, CallWorker,
        WorkerReturns, WorkerFails, CorrectImage, ConfirmImage, TargetNotApplied,
        WrongImage, PassStage, FailStage, FinishUpdate, NoRollback, RollbackUnavailable,
        AutoRollback, RolledBack, RollbackFailed, Deadline, SettleUpdate, LoseSettle,
        EnsureTerminal, Leave, CancelQueued, RequestCancel, SignalCancel, Advance, RequireRecovery
<1>3. ASSUME NEW v \in Updates, CaptureRestorePoint(v), v # u PROVE point'[u] = point[u]
    BY <1>1, <1>3 DEF CaptureRestorePoint
<1>4. ASSUME NEW r \in Rollbacks, RollbackStep(r) \/ Leave(r) \/ CancelQueued(r)
      PROVE  UNCHANGED point \/ RollbackBreaks(r)
    BY <1>4
    DEF RollbackStep, AdmitRollback, EnqueueRollback, ClaimRollback, RollbackEntersGate,
        RollbackLeases, RollbackLeaseConflict, RollbackRefused, RollbackRestores,
        RollbackCompletes, RollbackDeadline, SettleRollback, Leave, CancelQueued
<1>5. ASSUME NEW r \in Rollbacks, RollbackBreaks(r) PROVE point'[u].image = point[u].image
  <2>1. source[r] \in Updates
    BY <1>5 DEF RollbackBreaks, Told, Partners
  <2>2. PICK kind : point' = [point EXCEPT ![source[r]].kind = kind]
    BY <1>5 DEF RollbackBreaks
  <2> QED BY <1>1, <2>1, <2>2 DEF Points
<1>6. ASSUME NEW w \in Recoverers, RecoveryStep(w) PROVE UNCHANGED point
    BY <1>6
    DEF RecoveryStep, RecoveryEntersGate, RecoveryLeases, RecoveryLeaseConflict,
        RecoveryNeedsOperator, RecoveryFindsOriginal, RecoveryKeepsTarget, Reconcile,
        RecoveryHandsOff, RecoveryCannotRollBack, RecoveryRollsBack, AfterRecoveryRollback,
        RecoverySettles, RecoveryFinishesJob, RecoveryLeaves
<1>7. ASSUME NEW v \in Updates, LosePoint(v) PROVE point'[u].image = point[u].image
    BY <1>1, <1>7 DEF LosePoint, Points
<1>8. ASSUME NEW v \in Updates,
             SafeAbort(v) \/ ScanRecovers(v) \/ OrphanCancel(v) \/ OrphanRecovers(v)
      PROVE  UNCHANGED point
    BY <1>8 DEF SafeAbort, ScanRecovers, OrphanCancel, OrphanRecovers
<1>9. CASE \/ WorkerApplies \/ Crash \/ Restart \/ StartScan \/ StartCleanup \/ EndCleanup
           \/ LeaseExpires \/ UNCHANGED vars
    BY <1>9
    DEF WorkerApplies, Crash, Restart, StartScan, StartCleanup, EndCleanup, LeaseExpires, vars
<1> QED BY <1>2, <1>3, <1>4, <1>5, <1>6, <1>7, <1>8, <1>9, Zenon DEF Next
-----------------------------------------------------------------------------
\* What a step leaves alone.
\* Nothing happens to rollback r but that nobody waits for it any more.
SameChild(r) ==
    /\ pc'[r] = pc[r] /\ verdict'[r] = verdict[r] /\ source'[r] = source[r]
    /\ parent'[r] \in {parent[r], Nobody}
SameWork(a) == pc'[a] = pc[a] /\ verdict'[a] = verdict[a]
SameRows(v) == job'[v] = job[v] /\ tx'[v] = tx[v]

PipelineFramed(u) ==
    /\ \A b \in Actors \ (Rollbacks \cup {u}) : SameWork(b)
    /\ \A v \in Updates \ {u} : SameRows(v)
    /\ \A r \in Rollbacks : SameChild(r) \/ AutoRollback(u, r)
    /\ cancelling' \subseteq cancelling \cup faults.cancellable
    /\ UNCHANGED <<boot, target, crashes, faults>>

LEMMA PipelineFrame == ASSUME Told, NEW u \in Updates, UpdateStep(u) PROVE PipelineFramed(u)
<1> USE ActorsDistinct DEF control, children, bounds, records, Goto
<1>1. /\ DOMAIN tx = Updates /\ DOMAIN job = Jobs /\ DOMAIN verdict = Actors /\ DOMAIN pc = Actors
      /\ u \in Jobs /\ u \in Actors /\ DOMAIN parent = Rollbacks /\ DOMAIN source = Rollbacks
      /\ Updates \subseteq Jobs /\ Updates \subseteq Actors /\ Rollbacks \subseteq Jobs
      /\ Rollbacks \subseteq Actors /\ u \notin Rollbacks
      /\ parent \in [Rollbacks -> Updates \cup Recoverers \cup {Nobody}]
    BY DEF Told, Typed, TxsTyped, JobsTyped, VerdictsTyped, StagesTyped, WorkTyped, Jobs, Actors
\* One goroutine moves.
<1>2. ASSUME NEW to, pc' = [pc EXCEPT ![u] = to] \/ pc' = pc,
             verdict' = verdict \/ \E v : verdict' = [verdict EXCEPT ![u] = v],
             \A v \in Updates \ {u} : SameRows(v),
             cancelling' \subseteq cancelling \cup faults.cancellable,
             UNCHANGED <<boot, target, crashes, faults, children>>
      PROVE  PipelineFramed(u)
    BY <1>1, <1>2 DEF PipelineFramed, SameWork, SameChild
<1>3. CASE \/ AdmitUpdate(u) \/ ClaimUpdate(u) \/ CancelSafely(u) \/ ContextLost(u)
           \/ EnqueueUpdate(u) \/ EnterGate(u)
           \/ AcquireLease(u) \/ LeaseConflict(u) \/ CreateTransaction(u) \/ StartPreflight(u)
           \/ TakeSnapshot(u) \/ CaptureRestorePoint(u) \/ Block(u) \/ Prepare(u)
           \/ PreparationFails(u) \/ OpenWindow(u) \/ Commit(u) \/ RecordCommit(u)
  <2>1. PICK to : pc' = [pc EXCEPT ![u] = to]
    BY <1>3
    DEF AdmitUpdate, ClaimUpdate, CancelSafely, ContextLost, EnqueueUpdate, EnterGate, AcquireLease,
        LeaseConflict, CreateTransaction, StartPreflight, TakeSnapshot, CaptureRestorePoint, Block,
        Prepare, PreparationFails, OpenWindow, Commit, RecordCommit, Advance, SettleAs
  <2>2. verdict' = verdict \/ \E v : verdict' = [verdict EXCEPT ![u] = v]
    BY <1>3
    DEF AdmitUpdate, ClaimUpdate, CancelSafely, ContextLost, EnqueueUpdate, EnterGate, AcquireLease,
        LeaseConflict, CreateTransaction, StartPreflight, TakeSnapshot, CaptureRestorePoint, Block,
        Prepare, PreparationFails, OpenWindow, Commit, RecordCommit, Advance, SettleAs
  <2>3. \A v \in Updates \ {u} : SameRows(v)
    BY <1>1, <1>3
    DEF AdmitUpdate, ClaimUpdate, CancelSafely, ContextLost, EnqueueUpdate, EnterGate, AcquireLease,
        LeaseConflict, CreateTransaction, StartPreflight, TakeSnapshot, CaptureRestorePoint, Block,
        Prepare, PreparationFails, OpenWindow, Commit, RecordCommit, Advance, SetTx, SetTxIfLive,
        SetJob, SameRows
  <2>4. UNCHANGED <<boot, target, crashes, faults, children, cancelling>>
    BY <1>3
    DEF AdmitUpdate, ClaimUpdate, CancelSafely, ContextLost, EnqueueUpdate, EnterGate, AcquireLease,
        LeaseConflict, CreateTransaction, StartPreflight, TakeSnapshot, CaptureRestorePoint, Block,
        Prepare, PreparationFails, OpenWindow, Commit, RecordCommit, Advance
  <2> QED BY <1>2, <2>1, <2>2, <2>3, <2>4
<1>4. CASE \/ CallWorker(u) \/ WorkerReturns(u) \/ WorkerFails(u) \/ CorrectImage(u)
           \/ ConfirmImage(u) \/ TargetNotApplied(u) \/ WrongImage(u) \/ PassStage(u)
           \/ FailStage(u) \/ FinishUpdate(u) \/ NoRollback(u) \/ RollbackUnavailable(u)
  <2>1. PICK to : pc' = [pc EXCEPT ![u] = to]
    BY <1>4
    DEF CallWorker, WorkerReturns, WorkerFails, CorrectImage, ConfirmImage, TargetNotApplied,
        WrongImage, PassStage, FailStage, FinishUpdate, NoRollback, RollbackUnavailable,
        RequireRecovery, Advance, SettleAs
  <2>2. verdict' = verdict \/ \E v : verdict' = [verdict EXCEPT ![u] = v]
    BY <1>4
    DEF CallWorker, WorkerReturns, WorkerFails, CorrectImage, ConfirmImage, TargetNotApplied,
        WrongImage, PassStage, FailStage, FinishUpdate, NoRollback, RollbackUnavailable,
        RequireRecovery, Advance, SettleAs
  <2>3. \A v \in Updates \ {u} : SameRows(v)
    BY <1>1, <1>4
    DEF CallWorker, WorkerReturns, WorkerFails, CorrectImage, ConfirmImage, TargetNotApplied,
        WrongImage, PassStage, FailStage, FinishUpdate, NoRollback, RollbackUnavailable,
        RequireRecovery, Advance, SetTx, SetTxIfLive, SetStatus, SameRows
  <2>4. UNCHANGED <<boot, target, crashes, faults, children, cancelling>>
    BY <1>4
    DEF CallWorker, WorkerReturns, WorkerFails, CorrectImage, ConfirmImage, TargetNotApplied,
        WrongImage, PassStage, FailStage, FinishUpdate, NoRollback, RollbackUnavailable,
        RequireRecovery, Advance
  <2> QED BY <1>2, <2>1, <2>2, <2>3, <2>4
<1>5. CASE \/ SettleUpdate(u) \/ LoseSettle(u) \/ EnsureTerminal(u) \/ Leave(u) \/ Deadline(u)
           \/ CancelQueued(u) \/ RequestCancel(u) \/ SignalCancel(u)
  <2>1. PICK to : pc' = [pc EXCEPT ![u] = to] \/ pc' = pc
    BY <1>5
    DEF SettleUpdate, LoseSettle, EnsureTerminal, Leave, Deadline, CancelQueued, RequestCancel,
        SignalCancel
  <2>2. verdict' = verdict
    BY <1>5
    DEF SettleUpdate, LoseSettle, EnsureTerminal, Leave, Deadline, CancelQueued, RequestCancel,
        SignalCancel
  <2>3. \A v \in Updates \ {u} : SameRows(v)
    BY <1>1, <1>5
    DEF SettleUpdate, LoseSettle, EnsureTerminal, Leave, Deadline, CancelQueued, RequestCancel,
        SignalCancel, SetTx, SetStatus, SetJob, SameRows
  <2>4. /\ cancelling' \subseteq cancelling \cup faults.cancellable
        /\ UNCHANGED <<boot, target, crashes, faults, children>>
    BY <1>5
    DEF SettleUpdate, LoseSettle, EnsureTerminal, Leave, Deadline, CancelQueued, RequestCancel,
        SignalCancel
  <2> QED BY <1>2, <2>1, <2>2, <2>3, <2>4
<1>6. ASSUME NEW r \in Rollbacks, AutoRollback(u, r) PROVE PipelineFramed(u)
    BY <1>1, <1>6
    DEF AutoRollback, PipelineFramed, SameWork, SameRows, SameChild, SetTx, SetJob
<1>7. ASSUME NEW r \in Rollbacks, RolledBack(u, r) \/ RollbackFailed(u, r) PROVE PipelineFramed(u)
  <2>1. /\ \E v : verdict' = [verdict EXCEPT ![u] = v]
        /\ pc' = [pc EXCEPT ![u] = "settle"] /\ parent' = [parent EXCEPT ![r] = Nobody]
        /\ UNCHANGED <<job, boot, target, crashes, faults, source, cancelling>>
    BY <1>7 DEF RolledBack, RollbackFailed, RollbackEnded, RequireRecovery, SettleAs
  <2>2. \A v \in Updates \ {u} : SameRows(v)
    BY <1>1, <1>7
    DEF RolledBack, RollbackFailed, RequireRecovery, SetTx, SetTxIfLive, SetStatus, SameRows
  <2> QED BY <1>1, <2>1, <2>2 DEF PipelineFramed, SameWork, SameChild
<1> QED BY <1>3, <1>4, <1>5, <1>6, <1>7 DEF UpdateStep

RollbackFramed(r) ==
    /\ \A b \in Actors \ {r} : SameWork(b)
    /\ \A v \in Updates :
          /\ job'[v] = job[v]
          /\ \/ tx'[v] = tx[v]
             \/ RollbackCompletes(r) /\ source[r] = v /\ tx[v].status = "recovery_required"
    /\ \A s \in Rollbacks \ {r} : SameChild(s)
    /\ parent' = parent /\ (source'[r] = source[r] \/ pc[r] = "idle")
    /\ UNCHANGED <<boot, target, crashes, faults, cancelling>>

LEMMA RollbackFrame ==
    ASSUME Told, NEW r \in Rollbacks, RollbackStep(r) \/ Leave(r) \/ CancelQueued(r)
    PROVE  RollbackFramed(r)
<1> USE ActorsDistinct DEF control, children, bounds, rest, Goto
<1>1. /\ DOMAIN tx = Updates /\ DOMAIN job = Jobs /\ DOMAIN verdict = Actors /\ DOMAIN pc = Actors
      /\ r \in Jobs /\ r \in Actors /\ DOMAIN parent = Rollbacks /\ DOMAIN source = Rollbacks
      /\ Updates \subseteq Jobs /\ Updates \subseteq Actors /\ r \notin Updates
      /\ Rollbacks \subseteq Actors
    BY DEF Told, Typed, TxsTyped, JobsTyped, VerdictsTyped, StagesTyped, WorkTyped, Jobs, Actors
<1>2. ASSUME NEW to, pc' = [pc EXCEPT ![r] = to] \/ pc' = pc,
             verdict' = verdict \/ \E v : verdict' = [verdict EXCEPT ![r] = v],
             job' = job \/ \E s : job' = [job EXCEPT ![r] = s],
             \A v \in Updates : \/ tx'[v] = tx[v]
                                \/ /\ RollbackCompletes(r) /\ source[r] = v
                                   /\ tx[v].status = "recovery_required",
             \/ source' = source
             \/ pc[r] = "idle" /\ \E u : source' = [source EXCEPT ![r] = u],
             UNCHANGED <<boot, target, crashes, faults, cancelling, parent>>
      PROVE  RollbackFramed(r)
    BY <1>1, <1>2 DEF RollbackFramed, SameWork, SameChild
<1>3. ASSUME NEW u \in Updates, AdmitRollback(r, u) PROVE RollbackFramed(r)
    BY <1>2, <1>3 DEF AdmitRollback
<1>4. CASE \/ EnqueueRollback(r) \/ ClaimRollback(r) \/ RollbackEntersGate(r)
           \/ RollbackLeases(r) \/ RollbackLeaseConflict(r) \/ RollbackRefused(r)
           \/ RollbackRestores(r) \/ RollbackBreaks(r) \/ RollbackDeadline(r)
           \/ SettleRollback(r) \/ Leave(r) \/ CancelQueued(r)
  <2>1. PICK to : pc' = [pc EXCEPT ![r] = to] \/ pc' = pc
    BY <1>4
    DEF EnqueueRollback, ClaimRollback, RollbackEntersGate, RollbackLeases, RollbackLeaseConflict,
        RollbackRefused, RollbackRestores, RollbackBreaks, RollbackDeadline, SettleRollback, Leave,
        CancelQueued, SettleAs
  <2>2. verdict' = verdict \/ \E v : verdict' = [verdict EXCEPT ![r] = v]
    BY <1>4
    DEF EnqueueRollback, ClaimRollback, RollbackEntersGate, RollbackLeases, RollbackLeaseConflict,
        RollbackRefused, RollbackRestores, RollbackBreaks, RollbackDeadline, SettleRollback, Leave,
        CancelQueued, SettleAs
  <2>3. job' = job \/ \E s : job' = [job EXCEPT ![r] = s]
    BY <1>4
    DEF EnqueueRollback, ClaimRollback, RollbackEntersGate, RollbackLeases, RollbackLeaseConflict,
        RollbackRefused, RollbackRestores, RollbackBreaks, RollbackDeadline, SettleRollback, Leave,
        CancelQueued, SetJob
  <2>4. UNCHANGED <<tx, boot, target, crashes, faults, cancelling, children>>
    BY <1>4
    DEF EnqueueRollback, ClaimRollback, RollbackEntersGate, RollbackLeases, RollbackLeaseConflict,
        RollbackRefused, RollbackRestores, RollbackBreaks, RollbackDeadline, SettleRollback, Leave,
        CancelQueued
  <2> QED BY <1>2, <2>1, <2>2, <2>3, <2>4
<1>5. CASE RollbackCompletes(r)
  <2>1. /\ pc' = [pc EXCEPT ![r] = "report"] /\ verdict' = [verdict EXCEPT ![r] = "success"]
        /\ UNCHANGED <<job, boot, target, crashes, faults, cancelling, children>>
    BY <1>5 DEF RollbackCompletes
  <2>2. \A v \in Updates : tx'[v] = tx[v] \/ (source[r] = v /\ tx[v].status = "recovery_required")
    BY <1>1, <1>5 DEF RollbackCompletes, SetTx
  <2> QED BY <1>2, <1>5, <2>1, <2>2
<1> QED BY <1>3, <1>4, <1>5 DEF RollbackStep

RecoveryFramed(w) ==
    /\ pc[w] # "idle"
    /\ \A b \in Actors \ (Rollbacks \cup {w}) : SameWork(b)
    /\ \A v \in Updates \ {target[w]} : SameRows(v)
    /\ \A r \in Rollbacks : SameChild(r) \/ RecoveryRollsBack(w, r)
    /\ \A x \in Recoverers : target'[x] = target[x] \/ pc[x] = "leave"
    /\ UNCHANGED <<boot, crashes, faults, cancelling>>

LEMMA RecoveryFrame ==
    ASSUME Told, NEW w \in Recoverers, RecoveryStep(w)
    PROVE  RecoveryFramed(w)
<1> USE ActorsDistinct DEF others, children, bounds, Goto
<1>1. /\ DOMAIN tx = Updates /\ DOMAIN job = Jobs /\ DOMAIN verdict = Actors /\ DOMAIN pc = Actors
      /\ w \in Actors /\ DOMAIN parent = Rollbacks /\ DOMAIN source = Rollbacks
      /\ Updates \subseteq Jobs /\ Rollbacks \subseteq Actors /\ Rollbacks \subseteq Jobs
      /\ w \notin Rollbacks /\ DOMAIN target = Recoverers
    BY DEF Told, Typed, TxsTyped, JobsTyped, VerdictsTyped, StagesTyped, WorkTyped, Jobs, Actors
<1>2. ASSUME pc[w] # "idle", NEW to, pc' = [pc EXCEPT ![w] = to],
             verdict' = verdict \/ \E v : verdict' = [verdict EXCEPT ![w] = v],
             \A v \in Updates \ {target[w]} : SameRows(v),
             parent' = parent \/ \E r \in Rollbacks : parent' = [parent EXCEPT ![r] = Nobody],
             \/ target' = target
             \/ pc[w] = "leave" /\ \E t : target' = [target EXCEPT ![w] = t],
             UNCHANGED <<boot, crashes, faults, cancelling, source>>
      PROVE  RecoveryFramed(w)
    BY <1>1, <1>2 DEF RecoveryFramed, SameWork, SameChild
<1>3. CASE \/ RecoveryEntersGate(w) \/ RecoveryLeases(w) \/ RecoveryLeaseConflict(w)
           \/ RecoveryHandsOff(w) \/ RecoveryFinishesJob(w) \/ RecoveryLeaves(w)
  <2>1. PICK to : pc' = [pc EXCEPT ![w] = to]
    BY <1>3
    DEF RecoveryEntersGate, RecoveryLeases, RecoveryLeaseConflict, RecoveryHandsOff,
        RecoveryFinishesJob, RecoveryLeaves
  <2>2. /\ pc[w] # "idle" /\ UNCHANGED <<verdict, boot, crashes, faults, cancelling, children>>
        /\ \/ target' = target
           \/ pc[w] = "leave" /\ \E t : target' = [target EXCEPT ![w] = t]
    BY <1>3
    DEF RecoveryEntersGate, RecoveryLeases, RecoveryLeaseConflict, RecoveryHandsOff,
        RecoveryFinishesJob, RecoveryLeaves
  <2>3. \A v \in Updates \ {target[w]} : SameRows(v)
    BY <1>1, <1>3
    DEF RecoveryEntersGate, RecoveryLeases, RecoveryLeaseConflict, RecoveryHandsOff,
        RecoveryFinishesJob, RecoveryLeaves, SetTx, SetStatus, SetJob, SameRows
  <2> QED BY <1>2, <2>1, <2>2, <2>3
\* An outcome.
<1>4. ASSUME pc[w] # "idle", NEW state, NEW status, NEW v,
             SetTx(target[w], state, status), SettleAs(w, v),
             parent' = parent \/ \E r \in Rollbacks : parent' = [parent EXCEPT ![r] = Nobody],
             UNCHANGED <<job, boot, crashes, faults, cancelling, source, target>>
      PROVE  RecoveryFramed(w)
  <2>1. \A x \in Updates \ {target[w]} : SameRows(x)
    BY <1>1, <1>4 DEF SetTx, SameRows
  <2> QED BY <1>2, <1>4, <2>1 DEF SettleAs
<1>5. CASE RecoveryNeedsOperator(w) \/ RecoveryFindsOriginal(w) \/ RecoveryKeepsTarget(w)
    BY <1>4, <1>5
    DEF RecoveryNeedsOperator, RecoveryFindsOriginal, RecoveryKeepsTarget, Reconcile
<1>6. CASE RecoveryCannotRollBack(w)
    BY <1>4, <1>6 DEF RecoveryCannotRollBack, RecoverySettles
<1>7. ASSUME NEW r \in Rollbacks, AfterRecoveryRollback(w, r) PROVE RecoveryFramed(w)
    BY <1>4, <1>7 DEF AfterRecoveryRollback, RecoveryRollbackEnded, RecoverySettles
<1>8. ASSUME NEW r \in Rollbacks, RecoveryRollsBack(w, r) PROVE RecoveryFramed(w)
    BY <1>1, <1>8
    DEF RecoveryRollsBack, RecoveryFramed, SameWork, SameRows, SameChild, SetJob
<1> QED BY <1>3, <1>5, <1>6, <1>7, <1>8 DEF RecoveryStep

\* The steps that are about no goroutine.
LEMMA QuietFrame ==
    ASSUME \/ \E u \in Updates : LosePoint(u)
           \/ WorkerApplies \/ Restart \/ StartScan \/ StartCleanup \/ EndCleanup \/ LeaseExpires
           \/ UNCHANGED vars
    PROVE  UNCHANGED <<tx, pc, verdict, children, target, cancelling, crashes, faults>>
BY DEF LosePoint, WorkerApplies, Restart, StartScan, StartCleanup, EndCleanup, LeaseExpires, others,
       bounds, control, records, vars, children

\* A recoverer starts, or an orphaned job is cancelled.
LEMMA StartFrame ==
    ASSUME Told, NEW u \in Updates,
           SafeAbort(u) \/ ScanRecovers(u) \/ OrphanCancel(u) \/ OrphanRecovers(u)
    PROVE  /\ seen[u] # "none" \/ u \in cancelling
           /\ \A b \in Actors \ Recoverers : SameWork(b)
           /\ \A w \in Recoverers : pc[w] = "idle" \/ (SameWork(w) /\ target'[w] = target[w])
           /\ UNCHANGED <<children, crashes, faults>>
<1> USE ActorsDistinct DEF others, children, bounds, boot, Goto
<1>1. /\ DOMAIN verdict = Actors /\ DOMAIN pc = Actors /\ DOMAIN target = Recoverers
      /\ Scan \in Recoverers /\ Orphan \in Recoverers /\ Recoverers \subseteq Actors
    BY DEF Told, Typed, VerdictsTyped, StagesTyped, WorkTyped, Recoverers
<1>2. CASE SafeAbort(u)
    BY <1>1, <1>2 DEF SafeAbort, SettleAs, SameWork, PreMutation
<1>3. CASE ScanRecovers(u)
    BY <1>1, <1>3 DEF ScanRecovers, StartRecovery, SameWork, PostMutation
<1>4. CASE OrphanRecovers(u)
    BY <1>1, <1>4 DEF OrphanRecovers, StartRecovery, SameWork
<1>5. CASE OrphanCancel(u)
    BY <1>1, <1>5 DEF OrphanCancel, SameWork
<1> QED BY <1>2, <1>3, <1>4, <1>5

-----------------------------------------------------------------------------
\* A pipeline comes to its verification through the worker call, and past the
\* comparison of the images only with its target.
Reaches(u) ==
    /\ pc'[u] = "applying" => pc[u] = "applying" \/ CallWorker(u)
    /\ pc'[u] \in Checked => pc[u] \in Checked \/ WorkerReturns(u)
    /\ pc'[u] \in Confirmed => pc[u] \in Confirmed \/ ConfirmImage(u)

LEMMA StagesMove == ASSUME Told, [Next]_vars, NEW u \in Updates PROVE Reaches(u)
<1> USE ActorsDistinct DEF Goto, Checked, Confirmed
<1>1. DOMAIN pc = Actors /\ u \in Actors /\ u \notin Rollbacks /\ u \notin Recoverers
    BY DEF Told, Typed, StagesTyped
<1>2. pc'[u] = pc[u] \/ pc'[u] \notin Checked \cup {"applying"} => Reaches(u)
    BY DEF Reaches
<1>3. ASSUME NEW to, pc' = [pc EXCEPT ![u] = to], to \notin Checked \cup {"applying"}
      PROVE  Reaches(u)
    BY <1>1, <1>2, <1>3
<1>4. CASE UpdateStep(u)
  <2>1. CASE \/ AdmitUpdate(u) \/ ClaimUpdate(u) \/ CancelSafely(u) \/ ContextLost(u)
             \/ EnqueueUpdate(u) \/ EnterGate(u)
             \/ AcquireLease(u) \/ LeaseConflict(u) \/ CreateTransaction(u) \/ StartPreflight(u)
             \/ TakeSnapshot(u) \/ CaptureRestorePoint(u) \/ Block(u) \/ Prepare(u)
             \/ PreparationFails(u) \/ OpenWindow(u) \/ Commit(u) \/ RecordCommit(u)
    BY <1>3, <2>1
    DEF AdmitUpdate, ClaimUpdate, CancelSafely, ContextLost, EnqueueUpdate, EnterGate, AcquireLease,
        LeaseConflict, CreateTransaction, StartPreflight, TakeSnapshot, CaptureRestorePoint, Block,
        Prepare, PreparationFails, OpenWindow, Commit, RecordCommit, Advance, SettleAs
  <2>2. CASE CallWorker(u) \/ WorkerReturns(u) \/ CorrectImage(u) \/ ConfirmImage(u)
    BY <1>1, <2>2
    DEF Reaches, CallWorker, WorkerReturns, CorrectImage, ConfirmImage, Advance
  <2>3. CASE PassStage(u)
    BY <1>1, <2>3 DEF Reaches, PassStage, NextStage
  <2>4. CASE \/ WorkerFails(u) \/ TargetNotApplied(u) \/ WrongImage(u) \/ FailStage(u)
             \/ FinishUpdate(u) \/ NoRollback(u) \/ RollbackUnavailable(u)
    BY <1>3, <2>4
    DEF WorkerFails, TargetNotApplied, WrongImage, FailStage, FinishUpdate, NoRollback,
        RollbackUnavailable, RequireRecovery, SettleAs
  <2>5. CASE \/ SettleUpdate(u) \/ LoseSettle(u) \/ EnsureTerminal(u) \/ Leave(u) \/ Deadline(u)
             \/ CancelQueued(u) \/ RequestCancel(u) \/ SignalCancel(u)
    BY <1>2, <1>3, <2>5
    DEF SettleUpdate, LoseSettle, EnsureTerminal, Leave, Deadline, CancelQueued, RequestCancel,
        SignalCancel, control
  <2>6. ASSUME NEW r \in Rollbacks, AutoRollback(u, r) \/ RolledBack(u, r) \/ RollbackFailed(u, r)
        PROVE  Reaches(u)
    BY <1>1, <1>2, <2>6
    DEF AutoRollback, RolledBack, RollbackFailed, RequireRecovery, SettleAs
  <2> QED BY <1>4, <2>1, <2>2, <2>3, <2>4, <2>5, <2>6 DEF UpdateStep
<1>5. ASSUME NEW v \in Updates, v # u, UpdateStep(v) PROVE Reaches(u)
    BY <1>1, <1>2, <1>5, PipelineFrame DEF PipelineFramed, SameWork
<1>6. ASSUME NEW r \in Rollbacks, RollbackStep(r) \/ Leave(r) \/ CancelQueued(r) PROVE Reaches(u)
    BY <1>1, <1>2, <1>6, RollbackFrame DEF RollbackFramed, SameWork
<1>7. ASSUME NEW w \in Recoverers, RecoveryStep(w) PROVE Reaches(u)
    BY <1>1, <1>2, <1>7, RecoveryFrame DEF RecoveryFramed, SameWork
<1>8. ASSUME NEW v \in Updates,
             SafeAbort(v) \/ ScanRecovers(v) \/ OrphanCancel(v) \/ OrphanRecovers(v)
      PROVE  Reaches(u)
    BY <1>1, <1>2, <1>8, StartFrame DEF SameWork
<1>9. CASE Crash
    BY <1>1, <1>2, <1>9 DEF Crash
<1>10. CASE \/ \E v \in Updates : LosePoint(v)
            \/ WorkerApplies \/ Restart \/ StartScan \/ StartCleanup \/ EndCleanup \/ LeaseExpires
            \/ UNCHANGED vars
    BY <1>2, <1>10, QuietFrame
<1> QED BY <1>4, <1>5, <1>6, <1>7, <1>8, <1>9, <1>10, Zenon DEF Next

\* Verification stands on a container that nobody else changes.
LEMMA VerifiedStays ==
    ASSUME Told, OwnershipInv, \A v \in Updates : Verified(v), [Next]_vars, NEW u \in Updates
    PROVE  Verified(u)'
<1> DEFINE Inside == pc[u] \in Checked \cup {"applying"}
<1>1. Reaches(u)
    BY StagesMove
<1>2. Inside => /\ \A v \in Updates \ {u} : pc[v] \notin UpdateInGate
                /\ \A r \in Rollbacks : pc[r] \notin RollbackInGate
    BY PipelineAlone DEF UpdateInGate, Checked
<1>3. worker \in Updates \cup {Nobody} /\ Nobody \notin Updates
    BY ActorsDistinct DEF Told, Typed, ContainerTyped
<1>4. CASE UNCHANGED <<runtime, worker>>
  <2>1. WorkerReturns(u) => pc[u] = "applying" /\ worker # u
    BY DEF WorkerReturns
  <2>2. CallWorker(u) => worker' = u
    BY DEF CallWorker
  <2>3. ConfirmImage(u) => runtime = u
    BY DEF ConfirmImage
  <2> QED BY <1>1, <1>4, <2>1, <2>2, <2>3 DEF Reaches, Verified, Checked, Confirmed
<1>5. CASE WorkerApplies
  <2>1. worker # Nobody /\ worker' = Nobody /\ pc' = pc
    BY <1>5 DEF WorkerApplies
  <2> QED BY <2>1 DEF Verified, Checked, Confirmed
<1>6. ASSUME NEW v \in Updates, CallWorker(v) PROVE Verified(u)'
  <2>1. /\ worker = Nobody /\ worker' = v /\ runtime' = runtime /\ pc[v] = "updating"
        /\ pc' = [pc EXCEPT ![v] = "applying"] /\ DOMAIN pc = Actors
    BY <1>6 DEF CallWorker, Goto, Told, Typed, StagesTyped
  <2>2. CASE v = u
    BY <2>1, <2>2, ActorsDistinct DEF Verified, Checked, Confirmed
  <2>3. CASE v # u
    <3>1. ~Inside /\ pc'[u] = pc[u]
      BY <1>2, <2>1, <2>3 DEF UpdateInGate
    <3> QED BY <3>1 DEF Verified, Checked, Confirmed
  <2> QED BY <2>2, <2>3
<1>7. ASSUME NEW v \in Updates, CorrectImage(v) PROVE Verified(u)'
  <2>1. /\ worker' = worker /\ pc[v] = "image_verify"
        /\ pc' = [pc EXCEPT ![v] = "corrected"] /\ DOMAIN pc = Actors
    BY <1>7 DEF CorrectImage, Goto, Told, Typed, StagesTyped
  <2>2. CASE v = u
    BY <2>1, <2>2, ActorsDistinct DEF Verified, Checked, Confirmed
  <2>3. CASE v # u
    <3>1. ~Inside /\ pc'[u] = pc[u]
      BY <1>2, <2>1, <2>3 DEF UpdateInGate
    <3> QED BY <3>1 DEF Verified, Checked, Confirmed
  <2> QED BY <2>2, <2>3
<1>8. ASSUME NEW r \in Rollbacks, RollbackRestores(r) \/ RollbackBreaks(r) PROVE Verified(u)'
  <2>1. /\ pc[r] \in RollbackInGate /\ DOMAIN pc = Actors
        /\ \E to \in {"restored", "report"} : pc' = [pc EXCEPT ![r] = to]
    BY <1>8 DEF RollbackRestores, RollbackBreaks, Goto, RollbackInGate, Told, Typed, StagesTyped
  <2>2. ~Inside /\ pc'[u] = pc[u]
    BY <1>2, <2>1, ActorsDistinct
  <2> QED BY <2>2 DEF Verified, Checked, Confirmed
<1> QED BY <1>4, <1>5, <1>6, <1>7, <1>8, ContainerMoves

-----------------------------------------------------------------------------
\* Who reports an update as successful, and who as rolled back.
Reports(u) ==
    /\ tx'[u].state = "success" /\ tx[u].state # "success" =>
          \/ FinishUpdate(u)
          \/ \E w \in Recoverers : RecoveryKeepsTarget(w) /\ target[w] = u
    /\ tx'[u].state = "rolled_back" /\ tx[u].state # "rolled_back" =>
          \E r \in Rollbacks :
             \/ RolledBack(u, r)
             \/ RollbackCompletes(r) /\ source[r] = u
             \/ \E w \in Recoverers :
                   AfterRecoveryRollback(w, r) /\ verdict[r] = "success" /\ target[w] = u

LEMMA OutcomesMove == ASSUME Told, [Next]_vars, NEW u \in Updates PROVE Reports(u)
<1> USE ActorsDistinct
<1>1. tx \in [Updates -> Txs] /\ u \in Updates
    BY DEF Told, Typed, TxsTyped
<1>2. tx'[u].state = tx[u].state => Reports(u)
    BY DEF Reports
<1>3. ASSUME NEW state, NEW status, SetTx(u, state, status) \/ tx' = tx,
             state \notin {"success", "rolled_back"}
      PROVE  Reports(u)
    BY <1>1, <1>3 DEF Reports, SetTx
<1>4. CASE UpdateStep(u)
  <2>1. CASE \/ AdmitUpdate(u) \/ ClaimUpdate(u) \/ ContextLost(u) \/ EnqueueUpdate(u)
             \/ EnterGate(u) \/ AcquireLease(u) \/ LeaseConflict(u) \/ OpenWindow(u)
             \/ RecordCommit(u) \/ CallWorker(u) \/ WorkerFails(u) \/ CorrectImage(u)
             \/ WrongImage(u) \/ FailStage(u) \/ SettleUpdate(u) \/ LoseSettle(u)
             \/ Leave(u) \/ Deadline(u) \/ CancelQueued(u) \/ RequestCancel(u) \/ SignalCancel(u)
    BY <1>2, <2>1
    DEF AdmitUpdate, ClaimUpdate, ContextLost, EnqueueUpdate, EnterGate, AcquireLease,
        LeaseConflict, OpenWindow, RecordCommit, CallWorker, WorkerFails, CorrectImage, WrongImage,
        FailStage, SettleUpdate, LoseSettle, Leave, Deadline, CancelQueued, RequestCancel,
        SignalCancel, records
  <2>2. CASE \/ CancelSafely(u) \/ CreateTransaction(u) \/ StartPreflight(u) \/ TakeSnapshot(u)
             \/ CaptureRestorePoint(u) \/ Block(u) \/ Prepare(u) \/ PreparationFails(u)
             \/ Commit(u) \/ WorkerReturns(u) \/ ConfirmImage(u) \/ TargetNotApplied(u)
             \/ NoRollback(u)
    BY <1>3, <2>2
    DEF CancelSafely, CreateTransaction, StartPreflight, TakeSnapshot, CaptureRestorePoint, Block,
        Prepare, PreparationFails, Commit, WorkerReturns, ConfirmImage, TargetNotApplied,
        NoRollback, Advance, SetTxIfLive
  <2>3. CASE PassStage(u)
    <3>1. PICK next \in {"dependencies", "verifying", "refreshing"} :
             SetTx(u, next, "running") \/ tx' = tx
      BY <2>3 DEF PassStage, NextStage, SetTxIfLive
    <3> QED BY <1>3, <3>1
  <2>4. CASE EnsureTerminal(u)
    <3>1. \/ UNCHANGED tx \/ SetStatus(u, "recovery_required")
          \/ \E outcome \in {"cancelled", "failed"} : SetTx(u, outcome, outcome)
      BY <2>4 DEF EnsureTerminal
    <3>2. SetStatus(u, "recovery_required") => tx'[u].state = tx[u].state
      BY <1>1 DEF SetStatus, Txs
    <3> QED BY <1>2, <1>3, <3>1, <3>2
  <2>5. ASSUME RequireRecovery(u) PROVE Reports(u)
    <3>1. SetStatus(u, "recovery_required") => tx'[u].state = tx[u].state
      BY <1>1 DEF SetStatus, Txs
    <3> QED BY <1>2, <1>3, <2>5, <3>1 DEF RequireRecovery
  <2>6. CASE FinishUpdate(u)
    <3>1. tx'[u].state \in {tx[u].state, "success"}
      BY <1>1, <2>6 DEF FinishUpdate, SetTxIfLive, SetTx
    <3> QED BY <2>6, <3>1 DEF Reports
  <2>7. ASSUME NEW r \in Rollbacks, RolledBack(u, r) PROVE Reports(u)
    <3>1. tx'[u].state \in {tx[u].state, "rolled_back"}
      BY <1>1, <2>7 DEF RolledBack, SetTxIfLive, SetTx
    <3> QED BY <2>7, <3>1 DEF Reports
  <2>8. ASSUME NEW r \in Rollbacks, AutoRollback(u, r) \/ RollbackFailed(u, r) PROVE Reports(u)
    BY <1>3, <2>5, <2>8 DEF AutoRollback, RollbackFailed
  <2> QED
    BY <1>4, <2>1, <2>2, <2>3, <2>4, <2>5, <2>6, <2>7, <2>8 DEF UpdateStep, RollbackUnavailable
<1>5. ASSUME NEW v \in Updates, v # u, UpdateStep(v) PROVE Reports(u)
    BY <1>2, <1>5, PipelineFrame DEF PipelineFramed, SameRows
<1>6. ASSUME NEW r \in Rollbacks, RollbackStep(r) \/ Leave(r) \/ CancelQueued(r) PROVE Reports(u)
  <2>1. tx'[u] = tx[u] \/ (RollbackCompletes(r) /\ source[r] = u)
    BY <1>6, RollbackFrame DEF RollbackFramed
  <2>2. RollbackCompletes(r) /\ source[r] = u => tx'[u].state \in {tx[u].state, "rolled_back"}
    BY <1>1 DEF RollbackCompletes, SetTx
  <2> QED BY <1>2, <2>1, <2>2 DEF Reports
<1>7. ASSUME NEW w \in Recoverers, RecoveryStep(w) PROVE Reports(u)
  <2>1. CASE target[w] # u
    BY <1>2, <1>7, <2>1, RecoveryFrame DEF RecoveryFramed, SameRows
  <2>2. CASE target[w] = u
    <3>1. CASE \/ RecoveryEntersGate(w) \/ RecoveryLeases(w) \/ RecoveryFinishesJob(w)
               \/ RecoveryLeaves(w) \/ \E r \in Rollbacks : RecoveryRollsBack(w, r)
      BY <1>2, <3>1
      DEF RecoveryEntersGate, RecoveryLeases, RecoveryFinishesJob, RecoveryLeaves,
          RecoveryRollsBack
    <3>2. CASE RecoveryLeaseConflict(w)
      <4>1. tx'[u].state = tx[u].state
        BY <1>1, <2>2, <3>2 DEF RecoveryLeaseConflict, SetStatus, Txs
      <4> QED BY <1>2, <4>1
    <3>3. CASE RecoveryNeedsOperator(w)
      <4>1. tx'[u].state = tx[u].state
        BY <1>1, <2>2, <3>3 DEF RecoveryNeedsOperator, Reconcile, SetTx
      <4> QED BY <1>2, <4>1
    <3>4. CASE RecoveryFindsOriginal(w) \/ RecoveryHandsOff(w) \/ RecoveryCannotRollBack(w)
      BY <1>3, <2>2, <3>4
      DEF RecoveryFindsOriginal, RecoveryHandsOff, RecoveryCannotRollBack, Reconcile,
          RecoverySettles
    <3>5. CASE RecoveryKeepsTarget(w)
      <4>1. tx'[u].state = "success"
        BY <1>1, <2>2, <3>5 DEF RecoveryKeepsTarget, Reconcile, SetTx
      <4> QED BY <2>2, <3>5, <4>1 DEF Reports
    <3>6. ASSUME NEW r \in Rollbacks, AfterRecoveryRollback(w, r) PROVE Reports(u)
      <4>1. CASE verdict[r] = "success"
        <5>1. tx'[u].state = "rolled_back"
          BY <1>1, <2>2, <3>6, <4>1 DEF AfterRecoveryRollback, RecoverySettles, SetTx
        <5> QED BY <2>2, <3>6, <4>1, <5>1 DEF Reports
      <4>2. CASE verdict[r] # "success"
        BY <1>3, <2>2, <3>6, <4>2 DEF AfterRecoveryRollback, RecoverySettles
      <4> QED BY <4>1, <4>2
    <3> QED BY <1>7, <3>1, <3>2, <3>3, <3>4, <3>5, <3>6 DEF RecoveryStep
  <2> QED BY <2>1, <2>2
<1>8. ASSUME NEW v \in Updates, SafeAbort(v) \/ OrphanCancel(v) PROVE Reports(u)
  <2>1. \/ tx'[u].state = tx[u].state \/ tx'[u].state = "cancelled"
    BY <1>1, <1>8 DEF SafeAbort, OrphanCancel, SetStatus, SetTx, Txs
  <2> QED BY <2>1 DEF Reports
<1>9. ASSUME NEW v \in Updates, NEW w \in Recoverers, NEW state, StartRecovery(w, v, state)
      PROVE  Reports(u)
  <2>1. tx'[u].state = tx[u].state \/ tx'[u].state = "recovering"
    BY <1>1, <1>9 DEF StartRecovery
  <2> QED BY <2>1 DEF Reports
<1>10. ASSUME NEW v \in Updates, ScanRecovers(v) \/ OrphanRecovers(v) PROVE Reports(u)
    BY <1>9, <1>10 DEF ScanRecovers, OrphanRecovers, Recoverers
<1>11. CASE \/ \E v \in Updates : LosePoint(v)
            \/ WorkerApplies \/ Restart \/ StartScan \/ StartCleanup \/ EndCleanup \/ LeaseExpires
            \/ UNCHANGED vars
    BY <1>2, <1>11, QuietFrame
<1>12. CASE Crash
    BY <1>2, <1>12 DEF Crash
<1> QED BY <1>4, <1>5, <1>6, <1>7, <1>8, <1>10, <1>11, <1>12, Zenon DEF Next

-----------------------------------------------------------------------------
\* Without a late worker, the call waits for it.
LEMMA CallWaits ==
    ASSUME Told, [Next]_vars, ~Crash, faults.late = {}, NEW u \in Updates, pc[u] = "applying",
           worker = u
    PROVE  pc'[u] = "applying"
<1> USE ActorsDistinct
<1>1. u \in Actors /\ u \notin Rollbacks /\ u \notin Recoverers
    OBVIOUS
<1>2. CASE UpdateStep(u)
  <2>1. \/ Deadline(u) \/ CancelQueued(u) \/ RequestCancel(u) \/ SignalCancel(u)
    BY <1>2
    DEF UpdateStep, AdmitUpdate, EnqueueUpdate, ClaimUpdate, CancelSafely, ContextLost, EnterGate,
        AcquireLease, LeaseConflict, CreateTransaction, StartPreflight, TakeSnapshot,
        CaptureRestorePoint, Block, Prepare, PreparationFails, OpenWindow, Commit, RecordCommit,
        CallWorker, WorkerReturns, WorkerFails, CorrectImage, ConfirmImage, TargetNotApplied,
        WrongImage, PassStage, FailStage, NextStage, FinishUpdate, NoRollback,
        RollbackUnavailable, AutoRollback, RolledBack, RollbackFailed, RollbackEnded,
        SettleUpdate, LoseSettle, EnsureTerminal, Leave, BeforeNet
  <2> QED BY <2>1 DEF Deadline, CancelQueued, RequestCancel, SignalCancel
<1>3. ASSUME NEW v \in Updates, v # u, UpdateStep(v) PROVE pc'[u] = pc[u]
    BY <1>1, <1>3, PipelineFrame DEF PipelineFramed, SameWork
<1>4. ASSUME NEW r \in Rollbacks, RollbackStep(r) \/ Leave(r) \/ CancelQueued(r)
      PROVE  pc'[u] = pc[u]
    BY <1>1, <1>4, RollbackFrame DEF RollbackFramed, SameWork
<1>5. ASSUME NEW w \in Recoverers, RecoveryStep(w) PROVE pc'[u] = pc[u]
    BY <1>1, <1>5, RecoveryFrame DEF RecoveryFramed, SameWork
<1>6. ASSUME NEW v \in Updates,
             SafeAbort(v) \/ ScanRecovers(v) \/ OrphanCancel(v) \/ OrphanRecovers(v)
      PROVE  pc'[u] = pc[u]
    BY <1>1, <1>6, StartFrame DEF SameWork
<1>7. CASE \/ \E v \in Updates : LosePoint(v)
           \/ WorkerApplies \/ Restart \/ StartScan \/ StartCleanup \/ EndCleanup \/ LeaseExpires
           \/ UNCHANGED vars
    BY <1>7, QuietFrame
<1> QED BY <1>2, <1>3, <1>4, <1>5, <1>6, <1>7, Zenon DEF Next

\* While nobody recovers, cancels or crashes, no recovery starts.
LEMMA NothingToRecover ==
    ASSUME Told, Untouched
    PROVE  /\ \A w \in Recoverers : ~RecoveryStep(w)
           /\ \A v \in Updates :
                 ~(SafeAbort(v) \/ ScanRecovers(v) \/ OrphanCancel(v) \/ OrphanRecovers(v))
<1>1. \A w \in Recoverers : ~RecoveryStep(w)
    BY RecoveryFrame DEF RecoveryFramed, Untouched
<1>2. \A v \in Updates :
          ~(SafeAbort(v) \/ ScanRecovers(v) \/ OrphanCancel(v) \/ OrphanRecovers(v))
    BY StartFrame DEF Untouched
<1> QED BY <1>1, <1>2

\* After a crash the job of the outstanding worker keeps everybody else from
\* starting, and its scan from listing.
LEMMA OthersWait ==
    ASSUME Told, Untouched, StillRuns, worker # Nobody, faults.cancellable = {},
           faults.late = {}, crashes = faults.crashes, [Next]_vars
    PROVE  \/ \E j \in Jobs : CancelQueued(j)
           \/ Restart \/ WorkerApplies
           \/ UNCHANGED <<boot, seen, job, tx, pc, cancelling>>
<1> USE ActorsDistinct
<1>1. worker \in Updates /\ Updates \subseteq Jobs /\ Rollbacks \subseteq Jobs
    BY DEF Told, Typed, ContainerTyped, Jobs
<1>2. HasActiveJob /\ ~Registered(worker)
    BY <1>1 DEF StillRuns, HasActiveJob, ActiveJob, Registered
<1>3. ASSUME NEW u \in Updates, UpdateStep(u) PROVE CancelQueued(u)
  <2>1. pc[u] \in {"idle", "done"} /\ u \notin cancelling /\ u \notin faults.cancellable
    BY <1>1 DEF StillRuns, Untouched
  <2> QED
    BY <1>2, <1>3, <2>1
    DEF UpdateStep, AdmitUpdate, EnqueueUpdate, ClaimUpdate, CancelSafely, ContextLost, EnterGate,
        AcquireLease, LeaseConflict, CreateTransaction, StartPreflight, TakeSnapshot,
        CaptureRestorePoint, Block, Prepare, PreparationFails, OpenWindow, Commit, RecordCommit,
        CallWorker, WorkerReturns, WorkerFails, CorrectImage, ConfirmImage, TargetNotApplied,
        WrongImage, PassStage, FailStage, NextStage, FinishUpdate, NoRollback,
        RollbackUnavailable, AutoRollback, RolledBack, RollbackFailed, RollbackEnded, Deadline,
        SettleUpdate, LoseSettle, EnsureTerminal, Leave, RequestCancel, SignalCancel, BeforeNet
<1>4. ASSUME NEW r \in Rollbacks, RollbackStep(r) \/ Leave(r) \/ CancelQueued(r)
      PROVE  CancelQueued(r)
  <2>1. pc[r] \in {"idle", "done"}
    BY <1>1 DEF StillRuns
  <2> QED
    BY <1>2, <1>4, <2>1
    DEF RollbackStep, AdmitRollback, EnqueueRollback, ClaimRollback, RollbackEntersGate,
        RollbackLeases, RollbackLeaseConflict, RollbackRefused, RollbackRestores, RollbackBreaks,
        RollbackCompletes, RollbackDeadline, SettleRollback, Leave
<1>5. ~Crash /\ ~StartScan
  <2>1. crashes \in Nat
    BY ScenariosAssumption DEF Told, Typed, BoundsTyped
  <2> QED BY <1>1, <1>2, <2>1 DEF Crash, StartScan
<1>6. CASE \/ \E v \in Updates : LosePoint(v)
           \/ StartCleanup \/ EndCleanup \/ LeaseExpires \/ UNCHANGED vars
    BY <1>6 DEF LosePoint, StartCleanup, EndCleanup, LeaseExpires, vars, boot
<1> QED BY <1>1, <1>3, <1>4, <1>5, <1>6, NothingToRecover DEF Next

LEMMA StillRunsStays ==
    ASSUME Told, Untouched, StillRuns, worker # Nobody, faults.cancellable = {},
           faults.late = {}, crashes = faults.crashes, [Next]_vars, worker' = worker
    PROVE  Untouched' /\ StillRuns'
<1> USE ActorsDistinct
<1>1. worker \in Updates /\ Updates \subseteq Jobs /\ job \in [Jobs -> JobStates \cup {"none"}]
    BY DEF Told, Typed, ContainerTyped, JobsTyped, Jobs
<1>2. CASE UNCHANGED <<boot, seen, job, tx, pc, cancelling>>
    BY <1>2 DEF boot, Untouched, StillRuns
<1>3. ASSUME NEW j \in Jobs, CancelQueued(j) PROVE Untouched' /\ StillRuns'
  <2>1. /\ job[j] = "queued" /\ job' = [job EXCEPT ![j] = "cancelled"]
        /\ UNCHANGED <<boot, tx, pc, cancelling>>
    BY <1>3 DEF CancelQueued, SetJob, control
  <2> QED BY <1>1, <2>1 DEF boot, Untouched, StillRuns
<1>4. CASE Restart
  <2>1. /\ job' = [j \in Jobs |-> RepairedJob(j)]
        /\ UNCHANGED <<scanned, seen, tx, pc, cancelling>>
    BY <1>4 DEF Restart
  <2>2. RepairedJob(worker) = "running"
    BY <1>1 DEF RepairedJob, StillRuns, ActiveJob, Terminal, ActiveTxStatus
  <2> QED BY <1>1, <2>1, <2>2 DEF Untouched, StillRuns
<1>5. ~WorkerApplies
    BY DEF WorkerApplies
<1> QED BY <1>2, <1>3, <1>4, <1>5, OthersWait

\* The first process finds what its pipelines have written.
LEMMA FirstProcessStays ==
    ASSUME Told, Untouched, FirstProcess, faults.cancellable = {}, [Next]_vars, ~Crash
    PROVE  Untouched' /\ FirstProcess'
<1> USE ActorsDistinct DEF boot
<1>1. /\ tx \in [Updates -> Txs] /\ job \in [Jobs -> JobStates \cup {"none"}] /\ DOMAIN pc = Actors
      /\ Updates \subseteq Jobs /\ Updates \subseteq Actors /\ Recoverers \subseteq Actors
    BY DEF Told, Typed, TxsTyped, JobsTyped, StagesTyped, Jobs
<1>2. ASSUME NEW u \in Updates, UpdateStep(u) PROVE Untouched' /\ FirstProcess'
  <2>1. PipelineFramed(u)
    BY <1>2, PipelineFrame
  <2>2. Untouched' /\ UNCHANGED <<up, scanned>>
    BY <1>1, <2>1 DEF Untouched, PipelineFramed, SameWork
  <2>3. ASSUME NEW v \in Updates \ {u} PROVE pc'[v] = pc[v] /\ SameRows(v)
    BY <1>1, <2>1, <2>3 DEF PipelineFramed, SameWork
  <2>4. u \notin cancelling /\ u \notin faults.cancellable
    BY DEF Untouched
  <2>5. /\ pc'[u] \in BeforeCall \cup {"applying"} => job'[u] = "running"
        /\ pc'[u] \in {"committing", "updating", "applying"} =>
              tx'[u] = [state |-> "updating", status |-> "running"]
    <3> USE DEF Goto, BeforeCall
    <3>1. ASSUME job'[u] = job[u],
                 pc'[u] \in BeforeCall \cup {"applying"} => pc[u] \in BeforeCall \cup {"applying"},
                 pc'[u] \in {"committing", "updating", "applying"} =>
                    pc[u] \in {"committing", "updating", "applying"} /\ tx'[u] = tx[u]
          PROVE  <2>5
      BY <1>1, <3>1 DEF FirstProcess
    <3>2. CASE \/ AdmitUpdate(u) \/ CancelSafely(u) \/ ContextLost(u) \/ EnterGate(u)
               \/ AcquireLease(u) \/ LeaseConflict(u) \/ CreateTransaction(u)
               \/ StartPreflight(u) \/ TakeSnapshot(u) \/ CaptureRestorePoint(u) \/ Block(u)
               \/ Prepare(u) \/ PreparationFails(u) \/ OpenWindow(u) \/ RecordCommit(u)
               \/ CallWorker(u)
      <4>1. /\ job'[u] = job[u]
            /\ pc'[u] \in BeforeCall \cup {"applying"} => pc[u] \in BeforeCall \cup {"applying"}
        BY <1>1, <3>2
        DEF AdmitUpdate, CancelSafely, ContextLost, EnterGate, AcquireLease, LeaseConflict,
            CreateTransaction, StartPreflight, TakeSnapshot, CaptureRestorePoint, Block, Prepare,
            PreparationFails, OpenWindow, RecordCommit, CallWorker, Advance, SettleAs, records
      <4>2. pc'[u] \in {"committing", "updating", "applying"} =>
               pc[u] \in {"committing", "updating", "applying"} /\ tx'[u] = tx[u]
        BY <1>1, <3>2
        DEF AdmitUpdate, CancelSafely, ContextLost, EnterGate, AcquireLease, LeaseConflict,
            CreateTransaction, StartPreflight, TakeSnapshot, CaptureRestorePoint, Block, Prepare,
            PreparationFails, OpenWindow, RecordCommit, CallWorker, Advance, SettleAs, records
      <4> QED BY <3>1, <4>1, <4>2
    <3>3. CASE EnqueueUpdate(u)
      BY <1>1, <3>3 DEF EnqueueUpdate
    <3>4. CASE ClaimUpdate(u)
      BY <1>1, <3>4 DEF ClaimUpdate, SetJob
    <3>5. CASE Commit(u)
      BY <1>1, <3>5 DEF Commit, SetTx, FirstProcess
    <3>6. CASE \/ WorkerReturns(u) \/ WorkerFails(u) \/ CorrectImage(u) \/ ConfirmImage(u)
               \/ TargetNotApplied(u) \/ WrongImage(u) \/ FailStage(u) \/ FinishUpdate(u)
               \/ NoRollback(u) \/ RollbackUnavailable(u) \/ SettleUpdate(u) \/ LoseSettle(u)
               \/ EnsureTerminal(u) \/ Leave(u)
      <4>1. pc'[u] \notin BeforeCall \cup {"applying"}
        BY <1>1, <3>6
        DEF WorkerReturns, WorkerFails, CorrectImage, ConfirmImage, TargetNotApplied, WrongImage,
            FailStage, FinishUpdate, NoRollback, RollbackUnavailable, SettleUpdate, LoseSettle,
            EnsureTerminal, Leave, Advance, RequireRecovery, SettleAs
      <4> QED BY <4>1
    <3>7. CASE PassStage(u)
      <4>1. pc'[u] \notin BeforeCall \cup {"applying"}
        BY <1>1, <3>7 DEF PassStage, NextStage
      <4> QED BY <4>1
    <3>8. ASSUME NEW r \in Rollbacks,
                 AutoRollback(u, r) \/ RolledBack(u, r) \/ RollbackFailed(u, r)
          PROVE  <2>5
      <4>1. pc'[u] \notin BeforeCall \cup {"applying"}
        BY <1>1, <3>8 DEF AutoRollback, RolledBack, RollbackFailed, RequireRecovery, SettleAs
      <4> QED BY <4>1
    <3>9. CASE Deadline(u)
      BY <1>1, <3>1, <3>9 DEF Deadline, records
    <3>10. CASE CancelQueued(u)
      <4>1. job[u] = "queued" /\ pc' = pc /\ tx' = tx
        BY <3>10 DEF CancelQueued
      <4> QED BY <1>1, <4>1 DEF FirstProcess
    <3>11. ~RequestCancel(u) /\ ~SignalCancel(u)
      BY <2>4 DEF RequestCancel, SignalCancel
    <3> QED
      BY <1>2, <3>2, <3>3, <3>4, <3>5, <3>6, <3>7, <3>8, <3>9, <3>10, <3>11 DEF UpdateStep
  <2> QED BY <2>2, <2>3, <2>5 DEF FirstProcess, SameRows
<1>3. ASSUME NEW r \in Rollbacks, RollbackStep(r) \/ Leave(r) \/ CancelQueued(r)
      PROVE Untouched' /\ FirstProcess'
  <2>1. RollbackFramed(r)
    BY <1>3, RollbackFrame
  <2>2. Untouched' /\ UNCHANGED <<up, scanned>>
    BY <1>1, <2>1 DEF Untouched, RollbackFramed, SameWork
  <2>3. ASSUME NEW v \in Updates
        PROVE  /\ pc'[v] = pc[v] /\ job'[v] = job[v]
               /\ tx'[v] = tx[v] \/ tx[v].status = "recovery_required"
    BY <1>1, <2>1 DEF RollbackFramed, SameWork
  <2> QED BY <2>2, <2>3 DEF FirstProcess
<1>4. CASE \/ \E u \in Updates : LosePoint(u)
           \/ WorkerApplies \/ StartCleanup \/ EndCleanup \/ LeaseExpires \/ UNCHANGED vars
  <2>1. UNCHANGED <<boot, job, tx, pc, cancelling>>
    BY <1>4 DEF LosePoint, WorkerApplies, StartCleanup, EndCleanup, LeaseExpires, vars, control,
        records
  <2> QED BY <2>1 DEF Untouched, FirstProcess
<1>5. ~Restart /\ ~StartScan
    BY DEF FirstProcess, Restart, StartScan
<1> QED BY <1>2, <1>3, <1>4, <1>5, NothingToRecover DEF Next

\* The outstanding worker is waited for, by its pipeline or by the scan.
LEMMA WaitsStay ==
    ASSUME Told, WorkersInTime, WorkerWaits, [Next]_vars
    PROVE  WorkerWaits'
<1> USE ActorsDistinct
<1>1. /\ faults' = faults /\ faults.late = {} /\ faults.crashes \in Nat /\ crashes \in Nat
      /\ crashes <= faults.crashes /\ DOMAIN pc = Actors /\ worker \in Updates \cup {Nobody}
      /\ faults.crashes = 0 \/ (faults.crashes = 1 /\ faults.cancellable = {})
      /\ Updates \subseteq Actors /\ Updates \subseteq Jobs
    BY FaultsStay, ScenariosAssumption
    DEF WorkersInTime, Told, Typed, BoundsTyped, StagesTyped, ContainerTyped, Jobs
<1>2. CASE Crash
  <2>1. /\ crashes' = 1 /\ crashes = 0 /\ faults.crashes = 1 /\ worker' = worker
        /\ job' = job /\ tx' = tx /\ scanned' = FALSE /\ cancelling' = {}
        /\ seen' = [u \in Updates |-> "none"]
        /\ pc' = [a \in Actors |-> IF a \in Recoverers \/ pc[a] = "idle" THEN "idle" ELSE "done"]
    BY <1>1, <1>2 DEF Crash, docker
  <2>2. worker = Nobody \/ pc[worker] = "applying"
    BY <2>1 DEF WorkerWaits
  <2>3. FirstProcess
    BY <2>1 DEF WorkerWaits
  <2>4. Untouched'
    BY <2>1 DEF Untouched, Actors
  <2>5. worker = Nobody \/ StillRuns'
    BY <1>1, <2>1, <2>2, <2>3 DEF StillRuns, FirstProcess, Actors
  <2> QED BY <2>1, <2>4, <2>5 DEF WorkerWaits
<1>3. CASE ~Crash
  <2>1. crashes' = crashes
    <3>1. ASSUME NEW u \in Updates, UpdateStep(u) PROVE crashes' = crashes
      BY <3>1, PipelineFrame DEF PipelineFramed
    <3>2. ASSUME NEW r \in Rollbacks, RollbackStep(r) \/ Leave(r) \/ CancelQueued(r)
          PROVE  crashes' = crashes
      BY <3>2, RollbackFrame DEF RollbackFramed
    <3>3. ASSUME NEW w \in Recoverers, RecoveryStep(w) PROVE crashes' = crashes
      BY <3>3, RecoveryFrame DEF RecoveryFramed
    <3>4. ASSUME NEW u \in Updates,
                 SafeAbort(u) \/ ScanRecovers(u) \/ OrphanCancel(u) \/ OrphanRecovers(u)
          PROVE  crashes' = crashes
      BY <3>4, StartFrame
    <3>5. CASE \/ \E u \in Updates : LosePoint(u)
               \/ WorkerApplies \/ Restart \/ StartScan \/ StartCleanup \/ EndCleanup
               \/ LeaseExpires \/ UNCHANGED vars
      BY <3>5, QuietFrame
    <3> QED BY <1>3, <3>1, <3>2, <3>3, <3>4, <3>5, Zenon DEF Next
  <2>2. (crashes = 0 /\ faults.crashes = 1 => Untouched /\ FirstProcess)'
    BY <1>1, <1>3, <2>1, FirstProcessStays DEF WorkerWaits
  <2>3. worker' = worker \/ worker' = Nobody \/ \E v \in Updates : CallWorker(v)
    BY ContainerMoves
    DEF WorkerApplies, CorrectImage, RollbackRestores, RollbackBreaks
  <2>4. ASSUME NEW v \in Updates, CallWorker(v) PROVE pc'[worker'] = "applying"
    BY <1>1, <2>4 DEF CallWorker, Goto
  <2>5. ASSUME worker' = worker, worker # Nobody
        PROVE  pc'[worker'] = "applying" \/ (crashes' = 1 /\ Untouched' /\ StillRuns')
    <3>1. CASE pc[worker] = "applying"
      BY <1>1, <1>3, <2>5, <3>1, CallWaits
    <3>2. CASE crashes = 1 /\ Untouched /\ StillRuns
      BY <1>1, <2>1, <2>5, <3>2, StillRunsStays
    <3> QED BY <2>5, <3>1, <3>2 DEF WorkerWaits
  <2> QED BY <2>2, <2>3, <2>4, <2>5 DEF WorkerWaits
<1> QED BY <1>2, <1>3

-----------------------------------------------------------------------------
\* Nothing but the rollback itself touches what it has restored.
LEMMA RestoredIsLeft ==
    ASSUME RowsInv, WorkerWaits, NEW r \in Rollbacks, Restored(r), RestoredBy(r), [Next]_vars
    PROVE  \/ RollbackBreaks(r)
           \/ runtime' = runtime /\ point'[source[r]].image = point[source[r]].image
<1> USE ActorsDistinct
<1>1. Told /\ OwnershipInv /\ Rollbacks \subseteq Jobs /\ Updates \subseteq Jobs
    BY DEF RowsInv, Jobs
<1>2. /\ \A v \in Updates : pc[v] \in UpdateInGate => pc[v] = "rolling"
      /\ \A s \in Rollbacks \ {r} : pc[s] \notin RollbackInGate
    BY <1>1, RollbackAlone DEF RestoredBy, RollbackInGate
<1>3. parent[r] # Nobody => parent[r] \in Updates \cup Recoverers /\ pc[parent[r]] = "rolling"
    BY <1>1 DEF OwnershipInv, ControlTyped, CallersWait
<1>4. source[r] \in Updates
  <2>1. CASE pc[r] = "restored"
    BY <1>1, <2>1 DEF Told, Partners
  <2>2. CASE pc[r] # "restored"
    BY <1>1, <1>3, <2>2 DEF RestoredBy, Restored, Told, Partners
  <2> QED BY <2>1, <2>2
<1>5. point'[source[r]].image = point[source[r]].image
  <2>1. ASSUME NEW u \in Updates, CaptureRestorePoint(u) PROVE FALSE
    BY <1>2, <2>1 DEF CaptureRestorePoint, UpdateInGate
  <2> QED BY <1>1, <1>4, <2>1, ImagesMove
<1>6. ASSUME WorkerApplies PROVE FALSE
  <2>1. worker \in Updates
    BY <1>1, <1>6 DEF WorkerApplies, Told, Typed, ContainerTyped
  <2>2. pc[worker] # "applying"
    BY <1>2, <2>1 DEF UpdateInGate
  <2>3. Untouched /\ StillRuns
    BY <2>1, <2>2 DEF WorkerWaits
  <2>4. pc[r] # "restored"
    BY <1>1, <2>3 DEF StillRuns
  <2> QED BY <1>1, <1>3, <2>3, <2>4 DEF RestoredBy, Untouched, StillRuns
<1>7. ASSUME NEW v \in Updates, CallWorker(v) \/ CorrectImage(v) PROVE FALSE
    BY <1>2, <1>7 DEF CallWorker, CorrectImage, UpdateInGate
<1>8. ASSUME NEW s \in Rollbacks, RollbackRestores(s) \/ RollbackBreaks(s), ~RollbackBreaks(r)
      PROVE  FALSE
  <2>1. pc[s] \in RollbackInGate
    BY <1>8 DEF RollbackRestores, RollbackBreaks, RollbackInGate
  <2>2. s = r /\ pc[r] = "restoring"
    BY <1>2, <1>8, <2>1 DEF RollbackRestores
  <2> QED BY <2>2 DEF RestoredBy
<1> QED BY <1>5, <1>6, <1>7, <1>8, ContainerMoves

LEMMA RestoredStays ==
    ASSUME RowsInv, WorkerWaits, NEW r \in Rollbacks, Restored(r), [Next]_vars
    PROVE  Restored(r)'
<1> USE ActorsDistinct
<1>1. /\ Told /\ OwnershipInv /\ DOMAIN pc = Actors /\ DOMAIN verdict = Actors /\ r \in Actors
      /\ DOMAIN parent = Rollbacks /\ DOMAIN source = Rollbacks
      /\ parent[r] \in Updates \cup Recoverers \cup {Nobody}
    BY DEF RowsInv, Told, Typed, StagesTyped, VerdictsTyped, WorkTyped
<1>2. parent[r] # Nobody => pc[parent[r]] = "rolling"
    BY <1>1 DEF OwnershipInv, CallersWait
\* The rollback stands still, and whom it is nested in keeps its target.
<1>3. ASSUME SameChild(r), parent[r] \in Recoverers => target'[parent[r]] = target[parent[r]]
      PROVE  Restored(r)'
  <2>1. RestoredBy(r)' => RestoredBy(r)
    BY <1>1, <1>3 DEF RestoredBy, SameChild
  <2>2. ~RollbackBreaks(r)
    BY <1>1, <1>3 DEF SameChild, RollbackBreaks, Goto
  <2>3. RestoredBy(r) => runtime' = runtime /\ point'[source[r]].image = point[source[r]].image
    BY <2>2, RestoredIsLeft
  <2> QED BY <1>1, <1>3, <2>1, <2>3 DEF Restored, SameChild
\* It moves on without having restored the container ...
<1>4. ASSUME NEW to, pc' = [pc EXCEPT ![r] = to], UNCHANGED <<parent, target>>,
             source' = source \/ parent[r] = Nobody,
             to \notin {"idle", "restored"},
             to \in {"settle", "report", "leave", "done"} => verdict'[r] = "failed"
      PROVE  Restored(r)'
    BY <1>1, <1>4 DEF Restored, RestoredBy
\* ... or after it.
<1>5. ASSUME NEW to \in {"report", "leave", "done"}, pc' = [pc EXCEPT ![r] = to],
             pc[r] \in {"restored", "settle", "report", "leave"},
             UNCHANGED <<parent, target, source>>, pc[r] = "restored" \/ verdict' = verdict
      PROVE  Restored(r)'
  <2>1. RestoredBy(r)' => RestoredBy(r)
    BY <1>1, <1>5 DEF RestoredBy, Restored
  <2>2. RollbackBreaks(r) => verdict'[r] = "failed"
    BY <1>1 DEF RollbackBreaks
  <2>3. RestoredBy(r)' => runtime' = runtime /\ point'[source[r]].image = point[source[r]].image
    BY <1>1, <1>5, <2>1, <2>2, RestoredIsLeft DEF RestoredBy
  <2> QED BY <1>1, <1>5, <2>1, <2>3 DEF Restored
<1>6. CASE RollbackStep(r) \/ Leave(r) \/ CancelQueued(r)
  <2> USE DEF rest, control, children, Goto
  <2>1. ASSUME NEW u \in Updates, AdmitRollback(r, u) PROVE Restored(r)'
    <3>1. PICK to \in {"admitted"} :
             pc[r] = "idle" /\ pc' = [pc EXCEPT ![r] = to] /\ UNCHANGED <<parent, target>>
      BY <2>1 DEF AdmitRollback
    <3>2. parent[r] = Nobody
      BY <3>1 DEF Restored
    <3> QED BY <1>4, <3>1, <3>2
  <2>2. CASE \/ EnqueueRollback(r) \/ ClaimRollback(r) \/ RollbackEntersGate(r)
             \/ RollbackLeases(r) \/ RollbackLeaseConflict(r) \/ RollbackRefused(r)
             \/ RollbackBreaks(r)
    <3>1. PICK to : /\ pc' = [pc EXCEPT ![r] = to] /\ to \notin {"idle", "restored"}
                    /\ to \in {"settle", "report", "leave", "done"} => verdict'[r] = "failed"
      BY <1>1, <2>2
      DEF EnqueueRollback, ClaimRollback, RollbackEntersGate, RollbackLeases,
          RollbackLeaseConflict, RollbackRefused, RollbackBreaks, SettleAs
    <3>2. UNCHANGED <<parent, target, source>>
      BY <2>2
      DEF EnqueueRollback, ClaimRollback, RollbackEntersGate, RollbackLeases,
          RollbackLeaseConflict, RollbackRefused, RollbackBreaks
    <3> QED BY <1>4, <3>1, <3>2
  <2>3. CASE RollbackRestores(r)
    <3>1. /\ runtime' = point[source[r]].image /\ pc' = [pc EXCEPT ![r] = "restored"]
          /\ UNCHANGED <<parent, target, source, point>>
      BY <2>3 DEF RollbackRestores
    <3> QED BY <1>1, <3>1 DEF Restored
  <2>4. CASE RollbackCompletes(r) \/ SettleRollback(r) \/ Leave(r)
    BY <1>5, <2>4 DEF RollbackCompletes, SettleRollback, Leave
  <2>5. CASE RollbackDeadline(r) \/ CancelQueued(r)
    BY <1>1, <1>3, <2>5 DEF RollbackDeadline, CancelQueued, SameChild
  <2> QED BY <1>6, <2>1, <2>2, <2>3, <2>4, <2>5 DEF RollbackStep
<1>7. ASSUME NEW s \in Rollbacks, s # r, RollbackStep(s) \/ Leave(s) \/ CancelQueued(s)
      PROVE  Restored(r)'
    BY <1>3, <1>7, <1>1, RollbackFrame DEF RollbackFramed
<1>8. ASSUME NEW u \in Updates, UpdateStep(u) PROVE Restored(r)'
  <2>1. PipelineFramed(u)
    BY <1>1, <1>8, PipelineFrame
  <2>2. CASE SameChild(r)
    BY <1>3, <2>1, <2>2 DEF PipelineFramed
  <2>3. CASE AutoRollback(u, r)
    <3>1. pc'[r] = "queued" /\ parent'[r] = u /\ source'[r] = u
      BY <1>1, <2>3 DEF AutoRollback
    <3> QED BY <3>1 DEF Restored, RestoredBy
  <2> QED BY <2>1, <2>2, <2>3 DEF PipelineFramed
<1>9. ASSUME NEW w \in Recoverers, RecoveryStep(w) PROVE Restored(r)'
  <2>1. RecoveryFramed(w)
    BY <1>1, <1>9, RecoveryFrame
  <2>2. CASE SameChild(r)
    BY <1>2, <1>3, <2>1, <2>2 DEF RecoveryFramed
  <2>3. CASE RecoveryRollsBack(w, r)
    <3>1. pc'[r] = "queued" /\ parent'[r] = w /\ source'[r] = target[w] /\ target' = target
      BY <1>1, <2>3 DEF RecoveryRollsBack
    <3> QED BY <3>1 DEF Restored, RestoredBy
  <2> QED BY <2>1, <2>2, <2>3 DEF RecoveryFramed
<1>10. ASSUME NEW u \in Updates,
              SafeAbort(u) \/ ScanRecovers(u) \/ OrphanCancel(u) \/ OrphanRecovers(u)
       PROVE  Restored(r)'
  <2>1. /\ \A b \in Actors \ Recoverers : SameWork(b)
        /\ \A w \in Recoverers : pc[w] = "idle" \/ target'[w] = target[w]
        /\ UNCHANGED children
    BY <1>1, <1>10, StartFrame
  <2>2. SameChild(r)
    BY <1>1, <2>1 DEF SameChild, SameWork, children
  <2> QED BY <1>2, <1>3, <2>1, <2>2
<1>11. CASE Crash
  <2>1. pc'[r] \in {"idle", "done"} /\ parent'[r] = Nobody
    BY <1>1, <1>11 DEF Crash
  <2> QED BY <2>1 DEF Restored, RestoredBy
<1>12. CASE \/ \E v \in Updates : LosePoint(v)
            \/ WorkerApplies \/ Restart \/ StartScan \/ StartCleanup \/ EndCleanup \/ LeaseExpires
            \/ UNCHANGED vars
    BY <1>1, <1>3, <1>12, QuietFrame DEF SameChild, children
<1> QED BY <1>6, <1>7, <1>8, <1>9, <1>10, <1>11, <1>12, Zenon DEF Next

-----------------------------------------------------------------------------
LEMMA InitOutcomes == Init => OutcomesInv
<1> SUFFICES ASSUME Init PROVE OutcomesInv
    OBVIOUS
<1>1. \A a \in Actors : pc[a] = "idle"
    BY DEF Init
<1>2. Updates \subseteq Actors /\ Rollbacks \subseteq Actors /\ Recoverers \subseteq Actors
    BY DEF Actors, Jobs
<1>3. \A u \in Updates : Verified(u)
    BY <1>1, <1>2 DEF Verified, Checked, Confirmed
<1>4. WorkerWaits
    BY <1>1, <1>2 DEF Init, WorkerWaits, Untouched, FirstProcess, BeforeCall
<1>5. ASSUME NEW r \in Rollbacks PROVE Restored(r)
  <2>1. parent[r] = Nobody /\ pc[r] = "idle"
    BY <1>1, <1>2 DEF Init
  <2> QED BY <2>1, ActorsDistinct DEF Restored, RestoredBy
<1> QED BY <1>3, <1>4, <1>5, InitTells DEF OutcomesInv

LEMMA NextOutcomes == OutcomesInv /\ [Next]_vars => OutcomesInv'
<1> SUFFICES ASSUME OutcomesInv, [Next]_vars PROVE OutcomesInv'
    OBVIOUS
<1>1. RowsInv /\ Told /\ OwnershipInv /\ RowsInv'
    BY NextKeeps DEF OutcomesInv, RowsInv
<1>2. ASSUME NEW u \in Updates PROVE Verified(u)'
    BY <1>1, VerifiedStays DEF OutcomesInv
<1>3. WorkersInTime' => WorkersInTime
    BY FaultsStay DEF WorkersInTime
<1>4. ASSUME WorkersInTime PROVE WorkerWaits'
    BY <1>1, <1>4, WaitsStay DEF OutcomesInv
<1>5. ASSUME WorkersInTime, NEW r \in Rollbacks PROVE Restored(r)'
    BY <1>1, <1>5, RestoredStays DEF OutcomesInv
<1> QED BY <1>1, <1>2, <1>3, <1>4, <1>5 DEF OutcomesInv

\* An update is reported as successful only while its own target image runs,
\* and, as long as every worker request ends before a rollback can begin, as
\* rolled back only while the image of its restore point does: through the
\* pipeline, both kinds of rollback, and recovery (executeUpdate,
\* runAutomaticRollback, executeRestorePointRollback, recoverUpdateTransaction).
THEOREM ReportsAreTrue == Spec => OutcomesAreTrue
<1>1. Init => OutcomesInv
    BY InitOutcomes
<1>2. OutcomesInv /\ [Next]_vars => OutcomesInv'
    BY NextOutcomes
<1>3. OutcomesInv /\ [Next]_vars =>
        [\A u \in Updates :
            tx[u].state # "success" /\ tx'[u].state = "success" => runtime = u]_vars
  <2> SUFFICES ASSUME OutcomesInv, [Next]_vars,
                      NEW u \in Updates, tx[u].state # "success", tx'[u].state = "success"
               PROVE  runtime = u
    OBVIOUS
  <2>1. FinishUpdate(u) \/ \E w \in Recoverers : RecoveryKeepsTarget(w) /\ target[w] = u
    BY OutcomesMove DEF OutcomesInv, RowsInv, Reports
  <2>2. FinishUpdate(u) => runtime = u
    BY DEF FinishUpdate, OutcomesInv, Verified, Confirmed
  <2> QED BY <2>1, <2>2 DEF RecoveryKeepsTarget
<1>4. OutcomesInv /\ [Next]_vars =>
        [\A u \in Updates :
            WorkersInTime /\ tx[u].state # "rolled_back" /\ tx'[u].state = "rolled_back"
                => runtime = point[u].image]_vars
  <2> SUFFICES ASSUME OutcomesInv, [Next]_vars, WorkersInTime,
                      NEW u \in Updates, tx[u].state # "rolled_back", tx'[u].state = "rolled_back"
               PROVE  runtime = point[u].image
    OBVIOUS
  <2>1. PICK r \in Rollbacks :
           \/ RolledBack(u, r)
           \/ RollbackCompletes(r) /\ source[r] = u
           \/ \E w \in Recoverers :
                 AfterRecoveryRollback(w, r) /\ verdict[r] = "success" /\ target[w] = u
    BY OutcomesMove DEF OutcomesInv, RowsInv, Reports
  <2>2. Restored(r)
    BY DEF OutcomesInv
  <2>3. RestoredBy(r) /\ source[r] = u
    BY <2>1, <2>2, ActorsDistinct
    DEF RolledBack, RollbackEnded, RollbackCompletes, AfterRecoveryRollback, RecoveryRollbackEnded,
        RestoredBy, Restored, Actors, Jobs
  <2> QED BY <2>2, <2>3 DEF Restored
<1> QED
    BY <1>1, <1>2, <1>3, <1>4, PTL DEF Spec, OutcomesAreTrue, SuccessMeansTarget,
        RolledBackMeansRestored
=============================================================================
