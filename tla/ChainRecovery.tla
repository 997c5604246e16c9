---------------------------- MODULE ChainRecovery ----------------------------
(* What happens to a run of a chain beside and after its executor: a cancel  *)
(* from outside, a crash, and the recovery of the run                        *)
(* (src/internal/app/v095_recovery.go, job_lifecycle.go, reliability.go).    *)
EXTENDS ChainExecutor

\* Cancellation from outside: the row first, then the signal to the owner.
Up == pc # "dead"
CancelQueuedChain ==
    /\ Up /\ job = "queued"
    /\ job' = "cancelled"
    /\ UNCHANGED <<chain, run, row, link, members, memory, reserved, pc, outside>>

RequestCancel ==
    /\ Up /\ job = "running"
    /\ job' = "cancel_requested" /\ cancelling' = TRUE
    /\ UNCHANGED <<chain, run, row, link, members, memory, reserved, pc, crashes, turn, seen>>

ExecutorLives == pc \notin {"idle", "done", "dead"} /\ ~Recovering
SignalCancel ==
    /\ cancelling /\ ExecutorLives
    /\ cancelling' = FALSE
    /\ UNCHANGED <<chain, rows, members, memory, reserved, pc, crashes, turn, seen>>

\* reconcileOrphanedChainCancel, whatever the run has come to meanwhile.
OrphanCancel ==
    /\ cancelling /\ Up /\ ~ExecutorLives
    /\ cancelling' = FALSE
    /\ run' = [status |-> "recovery_required", orphaned |-> TRUE]
    /\ turn' = [turn EXCEPT !["orphan"] = "listed"]
    /\ UNCHANGED <<chain, job, row, link, members, memory, reserved, pc, crashes, seen>>

-----------------------------------------------------------------------------
Crash ==
    /\ pc \notin {"dead", "idle"} /\ crashes < MaxCrashes
    /\ crashes' = crashes + 1
    /\ reserved' = FALSE /\ pc' = "dead" /\ cancelling' = FALSE
    /\ Forget
    /\ turn' = [r \in Recoverers |-> "off"] /\ seen' = [r \in Recoverers |-> Nothing]
    /\ UNCHANGED <<chain, rows, members>>

\* recoverInterruptedJobs: an active transaction or an active run keeps its job.
Restart ==
    /\ pc = "dead"
    /\ pc' = "done" /\ turn' = [turn EXCEPT !["scan"] = "due"]
    /\ job' = IF job \in ActiveJob /\ run.status \notin ActiveRun THEN "failed" ELSE job
    /\ child' = [s \in Steps |->
                   IF child[s].job \in ActiveJob /\ child[s].tx \notin ActiveTx
                   THEN [child[s] EXCEPT !.job = "failed"] ELSE child[s]]
    /\ UNCHANGED <<chain, run, row, link, hit, reused, point, image, memory, reserved, cancelling,
                   crashes, seen>>

\* recoverUpdateTransaction, before the scan looks at the chains.
RecoverChild(s, t, what) ==
    /\ turn["scan"] = "due" /\ pc = "done" /\ child[s].tx \in ActiveTx
    /\ SetChild(s, IF t = "success" THEN "success" ELSE "failed", t)
    /\ SetImage(s, what)
    /\ UNCHANGED <<chain, rows, hit, reused, point, memory, reserved, pc, outside>>
ChildRecovered(s) ==
    \/ child[s].tx = "running" /\ RecoverChild(s, "interrupted", image[s])
    \/ child[s].tx = "updating" /\
         \/ RecoverChild(s, "interrupted", "base") \/ RecoverChild(s, "success", "new")
         \/ RecoverChild(s, "rolled_back", "base") \/ RecoverChild(s, "recovery_required", "down")

Turn(r, to) == turn' = [turn EXCEPT ![r] = to]
ScanLists ==
    /\ turn["scan"] = "due" /\ \A s \in Steps : child[s].tx \notin ActiveTx
    /\ Turn("scan", IF run.status \in ActiveRun THEN "listed" ELSE "off")
    /\ UNCHANGED <<chain, rows, members, memory, reserved, pc, cancelling, crashes, seen>>

\* recoverInterruptedChainRun reads the mark of an orphaned cancel and the rows,
\* and then waits for the host's gate.
RecovererReads(r) ==
    /\ turn[r] = "listed" /\ Turn(r, "waiting")
    /\ seen' = [seen EXCEPT ![r] = [row |-> row, cancel |-> run.orphaned]]
    /\ UNCHANGED <<chain, rows, members, memory, reserved, pc, cancelling, crashes>>

BeginRecovery(r) ==
    /\ turn[r] = "waiting" /\ Turn(r, "working")
    /\ run' = [status |-> "recovering", orphaned |-> FALSE]
    /\ pc' = "sorting"
    /\ notes' = IF seen[r].cancel THEN {"cancel"} ELSE {}
    /\ UNCHANGED <<chain, job, row, link, members, at, found, completed, captured, err, reserved,
                   cancelling, crashes, seen>>
RecovererEnters(r) == pc = "done" /\ BeginRecovery(r)

\* The chain is gone, its rows cannot be read, or the gate stays taken.
RecoveryCannotStart(r) ==
    /\ turn[r] \in {"listed", "waiting"} /\ Turn(r, "off")
    /\ run' = [status |-> "recovery_required", orphaned |-> FALSE]
    /\ job' = "failed"
    /\ seen' = [seen EXCEPT ![r] = Nothing]
    /\ UNCHANGED <<chain, row, link, members, memory, reserved, pc, cancelling, crashes>>

\* Each row in turn: what has become of the step.
Sorting(s) == pc = "sorting" /\ s = at /\ AtStep
Keep(s) == completed' = Append(completed, s)
View == seen[CHOOSE r \in Recoverers : turn[r] = "working"].row
Open(s) == View[s] \notin chainRunStepTerminal
SortTail == <<chain, run, job, link, child, hit, reused, point, found, captured, err, reserved, pc,
              outside>>

SortTerminal(s) ==
    /\ Sorting(s) /\ (View[s] = "none" \/ ~Open(s))
    /\ IF View[s] \in {"success", "recreated", "restarted"} THEN Keep(s) ELSE UNCHANGED completed
    /\ notes' = IF View[s] = "rolled_back" THEN notes \cup {"rolled"} ELSE notes
    /\ ToNext
    /\ UNCHANGED <<row, image, SortTail>>

SortSucceeded(s) ==
    /\ Sorting(s) /\ Open(s) /\ s \in link /\ child[s].job = "success"
    /\ SetRow(s, "success") /\ Keep(s)
    /\ notes' = notes \cup {"moved"}
    /\ ToNext
    /\ UNCHANGED <<image, SortTail>>

\* Completed members that captured the data a rolled-back step worked on.
BaselineIsEarlier(s) ==
    point[s] # "data" /\ \E t \in ToSet(completed) : point[t] = "data"
SortRolledBack(s) ==
    /\ Sorting(s) /\ Open(s) /\ s \in link /\ child[s].tx = "rolled_back"
    /\ SetRow(s, "rolled_back")
    /\ notes' = notes \cup {"rolled", "moved"} \cup (IF BaselineIsEarlier(s) THEN {"force"} ELSE {})
    /\ ToNext
    /\ UNCHANGED <<image, completed, SortTail>>

NeedsOperator == notes' = notes \cup {"operator"} /\ ToNext

SortUnresolved(s) ==
    /\ Sorting(s) /\ Open(s) /\ s \in link /\ child[s].tx \in ActiveTx \cup {"recovery_required"}
    /\ NeedsOperator
    /\ UNCHANGED <<row, image, completed, SortTail>>

SortFailed(s) ==
    /\ Sorting(s) /\ Open(s) /\ s \in link
    /\ child[s].tx \notin ActiveTx \cup {"rolled_back", "recovery_required"}
    /\ child[s].job # "success"
    /\ SetRow(s, "failed")
    /\ notes' = notes \cup {"rolled"}
    /\ ToNext
    /\ UNCHANGED <<image, completed, SortTail>>

SortUntouched(s) ==
    /\ Sorting(s) /\ Open(s) /\ s \notin link /\ View[s] = "checking"
    /\ SetRow(s, "interrupted") /\ ToNext
    /\ UNCHANGED <<image, completed, notes, SortTail>>

\* A started restart or recreate is verified, the recreate else rolled back.
SortVerified(s) ==
    /\ Sorting(s) /\ s \notin link
    /\ \/ View[s] = "restarting" /\ SetRow(s, "restarted") /\ SetImage(s, "base")
       \/ View[s] = "recreating" /\ point[s] # "none" /\ SetRow(s, "recreated")
          /\ SetImage(s, IF image[s] = "base" THEN "base" ELSE "rebuilt")
    /\ Keep(s)
    /\ notes' = notes \cup {"moved"}
    /\ ToNext
    /\ UNCHANGED SortTail

SortRestored(s) ==
    /\ Sorting(s) /\ s \notin link /\ View[s] = "recreating" /\ point[s] # "none"
    /\ SetRow(s, "rolled_back") /\ SetImage(s, "base")
    /\ notes' = notes \cup {"rolled", "moved"}
    /\ ToNext
    /\ UNCHANGED <<completed, SortTail>>

SortBroken(s) ==
    /\ Sorting(s) /\ s \notin link /\ View[s] \in {"restarting", "recreating"}
    /\ NeedsOperator
    /\ UNCHANGED <<row, image, completed, SortTail>>

Sorted == pc = "sorting" /\ at > N
RecoveryMustUndo ==
    ((chain.undo /\ "rolled" \in notes) \/ "force" \in notes) /\ completed # <<>>
Done ==
    /\ pc' = "done" /\ Forget
    /\ turn' = [r \in Recoverers |-> IF turn[r] = "working" THEN "off" ELSE turn[r]]
    /\ seen' = [r \in Recoverers |-> IF turn[r] = "working" THEN Nothing ELSE seen[r]]
    /\ UNCHANGED <<cancelling, crashes>>
RecoveryStops ==
    /\ SetRun("recovery_required") /\ job' = "failed" /\ Done
    /\ UNCHANGED <<row, link, reserved>>

RecoveryLeavesToOperator ==
    /\ Sorted /\ "operator" \in notes
    /\ RecoveryStops
    /\ UNCHANGED <<chain, members>>

RecoveryUndoes ==
    /\ Sorted /\ "operator" \notin notes /\ RecoveryMustUndo
    /\ notes' = notes \cup {"moved"} /\ pc' = "undoing"
    /\ UNCHANGED <<chain, rows, members, at, found, completed, captured, err, reserved, outside>>

RecoveryUndoIncomplete ==
    /\ pc = "undoing" /\ Recovering /\ completed = <<>> /\ "incomplete" \in notes
    /\ RecoveryStops
    /\ UNCHANGED <<chain, members>>

RecoverySettles ==
    /\ \/ Sorted /\ "operator" \notin notes /\ ~RecoveryMustUndo
       \/ pc = "undoing" /\ Recovering /\ completed = <<>>
          /\ "incomplete" \notin notes
    /\ IF "cancel" \in notes THEN finishChainSafeCancel
       ELSE /\ SetRun(IF notes \cap {"moved", "rolled"} # {} THEN "recovered" ELSE "interrupted")
            /\ job' = "failed" /\ UNCHANGED <<row, link, reserved>>
    /\ Done
    /\ UNCHANGED <<chain, members>>

-----------------------------------------------------------------------------
\* A user rolls a member back to its restore point; that lifts the hold on its
\* transaction.
UserRollsBack(s) ==
    /\ pc = "done" /\ ~reserved
    /\ point[s] # "none" /\ child[s].job \notin ActiveJob
    /\ image[s] = "down" \/ child[s].tx = "recovery_required"
    /\ SetImage(s, "base")
    /\ child' = [child EXCEPT ![s].tx = IF @ = "recovery_required" THEN "rolled_back" ELSE @]
    /\ UNCHANGED <<chain, rows, hit, reused, point, memory, reserved, pc, outside>>
=============================================================================
