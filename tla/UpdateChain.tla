----------------------------- MODULE UpdateChain -----------------------------
(* One run of an update chain with its child updates, cancels, crashes and   *)
(* recovery together, and what it promises.                                  *)
EXTENDS ChainRecovery

ExecutorStep(s) ==
    \/ \E what \in {"update", "snoozed", "current"} : CheckFinds(s, what)
    \/ CheckFails(s) \/ PlanAllows(s) \/ PlanBlocks(s)
    \/ SkipSnoozed(s) \/ SkipCurrent(s) \/ BeginLifecycle(s)
    \/ \E kind \in Kinds : LifecycleRefused(s, kind) \/ CannotQueue(s, kind) \/ StepFailed(s, kind)
    \/ \E kind \in Kinds, what \in {"base", "down"} : RestartFails(s, what, kind)
    \/ RestartPreservesStopped(s) \/ RestartStops(s) \/ RestartSucceeds(s)
    \/ RecreateRemoves(s) \/ RecreateSucceeds(s) \/ RecreateHangs(s)
    \/ EnqueueStep(s) \/ LinkStep(s) \/ StepSucceeds(s) \/ StepHeld(s)
UndoStep(s) == SkipRestarted(s) \/ UndoRemoves(s) \/ UndoSucceeds(s) \/ UndoFails(s)
ChildStep(s) ==
    \/ ChildBegins(s) \/ ChildMutates(s) \/ ChildNotApplied(s) \/ ChildRecovered(s)
    \/ \E j \in {"failed", "skipped", "cancelled"} : ChildEndsEarly(s, j)
    \/ \E o \in ChildOutcomes : ChildEnds(s, o)
SortStep(s) ==
    \/ SortTerminal(s) \/ SortSucceeded(s) \/ SortRolledBack(s) \/ SortUnresolved(s)
    \/ SortFailed(s) \/ SortUntouched(s) \/ SortVerified(s) \/ SortRestored(s) \/ SortBroken(s)

\* What the process does by itself once a run was started.
Progress ==
    \/ \E r \in Recoverers : RecovererReads(r) \/ RecovererEnters(r) \/ RecoveryCannotStart(r)
    \/ \E s \in Steps \cap {at} : SortStep(s) \/ ExecutorStep(s)
    \/ \E s \in ToSet(completed) : UndoStep(s)
    \/ \E s \in Steps : ChildStep(s)
    \/ RecoveryLeavesToOperator \/ RecoveryUndoes \/ RecoveryUndoIncomplete \/ RecoverySettles
    \/ Restart \/ ScanLists \/ SignalCancel \/ OrphanCancel
    \/ ClaimChain \/ CancelledInQueue \/ CancelSafely
    \/ AllChecked \/ NothingToDo \/ Planned \/ NextStep \/ StopChain
    \/ BeginUndo \/ EndRun \/ CloseJob

Next ==
    \/ Progress
    \/ StartChain \/ CancelQueuedChain \/ RequestCancel \/ Crash
    \/ \E s \in Steps : ChildCancelled(s) \/ UserRollsBack(s)

Spec == Init /\ [][Next]_vars
FairSpec == Spec /\ WF_vars(Progress)

-----------------------------------------------------------------------------
Stages == {"queued", "checking", "planning", "stepping", "restarting", "restarted", "recreating",
           "recreated", "stuck", "linking", "waiting", "judging", "ending", "undoing",
           "restoring", "closing"}

\* Every row and every part of the executor's memory has a value the code can
\* give it.
TypeOK ==
    /\ chain \in Definitions
    /\ run \in [status : ActiveRun \cup {"none", "success", "no_changes", "blocked", "failed",
                                         "cancelled", "recovered", "interrupted"},
                orphaned : BOOLEAN]
    /\ job \in ActiveJob \cup FinalJob \cup {"none"}
    /\ row \in [Steps -> chainRunStepTerminal
                         \cup {"none", "checking", "restarting", "recreating", "updating"}]
    /\ link \subseteq Steps /\ hit \subseteq Steps /\ reused \subseteq Steps
    /\ child \in [Steps -> [job : ActiveJob \cup FinalJob \cup {"none"},
                            tx : ActiveTx \cup {"none", "success", "failed", "skipped", "cancelled",
                                                "rolled_back", "interrupted", "recovery_required"}]]
    /\ point \in [Steps -> {"none", "plain", "data"}]
    /\ image \in [Steps -> {"base", "new", "rebuilt", "down"}]
    /\ reserved \in BOOLEAN /\ cancelling \in BOOLEAN
    /\ pc \in Stages \cup {"idle", "queued", "done", "dead", "sorting"}
    /\ at \in 1..(N + 1)
    /\ found \in [Steps -> {"none", "update", "snoozed", "current"}]
    /\ completed \in Seq(Steps) /\ Len(completed) <= N
    /\ captured \in BOOLEAN
    /\ err \in Kinds \cup {"none", "blocked"}
    /\ notes \subseteq {"force", "incomplete", "cancel", "rolled", "moved", "operator"}
    /\ crashes \in 0..MaxCrashes
    /\ turn \in [Recoverers -> {"off", "due", "listed", "waiting", "working"}]
    /\ DOMAIN seen = Recoverers

\* Work on a member has begun.
Begun(s) ==
    \/ image[s] # "base" \/ point[s] # "none" \/ child[s].job # "none"
    \/ row[s] \in {"restarting", "restarted", "recreating", "recreated"}
InFlight(s) ==
    child[s].job \in ActiveJob \/ row[s] \in {"restarting", "recreating", "updating"}

\* No member is touched before all have been checked, unless one has an update,
\* and, in an automatic run, while the plan holds an actionable member back
\* (phase 1 of executeUpdateChain).
NothingBeforePlan ==
    [][\A s \in Steps : ~Begun(s) /\ Begun(s)' =>
          /\ \A t \in Steps : row[t] # "none"
          /\ Actionable # {}
          /\ chain.auto => Actionable \cap chain.red = {}]_vars

\* Members are worked on one at a time and in order, and by one worker: whatever
\* is in flight, now or when a crash is looked into, every earlier member is
\* settled, and of the scan and an orphaned cancel's recovery only one undoes
\* (the loop of executeUpdateChain, the gate in recoverInterruptedChainRun).
StepsInOrder == \A s, t \in Steps : InFlight(s) /\ t < s => row[t] \in chainRunStepTerminal
OneRecoverer == \A r, q \in Recoverers : turn[r] = "working" /\ turn[q] = "working" => r = q
OneAtATime == TypeOK /\ StepsInOrder /\ OneRecoverer

Completed == {s \in Steps : row[s] \in {"success", "recreated"}}

\* A failed run whose completed members must return, because it is so configured
\* or because a later member failed on their data, reports "failed" only with
\* all of them back, and a recovered run likewise after a step was rolled back
\* (rollbackCompletedChainMembers; otherwise recovery is required).
RollbackIsComplete ==
    \/ run.status = "failed" /\ (chain.undo \/ \E s \in reused \cap hit : row[s] = "failed")
    \/ run.status = "recovered" /\ chain.undo /\ \E s \in Steps : row[s] = "rolled_back"
    => \A s \in Completed : image[s] = "base"

\* A successful run left no member out, has every update it reports, and no
\* failure unless the chain tolerates failures (executeUpdateChain's end).
SuccessIsWhole ==
    run.status = "success" =>
        /\ \A s \in Steps : row[s] \in chainRunStepTerminal
        /\ \A s \in Steps : row[s] = "success" => image[s] = "new"
        /\ chain.stop => \A s \in Steps : row[s] \notin {"failed", "blocked_preflight"}

\* "atomic_step_settled": a run is cancelled only with no row left open and no
\* child it knows of under way, by the executor or by an orphaned cancel's
\* recovery beside the scan (finishChainSafeCancel).  A child whose id was not
\* yet on its row when the process ended is unknown to the run.
CancelSettlesSteps ==
    run.status = "cancelled" => \A s \in Steps :
        /\ row[s] \in chainRunStepTerminal \cup {"none"}
        /\ s \in link => child[s].job \notin ActiveJob

\* What a settled run says of its members is so, whichever way it ended.
SettledRunsAreTrue == RollbackIsComplete /\ SuccessIsWhole /\ CancelSettlesSteps

\* "Software and data must return to that baseline" (recoverInterruptedChainRun):
\* when a member that worked on an earlier member's data baseline was rolled
\* back, and its row says so, no settled run leaves the completed members of the
\* scope updated.
BaselineIsRestored ==
    run.status \notin ActiveRun /\ (\E s \in reused \cap hit :
          child[s].tx = "rolled_back" /\ row[s] \in {"failed", "rolled_back"})
    => \A t \in Completed \cap chain.scope : image[t] = "base"

\* A run that is under way ends, or is left to the operator, and gives its
\* members free, across a crash; only the hanging recreate stands in its way.
RunsSettle ==
    run.status \in {"running", "recovering"} \/ reserved
    ~> (run.status \notin {"running", "recovering"} /\ ~reserved) \/ pc = "stuck"
=============================================================================
