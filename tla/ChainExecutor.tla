---------------------------- MODULE ChainExecutor ----------------------------
(* One run of an update chain: the executor that checks all members, plans,  *)
(* and then updates, restarts or recreates them in order                     *)
(* (src/internal/app/chains.go), and the child updates it waits for, reduced *)
(* to what UpdateSystem shows of them.  Executor and recovery of one run     *)
(* never overlap (recovery starts after a restart, or once the executor has  *)
(* returned), and recoverers exclude each other by the host's gate, so they  *)
(* share a program counter and memory.                                       *)
EXTENDS Naturals, Sequences, SequencesExt, FiniteSets

CONSTANTS N,           \* members of the chain, in the order of their positions
          Definitions, \* the chain definitions a run may start from
          MaxCrashes

Steps == 1..N
Actions == {"skip", "restart", "recreate"}

\* Trigger, StopOnFailure, RollbackCompleted, the members whose persistent data
\* is one protection scope, the members whose preflight is red in the plan, and
\* CurrentAction of each member.
Definition == [auto : BOOLEAN, stop : BOOLEAN, undo : BOOLEAN,
               scope : SUBSET Steps, red : SUBSET Steps, current : [Steps -> Actions]]

ASSUME ChainAssumption ==
    N \in Nat \ {0} /\ Definitions \subseteq Definition /\ MaxCrashes \in Nat

VARIABLES
    chain,     \* the definition this run works from
    run,       \* status of the run, and whether an orphaned cancel marked it
    job,       \* status of the chain's job
    row,       \* status of each step's row, "none" before it is written
    link,      \* steps whose row holds the id of a child job
    child,     \* job and transaction status of each child update
    hit,       \* steps whose transaction says the container may have changed
    reused,    \* steps started on an earlier member's data baseline
    point,     \* restore point of each step: none, plain, or with the data
    image,     \* what each member runs: base, new, rebuilt, or down (gone or unproved)
    reserved,  \* the members are reserved in memory
    pc, at, found, completed, captured,
    err,       \* chainErr: none, tolerable, critical or blocked
    notes,     \* what executor or recovery must remember for the end
    cancelling,\* a cancel is on the job row and not yet signalled
    crashes,
    turn,      \* how far each recoverer is: off, due, listed, waiting, working
    seen       \* the rows and the mark a recoverer read before it had the gate

rows == <<run, job, row, link>>
members == <<child, hit, reused, point, image>>
memory == <<at, found, completed, captured, err, notes>>
outside == <<cancelling, crashes, turn, seen>>
vars == <<chain, rows, members, memory, reserved, pc, outside>>

ActiveRun == {"running", "recovering", "recovery_required"}
ActiveJob == {"queued", "running", "cancel_requested"}
FinalJob == {"success", "failed", "cancelled", "skipped"}
chainRunStepTerminal ==
    {"success", "failed", "rolled_back", "restarted", "recreated", "skipped_current",
     "skipped_snoozed", "skipped_preflight", "blocked_preflight", "interrupted", "cancelled"}
ActiveTx == {"running", "updating"}

\* The scan after a start, and the recovery an orphaned cancel begins.
Recoverers == {"scan", "orphan"}
Recovering == \E r \in Recoverers : turn[r] = "working"
Nothing == [row |-> [s \in Steps |-> "none"], cancel |-> FALSE]

Init ==
    /\ chain \in Definitions
    /\ run = [status |-> "none", orphaned |-> FALSE]
    /\ job = "none"
    /\ row = [s \in Steps |-> "none"] /\ link = {}
    /\ child = [s \in Steps |-> [job |-> "none", tx |-> "none"]]
    /\ hit = {} /\ reused = {}
    /\ point = [s \in Steps |-> "none"]
    /\ image = [s \in Steps |-> "base"]
    /\ reserved = FALSE
    /\ pc = "idle" /\ at = 1
    /\ found = [s \in Steps |-> "none"]
    /\ completed = <<>> /\ captured = FALSE
    /\ err = "none" /\ notes = {}
    /\ cancelling = FALSE /\ crashes = 0
    /\ turn = [r \in Recoverers |-> "off"]
    /\ seen = [r \in Recoverers |-> Nothing]

-----------------------------------------------------------------------------
\* The locals of a goroutine end with it.
Forget ==
    /\ at' = 1 /\ found' = [s \in Steps |-> "none"]
    /\ completed' = <<>> /\ captured' = FALSE /\ err' = "none" /\ notes' = {}
SetRow(s, status) == row' = [row EXCEPT ![s] = status]
SetImage(s, what) == image' = [image EXCEPT ![s] = what]
SetRun(status) == run' = [run EXCEPT !.status = status]
jobCancelRequested == job = "cancel_requested"
ToNext == at' = at + 1
AtStep == at \in Steps

\* startUpdateChain: the members are reserved before the rows exist.
StartChain ==
    /\ pc = "idle"
    /\ reserved' = TRUE
    /\ job' = "queued" /\ SetRun("running")
    /\ pc' = "queued"
    /\ UNCHANGED <<chain, row, link, members, memory, outside>>

ClaimChain ==
    /\ pc = "queued" /\ job = "queued"
    /\ job' = "running" /\ pc' = "checking"
    /\ UNCHANGED <<chain, run, row, link, members, memory, reserved, outside>>

CancelledInQueue_KeepsMembers ==
    /\ pc = "queued" /\ job = "cancelled"
    /\ SetRun("cancelled") /\ pc' = "done"
    /\ UNCHANGED <<chain, job, row, link, members, memory, reserved, outside>>
CancelledInQueue ==
    /\ pc = "queued" /\ job = "cancelled"
    /\ SetRun("cancelled")
    /\ reserved' = FALSE /\ pc' = "done"
    /\ UNCHANGED <<chain, job, row, link, members, memory, outside>>

\* finishChainSafeCancel: open rows, run and job.
finishChainSafeCancel ==
    /\ row' = [s \in Steps |-> IF row[s] \in chainRunStepTerminal \cup {"none"} THEN row[s]
                               ELSE "cancelled"]
    /\ SetRun("cancelled") /\ job' = "cancelled"
    /\ reserved' = FALSE
    /\ UNCHANGED link

\* Between two members, before the first, and after one that succeeded.
SafePoint ==
    \/ pc \in {"checking", "planning", "stepping"} /\ AtStep
    \/ pc = "checking" /\ at > N /\ err = "none"
    \/ pc = "planning" /\ at > N
    \/ pc = "judging" /\ err = "none"
CancelSafely ==
    /\ jobCancelRequested /\ SafePoint
    /\ finishChainSafeCancel
    /\ pc' = "done" /\ Forget
    /\ UNCHANGED <<chain, members, outside>>

-----------------------------------------------------------------------------
\* Phase 1: every member is checked before any is touched.
CheckFinds(s, what) ==
    /\ pc = "checking" /\ s = at /\ AtStep /\ ~jobCancelRequested
    /\ SetRow(s, "checking")
    /\ found' = [found EXCEPT ![s] = what]
    /\ ToNext
    /\ UNCHANGED <<chain, run, job, link, members, completed, captured, err, notes, reserved, pc,
                   outside>>

CheckFails(s) ==
    /\ pc = "checking" /\ s = at /\ AtStep /\ ~jobCancelRequested
    /\ SetRow(s, "failed")
    /\ err' = "critical" /\ pc' = "ending"
    /\ UNCHANGED <<chain, run, job, link, members, at, found, completed, captured, notes, reserved,
                   outside>>

Actionable == {s \in Steps : found[s] = "update"}

AllChecked_SkipsPlan ==
    /\ pc = "checking" /\ at > N /\ ~jobCancelRequested
    /\ Actionable # {}
    /\ at' = 1 /\ pc' = "stepping"
    /\ UNCHANGED <<chain, rows, members, found, completed, captured, err, notes, reserved,
                   outside>>
AllChecked ==
    /\ pc = "checking" /\ at > N /\ ~jobCancelRequested
    /\ Actionable # {}
    /\ at' = 1
    /\ pc' = IF chain.auto THEN "planning" ELSE "stepping"
    /\ UNCHANGED <<chain, rows, members, found, completed, captured, err, notes, reserved,
                   outside>>

NothingToDo ==
    /\ pc = "checking" /\ at > N /\ ~jobCancelRequested
    /\ Actionable = {}
    /\ row' = [s \in Steps |->
                 IF found[s] = "snoozed" THEN "skipped_snoozed" ELSE "skipped_current"]
    /\ SetRun("no_changes") /\ pc' = "closing"
    /\ UNCHANGED <<chain, job, link, members, memory, reserved, outside>>

\* An automatic run plans every actionable member before the first mutation.
PlanAllows(s) ==
    /\ pc = "planning" /\ s = at /\ s \notin Actionable \cap chain.red /\ ~jobCancelRequested
    /\ ToNext
    /\ UNCHANGED <<chain, rows, members, found, completed, captured, err, notes, reserved, pc,
                   outside>>

PlanBlocks(s) ==
    /\ pc = "planning" /\ s = at /\ s \in Actionable \cap chain.red /\ ~jobCancelRequested
    /\ row' = [t \in Steps |-> IF t = s THEN "blocked_preflight" ELSE "skipped_preflight"]
    /\ SetRun("blocked") /\ pc' = "closing"
    /\ UNCHANGED <<chain, job, link, members, memory, reserved, outside>>

Planned ==
    /\ pc = "planning" /\ at > N /\ ~jobCancelRequested
    /\ at' = 1 /\ pc' = "stepping"
    /\ UNCHANGED <<chain, rows, members, found, completed, captured, err, notes, reserved,
                   outside>>

-----------------------------------------------------------------------------
\* Phase 2, one member after the other.
Starting(s) == pc = "stepping" /\ s = at /\ AtStep /\ ~jobCancelRequested
StepFails(s, kind) ==
    /\ SetRow(s, "failed")
    /\ err' = kind /\ pc' = "judging"
StepDone(s, status) ==
    /\ SetRow(s, status)
    /\ completed' = Append(completed, s)
    /\ pc' = "judging"
\* The class of an error is read off its text (criticalChainFailure).
Kinds == {"tolerable", "critical"}

SkipSnoozed(s) ==
    /\ Starting(s) /\ found[s] = "snoozed"
    /\ SetRow(s, "skipped_snoozed") /\ ToNext
    /\ UNCHANGED <<chain, run, job, link, members, found, completed, captured, err, notes, reserved,
                   pc, outside>>

SkipCurrent(s) ==
    /\ Starting(s) /\ found[s] = "current" /\ chain.current[s] = "skip"
    /\ SetRow(s, "skipped_current") /\ pc' = "judging"
    /\ UNCHANGED <<chain, run, job, link, members, memory, reserved, outside>>

BeginLifecycle(s) ==
    /\ Starting(s) /\ found[s] = "current" /\ chain.current[s] # "skip"
    /\ pc' = IF chain.current[s] = "restart" THEN "restarting" ELSE "recreating"
    /\ SetRow(s, pc')
    /\ reused' = IF pc' = "recreating" /\ captured /\ s \in chain.scope
                 THEN reused \cup {s} ELSE reused
    /\ UNCHANGED <<chain, run, job, link, child, hit, point, image, memory, reserved, outside>>

\* The gate, the lease, the inspection or the restore point fails.
LifecycleRefused(s, kind) ==
    /\ pc \in {"restarting", "recreating"} /\ s = at
    /\ StepFails(s, kind)
    /\ UNCHANGED <<chain, run, job, link, members, at, found, completed, captured, notes, reserved,
                   outside>>

\* restartCurrentChainMember leaves a stopped container alone.
RestartPreservesStopped(s) ==
    /\ pc = "restarting" /\ s = at
    /\ SetRow(s, "skipped_current") /\ pc' = "judging"
    /\ UNCHANGED <<chain, run, job, link, members, memory, reserved, outside>>

RestartStops(s) ==
    /\ pc = "restarting" /\ s = at
    /\ SetImage(s, "down") /\ pc' = "restarted"
    /\ UNCHANGED <<chain, rows, child, hit, reused, point, memory, reserved, outside>>

RestartSucceeds(s) ==
    /\ pc = "restarted" /\ s = at
    /\ SetImage(s, "base") /\ StepDone(s, "restarted")
    /\ UNCHANGED <<chain, run, job, link, child, hit, reused, point, at, found, captured, err,
                   notes, reserved, outside>>

\* The restart command or the verification fails; nothing is rolled back.
RestartFails(s, what, kind) ==
    /\ pc = "restarted" /\ s = at
    /\ SetImage(s, what) /\ StepFails(s, kind)
    /\ UNCHANGED <<chain, run, job, link, child, hit, reused, point, at, found, completed, captured,
                   notes, reserved, outside>>

\* recreateCurrentChainMember: the restore point, then the container goes.
PointFor(s) == IF s \in chain.scope \ reused THEN "data" ELSE "plain"
RecreateRemoves(s) ==
    /\ pc = "recreating" /\ s = at
    /\ point' = [point EXCEPT ![s] = PointFor(s)]
    /\ SetImage(s, "down") /\ pc' = "recreated"
    /\ UNCHANGED <<chain, rows, child, hit, reused, memory, reserved, outside>>

RecreateSucceeds(s) ==
    /\ pc = "recreated" /\ s = at
    /\ SetImage(s, "rebuilt") /\ StepDone(s, "recreated")
    /\ captured' = (captured \/ point[s] = "data")
    /\ UNCHANGED <<chain, run, job, link, child, hit, reused, point, at, found, err, notes,
                   reserved, outside>>

\* The rollback of a failed recreate waits for the host gate of its caller
\* (MutationGate: FreshContextWaitsForever) and never returns.
RecreateHangs(s) ==
    /\ pc = "recreated" /\ s = at
    /\ pc' = "stuck"
    /\ UNCHANGED <<chain, rows, members, memory, reserved, outside>>

\* enqueueUpdate refuses: snoozed meanwhile, another job, the queue is full.
CannotQueue(s, kind) ==
    /\ Starting(s) /\ found[s] = "update"
    /\ StepFails(s, kind)
    /\ UNCHANGED <<chain, run, job, link, members, at, found, completed, captured, notes, reserved,
                   outside>>

EnqueueStep(s) ==
    /\ Starting(s) /\ found[s] = "update"
    /\ reused' = IF captured /\ s \in chain.scope THEN reused \cup {s} ELSE reused
    /\ child' = [child EXCEPT ![s].job = "queued"]
    /\ pc' = "linking"
    /\ UNCHANGED <<chain, rows, hit, point, image, memory, reserved, outside>>

LinkStep_DoesNotWait(s) ==
    /\ pc = "linking" /\ s = at
    /\ SetRow(s, "updating") /\ link' = link \cup {s}
    /\ pc' = "judging"
    /\ UNCHANGED <<chain, run, job, members, memory, reserved, outside>>
LinkStep(s) ==
    /\ pc = "linking" /\ s = at
    /\ SetRow(s, "updating") /\ link' = link \cup {s}
    /\ pc' = "waiting"
    /\ UNCHANGED <<chain, run, job, members, memory, reserved, outside>>

\* What the child's end means for the chain.
ChildReturned(s) == pc = "waiting" /\ s = at /\ child[s].job \in FinalJob
ObserveCapture(s) == captured' = (captured \/ (child[s].tx # "none" /\ point[s] = "data"))

StepSucceeds(s) ==
    /\ ChildReturned(s) /\ child[s].job = "success"
    /\ StepDone(s, "success") /\ ObserveCapture(s)
    /\ UNCHANGED <<chain, run, job, link, members, at, found, err, notes, reserved, outside>>

StepHeld(s) ==
    /\ ChildReturned(s) /\ child[s].job = "skipped"
    /\ SetRow(s, "blocked_preflight")
    /\ err' = "blocked" /\ pc' = "judging"
    /\ ObserveCapture(s)
    /\ UNCHANGED <<chain, run, job, link, members, at, found, completed, notes, reserved, outside>>

\* A failed step that worked on shared data forces everything back.  The error
\* of a child that was rolled back, or could not be, names the rollback.
StepFailed(s, kind) ==
    /\ ChildReturned(s) /\ child[s].job \in {"failed", "cancelled"}
    /\ child[s].tx \in {"rolled_back", "recovery_required"} => kind = "critical"
    /\ StepFails(s, kind) /\ ObserveCapture(s)
    /\ notes' = IF s \in reused \cap hit THEN notes \cup {"force"} ELSE notes
    /\ UNCHANGED <<chain, run, job, link, members, at, found, completed, reserved, outside>>

NextStep ==
    /\ pc = "judging"
    /\ err = "none" => ~jobCancelRequested
    /\ err \in {"none", "tolerable"} /\ (err = "tolerable" => ~chain.stop)
    /\ err' = "none" /\ ToNext /\ pc' = "stepping"
    /\ UNCHANGED <<chain, rows, members, found, completed, captured, notes, reserved, outside>>

StopChain ==
    /\ \/ pc = "judging" /\ (err \in {"critical", "blocked"} \/ (err = "tolerable" /\ chain.stop))
       \/ pc = "stepping" /\ at > N
    /\ pc' = "ending"
    /\ UNCHANGED <<chain, rows, members, memory, reserved, outside>>

-----------------------------------------------------------------------------
\* The end of a run.  Completed members are undone in reverse order.
MustUndo_ConfiguredOnly ==
    err \in Kinds /\ chain.undo /\ completed # <<>>
MustUndo ==
    err \in Kinds /\ (chain.undo \/ "force" \in notes) /\ completed # <<>>

BeginUndo ==
    /\ pc = "ending" /\ MustUndo
    /\ pc' = "undoing"
    /\ UNCHANGED <<chain, rows, members, memory, reserved, outside>>

SkipRestarted(s) ==
    /\ pc = "undoing" /\ completed # <<>> /\ s = Last(completed)
    /\ row[s] = "restarted"
    /\ completed' = Front(completed)
    /\ UNCHANGED <<chain, rows, members, at, found, captured, err, notes, reserved, pc, outside>>

UndoRemoves(s) ==
    /\ pc = "undoing" /\ completed # <<>> /\ s = Last(completed)
    /\ row[s] # "restarted"
    /\ SetImage(s, "down") /\ pc' = "restoring"
    /\ UNCHANGED <<chain, rows, child, hit, reused, point, memory, reserved, outside>>

UndoSucceeds(s) ==
    /\ pc = "restoring" /\ s = Last(completed)
    /\ SetImage(s, "base") /\ completed' = Front(completed)
    /\ pc' = "undoing"
    /\ UNCHANGED <<chain, rows, child, hit, reused, point, at, found, captured, err, notes,
                   reserved, outside>>

\* The restore point is gone, or its restore fails on the way.
UndoFails(s) ==
    /\ pc \in {"undoing", "restoring"} /\ completed # <<>> /\ s = Last(completed)
    /\ row[s] # "restarted"
    /\ completed' = Front(completed) /\ pc' = "undoing"
    /\ notes' = notes \cup {"incomplete"}
    /\ UNCHANGED <<chain, rows, members, at, found, captured, err, reserved, outside>>

EndStatus ==
    IF err = "none" THEN "success"
    ELSE IF err = "blocked" THEN "blocked"
    ELSE IF "incomplete" \in notes THEN "recovery_required" ELSE "failed"

EndRun ==
    /\ \/ pc = "ending" /\ ~MustUndo
       \/ pc = "undoing" /\ completed = <<>> /\ ~Recovering
    /\ SetRun(EndStatus) /\ pc' = "closing"
    /\ UNCHANGED <<chain, job, row, link, members, memory, reserved, outside>>

JobStatusOf(status) ==
    CASE status \in {"success", "no_changes"} -> "success"
      [] status = "blocked" -> "skipped"
      [] OTHER -> "failed"

CloseJob ==
    /\ pc = "closing"
    /\ job' = JobStatusOf(run.status)
    /\ reserved' = FALSE /\ pc' = "done" /\ Forget
    /\ UNCHANGED <<chain, run, row, link, members, outside>>

-----------------------------------------------------------------------------
\* The child updates, run by the dispatcher.
SetChild(s, j, t) == child' = [child EXCEPT ![s] = [job |-> j, tx |-> t]]
\* After a restart only the scan looks after the children it finds.
ProcessRuns == pc # "dead" /\ turn["scan"] # "due"

ChildBegins(s) ==
    /\ ProcessRuns /\ child[s].job = "queued"
    /\ SetChild(s, "running", "running")
    /\ UNCHANGED <<chain, rows, hit, reused, point, image, memory, reserved, pc, outside>>

ChildCancelled(s) ==
    /\ ProcessRuns /\ child[s].job = "queued"
    /\ SetChild(s, "cancelled", "none")
    /\ UNCHANGED <<chain, rows, hit, reused, point, image, memory, reserved, pc, outside>>

\* Only an automatic trigger turns a blocked preflight into a skipped job.
ChildEndsEarly(s, j) ==
    /\ ProcessRuns /\ child[s].tx = "running" /\ child[s].job = "running"
    /\ j = "skipped" => chain.auto
    /\ SetChild(s, j, j)
    /\ UNCHANGED <<chain, rows, hit, reused, point, image, memory, reserved, pc, outside>>

ChildMutates(s) ==
    /\ ProcessRuns /\ child[s].tx = "running" /\ child[s].job = "running"
    /\ SetChild(s, "running", "updating")
    /\ hit' = hit \cup {s}
    /\ point' = [point EXCEPT ![s] = PointFor(s)]
    /\ SetImage(s, "down")
    /\ UNCHANGED <<chain, rows, reused, memory, reserved, pc, outside>>

\* Success, rolled back, rollback failed, and failed without a rollback.
ChildOutcomes ==
    {<<"success", "success", "new">>, <<"failed", "rolled_back", "base">>,
     <<"failed", "recovery_required", "down">>, <<"failed", "failed", "down">>}

ChildEnds(s, o) ==
    /\ ProcessRuns /\ child[s].tx = "updating"
    /\ SetChild(s, o[1], o[2]) /\ SetImage(s, o[3])
    /\ UNCHANGED <<chain, rows, hit, reused, point, memory, reserved, pc, outside>>

\* The worker skipped the target: not destructive after all.
ChildNotApplied(s) ==
    /\ ProcessRuns /\ child[s].tx = "updating"
    /\ SetChild(s, "failed", "failed") /\ SetImage(s, "base")
    /\ hit' = hit \ {s}
    /\ UNCHANGED <<chain, rows, reused, point, memory, reserved, pc, outside>>
=============================================================================
