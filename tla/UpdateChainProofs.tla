-------------------------- MODULE UpdateChainProofs --------------------------
(* One run of an update chain, for any number of members, any chain          *)
(* definitions and any number of crashes.  ChainInv says what the executor   *)
(* of a run, its recovery and what a recoverer once read of the rows know    *)
(* about the members; it is inductive (InitChain, NextChain), and that       *)
(* members are worked on one at a time and only by an approved plan follows. *)
(* TruthInv adds what the rows say of child updates and what the books of    *)
(* executor and recovery say of the rows; what a settled run reports of its  *)
(* members follows.                                                          *)
EXTENDS UpdateChain, TLAPS

Settled == chainRunStepTerminal \cup {"none"}
RowStates == Settled \cup {"checking", "restarting", "recreating", "updating"}
SeenTyped == seen \in [Recoverers -> [row : [Steps -> RowStates], cancel : BOOLEAN]]

Phase1 == {"checking", "planning"}
Phase2 == {"stepping", "restarting", "restarted", "recreating", "recreated", "stuck", "linking",
           "waiting", "judging"}
Undoing == {"undoing", "restoring"}

\* What executor and recovery remember, and where they are in it.
Fresh ==
    /\ at = 1 /\ found = [s \in Steps |-> "none"] /\ completed = <<>>
    /\ captured = FALSE /\ err = "none" /\ notes = {}
Memory ==
    /\ pc \in {"idle", "queued", "done", "dead"} => Fresh
    /\ pc \in Phase1 => completed = <<>> /\ notes = {} /\ err = "none"
    /\ pc \in Phase2 \ {"stepping"} => at \in Steps
    /\ pc \in (Phase2 \ {"judging"}) \cup {"sorting"} => Len(completed) < at
    /\ pc = "judging" => Len(completed) <= at
    /\ pc \in Phase2 \ {"judging"} => err = "none"
    /\ pc = "restoring" => completed # <<>>

\* A recoverer is due, waits or works only once the executor is gone for good,
\* and a cancel is left to the recovery of a run at most once.
CancelSpent == job \notin {"none", "queued", "running"}
Turns ==
    /\ OneRecoverer
    /\ pc = "sorting" => Recovering
    /\ \A r \in Recoverers :
          /\ turn[r] # "off" => pc = "done" \/ (Recovering /\ pc \in {"sorting"} \cup Undoing)
          /\ turn[r] = "working" => pc \in {"sorting"} \cup Undoing
    /\ cancelling => CancelSpent
    /\ turn["orphan"] # "off" => ~cancelling /\ CancelSpent
    /\ pc = "idle" => job = "none"

\* What the executor has not come to yet is as it was.
Ahead(s) ==
    /\ child[s].job = "none" /\ child[s].tx = "none" /\ image[s] = "base" /\ point[s] = "none"
    /\ s \notin link /\ s \notin hit /\ s \notin reused
Before ==
    /\ pc \in {"idle", "queued"} => \A s \in Steps : Ahead(s) /\ row[s] = "none"
    /\ pc = "checking" =>
         \A s \in Steps : Ahead(s) /\ row[s] = IF s < at THEN "checking" ELSE "none"
    /\ pc = "planning" => \A s \in Steps : Ahead(s) /\ row[s] = "checking"
    /\ pc \in Phase2 => \A s \in Steps :
          /\ s > at \/ (pc = "stepping" /\ s = at) => Ahead(s) /\ row[s] = "checking"
          /\ s < at \/ (pc = "judging" /\ s = at) => row[s] \in chainRunStepTerminal
AtHand ==
    /\ pc \in {"restarting", "restarted"} => row[at] = "restarting"
    /\ pc \in {"recreating", "recreated", "stuck"} => row[at] = "recreating"
    /\ pc = "recreated" => point[at] # "none"
    /\ pc = "linking" => row[at] = "checking" /\ at \notin link /\ child[at].job # "none"
    /\ pc = "waiting" => row[at] = "updating" /\ at \in link

\* The plan the executor works from.
Plan ==
    /\ pc \in Phase2 \cup {"planning"} => Actionable # {}
    /\ pc = "planning" => \A t \in Steps : t < at => t \notin Actionable \cap chain.red
    /\ pc \in Phase2 => (chain.auto => Actionable \cap chain.red = {})

\* Rows that say that work has begun say so for a reason that stays.
Linked == {"updating", "success", "failed", "rolled_back", "blocked_preflight"}
Worked(s) ==
    \/ child[s].job # "none" \/ point[s] # "none"
    \/ row[s] \in {"restarting", "restarted", "recreating", "recreated"}
Begins ==
    /\ \A s \in Steps : row[s] \in {"success", "updating"} => s \in link
    /\ \A s \in link : child[s].job # "none" /\ row[s] \in Linked
    /\ \A s \in Steps : row[s] = "recreated" => point[s] # "none"
    /\ \A s \in Steps : row[s] = "rolled_back" => s \in link \/ point[s] # "none"
    /\ \A s \in Steps : child[s].tx # "none" => child[s].job # "none"
    /\ \A s \in ToSet(completed) :
          /\ Worked(s)
          /\ pc \in Phase2 \cup {"sorting"} => s < at \/ (pc = "judging" /\ s = at)

\* What a recoverer read is of the same kind as what the row says now, although
\* the other recoverer may have worked on it in between.
SameKind(a, b) ==
    /\ a \in {"checking", "interrupted"} <=> b \in {"checking", "interrupted"}
    /\ a \in {"restarting", "restarted"} <=> b \in {"restarting", "restarted"}
    /\ a \in {"recreating", "recreated", "rolled_back"}
          <=> b \in {"recreating", "recreated", "rolled_back"}
Views ==
    \A r \in Recoverers : turn[r] \in {"waiting", "working"} => \A s \in Steps :
        /\ seen[r].row[s] \in Settled => row[s] \in Settled
        /\ s \notin link => SameKind(seen[r].row[s], row[s])
        /\ seen[r].row[s] \in {"success", "updating"} => s \in link
        /\ seen[r].row[s] = "none" => s \notin link

\* Recovery leaves no row open behind it, unless the operator must look at it.
Resolved ==
    /\ pc = "sorting" /\ "operator" \notin notes =>
          \A t \in Steps : t < at => row[t] \in Settled
    /\ pc \in Undoing /\ Recovering => \A t \in Steps : row[t] \in Settled

ChainInv ==
    /\ TypeOK /\ SeenTyped /\ Memory /\ Turns
    /\ Before /\ AtHand /\ Plan /\ Begins /\ Views /\ Resolved

-----------------------------------------------------------------------------
\* Sequences with one element more, and without the last.
LEMMA AppendFacts ==
    ASSUME NEW S, NEW q \in Seq(S), NEW x \in S
    PROVE  /\ Append(q, x) \in Seq(S) /\ Len(Append(q, x)) = Len(q) + 1
           /\ ToSet(Append(q, x)) = ToSet(q) \cup {x}
<1>1. /\ Append(q, x) \in Seq(S) /\ Len(Append(q, x)) = Len(q) + 1
      /\ \A i \in 1 .. Len(q) : Append(q, x)[i] = q[i]
      /\ Append(q, x)[Len(q) + 1] = x
    OBVIOUS
<1>2. \A y : y \in ToSet(Append(q, x)) <=> \E i \in 1 .. Len(q) + 1 : y = Append(q, x)[i]
    BY <1>1 DEF ToSet
<1>3. \A y : y \in ToSet(q) <=> \E i \in 1 .. Len(q) : y = q[i]
    BY DEF ToSet
<1>4. Len(q) \in Nat
    OBVIOUS
<1>5. \A y : y \in ToSet(Append(q, x)) <=> y \in ToSet(q) \/ y = x
    BY <1>1, <1>2, <1>3, <1>4
<1>6. QED
    BY <1>1, <1>5

\* A sequence without its last element: what rollbackCompleted works from.
LEMMA FrontFacts ==
    ASSUME NEW S, NEW q \in Seq(S), q # <<>>
    PROVE  /\ Front(q) \in Seq(S) /\ Len(Front(q)) = Len(q) - 1
           /\ Len(q) > 0 /\ Last(q) \in S
           /\ ToSet(q) = ToSet(Front(q)) \cup {Last(q)}
<1>1. Len(q) \in Nat /\ Len(q) > 0
    OBVIOUS
<1>2. ASSUME NEW n \in Nat, n + 1 = Len(q)
      PROVE  /\ SubSeq(q, 1, n) \in Seq(S) /\ Len(SubSeq(q, 1, n)) = n
             /\ \A i \in 1 .. n : SubSeq(q, 1, n)[i] = q[i]
    BY <1>2
<1>3. /\ Front(q) \in Seq(S) /\ Len(Front(q)) = Len(q) - 1
       /\ \A i \in 1 .. Len(q) - 1 : Front(q)[i] = q[i]
  <2> DEFINE n == Len(q) - 1
  <2>1. n \in Nat /\ n + 1 = Len(q)
    BY <1>1
  <2>2. /\ SubSeq(q, 1, n) \in Seq(S) /\ Len(SubSeq(q, 1, n)) = n
        /\ \A i \in 1 .. n : SubSeq(q, 1, n)[i] = q[i]
    BY <1>2, <2>1
  <2>3. Front(q) = SubSeq(q, 1, n)
    BY DEF Front
  <2>4. QED
    BY <2>2, <2>3
<1>4. Last(q) = q[Len(q)] /\ Last(q) \in S
    BY <1>1 DEF Last
<1>5. \A y : y \in ToSet(q) <=> \E i \in 1 .. Len(q) : y = q[i]
    BY DEF ToSet
<1>6. \A y : y \in ToSet(Front(q)) <=> \E i \in 1 .. Len(q) - 1 : y = Front(q)[i]
    BY <1>1, <1>3 DEF ToSet
<1>7. \A y : y \in ToSet(q) <=> y \in ToSet(Front(q)) \/ y = Last(q)
    BY <1>1, <1>3, <1>4, <1>5, <1>6
<1>8. QED
    BY <1>1, <1>3, <1>4, <1>7

\* The empty sequence.
LEMMA EmptyFacts ==
    ASSUME NEW S, NEW q \in Seq(S), q = <<>>
    PROVE  ToSet(q) = {} /\ Len(q) = 0
<1>1. Len(q) = 0
    OBVIOUS
<1>2. QED
    BY <1>1 DEF ToSet

\* Before its run a chain has touched nothing.
LEMMA InitChain == Init => ChainInv
<1> SUFFICES ASSUME Init PROVE ChainInv
    OBVIOUS
<1>1. N \in Nat \ {0} /\ Definitions \subseteq Definition /\ MaxCrashes \in Nat
    BY ChainAssumption
<1>2. TypeOK
  <2>1. /\ chain \in Definitions /\ reserved \in BOOLEAN /\ cancelling \in BOOLEAN
        /\ captured \in BOOLEAN /\ job = "none" /\ pc = "idle" /\ err = "none" /\ notes = {}
        /\ link = {} /\ hit = {} /\ reused = {} /\ crashes = 0 /\ at = 1
    BY <1>1 DEF Init
  <2>2. run \in [status : ActiveRun \cup {"none", "success", "no_changes", "blocked", "failed",
                                         "cancelled", "recovered", "interrupted"},
                 orphaned : BOOLEAN]
    BY DEF Init
  <2>3. row \in [Steps -> {"none"}] /\ point \in [Steps -> {"none"}] /\ found \in [Steps -> {"none"}]
    BY DEF Init
  <2>4. child \in [Steps -> [job : {"none"}, tx : {"none"}]] /\ image \in [Steps -> {"base"}]
    BY DEF Init
  <2>5. completed \in Seq(Steps) /\ Len(completed) <= N
    BY <1>1 DEF Init
  <2>6. turn \in [Recoverers -> {"off"}] /\ DOMAIN seen = Recoverers
    BY DEF Init
  <2>7. crashes \in 0..MaxCrashes /\ at \in 1..(N + 1)
    BY <1>1, <2>1
  <2>8. QED
    BY <2>1, <2>2, <2>3, <2>4, <2>5, <2>6, <2>7 DEF TypeOK
<1>3. SeenTyped /\ Memory
    BY <1>1 DEF Init, SeenTyped, Memory, Fresh, Nothing, RowStates, Settled, Phase1, Phase2
<1>4. Turns
    BY DEF Init, Turns, OneRecoverer, Recoverers, Undoing
<1>5. Before /\ AtHand /\ Plan /\ Views /\ Resolved
    BY DEF Init, Before, AtHand, Plan, Views, Resolved, Ahead, Phase2, Recoverers, Undoing
<1>6. Begins
  <2>1. completed \in Seq(Steps) /\ completed = <<>>
    BY DEF Init
  <2>2. ToSet(completed) = {}
    BY <2>1, EmptyFacts
  <2>3. QED
    BY <2>2 DEF Init, Begins
<1>7. QED
    BY <1>2, <1>3, <1>4, <1>5, <1>6 DEF ChainInv
-----------------------------------------------------------------------------
\* What each part of the process leaves alone.
LEMMA ExecutorFrame ==
    ASSUME NEW s \in Steps, ExecutorStep(s)
    PROVE  /\ s = at /\ pc \in Phase1 \cup Phase2
           /\ pc' \in Phase1 \cup Phase2 \cup {"ending", "closing"}
           /\ UNCHANGED <<chain, job, reserved, outside>>
<1> USE DEF Phase1, Phase2, vars, rows, members, memory, outside, StepFails, StepDone, Starting,
            SetRun, SetRow, ToNext
<1>1. CASE \E what \in {"update", "snoozed", "current"} : CheckFinds(s, what)
    BY <1>1 DEF CheckFinds
<1>2. CASE CheckFails(s) \/ PlanAllows(s) \/ PlanBlocks(s) \/ SkipSnoozed(s) \/ SkipCurrent(s)
              \/ BeginLifecycle(s)
    BY <1>2 DEF CheckFails, PlanAllows, PlanBlocks, SkipSnoozed, SkipCurrent, BeginLifecycle
<1>3. CASE \E kind \in Kinds : LifecycleRefused(s, kind) \/ CannotQueue(s, kind) \/ StepFailed(s, kind)
    BY <1>3 DEF LifecycleRefused, CannotQueue, StepFailed, ChildReturned
<1>4. CASE \E kind \in Kinds, what \in {"base", "down"} : RestartFails(s, what, kind)
    BY <1>4 DEF RestartFails
<1>5. CASE \/ RestartPreservesStopped(s) \/ RestartStops(s) \/ RestartSucceeds(s)
           \/ RecreateRemoves(s) \/ RecreateSucceeds(s) \/ RecreateHangs(s)
    BY <1>5 DEF RestartPreservesStopped, RestartStops, RestartSucceeds, RecreateRemoves,
                RecreateSucceeds, RecreateHangs
<1>6. CASE EnqueueStep(s) \/ LinkStep(s) \/ StepSucceeds(s) \/ StepHeld(s)
    BY <1>6 DEF EnqueueStep, LinkStep, StepSucceeds, StepHeld, ChildReturned
<1>7. QED
    BY <1>1, <1>2, <1>3, <1>4, <1>5, <1>6 DEF ExecutorStep

\* Undoing touches images, and the books of what is left to undo.
LEMMA UndoFrame ==
    ASSUME NEW s, UndoStep(s)
    PROVE  /\ pc \in Undoing /\ pc' \in Undoing /\ s = Last(completed)
           /\ UNCHANGED <<chain, rows, child, hit, reused, point, reserved, outside, at, found,
                          captured, err>>
BY DEF UndoStep, SkipRestarted, UndoRemoves, UndoSucceeds, UndoFails, Undoing, memory, members, SetImage

\* A child update, and a rollback by the user, touch no row of the run.
LEMMA ChildFrame ==
    ASSUME NEW s \in Steps, ChildStep(s) \/ ChildCancelled(s) \/ UserRollsBack(s)
    PROVE  UNCHANGED <<chain, rows, reused, memory, reserved, pc, outside>>
BY DEF ChildStep, ChildBegins, ChildMutates, ChildNotApplied, ChildRecovered, ChildEndsEarly, ChildEnds,
       ChildCancelled, UserRollsBack, RecoverChild, memory, members, rows, outside

\* Recovery sorts the rows one after another.
LEMMA SortFrame ==
    ASSUME NEW s \in Steps, SortStep(s)
    PROVE  /\ pc = "sorting" /\ s = at /\ at' = at + 1 /\ UNCHANGED SortTail
<1> USE DEF Sorting, ToNext, NeedsOperator
<1>1. CASE SortTerminal(s) \/ SortSucceeded(s) \/ SortRolledBack(s) \/ SortUnresolved(s)
    BY <1>1 DEF SortTerminal, SortSucceeded, SortRolledBack, SortUnresolved
<1>2. CASE SortFailed(s) \/ SortUntouched(s) \/ SortVerified(s) \/ SortRestored(s) \/ SortBroken(s)
    BY <1>2 DEF SortFailed, SortUntouched, SortVerified, SortRestored, SortBroken
<1>3. QED
    BY <1>1, <1>2 DEF SortStep

\* The executor's steps that are not about one member.
RunStep ==
    \/ ClaimChain \/ CancelledInQueue \/ CancelSafely
    \/ AllChecked \/ NothingToDo \/ Planned \/ NextStep \/ StopChain
    \/ BeginUndo \/ EndRun \/ CloseJob

\* The executor between members touches no image and no child.
LEMMA RunFrame ==
    ASSUME RunStep
    PROVE  /\ pc \in {"queued", "ending", "undoing", "closing"} \cup Phase1 \cup Phase2
           /\ pc = "undoing" => ~Recovering
           /\ pc' \in {"done", "ending", "undoing", "closing"} \cup Phase1 \cup Phase2
           /\ job' = job \/ job' \notin {"none", "queued"}
           /\ job' = "running" => job \in {"queued", "running"}
           /\ UNCHANGED <<chain, members, outside>>
<1> USE DEF Phase1, Phase2, rows, members, memory, outside
<1>1. CASE ClaimChain \/ CancelledInQueue \/ AllChecked \/ Planned \/ NextStep \/ StopChain \/ BeginUndo
    BY <1>1 DEF ClaimChain, CancelledInQueue, AllChecked, Planned, NextStep, StopChain, BeginUndo
<1>2. CASE CancelSafely
    BY <1>2 DEF CancelSafely, SafePoint, finishChainSafeCancel
<1>3. CASE NothingToDo \/ EndRun \/ CloseJob
    BY <1>3 DEF NothingToDo, EndRun, CloseJob, JobStatusOf
<1>4. QED
    BY <1>1, <1>2, <1>3 DEF RunStep

\* The steps of the two recoverers that are not about one row, and what comes
\* from outside.
RecoveryStep ==
    \/ \E r \in Recoverers : RecovererReads(r) \/ RecovererEnters(r) \/ RecoveryCannotStart(r)
    \/ RecoveryLeavesToOperator \/ RecoveryUndoes \/ RecoveryUndoIncomplete \/ RecoverySettles
    \/ Restart \/ ScanLists
OutsideStep ==
    \/ SignalCancel \/ OrphanCancel \/ StartChain \/ CancelQueuedChain \/ RequestCancel \/ Crash

\* The steps of the next-state relation by who takes them.
LEMMA NextSplits ==
    ASSUME Next
    PROVE  \/ \E s \in Steps : ExecutorStep(s) \/ SortStep(s)
           \/ \E s \in ToSet(completed) : UndoStep(s)
           \/ \E s \in Steps : ChildStep(s) \/ ChildCancelled(s) \/ UserRollsBack(s)
           \/ RunStep \/ RecoveryStep \/ OutsideStep
BY DEF Next, Progress, RunStep, RecoveryStep, OutsideStep

\* Executor and recoverers never overlap in a run.
LEMMA TurnsStay ==
    ASSUME TypeOK, Turns, [Next]_vars
    PROVE  Turns'
<1>1. CASE UNCHANGED <<job, cancelling, turn>> /\ pc' = pc
    BY <1>1 DEF Turns, OneRecoverer, Recovering, CancelSpent
<1>2. ASSUME NEW s \in Steps, ExecutorStep(s) PROVE Turns'
  <2>1. /\ pc \in Phase1 \cup Phase2 /\ pc' \in Phase1 \cup Phase2 \cup {"ending", "closing"}
        /\ UNCHANGED <<job, cancelling, turn>>
    BY <1>2, ExecutorFrame DEF outside
  <2>2. QED
    BY <2>1 DEF Turns, OneRecoverer, Recovering, CancelSpent, Phase1, Phase2, Undoing
<1>3. ASSUME NEW s, UndoStep(s) PROVE Turns'
  <2>1. pc \in Undoing /\ pc' \in Undoing /\ UNCHANGED <<job, cancelling, turn>>
    BY <1>3, UndoFrame DEF outside, rows
  <2>2. QED
    BY <2>1 DEF Turns, OneRecoverer, Recovering, CancelSpent, Undoing
<1>4. CASE RunStep
  <2>0. pc # "done" /\ (Recovering => pc \notin {"sorting"} \cup Undoing)
    BY <1>4, RunFrame DEF Phase1, Phase2, Undoing
  <2>1. /\ UNCHANGED <<cancelling, turn>>
        /\ job' = job \/ job' \notin {"none", "queued"}
        /\ job' = "running" => job \in {"queued", "running"}
        /\ \A r \in Recoverers : turn[r] = "off"
    BY <1>4, <2>0, RunFrame DEF outside, Turns
  <2>2. QED
    BY <2>1, <1>4, RunFrame DEF Turns, OneRecoverer, Recovering, CancelSpent, Phase1, Phase2, Undoing,
                                Recoverers
<1>5. CASE RecoveryStep
  <2>1. ASSUME NEW r \in Recoverers, RecovererReads(r) \/ RecovererEnters(r) \/ RecoveryCannotStart(r)
        PROVE  Turns'
    BY <2>1 DEF TypeOK, Turns, OneRecoverer, Recovering, CancelSpent, Undoing, Recoverers,
       RecovererReads, RecovererEnters, BeginRecovery, RecoveryCannotStart, Turn, rows, FinalJob, ActiveJob
  <2>2. CASE RecoveryLeavesToOperator \/ RecoveryUndoIncomplete
    BY <2>2 DEF TypeOK, Turns, OneRecoverer, Recovering, CancelSpent, Undoing, Recoverers, 
       RecoveryLeavesToOperator, RecoveryUndoIncomplete, RecoveryStops, Done, Sorted
  <2>3. CASE RecoverySettles
    BY <2>3 DEF TypeOK, Turns, OneRecoverer, Recovering, CancelSpent, Undoing, Recoverers,
       RecoverySettles, finishChainSafeCancel, Done, Sorted
  <2>4. CASE RecoveryUndoes
    BY <2>4 DEF TypeOK, Turns, OneRecoverer, Recovering, CancelSpent, Undoing, Recoverers,
       RecoveryUndoes, rows, outside, Sorted
  <2>5. CASE Restart \/ ScanLists
    BY <2>5 DEF TypeOK, Turns, OneRecoverer, Recovering, CancelSpent, Undoing, Recoverers,
       Restart, ScanLists, Turn, rows
  <2>6. QED
    BY <1>5, <2>1, <2>2, <2>3, <2>4, <2>5 DEF RecoveryStep
<1>6. CASE OutsideStep
  <2> USE DEF TypeOK, Turns, OneRecoverer, Recovering, CancelSpent, Undoing, Recoverers
  <2>1. CASE SignalCancel \/ StartChain \/ CancelQueuedChain \/ RequestCancel
    BY <2>1 DEF SignalCancel, StartChain, CancelQueuedChain, RequestCancel, outside, rows
  <2>2. CASE OrphanCancel
    BY <2>2 DEF OrphanCancel, ExecutorLives, Up
  <2>3. CASE Crash
    BY <2>3 DEF Crash, rows
  <2>4. QED
    BY <1>6, <2>1, <2>2, <2>3 DEF OutsideStep
<1>7. ASSUME NEW s \in Steps, SortStep(s) \/ ChildStep(s) \/ ChildCancelled(s) \/ UserRollsBack(s)
      PROVE  Turns'
  <2>1. UNCHANGED <<job, cancelling, turn>> /\ pc' = pc
    BY <1>7, SortFrame, ChildFrame DEF SortTail, outside, rows
  <2>2. QED
    BY <1>1, <2>1
<1>8. CASE UNCHANGED vars
    BY <1>1, <1>8 DEF vars, rows, outside
<1>9. QED
    BY <1>2, <1>3, <1>4, <1>5, <1>6, <1>7, <1>8, NextSplits

-----------------------------------------------------------------------------
\* The memory of executor and recovery.
MemoryTyped ==
    /\ pc \in Stages \cup {"idle", "queued", "done", "dead", "sorting"}
    /\ at \in 1..(N + 1)
    /\ found \in [Steps -> {"none", "update", "snoozed", "current"}]
    /\ completed \in Seq(Steps) /\ Len(completed) <= N
    /\ captured \in BOOLEAN
    /\ err \in Kinds \cup {"none", "blocked"}
    /\ notes \subseteq {"force", "incomplete", "cancel", "rolled", "moved", "operator"}

\* The books with the member at hand added.
LEMMA StepBooks ==
    ASSUME TypeOK, at \in Steps, Len(completed) < at
    PROVE  /\ Append(completed, at) \in Seq(Steps)
           /\ Len(Append(completed, at)) <= at
           /\ Len(Append(completed, at)) <= N
           /\ Len(completed) \in Nat /\ N \in Nat
<1>1. completed \in Seq(Steps) /\ N \in Nat
    BY ChainAssumption DEF TypeOK
<1>2. Len(completed) \in Nat /\ Append(completed, at) \in Seq(Steps)
      /\ Len(Append(completed, at)) = Len(completed) + 1
    BY <1>1, AppendFacts
<1>3. QED
    BY <1>1, <1>2 DEF Steps

\* The executor books a member as completed at most once.
LEMMA ExecutorMemory ==
    ASSUME TypeOK, Memory, NEW s \in Steps, ExecutorStep(s)
    PROVE  MemoryTyped' /\ Memory'
<1> USE DEF Phase1, Phase2, Stages, Kinds, memory, Starting, ToNext
<1>1. N \in Nat /\ N >= 1 /\ at \in 1..(N + 1) /\ s = at /\ at \in Steps /\ at + 1 \in 1..(N + 1)
    BY ChainAssumption, ExecutorFrame DEF TypeOK, Steps
<1>2. /\ completed \in Seq(Steps) /\ Len(completed) \in Nat /\ Len(completed) <= N
      /\ found \in [Steps -> {"none", "update", "snoozed", "current"}] /\ captured \in BOOLEAN
      /\ err \in Kinds \cup {"none", "blocked"}
      /\ notes \subseteq {"force", "incomplete", "cancel", "rolled", "moved", "operator"}
    BY DEF TypeOK
<1>3. CASE (\E what \in {"update", "snoozed", "current"} : CheckFinds(s, what)) \/ PlanAllows(s)
  <2>1. pc \in Phase1 /\ pc' = pc /\ at' = at + 1 /\ UNCHANGED <<completed, captured, err, notes>>
        /\ found' \in [Steps -> {"none", "update", "snoozed", "current"}]
    BY <1>2, <1>3 DEF CheckFinds, PlanAllows
  <2>2. QED
    BY <1>1, <1>2, <2>1 DEF Memory, MemoryTyped
<1>4. CASE \/ CheckFails(s) \/ PlanBlocks(s) \/ SkipSnoozed(s) \/ SkipCurrent(s) \/ BeginLifecycle(s)
           \/ RestartPreservesStopped(s) \/ RestartStops(s) \/ RecreateRemoves(s) \/ RecreateHangs(s)
           \/ EnqueueStep(s) \/ LinkStep(s)
  <2>1. /\ UNCHANGED <<completed, found, captured, notes>>
        /\ at' = at \/ (at' = at + 1 /\ pc = "stepping" /\ pc' = "stepping")
        /\ err' = err \/ (err' = "critical" /\ pc' = "ending")
        /\ pc' = "judging" => pc \in Phase2 \ {"judging"}
        /\ pc' \in {"judging", "ending", "closing"}
             \/ (pc' \in Phase2 \ {"judging"} /\ pc \in Phase2 \ {"judging"})
    BY <1>4 DEF CheckFails, PlanBlocks, SkipSnoozed, SkipCurrent, BeginLifecycle,
       RestartPreservesStopped, RestartStops, RecreateRemoves, RecreateHangs, EnqueueStep, LinkStep
  <2>2. QED
    BY <1>1, <1>2, <2>1 DEF Memory, MemoryTyped
<1>5. CASE \/ \E kind \in Kinds : LifecycleRefused(s, kind) \/ CannotQueue(s, kind) \/ StepFailed(s, kind)
           \/ \E kind \in Kinds, what \in {"base", "down"} : RestartFails(s, what, kind)
           \/ StepHeld(s)
  <2>1. /\ pc \in Phase2 \ {"judging"} /\ pc' = "judging" /\ UNCHANGED <<completed, found, at>>
        /\ err' \in Kinds \cup {"blocked"} /\ captured' \in BOOLEAN
        /\ notes' = notes \/ notes' = notes \cup {"force"}
    BY <1>2, <1>5 DEF LifecycleRefused, CannotQueue, StepFailed, RestartFails, StepHeld, StepFails,
       ChildReturned, ObserveCapture
  <2>2. notes' \subseteq {"force", "incomplete", "cancel", "rolled", "moved", "operator"}
    BY <1>2, <2>1
  <2>3. Len(completed) < at
    BY <2>1 DEF Memory
  <2>4. Memory'
    BY <1>1, <1>2, <2>1, <2>3 DEF Memory
  <2>5. MemoryTyped'
    BY <1>1, <1>2, <2>1, <2>2 DEF MemoryTyped
  <2>6. QED
    BY <2>4, <2>5
<1>6. CASE RestartSucceeds(s) \/ RecreateSucceeds(s) \/ StepSucceeds(s)
  <2>1. /\ pc \in Phase2 \ {"judging"} /\ pc' = "judging" /\ UNCHANGED <<found, at, err, notes>>
        /\ completed' = Append(completed, at) /\ captured' \in BOOLEAN
    BY <1>1, <1>2, <1>6 DEF RestartSucceeds, RecreateSucceeds, StepSucceeds, StepDone, ChildReturned,
       ObserveCapture
  <2>2. Len(completed) < at
    BY <2>1 DEF Memory
  <2>3. completed' \in Seq(Steps) /\ Len(completed') <= at /\ Len(completed') <= N
    BY <1>1, <2>1, <2>2, StepBooks
  <2>4. QED
    BY <1>1, <1>2, <2>1, <2>3 DEF Memory, MemoryTyped
<1>7. QED
    BY <1>3, <1>4, <1>5, <1>6 DEF ExecutorStep

\* A goroutine that ends remembers nothing.
LEMMA ForgetMemory ==
    ASSUME Forget, pc' \in {"done", "dead"}
    PROVE  MemoryTyped' /\ Memory'
<1>1. N \in Nat /\ N >= 1
    BY ChainAssumption
<1>2. Fresh' /\ completed' = <<>>
    BY DEF Forget, Fresh
<1>3. completed' \in Seq(Steps)
    BY <1>2
<1>4. Len(completed') = 0
    BY <1>2, <1>3, EmptyFacts
<1>5. Memory'
    BY <1>2 DEF Memory, Phase1, Phase2
<1>6. found' \in [Steps -> {"none", "update", "snoozed", "current"}]
    BY <1>2 DEF Fresh
<1>7. at' = 1 /\ err' = "none" /\ notes' = {} /\ captured' = FALSE
    BY <1>2 DEF Fresh
<1>8. Len(completed') <= N /\ at' \in 1..(N + 1)
    BY <1>1, <1>4, <1>7
<1>9. MemoryTyped'
    BY <1>3, <1>6, <1>7, <1>8 DEF MemoryTyped
<1>10. QED
    BY <1>5, <1>9

\* Between members the executor keeps its books, or begins to undo them.
LEMMA RunMemory ==
    ASSUME TypeOK, Memory, RunStep
    PROVE  MemoryTyped' /\ Memory'
<1> USE DEF Phase1, Phase2, Stages, Kinds, memory
<1>1. /\ N \in Nat /\ N >= 1 /\ at \in 1..(N + 1)
      /\ completed \in Seq(Steps) /\ Len(completed) \in Nat /\ Len(completed) <= N
    BY ChainAssumption DEF TypeOK
<1>2. completed = <<>> => Len(completed) = 0
    BY <1>1, EmptyFacts
<1>3. CASE ClaimChain \/ CancelledInQueue
  <2>1. pc = "queued" /\ pc' \in {"checking", "done"} /\ UNCHANGED memory
    BY <1>3 DEF ClaimChain, CancelledInQueue
  <2>2. Fresh
    BY <2>1 DEF Memory
  <2>3. QED
    BY <1>1, <1>2, <2>1, <2>2 DEF Memory, MemoryTyped, TypeOK, Fresh
<1>4. CASE CancelSafely \/ CloseJob
  <2>1. Forget /\ pc' = "done"
    BY <1>4 DEF CancelSafely, CloseJob
  <2>2. QED
    BY <2>1, ForgetMemory
<1>5. CASE AllChecked \/ Planned
  <2>1. /\ pc \in Phase1 /\ pc' \in {"planning", "stepping"} /\ at' = 1
        /\ UNCHANGED <<found, completed, captured, err, notes>>
    BY <1>5 DEF AllChecked, Planned
  <2>2. QED
    BY <1>1, <1>2, <2>1 DEF Memory, MemoryTyped, TypeOK
<1>6. CASE NextStep
  <2>1. pc = "judging" /\ at \in Steps /\ Len(completed) <= at
    BY <1>6 DEF NextStep, Memory
  <2>2. at' = at + 1 /\ pc' = "stepping" /\ err' = "none" /\ UNCHANGED <<found, completed, captured, notes>>
    BY <1>6 DEF NextStep, ToNext
  <2>3. QED
    BY <1>1, <2>1, <2>2 DEF Memory, MemoryTyped, TypeOK, Steps
<1>7. CASE NothingToDo \/ StopChain \/ BeginUndo \/ EndRun
  <2>1. pc' \in {"closing", "ending", "undoing"} /\ UNCHANGED memory
    BY <1>7 DEF NothingToDo, StopChain, BeginUndo, EndRun
  <2>2. QED
    BY <1>1, <2>1 DEF Memory, MemoryTyped, TypeOK
<1>8. QED
    BY <1>3, <1>4, <1>5, <1>6, <1>7 DEF RunStep

\* Undoing takes the last completed member off the books.
LEMMA UndoMemory ==
    ASSUME TypeOK, Memory, NEW s, UndoStep(s)
    PROVE  /\ MemoryTyped' /\ Memory'
           /\ completed # <<>> /\ (completed' = completed \/ completed' = Front(completed))
           /\ notes' = notes \/ notes' = notes \cup {"incomplete"}
<1>1. /\ N \in Nat /\ completed \in Seq(Steps) /\ Len(completed) \in Nat /\ Len(completed) <= N
    BY ChainAssumption DEF TypeOK
<1>2. /\ completed # <<>>
      /\ completed' = completed \/ completed' = Front(completed)
      /\ pc' = "restoring" => completed' = completed
      /\ notes' = notes \/ notes' = notes \cup {"incomplete"}
  <2>1. CASE SkipRestarted(s) \/ UndoRemoves(s) \/ UndoFails(s)
    BY <2>1 DEF SkipRestarted, UndoRemoves, UndoFails, memory, Memory
  <2>2. CASE UndoSucceeds(s)
    BY <2>2 DEF UndoSucceeds, Memory
  <2>3. QED
    BY <2>1, <2>2 DEF UndoStep
<1>3. Front(completed) \in Seq(Steps) /\ Len(Front(completed)) <= N
    BY <1>1, <1>2, FrontFacts
<1>4. completed' \in Seq(Steps) /\ Len(completed') <= N
    BY <1>1, <1>2, <1>3
<1>5. notes' \subseteq {"force", "incomplete", "cancel", "rolled", "moved", "operator"}
  <2>1. notes \subseteq {"force", "incomplete", "cancel", "rolled", "moved", "operator"}
    BY DEF TypeOK
  <2>2. QED
    BY <1>2, <2>1
<1>6. pc' \in Undoing /\ UNCHANGED <<at, found, captured, err>>
    BY UndoFrame
<1>7. Memory'
    BY <1>2, <1>6 DEF Memory, Undoing, Phase1, Phase2
<1>8. MemoryTyped'
    BY <1>4, <1>5, <1>6 DEF MemoryTyped, TypeOK, Undoing, Stages
<1>9. QED
    BY <1>2, <1>7, <1>8

\* Recovery books a row as completed at most once.
LEMMA SortMemory ==
    ASSUME TypeOK, Memory, NEW s \in Steps, SortStep(s)
    PROVE  /\ MemoryTyped' /\ Memory'
           /\ completed' = completed \/ completed' = Append(completed, s)
           /\ notes \subseteq notes'
<1>1. /\ N \in Nat /\ s = at /\ at \in Steps /\ at' = at + 1 /\ pc = "sorting" /\ pc' = pc
      /\ UNCHANGED <<found, captured, err>>
    BY ChainAssumption, SortFrame DEF SortTail
<1>2. Len(completed) < at
    BY <1>1 DEF Memory
<1>3. /\ completed \in Seq(Steps)
      /\ completed' = completed \/ completed' = Append(completed, s)
  <2>1. CASE SortTerminal(s) \/ SortSucceeded(s) \/ SortRolledBack(s) \/ SortUnresolved(s)
    BY <2>1 DEF TypeOK, SortTerminal, SortSucceeded, SortRolledBack, SortUnresolved, Keep
  <2>2. CASE SortFailed(s) \/ SortUntouched(s) \/ SortVerified(s) \/ SortRestored(s) \/ SortBroken(s)
    BY <2>2 DEF TypeOK, SortFailed, SortUntouched, SortVerified, SortRestored, SortBroken, Keep
  <2>3. QED
    BY <2>1, <2>2 DEF SortStep
<1>4. completed' \in Seq(Steps) /\ Len(completed') < at' /\ Len(completed') <= N
    BY <1>1, <1>2, <1>3, StepBooks DEF Steps
<1>5. /\ notes' \subseteq notes \cup {"force", "incomplete", "cancel", "rolled", "moved", "operator"}
      /\ notes \subseteq notes'
  <2>1. CASE SortTerminal(s) \/ SortSucceeded(s) \/ SortUnresolved(s)
    BY <2>1 DEF SortTerminal, SortSucceeded, SortUnresolved, NeedsOperator
  <2>2. CASE SortRolledBack(s)
    BY <2>2 DEF SortRolledBack
  <2>3. CASE SortFailed(s) \/ SortUntouched(s) \/ SortVerified(s)
    BY <2>3 DEF SortFailed, SortUntouched, SortVerified
  <2>4. CASE SortRestored(s) \/ SortBroken(s)
    BY <2>4 DEF SortRestored, SortBroken, NeedsOperator
  <2>5. QED
    BY <2>1, <2>2, <2>3, <2>4 DEF SortStep
<1>6. notes' \subseteq {"force", "incomplete", "cancel", "rolled", "moved", "operator"}
    BY <1>5 DEF TypeOK
<1>7. Memory'
    BY <1>1, <1>4 DEF Memory, Phase1, Phase2
<1>8. at' \in 1..(N + 1)
    BY <1>1 DEF Steps
<1>9. MemoryTyped'
    BY <1>1, <1>4, <1>6, <1>8 DEF MemoryTyped, TypeOK
<1>10. QED
    BY <1>3, <1>5, <1>7, <1>9

\* A recoverer begins with empty books.
LEMMA RecoveryMemory ==
    ASSUME TypeOK, Memory, Turns, RecoveryStep
    PROVE  MemoryTyped' /\ Memory'
<1>1. N \in Nat /\ N >= 1
    BY ChainAssumption
<1>2. CASE \/ \E r \in Recoverers : RecovererReads(r) \/ RecoveryCannotStart(r)
           \/ ScanLists
  <2>1. UNCHANGED <<pc, memory>>
    BY <1>2 DEF RecovererReads, RecoveryCannotStart, ScanLists
  <2>2. QED
    BY <2>1 DEF memory, TypeOK, Memory, MemoryTyped, Fresh
<1>3. ASSUME NEW r \in Recoverers, RecovererEnters(r) PROVE MemoryTyped' /\ Memory'
  <2>1. /\ pc = "done" /\ pc' = "sorting" /\ notes' \in {{"cancel"}, {}}
        /\ UNCHANGED <<at, found, completed, captured, err>>
    BY <1>3 DEF RecovererEnters, BeginRecovery
  <2>2. Fresh
    BY <2>1 DEF Memory
  <2>3. Len(completed) = 0
    BY <2>2, EmptyFacts DEF Fresh, TypeOK
  <2>4. Memory'
    BY <2>1, <2>2, <2>3 DEF Memory, Fresh, Phase1, Phase2
  <2>5. MemoryTyped'
    BY <2>1 DEF MemoryTyped, TypeOK
  <2>6. QED
    BY <2>4, <2>5
<1>4. CASE RecoveryLeavesToOperator \/ RecoveryUndoIncomplete \/ RecoverySettles
  <2>1. pc' = "done" /\ Forget
    BY <1>4 DEF RecoveryLeavesToOperator, RecoveryUndoIncomplete, RecoverySettles, RecoveryStops, Done
  <2>2. QED
    BY <2>1, ForgetMemory
<1>5. CASE RecoveryUndoes
  <2>1. pc' = "undoing" /\ notes' = notes \cup {"moved"} /\ UNCHANGED <<at, found, completed, captured, err>>
    BY <1>5 DEF RecoveryUndoes
  <2>2. notes' \subseteq {"force", "incomplete", "cancel", "rolled", "moved", "operator"}
    BY <2>1 DEF TypeOK
  <2>3. QED
    BY <2>1, <2>2 DEF Memory, MemoryTyped, TypeOK, Phase1, Phase2, Stages
<1>6. CASE Restart
  <2>1. pc = "dead" /\ pc' = "done" /\ UNCHANGED memory
    BY <1>6 DEF Restart
  <2>2. QED
    BY <2>1 DEF memory, TypeOK, Memory, MemoryTyped, Fresh, Phase1, Phase2
<1>7. QED
    BY <1>2, <1>3, <1>4, <1>5, <1>6 DEF RecoveryStep

\* Where the executor is, and what executor and recovery remember there.
LEMMA MemoryStays ==
    ASSUME TypeOK, Memory, Turns, [Next]_vars
    PROVE  MemoryTyped' /\ Memory'
<1>1. CASE UNCHANGED <<pc, memory>>
    BY <1>1 DEF memory, TypeOK, Memory, MemoryTyped, Fresh
<1>2. ASSUME NEW s \in Steps, ChildStep(s) \/ ChildCancelled(s) \/ UserRollsBack(s)
      PROVE  MemoryTyped' /\ Memory'
    BY <1>1, <1>2, ChildFrame
<1>3. CASE OutsideStep
  <2>1. CASE SignalCancel \/ OrphanCancel \/ CancelQueuedChain \/ RequestCancel
    BY <1>1, <2>1 DEF SignalCancel, OrphanCancel, CancelQueuedChain, RequestCancel
  <2>2. CASE StartChain
    <3>1. pc = "idle" /\ pc' = "queued" /\ UNCHANGED memory
      BY <2>2 DEF StartChain
    <3>2. QED
      BY <3>1 DEF memory, TypeOK, Memory, MemoryTyped, Fresh, Phase1, Phase2
  <2>3. CASE Crash
    BY <2>3, ForgetMemory DEF Crash
  <2>4. QED
    BY <1>3, <2>1, <2>2, <2>3 DEF OutsideStep
<1>4. CASE UNCHANGED vars
    BY <1>1, <1>4 DEF vars
<1>5. QED
    BY <1>2, <1>3, <1>4, NextSplits, ExecutorMemory, SortMemory, UndoMemory, RunMemory, RecoveryMemory

-----------------------------------------------------------------------------
\* The rows and the members.
RunStates == ActiveRun \cup {"none", "success", "no_changes", "blocked", "failed", "cancelled",
                             "recovered", "interrupted"}
RowsTyped ==
    /\ run \in [status : RunStates, orphaned : BOOLEAN]
    /\ job \in ActiveJob \cup FinalJob \cup {"none"}
    /\ row \in [Steps -> RowStates]
    /\ link \subseteq Steps
MembersTyped ==
    /\ hit \subseteq Steps /\ reused \subseteq Steps
    /\ child \in [Steps -> [job : ActiveJob \cup FinalJob \cup {"none"},
                            tx : ActiveTx \cup {"none", "success", "failed", "skipped", "cancelled",
                                                "rolled_back", "interrupted", "recovery_required"}]]
    /\ point \in [Steps -> {"none", "plain", "data"}]
    /\ image \in [Steps -> {"base", "new", "rebuilt", "down"}]

\* The typing of rows and members, out of the whole type invariant.
LEMMA TypesOfTyped == TypeOK => RowsTyped /\ MembersTyped
<1> SUFFICES ASSUME TypeOK PROVE RowsTyped /\ MembersTyped
    OBVIOUS
<1>1. row \in [Steps -> RowStates]
    BY DEF TypeOK, RowStates, Settled
<1>2. QED
    BY <1>1 DEF TypeOK, RowsTyped, MembersTyped, RunStates

\* The status of the run is written to its record.
LEMMA RunTyped ==
    ASSUME RowsTyped, NEW x \in RunStates, SetRun(x)
    PROVE  run' \in [status : RunStates, orphaned : BOOLEAN]
BY DEF RowsTyped, SetRun

\* A record of a run, typed.
LEMMA RunRecord ==
    ASSUME NEW x \in RunStates, NEW b \in BOOLEAN
    PROVE  [status |-> x, orphaned |-> b] \in [status : RunStates, orphaned : BOOLEAN]
OBVIOUS

\* Nothing of member t changes.
SameAt(t) ==
    /\ row'[t] = row[t] /\ child'[t] = child[t] /\ point'[t] = point[t] /\ image'[t] = image[t]
    /\ (t \in link)' = (t \in link) /\ (t \in hit)' = (t \in hit) /\ (t \in reused)' = (t \in reused)
Others(s) == \A t \in Steps : t # s => SameAt(t)

\* A child update moves its own member, and only after it was queued; a user's
\* rollback moves one that has a restore point.
ChildMoved(s) ==
    /\ Others(s) /\ UNCHANGED <<row, link>>
    /\ pc = "done" \/ child[s].job # "none"
    /\ child[s].job # "none" => child'[s].job # "none"
    /\ child'[s].tx # "none" => child'[s].job # "none"
    /\ child'[s].job \in ActiveJob => child[s].job \in ActiveJob
    /\ Worked(s)
    /\ point[s] # "none" => point'[s] # "none"

\* A child update moves as ChildMoved says.
LEMMA ChildMoves ==
    ASSUME TypeOK, Begins, NEW s \in Steps, ChildStep(s) \/ ChildCancelled(s) \/ UserRollsBack(s)
    PROVE  MembersTyped' /\ ChildMoved(s)
<1>1. MembersTyped
    BY TypesOfTyped
<1> USE DEF members, SetChild, SetImage, rows, FinalJob, ActiveJob, ActiveTx, Others, SameAt, Worked
<1>2. CASE ChildBegins(s) \/ ChildCancelled(s)
    BY <1>1, <1>2 DEF ChildBegins, ChildCancelled, MembersTyped, ChildMoved
<1>3. CASE ChildMutates(s)
    BY <1>1, <1>3 DEF ChildMutates, MembersTyped, ChildMoved, PointFor
<1>4. ASSUME NEW o \in ChildOutcomes, ChildEnds(s, o) PROVE MembersTyped' /\ ChildMoved(s)
  <2>1. /\ o[1] \in FinalJob /\ o[1] \notin ActiveJob
        /\ o[2] \in {"success", "rolled_back", "recovery_required", "failed"}
        /\ o[3] \in {"new", "base", "down"}
    BY DEF ChildOutcomes
  <2>2. /\ child' = [child EXCEPT ![s] = [job |-> o[1], tx |-> o[2]]]
        /\ image' = [image EXCEPT ![s] = o[3]]
        /\ child[s].tx = "updating" /\ UNCHANGED <<row, link, hit, reused, point>>
    BY <1>4 DEF ChildEnds
  <2>3. child[s].job # "none"
    BY <2>2 DEF Begins
  <2>4. QED
    BY <1>1, <2>1, <2>2, <2>3 DEF MembersTyped, ChildMoved
<1>5. CASE ChildNotApplied(s)
    BY <1>1, <1>5 DEF ChildNotApplied, MembersTyped, ChildMoved, Begins
<1>6. CASE \E j \in {"failed", "skipped", "cancelled"} : ChildEndsEarly(s, j)
    BY <1>1, <1>6 DEF ChildEndsEarly, MembersTyped, ChildMoved
<1>7. CASE ChildRecovered(s)
  <2>1. PICK t \in {"interrupted", "success", "rolled_back", "recovery_required"},
              what \in {"base", "new", "down", image[s]} : RecoverChild(s, t, what)
    BY <1>7 DEF ChildRecovered
  <2>2. what \in {"base", "new", "rebuilt", "down"}
    BY <1>1 DEF MembersTyped
  <2>3. child[s].job # "none"
    BY <2>1 DEF RecoverChild, Begins
  <2>4. QED
    BY <1>1, <2>1, <2>2, <2>3 DEF RecoverChild, MembersTyped, ChildMoved
<1>8. CASE UserRollsBack(s)
    BY <1>1, <1>8 DEF UserRollsBack, MembersTyped, ChildMoved, Begins
<1>9. QED
    BY <1>2, <1>3, <1>4, <1>5, <1>6, <1>7, <1>8 DEF ChildStep

\* The executor moves the member at hand, and leaves it with a reason for what
\* its row says.
Reasons(s) ==
    /\ row[s] \in {"success", "updating"} => s \in link
    /\ s \in link => child[s].job # "none" /\ row[s] \in Linked
    /\ row[s] = "recreated" => point[s] # "none"
    /\ row[s] = "rolled_back" => s \in link \/ point[s] # "none"
    /\ child[s].tx # "none" => child[s].job # "none"
ExecutorMoved(s) ==
    /\ Others(s) /\ UNCHANGED <<chain, found>>
    /\ \/ pc' = "stepping" /\ at' = at + 1 /\ row'[s] \in chainRunStepTerminal
       \/ pc' \in Phase2 \ {"stepping"} /\ at' = at
    /\ pc' = "judging" => row'[s] \in chainRunStepTerminal
    /\ AtHand' /\ Reasons(s)'
    /\ \/ completed' = completed
       \/ completed' = Append(completed, s) /\ pc' = "judging" /\ Worked(s)'

\* The executor's steps on a member move as ExecutorMoved says.
LEMMA ExecutorMoves ==
    ASSUME TypeOK, Before, AtHand, Begins, pc \in Phase2, NEW s \in Steps, ExecutorStep(s)
    PROVE  RowsTyped' /\ MembersTyped' /\ ExecutorMoved(s)
<1>1. RowsTyped /\ MembersTyped /\ s = at /\ Reasons(s)
    BY TypesOfTyped, ExecutorFrame DEF Begins, Reasons
<1>2. pc = "stepping" => Ahead(s) /\ row[s] = "checking"
    BY <1>1 DEF Before, Phase2
<1> USE DEF Phase2, memory, members, rows, Starting, ToNext, SetRow, SetImage, StepFails, StepDone,
            Others, SameAt, RowsTyped, MembersTyped, RowStates, Settled, chainRunStepTerminal, AtHand,
            Reasons, Worked, Linked
<1>3. CASE SkipSnoozed(s) \/ SkipCurrent(s)
    BY <1>1, <1>2, <1>3 DEF SkipSnoozed, SkipCurrent, ExecutorMoved, Ahead
<1>4. CASE BeginLifecycle(s)
    BY <1>1, <1>2, <1>4 DEF BeginLifecycle, ExecutorMoved, Ahead
<1>5. ASSUME NEW kind \in Kinds, LifecycleRefused(s, kind)
      PROVE  RowsTyped' /\ MembersTyped' /\ ExecutorMoved(s)
    BY <1>1, <1>5 DEF LifecycleRefused, ExecutorMoved
<1>6. ASSUME NEW kind \in Kinds, CannotQueue(s, kind)
       PROVE  RowsTyped' /\ MembersTyped' /\ ExecutorMoved(s)
    BY <1>1, <1>2, <1>6 DEF CannotQueue, ExecutorMoved, Ahead
<1>7. CASE \E kind \in Kinds, what \in {"base", "down"} : RestartFails(s, what, kind)
    BY <1>1, <1>7 DEF RestartFails, ExecutorMoved
<1>8. CASE RestartPreservesStopped(s) \/ RestartStops(s)
    BY <1>1, <1>8 DEF RestartPreservesStopped, RestartStops, ExecutorMoved
<1>9. CASE RestartSucceeds(s)
  <2>1. RowsTyped' /\ MembersTyped'
    BY <1>1, <1>9 DEF RestartSucceeds
  <2>2. /\ row'[s] = "restarted" /\ Others(s) /\ Worked(s)' /\ pc' = "judging"
        /\ completed' = Append(completed, s) /\ UNCHANGED <<chain, found, at, link, child, point>>
    BY <1>1, <1>9 DEF RestartSucceeds
  <2>3. Reasons(s)'
    BY <1>1, <1>9, <2>2 DEF RestartSucceeds
  <2>4. ExecutorMoved(s)
    BY <2>2, <2>3 DEF ExecutorMoved
  <2>5. QED
    BY <2>1, <2>4
<1>10. CASE RecreateRemoves(s)
    BY <1>1, <1>10 DEF RecreateRemoves, ExecutorMoved, PointFor
<1>11. CASE RecreateSucceeds(s)
  <2>1. RowsTyped'
    BY <1>1, <1>11 DEF RecreateSucceeds
  <2>2. MembersTyped'
    BY <1>1, <1>11 DEF RecreateSucceeds
  <2>3. /\ row'[s] = "recreated" /\ Others(s) /\ Worked(s)' /\ pc' = "judging" /\ point[s] # "none"
        /\ completed' = Append(completed, s) /\ UNCHANGED <<chain, found, at, link, child, point>>
    BY <1>1, <1>11 DEF RecreateSucceeds
  <2>4. Reasons(s)'
    BY <1>1, <1>11, <2>3 DEF RecreateSucceeds
  <2>5. ExecutorMoved(s)
    BY <2>3, <2>4 DEF ExecutorMoved
  <2>6. QED
    BY <2>1, <2>2, <2>5
<1>12. CASE RecreateHangs(s)
    BY <1>1, <1>12 DEF RecreateHangs, ExecutorMoved
<1>13. CASE EnqueueStep(s)
    BY <1>1, <1>2, <1>13 DEF EnqueueStep, ExecutorMoved, Ahead, ActiveJob
<1>14. CASE LinkStep(s)
    BY <1>1, <1>14 DEF LinkStep, ExecutorMoved
<1>15. CASE StepSucceeds(s) \/ StepHeld(s)
  <2>1. RowsTyped' /\ MembersTyped'
    BY <1>1, <1>15 DEF StepSucceeds, StepHeld
  <2>2. child[s].job # "none" /\ pc = "waiting"
    BY <1>15 DEF StepSucceeds, StepHeld, ChildReturned, FinalJob
  <2>3. CASE StepSucceeds(s)
    BY <1>1, <2>2, <2>3 DEF StepSucceeds, ExecutorMoved
  <2>4. CASE StepHeld(s)
    BY <1>1, <2>2, <2>4 DEF StepHeld, ExecutorMoved
  <2>5. QED
    BY <1>15, <2>1, <2>3, <2>4
<1>16. CASE \E kind \in Kinds : StepFailed(s, kind)
    BY <1>1, <1>16 DEF StepFailed, ExecutorMoved, ChildReturned, FinalJob
<1>17. QED
  <2>1. pc \notin {"checking", "planning"}
    OBVIOUS
  <2>2. ~CheckFails(s) /\ ~PlanAllows(s) /\ ~PlanBlocks(s)
        /\ \A what \in {"update", "snoozed", "current"} : ~CheckFinds(s, what)
    BY <2>1 DEF CheckFails, PlanAllows, PlanBlocks, CheckFinds
  <2>3. QED
    BY <2>2, <1>3, <1>4, <1>5, <1>6, <1>7, <1>8, <1>9, <1>10, <1>11, <1>12, <1>13, <1>14,
          <1>15, <1>16
       DEF ExecutorStep

Earlier(s) ==
    /\ Worked(s)
    /\ pc \in Phase2 \cup {"sorting"} => s < at \/ (pc = "judging" /\ s = at)

\* Begins, member by member.
LEMMA ReasonsBegin ==
    /\ Begins => \A s \in Steps : Reasons(s)
    /\ (\A s \in Steps : Reasons(s)) /\ link \subseteq Steps
       /\ (\A s \in ToSet(completed) : Earlier(s))
       => Begins
BY DEF Begins, Reasons, Earlier

\* Begins after a step, member by member.
LEMMA ReasonsBeginNext ==
    ASSUME \A s \in Steps : Reasons(s)', link' \subseteq Steps,
           \A s \in ToSet(completed') : Earlier(s)'
    PROVE  Begins'
BY DEF Begins, Reasons, Earlier

Unbegun == {"none", "checking", "failed", "blocked_preflight", "skipped_preflight"}

\* Checking and planning touch nothing.
LEMMA CheckingRows ==
    ASSUME TypeOK, Before, pc \in Phase1, NEW s \in Steps, ExecutorStep(s)
    PROVE  /\ UNCHANGED <<chain, completed, link, child, hit, reused, point, image>>
           /\ pc' \in {pc, "ending", "closing"}
           /\ row' \in [Steps -> RowStates]
           /\ \A t \in Steps : row'[t] \in Unbegun
           /\ run' \in [status : RunStates, orphaned : BOOLEAN] /\ job' = job
           /\ \/ \E what \in {"update", "snoozed", "current"} : CheckFinds(s, what)
              \/ CheckFails(s) \/ PlanAllows(s) \/ PlanBlocks(s)
<1>1. RowsTyped /\ MembersTyped /\ s = at /\ at \in Nat
    BY TypesOfTyped, ExecutorFrame DEF Steps
<1> USE DEF Phase1, Phase2, memory, members, rows, Starting, ToNext, SetRow, chainRunStepTerminal
<1>4. \/ \E what \in {"update", "snoozed", "current"} : CheckFinds(s, what)
      \/ CheckFails(s) \/ PlanAllows(s) \/ PlanBlocks(s)
  <2>1. pc \notin Phase2
    OBVIOUS
  <2>2. pc # "waiting"
    OBVIOUS
  <2>3. QED
    BY <2>1, <2>2 DEF ExecutorStep, SkipSnoozed, SkipCurrent, BeginLifecycle, LifecycleRefused, CannotQueue,
       StepFailed, RestartFails, RestartPreservesStopped, RestartStops, RestartSucceeds, RecreateRemoves,
       RecreateSucceeds, RecreateHangs, EnqueueStep, LinkStep, StepSucceeds, StepHeld, ChildReturned
<1>5. /\ UNCHANGED <<chain, completed, link, child, hit, reused, point, image>>
      /\ pc' \in {pc, "ending", "closing"}
      /\ row' \in [Steps -> RowStates]
      /\ \A t \in Steps : row'[t] \in Unbegun
      /\ run' \in [status : RunStates, orphaned : BOOLEAN] /\ job' = job
  <2>1. CASE \E what \in {"update", "snoozed", "current"} : CheckFinds(s, what)
    BY <1>1, <2>1 DEF CheckFinds, Before, RowsTyped, RowStates, Unbegun
  <2>2. CASE CheckFails(s) \/ PlanAllows(s)
    BY <1>1, <2>2 DEF CheckFails, PlanAllows, Before, RowsTyped, RowStates, Settled, Unbegun
  <2>3. CASE PlanBlocks(s)
    <3>1. SetRun("blocked")
      BY <2>3 DEF PlanBlocks
    <3>2. run' \in [status : RunStates, orphaned : BOOLEAN]
      BY <1>1, <3>1, RunTyped DEF RunStates
    <3>3. QED
      BY <1>1, <2>3, <3>2 DEF PlanBlocks, RowStates, Settled, Unbegun
  <2>4. QED
    BY <1>4, <2>1, <2>2, <2>3
<1>6. QED
    BY <1>4, <1>5

\* Checking and planning keep what is known of the run.
LEMMA CheckingMoves ==
    ASSUME TypeOK, Memory, Before, AtHand, Plan, Begins, pc \in Phase1, NEW s \in Steps, ExecutorStep(s)
    PROVE  RowsTyped' /\ MembersTyped' /\ Before' /\ AtHand' /\ Plan' /\ Begins'
<1>1. RowsTyped /\ MembersTyped /\ s = at /\ at \in Nat
    BY TypesOfTyped, ExecutorFrame DEF Steps
<1>2. completed = <<>> /\ ToSet(completed) = {}
    BY EmptyFacts DEF Memory, TypeOK
<1>3. \A t \in Steps : Ahead(t)
    BY DEF Before, Phase1
<1>4. \/ \E what \in {"update", "snoozed", "current"} : CheckFinds(s, what)
      \/ CheckFails(s) \/ PlanAllows(s) \/ PlanBlocks(s)
    BY CheckingRows
<1>5. /\ UNCHANGED <<chain, completed, link, child, hit, reused, point, image>>
      /\ pc' \in {pc, "ending", "closing"}
      /\ row' \in [Steps -> RowStates]
      /\ \A t \in Steps : row'[t] \notin {"success", "updating", "recreated", "rolled_back"}
      /\ run' \in [status : RunStates, orphaned : BOOLEAN] /\ job' = job
    BY CheckingRows DEF Unbegun
<1> USE DEF Phase1, Phase2, ToNext, SetRow, rows
<1>6. RowsTyped' /\ MembersTyped'
    BY <1>1, <1>5 DEF RowsTyped, MembersTyped
<1>7. \A t \in Steps : Ahead(t)' /\ Reasons(t)'
    BY <1>3, <1>5 DEF Ahead, Reasons
<1>8. Begins'
    BY <1>2, <1>5, <1>6, <1>7, ReasonsBeginNext DEF RowsTyped
<1>9. CASE pc' = pc
  <2>1. CASE \E what \in {"update", "snoozed", "current"} : CheckFinds(s, what)
    <3>1. /\ pc = "checking" /\ at' = at + 1 /\ row' = [row EXCEPT ![s] = "checking"]
      BY <2>1 DEF CheckFinds
    <3>2. \A t \in Steps : row'[t] = IF t < at' THEN "checking" ELSE "none"
      BY <1>1, <3>1 DEF Before, RowsTyped, Steps
    <3>3. QED
      BY <1>6, <1>7, <1>8, <1>9, <3>1, <3>2 DEF Before, AtHand, Plan
  <2>2. CASE PlanAllows(s)
    <3>1. /\ pc = "planning" /\ at' = at + 1 /\ row' = row /\ found' = found
          /\ s \notin Actionable \cap chain.red
      BY <2>2 DEF PlanAllows
    <3>2. \A t \in Steps : t < at' => t \notin Actionable \cap chain.red
      BY <1>1, <3>1 DEF Plan, Steps
    <3>3. Plan'
      BY <1>5, <1>9, <3>1, <3>2 DEF Plan, Actionable
    <3>4. QED
      BY <1>6, <1>7, <1>8, <1>9, <3>1, <3>3 DEF Before, AtHand
  <2>3. CASE CheckFails(s) \/ PlanBlocks(s)
    BY <1>9, <2>3 DEF CheckFails, PlanBlocks
  <2>4. QED
    BY <1>4, <2>1, <2>2, <2>3
<1>10. CASE pc' \in {"ending", "closing"}
    BY <1>6, <1>8, <1>10 DEF Before, AtHand, Plan
<1>11. QED
    BY <1>5, <1>9, <1>10

\* What follows a step that is over is not about one member.
LEMMA ExecutorNotJudging ==
    ASSUME NEW s \in Steps, ExecutorStep(s)
    PROVE  pc # "judging"
BY DEF ExecutorStep, CheckFinds, CheckFails, PlanAllows, PlanBlocks, SkipSnoozed, SkipCurrent,
       BeginLifecycle, LifecycleRefused, CannotQueue, StepFailed, RestartFails, RestartPreservesStopped,
       RestartStops, RestartSucceeds, RecreateRemoves, RecreateSucceeds, RecreateHangs, EnqueueStep,
       LinkStep, StepSucceeds, StepHeld, ChildReturned, Starting

\* The executor's steps keep what is known of its run.
LEMMA ExecutorStage ==
    ASSUME TypeOK, Memory, Before, AtHand, Plan, Begins, NEW s \in Steps, ExecutorStep(s)
    PROVE  RowsTyped' /\ MembersTyped' /\ Before' /\ AtHand' /\ Plan' /\ Begins'
<1>1. s = at /\ at \in Nat /\ pc \in Phase1 \cup Phase2
    BY ExecutorFrame DEF Steps
<1>2. CASE pc \in Phase1
    BY <1>2, CheckingMoves
<1>3. CASE pc \in Phase2
  <2>1. RowsTyped' /\ MembersTyped' /\ ExecutorMoved(s)
    BY <1>3, ExecutorMoves
  <2>2. pc' \in Phase2 /\ pc' \notin {"idle", "queued", "checking", "planning"}
    BY <2>1 DEF ExecutorMoved, Phase2
  <2>3. \A t \in Steps : t # s => SameAt(t) /\ (Ahead(t) => Ahead(t)') /\ (Reasons(t) => Reasons(t)')
                                   /\ (Worked(t) => Worked(t)')
    BY <2>1 DEF ExecutorMoved, Others, SameAt, Ahead, Reasons, Worked
  <2>4. /\ \A t \in Steps : t > at \/ (pc = "stepping" /\ t = at) => Ahead(t) /\ row[t] = "checking"
        /\ \A t \in Steps : t < at \/ (pc = "judging" /\ t = at) => row[t] \in chainRunStepTerminal
    BY <1>3 DEF Before
  <2>5. Before'
    <3>1. ASSUME NEW t \in Steps, t > at' \/ (pc' = "stepping" /\ t = at')
          PROVE  Ahead(t)' /\ row'[t] = "checking"
      <4>1. t > at /\ t # s
        BY <1>1, <2>1, <3>1 DEF ExecutorMoved, Steps
      <4>2. QED
        BY <4>1, <2>3, <2>4 DEF SameAt
    <3>2. ASSUME NEW t \in Steps, t < at' \/ (pc' = "judging" /\ t = at')
          PROVE  row'[t] \in chainRunStepTerminal
      <4>1. CASE t = s
        BY <1>1, <2>1, <3>2, <4>1 DEF ExecutorMoved
      <4>2. CASE t # s
        <5>1. t < at
          BY <1>1, <2>1, <3>2, <4>2 DEF ExecutorMoved, Steps
        <5>2. QED
          BY <4>2, <5>1, <2>3, <2>4 DEF SameAt
      <4>3. QED
        BY <4>1, <4>2
    <3>3. QED
      BY <2>2, <3>1, <3>2 DEF Before
  <2>6. Plan'
    BY <1>3, <2>1, <2>2 DEF Plan, ExecutorMoved, Actionable
  <2>7. /\ completed \in Seq(Steps)
        /\ \A t \in ToSet(completed) : t \in Steps /\ Worked(t) /\ (t < at \/ pc = "judging")
    BY <1>3 DEF Begins, TypeOK, ToSet, Phase2
  <2>8. pc # "judging"
    BY <1>3, ExecutorNotJudging
  <2>9. ASSUME NEW t \in ToSet(completed')
        PROVE  Worked(t)' /\ (t < at' \/ (pc' = "judging" /\ t = at'))
    <3>1. CASE t \in ToSet(completed)
      <4>1. t \in Steps /\ t < at /\ t # s /\ Worked(t)
        BY <1>1, <2>7, <2>8, <3>1 DEF Steps
      <4>2. at' = at \/ at' = at + 1
        BY <2>1 DEF ExecutorMoved
      <4>3. QED
        BY <1>1, <2>3, <4>1, <4>2 DEF Steps
    <3>2. CASE t \notin ToSet(completed)
      <4>1. completed' = Append(completed, s) /\ pc' = "judging" /\ Worked(s)' /\ at' = at
        BY <2>1, <2>9, <3>2 DEF ExecutorMoved
      <4>2. t = s
        BY <2>7, <2>9, <3>2, <4>1, AppendFacts
      <4>3. QED
        BY <1>1, <4>1, <4>2
    <3>3. QED
      BY <3>1, <3>2
  <2>10. Begins'
    BY <2>1, <2>3, <2>9, ReasonsBegin, ReasonsBeginNext DEF ExecutorMoved, RowsTyped, Earlier
  <2>11. QED
    BY <2>1, <2>5, <2>6, <2>10 DEF ExecutorMoved
<1>4. QED
    BY <1>1, <1>2, <1>3

\* The executor's steps that are not about one member.
LEMMA RunStage ==
    ASSUME TypeOK, Memory, Before, AtHand, Plan, Begins, RunStep
    PROVE  RowsTyped' /\ MembersTyped' /\ Before' /\ AtHand' /\ Plan' /\ Begins'
<1>1. /\ RowsTyped /\ MembersTyped /\ N \in Nat /\ N >= 1 /\ at \in 1..(N + 1)
      /\ (completed = <<>> => ToSet(completed) = {})
    BY TypesOfTyped, EmptyFacts, ChainAssumption DEF TypeOK
<1>2. MembersTyped' /\ \A t \in Steps : t \in ToSet(completed) => Worked(t)
    BY <1>1, RunFrame DEF members, MembersTyped, Begins
<1> USE DEF memory, rows
<1>3. CASE ClaimChain \/ CancelledInQueue
  <2>1. /\ pc = "queued" /\ pc' \in {"checking", "done"} /\ UNCHANGED <<row, link, memory, members>>
        /\ job' \in {job, "running"} /\ (run' = run \/ SetRun("cancelled"))
    BY <1>3 DEF ClaimChain, CancelledInQueue
  <2>2. Fresh /\ ToSet(completed) = {}
    BY <1>1, <2>1 DEF Memory, Fresh
  <2>3. RowsTyped'
    BY <1>1, <2>1, RunTyped DEF RowsTyped, RunStates, ActiveJob
  <2>4. \A t \in Steps : Ahead(t)' /\ row'[t] = "none"
    BY <2>1 DEF Before, Ahead, members
  <2>5. Begins'
    BY <2>1, <2>2, <2>4 DEF Begins, Ahead, RowsTyped, TypeOK
  <2>6. QED
    BY <1>2, <2>1, <2>2, <2>3, <2>4, <2>5 DEF Before, AtHand, Plan, Fresh, Phase2, Steps
<1>4. CASE CancelSafely
  <2>1. /\ SafePoint /\ finishChainSafeCancel /\ pc' = "done" /\ completed' = <<>> /\ UNCHANGED members
    BY <1>4 DEF CancelSafely, Forget
  <2>2. \A t \in link : row[t] \in chainRunStepTerminal
    <3>1. CASE pc \in Phase1
      BY <1>1, <3>1 DEF Before, Ahead, Phase1, RowsTyped
    <3>2. CASE pc \in {"stepping", "judging"}
      <4>1. ASSUME NEW t \in link PROVE row[t] \in chainRunStepTerminal
        <5>1. t \in Steps /\ (t < at \/ t = at \/ t > at)
          BY <1>1 DEF RowsTyped, Steps
        <5>2. QED
          BY <3>2, <5>1 DEF Before, Ahead, Phase2
      <4>2. QED
        BY <4>1
    <3>3. QED
      BY <2>1, <3>1, <3>2 DEF SafePoint, Phase1
  <2>3. /\ \A t \in Steps : row'[t] = row[t] \/ (row'[t] = "cancelled" /\ t \notin link)
        /\ row' \in [Steps -> RowStates] /\ job' = "cancelled" /\ link' = link
    BY <1>1, <2>1, <2>2 DEF finishChainSafeCancel, RowsTyped, RowStates, Settled, chainRunStepTerminal
  <2>4. RowsTyped'
    BY <1>1, <2>1, <2>3, RunTyped DEF finishChainSafeCancel, RowsTyped, RunStates, FinalJob
  <2>5. \A t \in Steps : Reasons(t)'
    BY <1>1, <2>1, <2>3, ReasonsBegin DEF Reasons, members
  <2>6. completed' \in Seq(Steps)
    BY <2>1
  <2>7. ToSet(completed') = {}
    BY <2>1, <2>6, EmptyFacts
  <2>8. QED
    BY <1>2, <2>1, <2>4, <2>5, <2>7, ReasonsBeginNext DEF Before, AtHand, Plan, Phase2, RowsTyped
<1>5. CASE AllChecked \/ Planned
  <2>1. /\ pc \in Phase1 /\ at > N /\ at' = 1
        /\ UNCHANGED <<chain, run, job, row, link, members, found, completed>>
        /\ pc = "checking" => Actionable # {}
        /\ pc' = IF pc = "checking" /\ chain.auto THEN "planning" ELSE "stepping"
    BY <1>5 DEF AllChecked, Planned, Phase1
  <2>2. ToSet(completed) = {} /\ \A t \in Steps : t < at
    BY <1>1, <2>1 DEF Memory, Phase1, Steps
  <2>3. RowsTyped' /\ \A t \in Steps : Ahead(t)' /\ row'[t] = "checking" /\ ~(t < 1)
    BY <1>1, <2>1, <2>2 DEF RowsTyped, Before, Ahead, members, Phase1, Steps
  <2>4. Plan'
    BY <2>1, <2>2 DEF Plan, Actionable, Phase1, Phase2, Steps
  <2>5. Begins'
    BY <2>1, <2>2, <2>3 DEF Begins, Ahead, RowsTyped
  <2>6. QED
    BY <1>2, <2>1, <2>3, <2>4, <2>5 DEF Before, AtHand, Phase2
<1>6. CASE NextStep
  <2>1. /\ pc = "judging" /\ pc' = "stepping" /\ at' = at + 1
        /\ UNCHANGED <<chain, run, job, row, link, members, found, completed>>
    BY <1>6 DEF NextStep, ToNext
  <2>2. RowsTyped'
    BY <1>1, <2>1 DEF RowsTyped
  <2>3. \A t \in Steps : /\ (Ahead(t) => Ahead(t)') /\ (t < at' <=> t < at \/ t = at) /\ (t >= at' <=> t > at)
                         /\ (Worked(t) => Worked(t)')
    BY <1>1, <2>1 DEF Ahead, Worked, members, Steps
  <2>4. Before'
    BY <1>1, <2>1, <2>3 DEF Before, Phase2, Steps
  <2>5. Begins'
    BY <1>1, <2>1, <2>3 DEF Begins, Phase2, members, TypeOK, ToSet
  <2>6. QED
    BY <1>2, <2>1, <2>2, <2>4, <2>5 DEF AtHand, Plan, Phase2, Actionable
<1>7. CASE NothingToDo
  <2>1. /\ pc = "checking" /\ pc' = "closing" /\ job' = job /\ link' = link /\ SetRun("no_changes")
        /\ row' \in [Steps -> {"skipped_snoozed", "skipped_current"}] /\ UNCHANGED <<members, completed>>
    BY <1>7 DEF NothingToDo
  <2>2. ToSet(completed) = {} /\ \A t \in Steps : Ahead(t)
    BY <1>1, <2>1 DEF Memory, Phase1, Before
  <2>3. RowsTyped'
    BY <1>1, <2>1, RunTyped DEF RowsTyped, RunStates, RowStates, Settled, chainRunStepTerminal
  <2>4. Begins'
    BY <1>1, <2>1, <2>2, <2>3 DEF Begins, Ahead, RowsTyped, members
  <2>5. QED
    BY <1>2, <2>1, <2>3, <2>4 DEF Before, AtHand, Plan, Phase2
<1>8. CASE StopChain \/ BeginUndo \/ EndRun \/ CloseJob
  <2>1. /\ pc' \in {"ending", "undoing", "closing", "done"} /\ UNCHANGED <<row, link, members>>
        /\ completed' = completed \/ completed' = <<>>
        /\ run' = run \/ SetRun(EndStatus)
        /\ job' = job \/ job' \in {"success", "skipped", "failed"}
    BY <1>8 DEF StopChain, BeginUndo, EndRun, CloseJob, Forget, JobStatusOf
  <2>2. EndStatus \in RunStates
    BY DEF EndStatus, RunStates, ActiveRun
  <2>3. RowsTyped'
    BY <1>1, <2>1, <2>2, RunTyped DEF RowsTyped, FinalJob
  <2>4. \A t \in ToSet(completed') : t \in ToSet(completed)
    <3>1. CASE completed' = <<>>
      <4>1. completed' \in Seq(Steps)
        BY <3>1
      <4>2. QED
        BY <3>1, <4>1, EmptyFacts
    <3>2. QED
      BY <2>1, <3>1
  <2>5. Begins'
    BY <1>1, <2>1, <2>4 DEF Begins, members, Worked, Phase2
  <2>6. QED
    BY <1>2, <2>1, <2>3, <2>5 DEF Before, AtHand, Plan, Phase2
<1>9. QED
    BY <1>3, <1>4, <1>5, <1>6, <1>7, <1>8 DEF RunStep

\* A child update, or a user's rollback.
LEMMA ChildStage ==
    ASSUME TypeOK, Memory, Before, AtHand, Plan, Begins, NEW s \in Steps,
           ChildStep(s) \/ ChildCancelled(s) \/ UserRollsBack(s)
    PROVE  RowsTyped' /\ MembersTyped' /\ Before' /\ AtHand' /\ Plan' /\ Begins'
<1>1. /\ RowsTyped /\ MembersTyped' /\ ChildMoved(s)
      /\ UNCHANGED <<chain, run, job, row, link, pc, at, found, completed>>
    BY TypesOfTyped, ChildMoves, ChildFrame DEF rows, memory
<1>2. RowsTyped' /\ Plan'
    BY <1>1 DEF RowsTyped, Plan, Actionable
<1>3. \A t \in Steps : pc # "done" /\ Ahead(t) => Ahead(t)'
    BY <1>1 DEF ChildMoved, Others, SameAt, Ahead
<1>4. \A t \in Steps : /\ child[t].job # "none" => child'[t].job # "none"
                       /\ point[t] # "none" => point'[t] # "none"
                       /\ (Reasons(t) => Reasons(t)') /\ (Worked(t) => Worked(t)')
  <2>1. ASSUME NEW t \in Steps, t # s
        PROVE  child'[t] = child[t] /\ point'[t] = point[t]
    BY <1>1, <2>1 DEF ChildMoved, Others, SameAt
  <2>2. \A t \in Steps : /\ child[t].job # "none" => child'[t].job # "none"
                         /\ point[t] # "none" => point'[t] # "none"
                         /\ t = s => (child'[s].tx # "none" => child'[s].job # "none")
    BY <1>1, <2>1 DEF ChildMoved
  <2>3. QED
    BY <1>1, <2>1, <2>2 DEF Reasons, Worked
<1>5. Before'
    BY <1>1, <1>3 DEF Before, Phase2
<1>6. AtHand'
  <2>1. pc \in {"linking", "recreated"} => at \in Steps
    BY DEF Memory, Phase2
  <2>2. QED
    BY <1>1, <1>4, <2>1 DEF AtHand
<1>7. \A t \in ToSet(completed) : t \in Steps
    BY DEF TypeOK, ToSet
<1>8. Begins'
    BY <1>1, <1>2, <1>4, <1>7, ReasonsBegin, ReasonsBeginNext DEF Earlier, Begins, RowsTyped
<1>9. QED
    BY <1>1, <1>2, <1>5, <1>6, <1>8

\* A completed member is undone.
LEMMA UndoStage ==
    ASSUME TypeOK, Memory, Before, AtHand, Plan, Begins, NEW s \in Steps, UndoStep(s)
    PROVE  RowsTyped' /\ MembersTyped' /\ Before' /\ AtHand' /\ Plan' /\ Begins'
<1>1. /\ RowsTyped /\ MembersTyped /\ pc' \in Undoing
      /\ UNCHANGED <<chain, rows, child, hit, reused, point>>
      /\ completed' = completed \/ (completed # <<>> /\ completed' = Front(completed))
    BY TypesOfTyped, UndoFrame, UndoMemory
<1>2. image' \in [Steps -> {"base", "new", "rebuilt", "down"}]
    BY <1>1 DEF UndoStep, SkipRestarted, UndoRemoves, UndoSucceeds, UndoFails, SetImage, MembersTyped, members
<1>3. RowsTyped' /\ MembersTyped'
    BY <1>1, <1>2 DEF rows, RowsTyped, MembersTyped
<1>4. \A t \in ToSet(completed') : t \in ToSet(completed)
  <2>1. completed \in Seq(Steps)
    BY DEF TypeOK
  <2>2. completed # <<>> => \A t \in ToSet(Front(completed)) : t \in ToSet(completed)
    BY <2>1, FrontFacts
  <2>3. QED
    BY <1>1, <2>2
<1>5. Begins'
    BY <1>1, <1>4 DEF Begins, Worked, rows, Phase2, Undoing
<1>6. QED
    BY <1>1, <1>3, <1>5 DEF Before, AtHand, Plan, Phase2, Undoing

\* A recoverer sorts a row: the step is settled, or left to the operator.
SortMoved(s) ==
    /\ \A t \in Steps : t # s => row'[t] = row[t]
    /\ image' \in [Steps -> {"base", "new", "rebuilt", "down"}]
    /\ \A t \in Steps : t # s => image'[t] = image[t]
    /\ image' = image \/ (s \notin link /\ View[s] \in {"restarting", "recreating"}
                          /\ row'[s] \in {"restarted", "recreated", "rolled_back"})
    /\ \/ row'[s] = row[s] /\ (View[s] \in Settled \/ "operator" \in notes')
       \/ /\ View[s] \notin Settled
          /\ \/ s \in link /\ row'[s] \in {"success", "rolled_back", "failed"}
             \/ s \notin link /\ View[s] = "checking" /\ row'[s] = "interrupted"
             \/ s \notin link /\ View[s] = "restarting" /\ row'[s] = "restarted"
             \/ /\ s \notin link /\ View[s] = "recreating" /\ point[s] # "none"
                /\ row'[s] \in {"recreated", "rolled_back"}
    /\ \/ completed' = completed
       \/ /\ completed' = Append(completed, s)
          /\ \/ row'[s] \in {"success", "recreated", "restarted"} /\ View[s] \notin Settled
             \/ row'[s] = row[s] /\ View[s] \in {"success", "recreated", "restarted"}
    /\ row' \in [Steps -> RowStates]

\* Recovery moves a row as SortMoved says.
LEMMA SortMoves ==
    ASSUME TypeOK, NEW s \in Steps, SortStep(s), NEW r \in Recoverers, View = seen[r].row, SeenTyped,
           View[s] = "none" => s \notin link
    PROVE  SortMoved(s)
<1>1. /\ RowsTyped /\ MembersTyped /\ View[s] \in RowStates
    BY TypesOfTyped DEF SeenTyped
<1> USE DEF Sorting, ToNext, Open, Keep, SetRow, SetImage, RowsTyped, MembersTyped, RowStates, Settled,
            chainRunStepTerminal, SortTail, NeedsOperator
<1> HIDE DEF View
<1>2. CASE SortTerminal(s)
    BY <1>1, <1>2 DEF SortTerminal, SortMoved
<1>3. CASE SortSucceeded(s)
    BY <1>1, <1>3 DEF SortSucceeded, SortMoved
<1>4. CASE SortRolledBack(s)
    BY <1>1, <1>4 DEF SortRolledBack, SortMoved
<1>5. CASE SortUnresolved(s) \/ SortBroken(s)
    BY <1>1, <1>5 DEF SortUnresolved, SortBroken, SortMoved
<1>6. CASE SortFailed(s) \/ SortUntouched(s)
    BY <1>1, <1>6 DEF SortFailed, SortUntouched, SortMoved
<1>7. CASE SortVerified(s)
  <2>1. /\ s \notin link /\ completed' = Append(completed, s)
        /\ \/ View[s] = "restarting" /\ row' = [row EXCEPT ![s] = "restarted"]
              /\ image' = [image EXCEPT ![s] = "base"]
           \/ View[s] = "recreating" /\ point[s] # "none" /\ row' = [row EXCEPT ![s] = "recreated"]
              /\ image' \in {[image EXCEPT ![s] = "base"], [image EXCEPT ![s] = "rebuilt"]}
    BY <1>7 DEF SortVerified
  <2>2. QED
    BY <1>1, <2>1 DEF SortMoved
<1>8. CASE SortRestored(s)
    BY <1>1, <1>8 DEF SortRestored, SortMoved
<1>9. QED
    BY <1>2, <1>3, <1>4, <1>5, <1>6, <1>7, <1>8 DEF SortStep

\* What recovery does to a row, told from the row as it is now.
LEMMA SortViews ==
    ASSUME TypeOK, SeenTyped, Turns, Views, NEW s \in Steps, SortStep(s)
    PROVE  /\ SortMoved(s)
           /\ View[s] \in Settled => row[s] \in Settled
           /\ s \notin link => SameKind(View[s], row[s])
           /\ View[s] \in {"success", "updating"} => s \in link
<1>1. PICK r \in Recoverers : turn[r] = "working" /\ View = seen[r].row
    BY SortFrame DEF Turns, Recovering, View
<1>2. /\ seen[r].row[s] \in Settled => row[s] \in Settled
      /\ s \notin link => SameKind(seen[r].row[s], row[s])
      /\ seen[r].row[s] \in {"success", "updating"} => s \in link
      /\ seen[r].row[s] = "none" => s \notin link
    BY <1>1 DEF Views
<1>3. QED
    BY <1>1, <1>2, SortMoves

\* The row goes on to a settled state of its kind.
LEMMA SortKeepsKind ==
    ASSUME TypeOK, SeenTyped, Turns, Views, NEW s \in Steps, SortStep(s)
    PROVE  /\ row[s] \in Settled => row'[s] \in Settled
           /\ s \notin link => SameKind(row[s], row'[s])
           /\ "operator" \notin notes' => row'[s] \in Settled
BY SortViews DEF SortMoved, SameKind, Settled, chainRunStepTerminal

\* The recovery's steps on one row keep what is known of the run.
LEMMA SortStage ==
    ASSUME TypeOK, SeenTyped, Memory, Turns, Before, AtHand, Plan, Begins, Views, Resolved,
           NEW s \in Steps, SortStep(s)
    PROVE  /\ RowsTyped' /\ MembersTyped' /\ Before' /\ AtHand' /\ Plan' /\ Begins'
           /\ Views' /\ Resolved'
<1>1. /\ RowsTyped /\ MembersTyped /\ SortMoved(s) /\ s = at /\ at' = at + 1 /\ at \in Nat
      /\ pc = "sorting" /\ pc' = pc /\ UNCHANGED <<run, job, link, child, hit, reused, point>>
      /\ UNCHANGED <<turn, seen>> /\ notes \subseteq notes'
    BY TypesOfTyped, SortViews, SortFrame, SortMemory DEF SortTail, outside, Steps
<1>2. RowsTyped' /\ MembersTyped'
    BY <1>1 DEF RowsTyped, MembersTyped, SortMoved
<1>3. ASSUME NEW t \in Steps PROVE Reasons(t)'
  <2>1. Reasons(t)
    BY ReasonsBegin
  <2>2. CASE t # s
    BY <1>1, <2>1, <2>2 DEF Reasons, SortMoved
  <2>3. CASE t = s
    BY <1>1, <2>1, <2>3 DEF Reasons, SortMoved, Linked
  <2>4. QED
    BY <2>2, <2>3
<1>4. ASSUME NEW t \in ToSet(completed') PROVE Earlier(t)'
  <2>1. completed \in Seq(Steps)
    BY DEF TypeOK
  <2>2. CASE t \in ToSet(completed)
    <3>1. t \in Steps /\ Worked(t) /\ t < at
      BY <1>1, <2>1, <2>2 DEF Begins, ToSet
    <3>2. row'[t] = row[t] /\ t < at'
      BY <1>1, <3>1 DEF SortMoved, Steps
    <3>3. QED
      BY <1>1, <3>1, <3>2 DEF Earlier, Worked
  <2>3. CASE t \notin ToSet(completed)
    <3>1. completed' = Append(completed, s)
      BY <1>1, <1>4, <2>3 DEF SortMoved
    <3>2. t = s
      BY <1>4, <2>1, <2>3, <3>1, AppendFacts
    <3>3. Reasons(s)' /\ Reasons(s)
      BY <1>3, ReasonsBegin
    <3>4. \/ row'[s] \in {"success", "recreated", "restarted"}
          \/ row'[s] = row[s] /\ View[s] \in {"success", "recreated", "restarted"}
      BY <1>1, <2>1, <2>3, <3>1 DEF SortMoved
    <3>5. \/ row'[s] \in {"success", "recreated", "restarted", "restarting", "recreating"}
          \/ s \in link \/ point[s] # "none"
      BY <3>3, <3>4, SortViews DEF SameKind, Reasons
    <3>6. Worked(s)'
      BY <1>1, <3>3, <3>5 DEF Worked, Reasons
    <3>7. QED
      BY <1>1, <3>2, <3>6 DEF Earlier
  <2>4. QED
    BY <2>2, <2>3
<1>5. Begins'
    BY <1>2, <1>3, <1>4, ReasonsBeginNext DEF RowsTyped
<1>6. Views'
  <2>1. ASSUME NEW r \in Recoverers, turn[r] \in {"waiting", "working"}, NEW t \in Steps
        PROVE  /\ seen[r].row[t] \in Settled => row'[t] \in Settled
               /\ t \notin link => SameKind(seen[r].row[t], row'[t])
    <3>1. /\ seen[r].row[t] \in Settled => row[t] \in Settled
          /\ t \notin link => SameKind(seen[r].row[t], row[t])
      BY <2>1 DEF Views
    <3>2. CASE t # s
      BY <1>1, <3>1, <3>2 DEF SortMoved
    <3>3. CASE t = s
      BY <3>1, <3>3, SortKeepsKind DEF SameKind
    <3>4. QED
      BY <3>2, <3>3
  <2>2. QED
    BY <1>1, <2>1 DEF Views
<1>7. Resolved'
  <2>1. ASSUME NEW t \in Steps, t < at', "operator" \notin notes' PROVE row'[t] \in Settled
    <3>1. CASE t = s
      BY <2>1, <3>1, SortKeepsKind
    <3>2. CASE t # s
      <4>1. t < at /\ row'[t] = row[t] /\ "operator" \notin notes
        BY <1>1, <2>1, <3>2 DEF SortMoved, Steps
      <4>2. QED
        BY <1>1, <4>1 DEF Resolved
    <3>3. QED
      BY <3>1, <3>2
  <2>2. QED
    BY <1>1, <2>1 DEF Resolved, Undoing
<1>8. QED
    BY <1>1, <1>2, <1>5, <1>6, <1>7 DEF Before, AtHand, Plan, Phase2

\* Rows, links and what the recoverers read: unchanged, or not yet read.
LEMMA ViewsKept ==
    ASSUME Views, UNCHANGED <<row, link>>,
           \A r \in Recoverers : turn'[r] \in {"waiting", "working"} =>
               turn[r] \in {"waiting", "working"} /\ seen'[r] = seen[r]
    PROVE  Views'
BY DEF Views

\* The two recoverers, but for the rows they sort.
LEMMA RecoveryStage ==
    ASSUME TypeOK, SeenTyped, Memory, Turns, Before, AtHand, Plan, Begins, Views, Resolved, RecoveryStep
    PROVE  /\ RowsTyped' /\ MembersTyped' /\ Before' /\ AtHand' /\ Plan' /\ Begins'
           /\ Views' /\ Resolved' /\ row' = row
<1>1. /\ RowsTyped /\ MembersTyped /\ turn \in [Recoverers -> {"off", "due", "listed", "waiting", "working"}]
      /\ N \in Nat /\ at \in 1..(N + 1)
    BY TypesOfTyped, ChainAssumption DEF TypeOK
<1> USE DEF rows, Turn
<1>2. ASSUME NEW r \in Recoverers, RecovererReads(r)
      PROVE  /\ RowsTyped' /\ MembersTyped' /\ Before' /\ AtHand' /\ Plan' /\ Begins'
             /\ Views' /\ Resolved' /\ row' = row
  <2>1. /\ UNCHANGED <<chain, run, job, row, link, members, memory, pc>>
        /\ turn' = [turn EXCEPT ![r] = "waiting"]
        /\ seen' = [seen EXCEPT ![r] = [row |-> row, cancel |-> run.orphaned]] /\ turn[r] = "listed"
    BY <1>2 DEF RecovererReads
  <2>2. RowsTyped' /\ MembersTyped' /\ Before' /\ AtHand' /\ Plan' /\ Begins'
    BY <1>1, <2>1 DEF memory, members, RowsTyped, MembersTyped, Before, AtHand, Plan, Actionable, Begins,
       Ahead, Worked
  <2>3. Resolved'
    BY <1>1, <2>1 DEF Resolved, Recovering, memory
  <2>4. ASSUME NEW q \in Recoverers, turn'[q] \in {"waiting", "working"}, NEW t \in Steps
        PROVE  /\ seen'[q].row[t] \in Settled => row'[t] \in Settled
               /\ t \notin link' => SameKind(seen'[q].row[t], row'[t])
               /\ seen'[q].row[t] \in {"success", "updating"} => t \in link'
               /\ seen'[q].row[t] = "none" => t \notin link'
    <3>1. CASE q = r
      <4>1. seen'[q].row = row
        BY <2>1, <3>1 DEF SeenTyped
      <4>2. QED
        BY <2>1, <4>1 DEF SameKind, Begins, Linked
    <3>2. CASE q # r
      BY <1>1, <2>1, <2>4, <3>2 DEF Views, SeenTyped
    <3>3. QED
      BY <3>1, <3>2
  <2>5. Views'
    BY <2>4 DEF Views
  <2>6. QED
    BY <2>1, <2>2, <2>3, <2>5
<1>3. ASSUME NEW r \in Recoverers, RecovererEnters(r) \/ RecoveryCannotStart(r)
      PROVE  /\ RowsTyped' /\ MembersTyped' /\ Before' /\ AtHand' /\ Plan' /\ Begins'
             /\ Views' /\ Resolved' /\ row' = row
  <2>1. /\ UNCHANGED <<chain, row, link, members, completed, at, found>>
        /\ job' \in {job, "failed"}
        /\ run' \in {[status |-> "recovering", orphaned |-> FALSE],
                     [status |-> "recovery_required", orphaned |-> FALSE]}
        /\ pc' = pc \/ (pc = "done" /\ pc' = "sorting")
    BY <1>3 DEF RecovererEnters, BeginRecovery, RecoveryCannotStart, memory
  <2>2. pc = "done" => completed = <<>> /\ at = 1
    BY DEF Memory, Fresh
  <2>3. run' \in [status : RunStates, orphaned : BOOLEAN]
    <3>1. FALSE \in BOOLEAN /\ "recovering" \in RunStates /\ "recovery_required" \in RunStates
      BY DEF RunStates, ActiveRun
    <3>2. QED
      BY <2>1, <3>1, RunRecord
  <2>4. RowsTyped' /\ MembersTyped'
    BY <1>1, <2>1, <2>3 DEF RowsTyped, MembersTyped, members, FinalJob
  <2>5. Before' /\ AtHand' /\ Plan'
    BY <2>1 DEF members, Before, AtHand, Plan, Actionable, Ahead, Phase2
  <2>6. pc = "done" => ToSet(completed) = {}
    BY <2>2, EmptyFacts DEF TypeOK
  <2>7. Begins'
    BY <2>1, <2>6 DEF Begins, Worked, members
  <2>8. \A q \in Recoverers : turn'[q] \in {"waiting", "working"} =>
               turn[q] \in {"waiting", "working"} /\ seen'[q] = seen[q]
    BY <1>1, <1>3 DEF RecovererEnters, BeginRecovery, RecoveryCannotStart, SeenTyped
  <2>9. Resolved'
    <3>1. CASE pc' = "sorting" /\ pc = "done"
      BY <1>1, <2>1, <2>2, <3>1 DEF Resolved, Undoing, Steps
    <3>2. CASE pc' = pc
      <4>1. RecoveryCannotStart(r)
        BY <1>3, <3>2 DEF RecovererEnters, BeginRecovery
      <4>2. notes' = notes /\ (Recovering' => Recovering)
        BY <1>1, <4>1 DEF RecoveryCannotStart, Recovering, memory
      <4>3. QED
        BY <2>1, <3>2, <4>2 DEF Resolved
    <3>3. QED
      BY <2>1, <3>1, <3>2
  <2>10. QED
    BY <2>1, <2>4, <2>5, <2>7, <2>8, <2>9, ViewsKept
<1>4. CASE RecoveryLeavesToOperator \/ RecoveryUndoIncomplete \/ RecoverySettles
  <2>1. /\ pc \in {"sorting"} \cup Undoing /\ UNCHANGED members /\ link' = link /\ Done
        /\ \E x \in {"recovery_required", "cancelled", "recovered", "interrupted"} : SetRun(x)
        /\ job' \in {"failed", "cancelled"}
        /\ row' = row \/ (finishChainSafeCancel /\ RecoverySettles)
    BY <1>4 DEF RecoveryLeavesToOperator, RecoveryUndoIncomplete, RecoverySettles, RecoveryStops,
       finishChainSafeCancel, Sorted, Undoing
  <2>2. RecoverySettles => \A t \in Steps : row[t] \in Settled
    <3>1. RecoverySettles => (Sorted /\ "operator" \notin notes) \/ (pc = "undoing" /\ Recovering)
      BY DEF RecoverySettles
    <3>2. Sorted /\ "operator" \notin notes => \A t \in Steps : row[t] \in Settled
      BY <1>1 DEF Sorted, Resolved, Steps
    <3>3. pc = "undoing" /\ Recovering => \A t \in Steps : row[t] \in Settled
      BY DEF Resolved, Undoing
    <3>4. QED
      BY <3>1, <3>2, <3>3
  <2>3. row' = row
    <3>1. CASE finishChainSafeCancel /\ RecoverySettles
      <4>1. row' = [t \in Steps |-> row[t]]
        BY <2>2, <3>1 DEF finishChainSafeCancel, Settled
      <4>2. QED
        BY <1>1, <4>1 DEF RowsTyped
    <3>2. QED
      BY <2>1, <3>1
  <2>4. RowsTyped' /\ MembersTyped'
    BY <1>1, <2>1, <2>3, RunTyped DEF RowsTyped, MembersTyped, members, FinalJob, RunStates, ActiveRun
  <2>5. pc' = "done" /\ completed' = <<>>
    BY <2>1 DEF Done, Forget
  <2>6. completed' \in Seq(Steps)
    BY <2>5
  <2>7. ToSet(completed') = {}
    BY <2>5, <2>6, EmptyFacts
  <2>8. Begins'
    BY <2>1, <2>3, <2>7 DEF Begins, members
  <2>9. \A q \in Recoverers : turn'[q] \in {"waiting", "working"} =>
               turn[q] \in {"waiting", "working"} /\ seen'[q] = seen[q]
    BY <1>1, <2>1 DEF Done
  <2>10. QED
    BY <2>1, <2>3, <2>4, <2>5, <2>8, <2>9, ViewsKept DEF Before, AtHand, Plan, Resolved, Phase2, Undoing
<1>5. CASE RecoveryUndoes
  <2>1. /\ pc' = "undoing" /\ UNCHANGED <<chain, run, job, row, link, members, completed, turn, seen>>
        /\ Sorted /\ "operator" \notin notes
    BY <1>5 DEF RecoveryUndoes, outside
  <2>2. RowsTyped' /\ MembersTyped' /\ Begins'
    BY <1>1, <2>1 DEF RowsTyped, MembersTyped, members, Begins, Worked, Phase2
  <2>3. Resolved'
    BY <1>1, <2>1 DEF Sorted, Resolved, Steps, Undoing
  <2>4. Views'
    BY <2>1, ViewsKept
  <2>5. QED
    BY <2>1, <2>2, <2>3, <2>4 DEF Before, AtHand, Plan, Phase2
<1>6. CASE Restart
  <2>1. /\ pc = "dead" /\ pc' = "done"
        /\ UNCHANGED <<chain, run, row, link, hit, reused, point, image, memory>>
        /\ job' \in {"failed", job} /\ turn' = [turn EXCEPT !["scan"] = "due"]
        /\ child' = [s \in Steps |->
                       IF child[s].job \in ActiveJob /\ child[s].tx \notin ActiveTx
                       THEN [child[s] EXCEPT !.job = "failed"] ELSE child[s]]
    BY <1>6 DEF Restart
  <2>2. ASSUME NEW t \in Steps
        PROVE  /\ child'[t].job = child[t].job \/ (child[t].job \in ActiveJob /\ child'[t].job = "failed")
               /\ child'[t].tx = child[t].tx
    BY <1>1, <2>1 DEF MembersTyped
  <2>3. child' \in [Steps -> [job : ActiveJob \cup FinalJob \cup {"none"},
                              tx : ActiveTx \cup {"none", "success", "failed", "skipped", "cancelled",
                                                  "rolled_back", "interrupted", "recovery_required"}]]
    BY <1>1, <2>1 DEF MembersTyped, FinalJob
  <2>4. RowsTyped' /\ MembersTyped'
    BY <1>1, <2>1, <2>3 DEF RowsTyped, MembersTyped, FinalJob
  <2>5. ASSUME NEW t \in Steps PROVE Reasons(t)' /\ (Worked(t) => Worked(t)')
    <3>1. Reasons(t)
      BY ReasonsBegin
    <3>2. child[t].job # "none" => child'[t].job # "none"
      BY <2>2 DEF ActiveJob
    <3>3. QED
      BY <2>1, <2>2, <3>1, <3>2 DEF Reasons, Worked
  <2>6. completed' = <<>> /\ completed \in Seq(Steps)
    BY <2>1 DEF Memory, Fresh, memory, TypeOK
  <2>7. ToSet(completed') = {}
    BY <2>1, <2>6, EmptyFacts DEF memory
  <2>8. Begins'
    BY <2>4, <2>5, <2>7, ReasonsBeginNext DEF RowsTyped
  <2>9. \A q \in Recoverers : turn'[q] \notin {"waiting", "working"}
    BY <1>1, <2>1 DEF Turns, Undoing
  <2>10. QED
    BY <2>1, <2>4, <2>8, <2>9 DEF Before, AtHand, Plan, Resolved, Views, Phase2, Undoing
<1>7. CASE ScanLists
  <2>1. /\ UNCHANGED <<chain, run, job, row, link, members, memory, pc, seen>>
        /\ \E to \in {"listed", "off"} : turn' = [turn EXCEPT !["scan"] = to]
        /\ turn["scan"] = "due"
    BY <1>7 DEF ScanLists
  <2>2. RowsTyped' /\ MembersTyped' /\ Before' /\ AtHand' /\ Plan' /\ Begins'
    BY <1>1, <2>1 DEF memory, members, RowsTyped, MembersTyped, Before, AtHand, Plan, Actionable, Begins,
       Ahead, Worked
  <2>3. \A q \in Recoverers : turn'[q] \in {"waiting", "working"} => turn[q] = turn'[q]
    BY <1>1, <2>1
  <2>4. Resolved'
    BY <2>1, <2>3 DEF Resolved, Recovering, memory
  <2>5. QED
    BY <2>1, <2>2, <2>3, <2>4, ViewsKept
<1>8. QED
    BY <1>2, <1>3, <1>4, <1>5, <1>6, <1>7 DEF RecoveryStep

\* A start, a cancel from outside, and a crash.
LEMMA OutsideStage ==
    ASSUME TypeOK, SeenTyped, Memory, Turns, Before, AtHand, Plan, Begins, Views, Resolved, OutsideStep
    PROVE  /\ RowsTyped' /\ MembersTyped' /\ Before' /\ AtHand' /\ Plan' /\ Begins'
           /\ Views' /\ Resolved' /\ row' = row
<1>1. /\ RowsTyped /\ MembersTyped /\ turn \in [Recoverers -> {"off", "due", "listed", "waiting", "working"}]
      /\ completed \in Seq(Steps)
    BY TypesOfTyped DEF TypeOK
<1>2. /\ UNCHANGED <<chain, row, link, members>>
      /\ job' \in {job, "queued", "cancelled", "cancel_requested"}
      /\ run' = run \/ SetRun("running") \/ run' = [status |-> "recovery_required", orphaned |-> TRUE]
      /\ UNCHANGED <<pc, memory>> \/ (pc = "idle" /\ pc' = "queued" /\ UNCHANGED memory)
           \/ (pc' = "dead" /\ completed' = <<>>)
    BY DEF OutsideStep, SignalCancel, OrphanCancel, StartChain, CancelQueuedChain, RequestCancel, Crash,
       rows, Forget
<1>3. run' \in [status : RunStates, orphaned : BOOLEAN]
  <2>1. CASE SetRun("running")
    BY <1>1, <2>1, RunTyped DEF RunStates, ActiveRun
  <2>2. CASE run' = [status |-> "recovery_required", orphaned |-> TRUE]
    <3>1. TRUE \in BOOLEAN /\ "recovery_required" \in RunStates
      BY DEF RunStates, ActiveRun
    <3>2. QED
      BY <2>2, <3>1, RunRecord
  <2>3. QED
    BY <1>1, <1>2, <2>1, <2>2 DEF RowsTyped
<1>4. RowsTyped' /\ MembersTyped'
    BY <1>1, <1>2, <1>3 DEF RowsTyped, MembersTyped, members, FinalJob, ActiveJob
<1>5. Before' /\ AtHand' /\ Plan'
    BY <1>2 DEF members, memory, Before, AtHand, Plan, Actionable, Ahead, Phase2
<1>6. Begins'
  <2>1. ToSet(completed') \subseteq ToSet(completed)
    <3>1. CASE completed' = <<>>
      <4>1. completed' \in Seq(Steps)
        BY <3>1
      <4>2. QED
        BY <3>1, <4>1, EmptyFacts
    <3>2. QED
      BY <1>2, <3>1 DEF memory
  <2>2. QED
    BY <1>2, <2>1 DEF Begins, Worked, members, memory, Phase2
<1>7. \A q \in Recoverers : turn'[q] \in {"waiting", "working"} =>
               turn[q] = turn'[q] /\ seen'[q] = seen[q]
  <2>1. CASE SignalCancel \/ StartChain \/ CancelQueuedChain \/ RequestCancel
    BY <2>1 DEF SignalCancel, StartChain, CancelQueuedChain, RequestCancel, outside
  <2>2. CASE OrphanCancel
    BY <1>1, <2>2 DEF OrphanCancel, Recoverers
  <2>3. CASE Crash
    BY <2>3 DEF Crash
  <2>4. QED
    BY <2>1, <2>2, <2>3 DEF OutsideStep
<1>8. Resolved'
    BY <1>2, <1>7 DEF Resolved, Recovering, memory, Undoing
<1>9. QED
    BY <1>2, <1>4, <1>5, <1>6, <1>7, <1>8, ViewsKept

\* What is outside of the run's rows keeps its type.
LEMMA OutsideTyped ==
    ASSUME TypeOK, SeenTyped, [Next]_vars
    PROVE  /\ chain' \in Definitions /\ reserved' \in BOOLEAN /\ cancelling' \in BOOLEAN
           /\ crashes' \in 0..MaxCrashes
           /\ turn' \in [Recoverers -> {"off", "due", "listed", "waiting", "working"}]
           /\ DOMAIN seen' = Recoverers /\ SeenTyped'
<1>1. /\ chain \in Definitions /\ reserved \in BOOLEAN /\ cancelling \in BOOLEAN
      /\ crashes \in 0..MaxCrashes /\ MaxCrashes \in Nat
      /\ turn \in [Recoverers -> {"off", "due", "listed", "waiting", "working"}]
      /\ DOMAIN seen = Recoverers /\ RowsTyped
    BY TypesOfTyped, ChainAssumption DEF TypeOK
<1> DEFINE Typed ==
           /\ chain' \in Definitions /\ reserved' \in BOOLEAN /\ cancelling' \in BOOLEAN
           /\ crashes' \in 0..MaxCrashes
           /\ turn' \in [Recoverers -> {"off", "due", "listed", "waiting", "working"}]
           /\ DOMAIN seen' = Recoverers /\ SeenTyped'
<1>2. CASE UNCHANGED <<chain, reserved, outside>>
    BY <1>1, <1>2 DEF outside, SeenTyped
<1>3. ASSUME NEW s \in Steps, \/ ExecutorStep(s) \/ SortStep(s) \/ UndoStep(s)
                              \/ ChildStep(s) \/ ChildCancelled(s) \/ UserRollsBack(s)
      PROVE  Typed
    BY <1>2, <1>3, ExecutorFrame, SortFrame, UndoFrame, ChildFrame DEF SortTail
<1>4. CASE RunStep
  <2>1. reserved' \in {reserved, FALSE}
    BY <1>4 DEF RunStep, ClaimChain, CancelledInQueue, CancelSafely, finishChainSafeCancel, AllChecked,
       NothingToDo, Planned, NextStep, StopChain, BeginUndo, EndRun, CloseJob
  <2>2. QED
    BY <1>1, <1>4, <2>1, RunFrame DEF outside, SeenTyped
<1>5. CASE RecoveryStep
  <2>1. Nothing \in [row : [Steps -> RowStates], cancel : BOOLEAN]
    BY DEF Nothing, RowStates, Settled
  <2>2. ASSUME NEW r \in Recoverers, RecovererReads(r) PROVE Typed
    <3>1. run.orphaned \in BOOLEAN /\ row \in [Steps -> RowStates]
      BY <1>1 DEF RowsTyped
    <3>2. [row |-> row, cancel |-> run.orphaned] \in [row : [Steps -> RowStates], cancel : BOOLEAN]
      BY <3>1
    <3>3. /\ turn' = [turn EXCEPT ![r] = "waiting"] /\ UNCHANGED <<chain, reserved, cancelling, crashes>>
          /\ seen' = [seen EXCEPT ![r] = [row |-> row, cancel |-> run.orphaned]]
      BY <2>2 DEF RecovererReads, Turn
    <3>4. SeenTyped'
      BY <3>2, <3>3 DEF SeenTyped
    <3>5. QED
      BY <1>1, <3>3, <3>4
  <2>3. ASSUME NEW r \in Recoverers, RecovererEnters(r) \/ RecoveryCannotStart(r) PROVE Typed
    <3>1. /\ \E to \in {"working", "off"} : turn' = [turn EXCEPT ![r] = to]
          /\ UNCHANGED <<chain, reserved, cancelling, crashes>>
          /\ seen' = seen \/ seen' = [seen EXCEPT ![r] = Nothing]
      BY <2>3 DEF RecovererEnters, BeginRecovery, RecoveryCannotStart, Turn
    <3>2. SeenTyped'
      BY <2>1, <3>1 DEF SeenTyped
    <3>3. QED
      BY <1>1, <3>1, <3>2
  <2>4. CASE RecoveryLeavesToOperator \/ RecoveryUndoIncomplete \/ RecoverySettles
    <3>1. Done /\ chain' = chain /\ reserved' \in {reserved, FALSE}
      BY <2>4 DEF RecoveryLeavesToOperator, RecoveryUndoIncomplete, RecoverySettles, RecoveryStops,
         finishChainSafeCancel
    <3>2. SeenTyped'
      BY <2>1, <3>1 DEF Done, SeenTyped
    <3>3. QED
      BY <1>1, <3>1, <3>2 DEF Done
  <2>5. CASE RecoveryUndoes
    BY <1>2, <2>5 DEF RecoveryUndoes
  <2>6. CASE Restart \/ ScanLists
    BY <1>1, <2>6 DEF Restart, ScanLists, Turn, SeenTyped
  <2>7. QED
    BY <1>5, <2>2, <2>3, <2>4, <2>5, <2>6 DEF RecoveryStep
<1>6. CASE OutsideStep
  <2>1. CASE SignalCancel \/ CancelQueuedChain \/ RequestCancel \/ StartChain
    BY <1>1, <2>1 DEF SignalCancel, CancelQueuedChain, RequestCancel, StartChain, outside, SeenTyped
  <2>2. CASE OrphanCancel
    BY <1>1, <2>2 DEF OrphanCancel, SeenTyped
  <2>3. CASE Crash
    <3>1. Nothing \in [row : [Steps -> RowStates], cancel : BOOLEAN]
      BY DEF Nothing, RowStates, Settled
    <3>2. SeenTyped'
      BY <2>3, <3>1 DEF Crash, SeenTyped
    <3>3. crashes' \in 0..MaxCrashes
      BY <1>1, <2>3 DEF Crash
    <3>4. /\ turn' = [r \in Recoverers |-> "off"] /\ reserved' = FALSE /\ cancelling' = FALSE
          /\ chain' = chain
          /\ DOMAIN seen' = Recoverers
      BY <2>3 DEF Crash
    <3>5. QED
      BY <1>1, <3>2, <3>3, <3>4
  <2>4. QED
    BY <1>6, <2>1, <2>2, <2>3 DEF OutsideStep
<1>7. CASE UNCHANGED vars
    BY <1>2, <1>7 DEF vars
<1>8. QED
  <2>1. \A s \in ToSet(completed) : s \in Steps
    BY DEF TypeOK, ToSet
  <2>2. QED
    BY <1>3, <1>4, <1>5, <1>6, <1>7, <2>1, NextSplits

-----------------------------------------------------------------------------
\* ChainInv is inductive.
LEMMA NextChain ==
    ASSUME ChainInv, [Next]_vars
    PROVE  ChainInv'
<1> USE DEF ChainInv
<1>1. MemoryTyped' /\ Memory' /\ Turns'
    BY MemoryStays, TurnsStay
<1>2. \A s \in ToSet(completed) : s \in Steps
    BY DEF TypeOK, ToSet
<1> DEFINE Stays ==
        /\ RowsTyped' /\ MembersTyped' /\ Before' /\ AtHand' /\ Plan' /\ Begins' /\ Views' /\ Resolved'
<1>3. ASSUME pc \in {"queued", "ending", "undoing", "closing"} \cup Phase1 \cup Phase2,
             pc = "undoing" => ~Recovering, UNCHANGED turn,
             pc' \in {"done", "ending", "undoing", "closing"} \cup Phase1 \cup Phase2
      PROVE  Views' /\ Resolved'
  <2>1. \A r \in Recoverers : turn[r] = "off"
    <3>1. pc # "done" /\ (Recovering => pc \notin {"sorting"} \cup Undoing)
      BY <1>3 DEF Phase1, Phase2, Undoing
    <3>2. QED
      BY <3>1 DEF Turns
  <2>2. ~Recovering' /\ pc' # "sorting"
    BY <1>3, <2>1 DEF Recovering, Phase1, Phase2
  <2>3. QED
    BY <1>3, <2>1, <2>2 DEF Views, Resolved
<1>4. ASSUME NEW s \in Steps, ExecutorStep(s) PROVE Stays
  <2>1. /\ pc \in Phase1 \cup Phase2 /\ pc' \in Phase1 \cup Phase2 \cup {"ending", "closing"} /\ turn' = turn
        /\ pc # "undoing"
    BY <1>4, ExecutorFrame DEF outside, Phase1, Phase2
  <2>2. QED
    BY <1>3, <1>4, <2>1, ExecutorStage
<1>5. ASSUME RunStep PROVE Stays
  <2>1. turn' = turn
    BY <1>5, RunFrame DEF outside
  <2>2. QED
    BY <1>3, <1>5, <2>1, RunStage, RunFrame
<1>6. ASSUME NEW s \in Steps, \/ UndoStep(s) \/ ChildStep(s) \/ ChildCancelled(s) \/ UserRollsBack(s)
      PROVE  Stays
  <2>1. /\ UNCHANGED <<row, link, turn, seen>>
        /\ UNCHANGED <<pc, at, notes>> \/ (pc \in Undoing /\ pc' \in Undoing)
    BY <1>6, UndoFrame, ChildFrame DEF rows, outside, memory
  <2>2. Views' /\ Resolved'
    BY <2>1, ViewsKept DEF Resolved, Recovering, Undoing
  <2>3. QED
    BY <1>6, <2>2, UndoStage, ChildStage
<1>7. ASSUME NEW s \in Steps, SortStep(s) PROVE Stays
    BY <1>7, SortStage
<1>8. ASSUME RecoveryStep \/ OutsideStep PROVE Stays
    BY <1>8, RecoveryStage, OutsideStage
<1>9. ASSUME UNCHANGED vars PROVE Stays
  <2>1. UNCHANGED <<chain, run, job, row, link, child, hit, reused, point, image, pc, at, found, completed,
                    notes, turn, seen>>
    BY <1>9 DEF vars, rows, members, memory, outside
  <2>2. RowsTyped' /\ MembersTyped'
    BY <2>1, TypesOfTyped DEF RowsTyped, MembersTyped
  <2>3. Before' /\ AtHand' /\ Plan' /\ Begins'
    BY <2>1 DEF Before, AtHand, Plan, Begins, Ahead, Worked, Actionable
  <2>4. Views' /\ Resolved'
    BY <2>1, ViewsKept DEF Resolved, Recovering
  <2>5. QED
    BY <2>2, <2>3, <2>4
<1>10. Stays
    BY <1>2, <1>4, <1>5, <1>6, <1>7, <1>8, <1>9, NextSplits
<1>11. TypeOK'
  <2>1. row' \in [Steps -> chainRunStepTerminal
                           \cup {"none", "checking", "restarting", "recreating", "updating"}]
    BY <1>10 DEF RowsTyped, RowStates, Settled
  <2>2. QED
    BY <1>1, <1>10, <2>1, OutsideTyped DEF TypeOK, MemoryTyped, RowsTyped, MembersTyped, RunStates
<1>12. QED
    BY <1>1, <1>10, <1>11, OutsideTyped

\* Members are worked on in order: whatever is in flight, the earlier ones are
\* settled.
LEMMA InOrder ==
    ASSUME ChainInv, StepsInOrder, [Next]_vars
    PROVE  StepsInOrder'
<1> USE DEF ChainInv
<1>1. ASSUME \A t \in Steps : InFlight(t)' => InFlight(t),
             \A t \in Steps : row[t] \in chainRunStepTerminal => row'[t] \in chainRunStepTerminal
      PROVE  StepsInOrder'
    BY <1>1 DEF StepsInOrder
<1>2. \A s \in ToSet(completed) : s \in Steps
    BY DEF TypeOK, ToSet
<1>3. ASSUME NEW s \in Steps, ExecutorStep(s) PROVE StepsInOrder'
  <2>1. CASE pc \in Phase1
    <3>1. \A t \in Steps : child[t].job = "none" /\ child' = child /\ row'[t] \in Unbegun
      BY <1>3, <2>1, CheckingRows DEF Before, Ahead, Phase1
    <3>2. \A t \in Steps : ~InFlight(t)'
      BY <3>1 DEF InFlight, Unbegun, ActiveJob
    <3>3. QED
      BY <3>2 DEF StepsInOrder
  <2>2. CASE pc \in Phase2
    <3>1. ExecutorMoved(s) /\ s = at /\ pc # "judging" /\ N \in Nat
      BY <1>3, <2>2, ExecutorMoves, ExecutorFrame, ExecutorNotJudging, ChainAssumption
    <3>2. ASSUME NEW u \in Steps, NEW t \in Steps, InFlight(u)', t < u
          PROVE  row'[t] \in chainRunStepTerminal
      <4>1. u <= at
        <5>1. CASE u = s
          BY <3>1, <5>1 DEF Steps
        <5>2. CASE u # s
          <6>1. InFlight(u)
            BY <3>1, <3>2, <5>2 DEF ExecutorMoved, Others, SameAt, InFlight
          <6>2. ~(u > at)
            BY <2>2, <6>1 DEF Before, Ahead, InFlight, ActiveJob
          <6>3. QED
            BY <3>1, <6>2 DEF Steps
        <5>3. QED
          BY <5>1, <5>2
      <4>2. t < at /\ t # s
        BY <3>1, <3>2, <4>1 DEF Steps
      <4>3. row'[t] = row[t] /\ row[t] \in chainRunStepTerminal
        BY <2>2, <3>1, <4>2 DEF ExecutorMoved, Others, SameAt, Before
      <4>4. QED
        BY <4>3
    <3>3. QED
      BY <3>2 DEF StepsInOrder
  <2>3. QED
    BY <1>3, <2>1, <2>2, ExecutorFrame
<1>4. CASE RunStep
  <2>1. RowsTyped /\ UNCHANGED members
    BY <1>4, TypesOfTyped, RunFrame
  <2>2. CASE CancelSafely
    BY <1>1, <2>1, <2>2 DEF CancelSafely, finishChainSafeCancel, RowsTyped, InFlight, members,
       chainRunStepTerminal
  <2>3. CASE NothingToDo
    BY <1>1, <2>1, <2>3 DEF NothingToDo, InFlight, members, chainRunStepTerminal
  <2>4. CASE row' = row
    BY <1>1, <2>1, <2>4 DEF InFlight, members
  <2>5. QED
    BY <1>4, <2>2, <2>3, <2>4 DEF RunStep, ClaimChain, CancelledInQueue, AllChecked, Planned, NextStep,
       StopChain, BeginUndo, EndRun, CloseJob, rows
<1>5. ASSUME NEW s \in Steps, UndoStep(s) PROVE StepsInOrder'
  <2>1. row' = row /\ child' = child
    BY <1>5, UndoFrame DEF rows
  <2>2. QED
    BY <1>1, <2>1 DEF InFlight
<1>6. ASSUME NEW s \in Steps, ChildStep(s) \/ ChildCancelled(s) \/ UserRollsBack(s) PROVE StepsInOrder'
  <2>1. ChildMoved(s)
    BY <1>6, ChildMoves
  <2>2. QED
    BY <1>1, <2>1 DEF ChildMoved, Others, SameAt, InFlight
<1>7. ASSUME NEW s \in Steps, SortStep(s) PROVE StepsInOrder'
  <2>1. SortMoved(s) /\ child' = child
    BY <1>7, SortViews, SortFrame DEF SortTail
  <2>2. QED
    BY <1>1, <2>1 DEF SortMoved, InFlight, chainRunStepTerminal
<1>8. CASE RecoveryStep \/ OutsideStep
  <2>1. row' = row
    BY <1>8, RecoveryStage, OutsideStage
  <2>2. ASSUME NEW t \in Steps PROVE child'[t].job \in ActiveJob => child[t].job \in ActiveJob
    <3>1. MembersTyped
      BY TypesOfTyped
    <3>2. CASE Restart
      BY <3>1, <3>2 DEF Restart, MembersTyped, ActiveJob
    <3>3. CASE child' = child
      BY <3>3
    <3>4. QED
      BY <1>8, <3>2, <3>3 DEF RecoveryStep, OutsideStep, RecovererReads, RecovererEnters, BeginRecovery,
         RecoveryCannotStart, RecoveryLeavesToOperator, RecoveryUndoes, RecoveryUndoIncomplete,
         RecoverySettles, ScanLists, SignalCancel, OrphanCancel, StartChain, CancelQueuedChain,
         RequestCancel, Crash, members
  <2>3. QED
    BY <1>1, <2>1, <2>2 DEF InFlight
<1>9. CASE UNCHANGED vars
  <2>1. row' = row /\ child' = child
    BY <1>9 DEF vars, rows, members
  <2>2. QED
    BY <1>1, <2>1 DEF InFlight
<1>10. QED
    BY <1>2, <1>3, <1>4, <1>5, <1>6, <1>7, <1>8, <1>9, NextSplits

\* OneAtATime (UpdateChain): for any number of members, any definitions and any
\* number of crashes, cancels and recoveries, whatever is in flight all earlier
\* members are settled, and one recoverer works at a time.
THEOREM MembersOneAtATime == Spec => []OneAtATime
<1> DEFINE Inv == ChainInv /\ StepsInOrder
<1>1. Init => Inv
  <2>1. Init => StepsInOrder
    BY DEF Init, StepsInOrder, InFlight, ActiveJob
  <2>2. QED
    BY <2>1, InitChain
<1>2. Inv /\ [Next]_vars => Inv'
    BY NextChain, InOrder
<1>3. Inv => OneAtATime
    BY DEF ChainInv, Turns, OneAtATime
<1>4. QED
    BY <1>1, <1>2, <1>3, PTL DEF Spec

\* Begun work only goes on; that a member's work begins is the executor's doing.
LEMMA PlanFirst ==
    ASSUME ChainInv, [Next]_vars, NEW u \in Steps, ~Begun(u), Begun(u)'
    PROVE  /\ \A t \in Steps : row[t] # "none"
           /\ Actionable # {}
           /\ chain.auto => Actionable \cap chain.red = {}
<1> USE DEF ChainInv
<1> DEFINE Planned1 == /\ \A t \in Steps : row[t] # "none"
                       /\ Actionable # {}
                       /\ chain.auto => Actionable \cap chain.red = {}
<1>1. \A s \in ToSet(completed) : s \in Steps /\ Worked(s)
    BY DEF TypeOK, ToSet, Begins
<1>2. ~Worked(u) /\ image[u] = "base"
    BY DEF Worked, Begun
<1>3. ASSUME row'[u] = row[u], image'[u] = image[u], point'[u] = point[u],
             child'[u].job # "none" => child[u].job # "none"
      PROVE  FALSE
    BY <1>2, <1>3 DEF Begun, Worked
<1>4. ASSUME NEW s \in Steps, ExecutorStep(s) PROVE Planned1
  <2>1. CASE pc \in Phase1
    BY <1>2, <1>4, <2>1, CheckingRows DEF Begun, Before, Ahead, Phase1, Unbegun
  <2>2. CASE pc \in Phase2
    <3>1. ASSUME NEW t \in Steps PROVE row[t] # "none"
      <4>1. s = at /\ pc # "judging" /\ (t < at \/ t = at \/ t > at)
        BY <1>4, ExecutorFrame, ExecutorNotJudging DEF Steps
      <4>2. CASE t # at
        BY <2>2, <4>1, <4>2 DEF Before, chainRunStepTerminal
      <4>3. CASE t = at
        BY <2>2, <4>1, <4>3 DEF Before, AtHand, Phase2
      <4>4. QED
        BY <4>2, <4>3
    <3>2. QED
      BY <2>2, <3>1 DEF Plan
  <2>3. QED
    BY <1>4, <2>1, <2>2, ExecutorFrame
<1>5. ASSUME RunStep PROVE FALSE
  <2>1. RowsTyped /\ UNCHANGED members
    BY <1>5, TypesOfTyped, RunFrame
  <2>2. row' = row \/ row'[u] \in {row[u], "cancelled", "skipped_snoozed", "skipped_current"}
    BY <1>5 DEF RunStep, ClaimChain, CancelledInQueue, CancelSafely, finishChainSafeCancel, AllChecked,
       NothingToDo, Planned, NextStep, StopChain, BeginUndo, EndRun, CloseJob, rows
  <2>3. QED
    BY <1>2, <2>1, <2>2 DEF Begun, Worked, members
<1>6. ASSUME NEW s \in ToSet(completed), UndoStep(s) PROVE FALSE
  <2>1. u # s /\ UNCHANGED <<row, child, point>>
    BY <1>1, <1>2, <1>6, UndoFrame DEF rows
  <2>2. image'[u] = image[u]
    BY <2>1, <1>6 DEF UndoStep, SkipRestarted, UndoRemoves, UndoSucceeds, UndoFails, SetImage, members, TypeOK
  <2>3. QED
    BY <1>3, <2>1, <2>2
<1>7. ASSUME NEW s \in Steps, ChildStep(s) \/ ChildCancelled(s) \/ UserRollsBack(s) PROVE FALSE
  <2>1. ChildMoved(s)
    BY <1>7, ChildMoves
  <2>2. u # s
    BY <1>2, <2>1 DEF ChildMoved
  <2>3. QED
    BY <1>3, <2>1, <2>2 DEF ChildMoved, Others, SameAt
<1>8. ASSUME NEW s \in Steps, SortStep(s) PROVE FALSE
  <2>1. /\ SortMoved(s) /\ child' = child /\ point' = point
        /\ s \notin link => SameKind(View[s], row[s])
        /\ Reasons(s)
    BY <1>8, SortViews, SortFrame, ReasonsBegin DEF SortTail
  <2>2. CASE u # s
    BY <1>3, <2>1, <2>2 DEF SortMoved
  <2>3. CASE u = s
    <3>1. s \notin link /\ point[s] = "none"
      BY <1>2, <2>1, <2>3 DEF Worked, Reasons
    <3>2. View[s] # "restarting"
      BY <1>2, <2>1, <2>3, <3>1 DEF SameKind, Worked
    <3>3. row'[s] \in {row[s], "interrupted"}
      BY <2>1, <3>1, <3>2 DEF SortMoved
    <3>4. image'[s] = image[s]
      BY <1>2, <2>1, <2>3, <3>1, <3>2, <3>3 DEF SortMoved, SameKind, Worked, Reasons
    <3>5. QED
      BY <1>2, <2>1, <2>3, <3>3, <3>4 DEF Begun, Worked
  <2>4. QED
    BY <2>2, <2>3
<1>9. ASSUME RecoveryStep \/ OutsideStep PROVE FALSE
  <2>1. row' = row
    BY <1>9, RecoveryStage, OutsideStage
  <2>2. CASE Restart
    <3>1. image' = image /\ point' = point /\ (child'[u].job # "none" => child[u].job # "none")
      BY <2>2 DEF Restart, ActiveJob
    <3>2. QED
      BY <1>3, <2>1, <3>1
  <2>3. CASE UNCHANGED members
    BY <1>3, <2>1, <2>3 DEF members
  <2>4. QED
    BY <1>9, <2>2, <2>3 DEF RecoveryStep, OutsideStep, RecovererReads, RecovererEnters, BeginRecovery,
       RecoveryCannotStart, RecoveryLeavesToOperator, RecoveryUndoes, RecoveryUndoIncomplete,
       RecoverySettles, ScanLists, SignalCancel, OrphanCancel, StartChain, CancelQueuedChain,
       RequestCancel, Crash
<1>10. ASSUME UNCHANGED vars PROVE FALSE
    BY <1>3, <1>10 DEF vars, rows, members
<1>11. QED
    BY <1>4, <1>5, <1>6, <1>7, <1>8, <1>9, <1>10, NextSplits

\* NothingBeforePlan (UpdateChain): no member's work begins before every member
\* was checked, nor while an automatic plan holds an actionable one back; not by
\* the executor, nor by a recoverer that works from stale rows.
THEOREM PlanComesFirst == Spec => NothingBeforePlan
<1>1. ChainInv /\ [Next]_vars =>
        [\A s \in Steps : ~Begun(s) /\ Begun(s)' =>
             /\ \A t \in Steps : row[t] # "none"
             /\ Actionable # {}
             /\ chain.auto => Actionable \cap chain.red = {}]_vars
    BY PlanFirst
<1>2. QED
    BY <1>1, InitChain, NextChain, PTL DEF Spec, NothingBeforePlan

-----------------------------------------------------------------------------
(* What settled runs say.  TruthInv adds to ChainInv what the rows say of    *)
(* child updates and of the books of completed members, and that of two      *)
(* recoverers only the one that worked last may have read a row that the     *)
(* other has settled since.                                                  *)

\* Until its end a run is active.
UnderWay == {"queued", "ending", "sorting"} \cup Phase1 \cup Phase2 \cup Undoing
Lives ==
    /\ pc = "idle" => run.status = "none"
    /\ pc \in UnderWay => run.status \in ActiveRun

\* Job and transaction of a child update agree, and a child is active only
\* while its chain waits for it, or after a crash until the scan looks at it.
Agree(c) ==
    /\ c.job = "success" <=> c.tx = "success"
    /\ c.job \in ActiveJob => \/ c.job = "queued" /\ c.tx = "none"
                              \/ c.job = "running" /\ c.tx \in ActiveTx
    /\ c.tx \in ActiveTx => c.job = "running"
Children == \A s \in Steps :
    /\ Agree(child[s])
    /\ child[s].job \in ActiveJob =>
          (pc \in {"linking", "waiting"} /\ s = at) \/ pc = "dead" \/ turn["scan"] = "due"
    /\ child[s].job = "queued" => (pc \in {"linking", "waiting"} /\ s = at) \/ pc = "dead"
    /\ s \in hit => child[s].job # "none"

\* What a row says of its child.
Told == {"success", "failed", "rolled_back", "restarted", "recreated", "skipped_current",
         "skipped_snoozed", "skipped_preflight", "blocked_preflight"}
Lifecycle == {"restarting", "restarted", "recreating", "recreated", "rolled_back"}
RowsOfChildren == \A s \in Steps :
    /\ row[s] \in Told => child[s].job \notin ActiveJob
    /\ row[s] = "success" => child[s].tx = "success"
    /\ row[s] \in Lifecycle /\ s \notin link => child[s].job = "none"

\* The executor's books.
Books ==
    /\ pc \in {"linking", "waiting"} /\ child[at].tx = "success" => image[at] = "new"
    /\ pc \in Phase2 \cup {"ending"} => \A s \in Steps :
          /\ row[s] \in {"success", "recreated"} => s \in ToSet(completed)
          /\ row[s] = "success" => image[s] = "new"
          /\ row[s] = "failed" /\ s \in reused \cap hit => "force" \in notes
          /\ chain.stop /\ err = "none" => row[s] \notin {"failed", "blocked_preflight"}
    /\ pc = "ending" /\ err = "none" => \A s \in Steps : row[s] \in chainRunStepTerminal
    /\ pc \in Undoing /\ ~Recovering => err \in Kinds
    /\ pc \in Undoing =>
          \/ "incomplete" \in notes
          \/ \A s \in Completed : s \in ToSet(completed) \/ image[s] = "base"

\* Who cannot come to work any more in this process, or is at work.
Other(r) == IF r = "scan" THEN "orphan" ELSE "scan"
Over(r) ==
    \/ turn[r] = "working"
    \/ turn[r] = "off" /\ (r = "orphan" => ~cancelling /\ CancelSpent)
UpToDate ==
    \A r \in Recoverers, s \in Steps :
        turn[r] = "waiting" \/ (turn[r] = "working" /\ pc = "sorting" /\ at <= s)
        => \/ row[s] = seen[r].row[s]
           \/ Over(Other(r)) /\ seen[r].row[s] \notin Settled

\* The recovery's books.
Sorts ==
    pc = "sorting" /\ "operator" \notin notes => \A t \in Steps : t < at =>
        /\ row[t] \in {"success", "recreated"} => t \in ToSet(completed)
        /\ row[t] = "rolled_back" => "rolled" \in notes

TruthInv ==
    /\ Lives /\ Children /\ RowsOfChildren /\ Books /\ UpToDate /\ Sorts
    /\ SettledRunsAreTrue

\* A run that is under way stays active, until it ends.
LEMMA LivesStay ==
    ASSUME TypeOK, Turns, Lives, [Next]_vars
    PROVE  Lives'
<1> USE DEF UnderWay, Phase1, Phase2, Undoing
<1>1. ASSUME run' = run, pc' = pc \/ (pc \in UnderWay /\ pc' # "idle") \/ pc' \notin UnderWay \cup {"idle"}
      PROVE  Lives'
    BY <1>1 DEF Lives
<1>2. ASSUME pc' \in {"done", "closing"} PROVE Lives'
    BY <1>2 DEF Lives
<1>3. ASSUME pc' = pc, pc # "idle", run'.status \in ActiveRun PROVE Lives'
    BY <1>3 DEF Lives
<1>4. ASSUME NEW s \in Steps, ExecutorStep(s) PROVE Lives'
  <2>1. /\ pc \in UnderWay /\ pc' \in UnderWay \cup {"closing"} /\ (run' = run \/ pc' = "closing")
    <3>1. CASE PlanBlocks(s)
      BY <3>1 DEF PlanBlocks
    <3>2. CASE ~PlanBlocks(s)
      <4>1. run' = run
        BY <1>4, <3>2 DEF ExecutorStep, CheckFinds, CheckFails, PlanAllows, SkipSnoozed, SkipCurrent,
           BeginLifecycle, LifecycleRefused, CannotQueue, StepFailed, RestartFails, RestartPreservesStopped,
           RestartStops, RestartSucceeds, RecreateRemoves, RecreateSucceeds, RecreateHangs, EnqueueStep,
           LinkStep, StepSucceeds, StepHeld, rows
      <4>2. QED
        BY <1>4, <4>1, ExecutorFrame
    <3>3. QED
      BY <3>1, <3>2
  <2>2. QED
    BY <1>1, <1>2, <2>1
<1>5. ASSUME NEW s, UndoStep(s) PROVE Lives'
    BY <1>1, <1>5, UndoFrame DEF rows
<1>6. ASSUME NEW s \in Steps, SortStep(s) \/ ChildStep(s) \/ ChildCancelled(s) \/ UserRollsBack(s)
      PROVE  Lives'
    BY <1>1, <1>6, SortFrame, ChildFrame DEF rows, SortTail
<1>7. ASSUME RunStep PROVE Lives'
  <2>1. CASE CancelledInQueue \/ CancelSafely \/ NothingToDo \/ EndRun \/ CloseJob
    BY <1>2, <2>1 DEF CancelledInQueue, CancelSafely, NothingToDo, EndRun, CloseJob
  <2>2. CASE ClaimChain \/ AllChecked \/ Planned \/ NextStep \/ StopChain \/ BeginUndo
    BY <1>1, <2>2 DEF ClaimChain, AllChecked, Planned, NextStep, StopChain, BeginUndo, rows
  <2>3. QED
    BY <1>7, <2>1, <2>2 DEF RunStep
<1>8. ASSUME RecoveryStep PROVE Lives'
  <2>1. CASE \E r \in Recoverers : RecovererEnters(r)
    BY <2>1 DEF RecovererEnters, BeginRecovery, Lives, ActiveRun
  <2>2. ASSUME NEW r \in Recoverers, RecoveryCannotStart(r) PROVE Lives'
    <3>1. /\ turn[r] # "off" /\ pc' = pc
          /\ run' = [status |-> "recovery_required", orphaned |-> FALSE]
      BY <2>2 DEF RecoveryCannotStart
    <3>2. pc # "idle"
      BY <3>1 DEF Turns
    <3>3. QED
      BY <1>3, <3>1, <3>2 DEF ActiveRun
  <2>3. CASE RecoveryLeavesToOperator \/ RecoveryUndoIncomplete \/ RecoverySettles
    BY <1>2, <2>3 DEF RecoveryLeavesToOperator, RecoveryUndoIncomplete, RecoverySettles, RecoveryStops,
       Done
  <2>4. CASE (\E r \in Recoverers : RecovererReads(r)) \/ RecoveryUndoes \/ Restart \/ ScanLists
    BY <1>1, <2>4 DEF RecovererReads, RecoveryUndoes, Sorted, Restart, ScanLists, rows
  <2>5. QED
    BY <1>8, <2>1, <2>2, <2>3, <2>4 DEF RecoveryStep
<1>9. ASSUME OutsideStep PROVE Lives'
  <2>1. CASE SignalCancel \/ CancelQueuedChain \/ RequestCancel \/ Crash
    BY <1>1, <2>1 DEF SignalCancel, CancelQueuedChain, RequestCancel, Crash, rows
  <2>2. CASE OrphanCancel
    <3>1. pc' = pc /\ run' = [status |-> "recovery_required", orphaned |-> TRUE] /\ cancelling
      BY <2>2 DEF OrphanCancel
    <3>2. pc # "idle"
      BY <3>1 DEF Turns, CancelSpent
    <3>3. QED
      BY <1>3, <3>1, <3>2 DEF ActiveRun
  <2>3. CASE StartChain
    BY <2>3 DEF StartChain, SetRun, Lives, ActiveRun, TypeOK
  <2>4. QED
    BY <1>9, <2>1, <2>2, <2>3 DEF OutsideStep
<1>10. CASE UNCHANGED vars
    BY <1>1, <1>10 DEF vars, rows
<1>11. QED
  <2>1. \A s \in ToSet(completed) : UndoStep(s) => Lives'
    BY <1>5
  <2>2. QED
    BY <1>4, <1>6, <1>7, <1>8, <1>9, <1>10, <2>1, NextSplits

\* What a step of the executor on member s tells of it.
ExecutorTold(s) ==
    /\ UNCHANGED <<run, hit>> /\ notes \subseteq notes'
    /\ completed' = completed \/ completed' = Append(completed, s)
    /\ \/ child' = child
       \/ /\ pc = "stepping" /\ pc' = "linking" /\ UNCHANGED <<row, image>>
          /\ child' = [child EXCEPT ![s] = [job |-> "queued", tx |-> "none"]]
    /\ pc = "linking" => pc' = "waiting" /\ row'[s] = "updating" /\ UNCHANGED <<image, reused>>
    /\ pc = "waiting" => /\ pc' = "judging" /\ child[s].job \notin ActiveJob
                         /\ UNCHANGED <<image, reused>>
    /\ pc' = "linking" => pc = "stepping" /\ child'[s].tx = "none"
    /\ pc' = "waiting" => pc = "linking"
    /\ row'[s] = "success" => /\ pc = "waiting" /\ child[s].job = "success"
                              /\ completed' = Append(completed, s)
    /\ row'[s] = "recreated" => completed' = Append(completed, s)
    /\ row'[s] \in Lifecycle => child' = child /\ child[s].job = "none"
    /\ row'[s] \in {"failed", "blocked_preflight"} => err' # "none" /\ pc' = "judging"
    /\ row'[s] \notin {"failed", "blocked_preflight"} => err' = err
    /\ row'[s] = "failed" /\ s \in reused' \cap hit => "force" \in notes'

\* The executor's steps on a member tell what ExecutorTold says.
LEMMA ExecutorTells ==
    ASSUME ChainInv, Children, RowsOfChildren, pc \in Phase2, NEW s \in Steps, ExecutorStep(s)
    PROVE  ExecutorTold(s)
<1>1. RowsTyped /\ MembersTyped /\ s = at /\ AtHand
    BY TypesOfTyped, ExecutorFrame DEF ChainInv
<1>2. pc = "stepping" => Ahead(s) /\ row[s] = "checking"
    BY <1>1 DEF Before, Phase2, ChainInv
<1>3. pc \in {"restarting", "restarted", "recreating", "recreated", "stuck"} =>
         child[s].job = "none" /\ s \notin hit
    BY <1>1 DEF AtHand, RowsOfChildren, Lifecycle, Begins, Linked, ChainInv, Children
<1> USE DEF memory, members, rows, Starting, ToNext, SetRow, SetImage, StepFails, StepDone, RowsTyped,
            AtHand, Lifecycle, Kinds
<1>4. CASE SkipSnoozed(s) \/ SkipCurrent(s)
    BY <1>1, <1>2, <1>4 DEF SkipSnoozed, SkipCurrent, ExecutorTold
<1>5. CASE BeginLifecycle(s)
    BY <1>1, <1>2, <1>5 DEF BeginLifecycle, ExecutorTold, Ahead
<1>6. ASSUME NEW kind \in Kinds, LifecycleRefused(s, kind) PROVE ExecutorTold(s)
    BY <1>1, <1>3, <1>6 DEF LifecycleRefused, ExecutorTold
<1>7. ASSUME NEW kind \in Kinds, CannotQueue(s, kind) PROVE ExecutorTold(s)
    BY <1>1, <1>2, <1>7 DEF CannotQueue, ExecutorTold, Ahead
<1>8. ASSUME NEW kind \in Kinds, NEW what \in {"base", "down"}, RestartFails(s, what, kind)
      PROVE  ExecutorTold(s)
    BY <1>1, <1>3, <1>8 DEF RestartFails, ExecutorTold
<1>9. CASE RestartPreservesStopped(s) \/ RestartStops(s)
    BY <1>1, <1>3, <1>9 DEF RestartPreservesStopped, RestartStops, ExecutorTold
<1>10. CASE RestartSucceeds(s)
    BY <1>1, <1>3, <1>10 DEF RestartSucceeds, ExecutorTold
<1>11. CASE RecreateRemoves(s) \/ RecreateSucceeds(s) \/ RecreateHangs(s)
    BY <1>1, <1>3, <1>11 DEF RecreateRemoves, RecreateSucceeds, RecreateHangs, ExecutorTold
<1>12. CASE EnqueueStep(s)
  <2>1. child' = [child EXCEPT ![s] = [job |-> "queued", tx |-> "none"]]
    <3>1. /\ child[s] \in [job : ActiveJob \cup FinalJob \cup {"none"},
                           tx : ActiveTx \cup {"none", "success", "failed", "skipped", "cancelled",
                                               "rolled_back", "interrupted", "recovery_required"}]
          /\ child[s].job = "none" /\ child[s].tx = "none"
      BY <1>1, <1>2, <1>12 DEF EnqueueStep, Ahead, MembersTyped
    <3>2. [child[s] EXCEPT !.job = "queued"] = [job |-> "queued", tx |-> "none"]
      BY <3>1
    <3>3. child' = [child EXCEPT ![s] = [child[s] EXCEPT !.job = "queued"]]
      BY <1>12 DEF EnqueueStep
    <3>4. QED
      BY <3>2, <3>3
  <2>2. child'[s].tx = "none"
    BY <1>1, <2>1 DEF MembersTyped
  <2>3. QED
    BY <1>1, <1>2, <1>12, <2>1, <2>2 DEF EnqueueStep, ExecutorTold
<1>13. CASE LinkStep(s)
    BY <1>1, <1>13 DEF LinkStep, ExecutorTold
<1>14. CASE StepSucceeds(s) \/ StepHeld(s)
    BY <1>1, <1>14 DEF StepSucceeds, StepHeld, ExecutorTold, ChildReturned, FinalJob, ActiveJob
<1>15. ASSUME NEW kind \in Kinds, StepFailed(s, kind) PROVE ExecutorTold(s)
    BY <1>1, <1>15 DEF StepFailed, ExecutorTold, ChildReturned, FinalJob, ActiveJob
<1>16. QED
  <2>1. pc \notin {"checking", "planning"}
    BY DEF Phase2
  <2>2. ~CheckFails(s) /\ ~PlanAllows(s) /\ ~PlanBlocks(s)
        /\ \A what \in {"update", "snoozed", "current"} : ~CheckFinds(s, what)
    BY <2>1 DEF CheckFails, PlanAllows, PlanBlocks, CheckFinds
  <2>3. QED
    BY <2>2, <1>4, <1>5, <1>6, <1>7, <1>8, <1>9, <1>10, <1>11, <1>12, <1>13, <1>14, <1>15 DEF ExecutorStep

\* What a step of a child update, or a rollback by the user, tells of its member.
ChildTold(s) ==
    /\ Agree(child'[s]) /\ child'[s].job # "queued"
    /\ child'[s].job = "none" <=> child[s].job = "none"
    /\ child'[s].job = "none" => s \notin hit'
    /\ \/ /\ child[s].job \in ActiveJob
          /\ child'[s].tx = "success" => image'[s] = "new"
       \/ /\ pc = "done" /\ child[s].job \notin ActiveJob /\ child'[s].job = child[s].job
          /\ hit' = hit /\ image'[s] = "base"
          /\ image[s] = "down" \/ child[s].tx = "recovery_required"
          /\ child'[s].tx = child[s].tx \/ child[s].tx = "recovery_required"

\* The steps of a child update, and a rollback by the user, tell what ChildTold
\* says.
LEMMA ChildTells ==
    ASSUME ChainInv, Children, NEW s \in Steps, ChildStep(s) \/ ChildCancelled(s) \/ UserRollsBack(s)
    PROVE  ChildTold(s)
<1>1. MembersTyped /\ Agree(child[s]) /\ (s \in hit => child[s].job # "none")
    BY TypesOfTyped DEF Children, ChainInv
<1> USE DEF members, SetChild, SetImage, rows, FinalJob, ActiveJob, ActiveTx, Agree, MembersTyped
<1>2. CASE ChildBegins(s) \/ ChildCancelled(s)
    BY <1>1, <1>2 DEF ChildBegins, ChildCancelled, ChildTold
<1>3. CASE ChildMutates(s)
    BY <1>1, <1>3 DEF ChildMutates, ChildTold
<1>4. ASSUME NEW o \in ChildOutcomes, ChildEnds(s, o) PROVE ChildTold(s)
  <2>1. /\ o[1] \in {"success", "failed"} /\ (o[1] = "success" <=> o[2] = "success")
        /\ o[2] \in {"success", "rolled_back", "recovery_required", "failed"}
        /\ o[2] = "success" => o[3] = "new"
    BY DEF ChildOutcomes
  <2>2. /\ child' = [child EXCEPT ![s] = [job |-> o[1], tx |-> o[2]]]
        /\ image' = [image EXCEPT ![s] = o[3]] /\ child[s].tx = "updating"
    BY <1>4 DEF ChildEnds
  <2>3. child'[s] = [job |-> o[1], tx |-> o[2]] /\ image'[s] = o[3] /\ child[s].job = "running"
    BY <1>1, <2>2
  <2>4. QED
    BY <2>1, <2>3 DEF ChildTold
<1>5. CASE ChildNotApplied(s)
    BY <1>1, <1>5 DEF ChildNotApplied, ChildTold
<1>6. CASE \E j \in {"failed", "skipped", "cancelled"} : ChildEndsEarly(s, j)
    BY <1>1, <1>6 DEF ChildEndsEarly, ChildTold
<1>7. CASE ChildRecovered(s)
  <2>1. PICK t \in {"interrupted", "success", "rolled_back", "recovery_required"},
              what \in {"base", "new", "down", image[s]} :
             RecoverChild(s, t, what) /\ (t = "success" => what = "new")
    BY <1>7 DEF ChildRecovered
  <2>2. /\ child'[s] = [job |-> IF t = "success" THEN "success" ELSE "failed", tx |-> t]
        /\ image'[s] = what /\ child[s].job = "running"
    BY <1>1, <2>1 DEF RecoverChild
  <2>3. QED
    BY <2>1, <2>2 DEF ChildTold
<1>8. CASE UserRollsBack(s)
  <2>1. /\ pc = "done" /\ child[s].job \notin ActiveJob /\ hit' = hit /\ image'[s] = "base"
        /\ image[s] = "down" \/ child[s].tx = "recovery_required"
    BY <1>1, <1>8 DEF UserRollsBack
  <2>2. /\ child'[s].job = child[s].job
        /\ child'[s].tx = IF child[s].tx = "recovery_required" THEN "rolled_back" ELSE child[s].tx
    BY <1>1, <1>8 DEF UserRollsBack
  <2>3. QED
    BY <1>1, <2>1, <2>2 DEF ChildTold
<1>9. QED
    BY <1>2, <1>3, <1>4, <1>5, <1>6, <1>7, <1>8 DEF ChildStep

\* What the end of a child update leaves.
LEMMA ChildrenStay ==
    ASSUME ChainInv, Children, RowsOfChildren, [Next]_vars
    PROVE  Children'
<1> USE DEF ChainInv
<1>1. MembersTyped
    BY TypesOfTyped
<1>2. ASSUME child' = child, hit' = hit,
             pc \in {"linking", "waiting"} /\ (\E s \in Steps : s = at /\ child[s].job \in ActiveJob)
                => pc' \in {"linking", "waiting"} /\ at' = at,
             pc = "dead" => pc' = "dead",
             turn["scan"] = "due" => turn'["scan"] = "due" \/ \A s \in Steps : child[s].job \notin ActiveJob
      PROVE  Children'
    BY <1>2 DEF Children, ActiveJob
<1>3. ASSUME pc \notin {"linking", "waiting", "dead"}, child' = child, hit' = hit,
             turn["scan"] = "due" => turn'["scan"] = "due"
      PROVE  Children'
    BY <1>2, <1>3
<1>4. ASSUME NEW s \in Steps, ExecutorStep(s) PROVE Children'
  <2>1. s = at /\ pc \in Phase1 \cup Phase2 /\ turn' = turn
    BY <1>4, ExecutorFrame DEF outside
  <2>2. CASE pc \in Phase1
    <3>1. child' = child /\ hit' = hit
      BY <1>4, <2>2, CheckingRows
    <3>2. QED
      BY <1>3, <2>1, <2>2, <3>1 DEF Phase1
  <2>3. CASE pc \in Phase2
    <3>1. ExecutorTold(s) /\ ExecutorMoved(s)
      BY <1>4, <2>3, ExecutorTells, ExecutorMoves
    <3>2. CASE child' = child
      <4>1. pc = "linking" => pc' = "waiting" /\ at' = at
        BY <3>1 DEF ExecutorTold, ExecutorMoved
      <4>2. pc = "waiting" => \A t \in Steps : t = at => child[t].job \notin ActiveJob
        BY <2>1, <3>1 DEF ExecutorTold
      <4>3. pc # "dead" /\ hit' = hit
        BY <2>3, <3>1 DEF Phase2, ExecutorTold
      <4>4. QED
        BY <1>2, <2>1, <3>2, <4>1, <4>2, <4>3
    <3>3. CASE child' # child
      <4>1. /\ child' = [child EXCEPT ![s] = [job |-> "queued", tx |-> "none"]] /\ hit' = hit
            /\ pc = "stepping" /\ pc' = "linking" /\ at' = at
        BY <3>1, <3>3 DEF ExecutorTold, ExecutorMoved
      <4>2. /\ child'[s] = [job |-> "queued", tx |-> "none"]
            /\ \A t \in Steps : t # s => child'[t] = child[t]
        BY <1>1, <4>1 DEF MembersTyped
      <4>3. Agree(child'[s])
        BY <4>2 DEF Agree, ActiveTx
      <4>4. \A t \in Steps : t # s => (child[t].job \in ActiveJob => turn["scan"] = "due")
        BY <4>1 DEF Children
      <4>5. \A t \in Steps : child[t].job # "queued"
        BY <4>1 DEF Children
      <4>6. QED
        BY <2>1, <4>1, <4>2, <4>3, <4>4, <4>5 DEF Children
    <3>4. QED
      BY <3>2, <3>3
  <2>4. QED
    BY <2>1, <2>2, <2>3
<1>5. ASSUME NEW s, UndoStep(s) PROVE Children'
    BY <1>3, <1>5, UndoFrame DEF Undoing, outside
<1>6. ASSUME NEW s \in Steps, ChildStep(s) \/ ChildCancelled(s) \/ UserRollsBack(s) PROVE Children'
  <2>1. ChildTold(s) /\ ChildMoved(s) /\ UNCHANGED <<pc, at, turn>>
    BY <1>6, ChildTells, ChildMoves, ChildFrame DEF memory, outside
  <2>2. ASSUME NEW t \in Steps, t # s
        PROVE  child'[t] = child[t] /\ (t \in hit' <=> t \in hit)
    BY <2>1, <2>2 DEF ChildMoved, Others, SameAt
  <2>3. /\ Agree(child'[s]) /\ child'[s].job # "queued" /\ (s \in hit' => child'[s].job # "none")
        /\ child'[s].job \in ActiveJob => child[s].job \in ActiveJob
    BY <2>1 DEF ChildTold, ChildMoved
  <2>4. QED
    BY <2>1, <2>2, <2>3 DEF Children
<1>7. ASSUME NEW s \in Steps, SortStep(s) PROVE Children'
    BY <1>3, <1>7, SortFrame DEF SortTail, outside
<1>8. ASSUME RunStep PROVE Children'
  <2>1. child' = child /\ hit' = hit /\ turn' = turn
    BY <1>8, RunFrame DEF members, outside
  <2>2. pc \notin {"linking", "waiting", "dead"}
    BY <1>8 DEF RunStep, ClaimChain, CancelledInQueue, CancelSafely, SafePoint, AllChecked, NothingToDo,
       Planned, NextStep, StopChain, BeginUndo, EndRun, CloseJob
  <2>3. QED
    BY <1>3, <2>1, <2>2
<1>9. ASSUME RecoveryStep PROVE Children'
  <2>1. CASE Restart
    <3>1. /\ pc = "dead" /\ pc' = "done" /\ turn'["scan"] = "due" /\ hit' = hit
      BY <2>1 DEF Restart, TypeOK, Recoverers
    <3>2. ASSUME NEW s \in Steps
          PROVE  /\ Agree(child'[s]) /\ child'[s].job # "queued"
                 /\ child[s].job # "none" => child'[s].job # "none"
      <4>1. Agree(child[s])
        BY DEF Children
      <4>2. CASE child[s].job \in ActiveJob /\ child[s].tx \notin ActiveTx
        <5>1. child'[s].job = "failed" /\ child'[s].tx = child[s].tx
          BY <1>1, <2>1, <4>2 DEF Restart, MembersTyped
        <5>2. child[s].tx = "none"
          BY <4>1, <4>2 DEF Agree
        <5>3. QED
          BY <5>1, <5>2 DEF Agree, ActiveJob, ActiveTx
      <4>3. CASE ~(child[s].job \in ActiveJob /\ child[s].tx \notin ActiveTx)
        <5>1. child'[s] = child[s]
          BY <2>1, <4>3 DEF Restart
        <5>2. child[s].job # "queued"
          BY <4>1, <4>3 DEF Agree, ActiveJob, ActiveTx
        <5>3. QED
          BY <4>1, <5>1, <5>2
      <4>4. QED
        BY <4>2, <4>3
    <3>3. QED
      BY <3>1, <3>2 DEF Children
  <2>2. CASE ScanLists
    <3>1. /\ pc' = pc /\ UNCHANGED <<child, hit, at>> /\ turn["scan"] = "due"
          /\ \A s \in Steps : child[s].tx \notin ActiveTx
      BY <2>2 DEF ScanLists, members, memory
    <3>2. pc \in {"done", "sorting"} \cup Undoing
      BY <3>1 DEF Turns, Recoverers
    <3>3. \A s \in Steps : child[s].job \notin ActiveJob
      BY <3>1, <3>2 DEF Children, Agree, Undoing
    <3>4. QED
      BY <1>2, <3>1, <3>3
  <2>3. ASSUME NEW r \in Recoverers, RecovererReads(r) \/ RecovererEnters(r) \/ RecoveryCannotStart(r)
        PROVE  Children'
    <3>1. /\ turn[r] \in {"listed", "waiting"} /\ UNCHANGED <<child, hit>>
          /\ \A q \in Recoverers : q # r => turn'[q] = turn[q]
      BY <2>3 DEF RecovererReads, RecovererEnters, BeginRecovery, RecoveryCannotStart, Turn, members, TypeOK
    <3>2. pc \notin {"linking", "waiting", "dead"}
      BY <3>1 DEF Turns, Undoing
    <3>3. QED
      BY <1>3, <3>1, <3>2 DEF Recoverers
  <2>4. CASE RecoveryLeavesToOperator \/ RecoveryUndoes \/ RecoveryUndoIncomplete \/ RecoverySettles
    <3>1. UNCHANGED <<child, hit>> /\ pc \in {"sorting", "undoing"}
      BY <2>4 DEF RecoveryLeavesToOperator, RecoveryUndoes, RecoveryUndoIncomplete, RecoverySettles, Sorted,
         members
    <3>2. turn' = turn \/ turn' = [r \in Recoverers |-> IF turn[r] = "working" THEN "off" ELSE turn[r]]
      BY <2>4 DEF RecoveryLeavesToOperator, RecoveryUndoes, RecoveryUndoIncomplete, RecoverySettles,
         RecoveryStops, Done, outside
    <3>3. QED
      BY <1>3, <3>1, <3>2 DEF Recoverers
  <2>5. QED
    BY <1>9, <2>1, <2>2, <2>3, <2>4 DEF RecoveryStep
<1>10. ASSUME OutsideStep PROVE Children'
  <2>1. child' = child /\ hit' = hit
    BY <1>10 DEF OutsideStep, SignalCancel, OrphanCancel, StartChain, CancelQueuedChain, RequestCancel,
       Crash, members
  <2>2. CASE Crash
    BY <2>1, <2>2 DEF Crash, Children
  <2>3. CASE ~Crash
    <3>1. /\ (pc' = pc \/ (pc = "idle" /\ pc' = "queued")) /\ at' = at
          /\ turn["scan"] = "due" => turn'["scan"] = "due"
      <4>1. CASE OrphanCancel
        <5>1. turn \in [Recoverers -> {"off", "due", "listed", "waiting", "working"}]
          BY DEF TypeOK
        <5>2. QED
          BY <4>1, <5>1 DEF OrphanCancel, memory, Recoverers
      <4>2. CASE StartChain
        BY <4>2 DEF StartChain, memory, outside
      <4>3. CASE SignalCancel \/ CancelQueuedChain \/ RequestCancel
        BY <4>3 DEF SignalCancel, CancelQueuedChain, RequestCancel, memory, outside
      <4>4. QED
        BY <1>10, <2>3, <4>1, <4>2, <4>3 DEF OutsideStep
    <3>2. QED
      BY <1>2, <2>1, <3>1
  <2>4. QED
    BY <2>2, <2>3
<1>11. CASE UNCHANGED vars
    BY <1>2, <1>11 DEF vars, members, memory, outside
<1>12. QED
  <2>1. \A s \in ToSet(completed) : UndoStep(s) => Children'
    BY <1>5
  <2>2. QED
    BY <1>4, <1>6, <1>7, <1>8, <1>9, <1>10, <1>11, <2>1, NextSplits

\* What recovery tells of the row it sorts.
SortTold(s) ==
    /\ notes \subseteq notes'
    /\ row'[s] = "success" => row[s] = "success" \/ child[s].job = "success"
    /\ s \in link => row'[s] = row[s] \/ child[s].tx \notin ActiveTx
    /\ View[s] \in Settled =>
          /\ row' = row
          /\ View[s] \in {"success", "recreated"} => completed' = Append(completed, s)
          /\ View[s] = "rolled_back" => "rolled" \in notes'
    /\ View[s] \notin Settled =>
          \/ "operator" \in notes'
          \/ /\ row'[s] \in {"success", "recreated"} => completed' = Append(completed, s)
             /\ row'[s] = "rolled_back" => "rolled" \in notes'

\* Sorting a row tells what SortTold says.
LEMMA SortTells ==
    ASSUME ChainInv, Children, NEW s \in Steps, SortStep(s)
    PROVE  SortTold(s)
<1> USE DEF ChainInv, Sorting, SetRow, NeedsOperator, Keep, Open, Settled, chainRunStepTerminal, SortTold
<1>1. row \in [Steps -> RowStates]
    BY TypesOfTyped DEF RowsTyped
<1>2. Agree(child[s])
    BY DEF Children
<1>3. View[s] = "none" => s \notin link
  <2>1. PICK r \in Recoverers : turn[r] = "working" /\ View = seen[r].row
    BY SortFrame DEF Turns, Recovering, View
  <2>2. QED
    BY <2>1 DEF Views
<1>4. CASE SortTerminal(s)
    BY <1>4 DEF SortTerminal
<1>5. CASE SortSucceeded(s) \/ SortRolledBack(s)
    BY <1>1, <1>2, <1>3, <1>5 DEF SortSucceeded, SortRolledBack, ActiveTx, Agree
<1>6. CASE SortUnresolved(s)
    BY <1>1, <1>6 DEF SortUnresolved
<1>7. CASE SortFailed(s)
    BY <1>1, <1>3, <1>7 DEF SortFailed
<1>8. CASE SortUntouched(s)
    BY <1>1, <1>8 DEF SortUntouched
<1>9. CASE SortVerified(s)
    BY <1>1, <1>9 DEF SortVerified
<1>10. CASE SortRestored(s) \/ SortBroken(s)
    BY <1>1, <1>10 DEF SortRestored, SortBroken
<1>11. QED
    BY <1>4, <1>5, <1>6, <1>7, <1>8, <1>9, <1>10 DEF SortStep

\* No row says that its child has ended while the child still works.
LEMMA RowsOfChildrenStay ==
    ASSUME ChainInv, Children, RowsOfChildren, [Next]_vars
    PROVE  RowsOfChildren'
<1> USE DEF ChainInv
<1>1. RowsTyped /\ MembersTyped
    BY TypesOfTyped
<1>2. ASSUME row' = row, link' = link, child' = child PROVE RowsOfChildren'
    BY <1>2 DEF RowsOfChildren
<1>3. ASSUME \A t \in Steps : child'[t].job = "none" /\ row'[t] \notin Lifecycle \cup {"success"}
      PROVE  RowsOfChildren'
    BY <1>3 DEF RowsOfChildren, ActiveJob
<1>4. ASSUME NEW s \in Steps, ExecutorStep(s) PROVE RowsOfChildren'
  <2>1. s = at /\ pc \in Phase1 \cup Phase2
    BY <1>4, ExecutorFrame
  <2>2. CASE pc \in Phase1
    <3>1. \A t \in Steps : child'[t].job = "none" /\ row'[t] \in Unbegun
      BY <1>4, <2>2, CheckingRows DEF Before, Ahead, Phase1
    <3>2. QED
      BY <1>3, <3>1 DEF Unbegun, Lifecycle
  <2>3. CASE pc \in Phase2
    <3>1. ExecutorTold(s) /\ ExecutorMoved(s) /\ pc # "judging"
      BY <1>4, <2>3, ExecutorTells, ExecutorMoves, ExecutorNotJudging
    <3>2. ASSUME NEW t \in Steps, t # s
          PROVE  row'[t] = row[t] /\ child'[t] = child[t] /\ (t \in link' <=> t \in link)
      BY <3>1, <3>2 DEF ExecutorMoved, Others, SameAt
    <3>3. /\ row'[s] = "success" => child'[s].tx = "success"
          /\ row'[s] \in Lifecycle => child'[s].job = "none"
      <4>1. pc = "waiting" => child' = child
        BY <3>1 DEF ExecutorTold
      <4>2. Agree(child[s])
        BY DEF Children
      <4>3. QED
        BY <3>1, <4>1, <4>2 DEF ExecutorTold, Agree
    <3>4. row'[s] \in Told => child'[s].job \notin ActiveJob
      <4>1. CASE child' = child
        <5>1. turn["scan"] # "due" /\ pc # "dead"
          BY <2>3 DEF Turns, Recoverers, Phase2, Undoing
        <5>2. child[s].job \in ActiveJob => pc \in {"linking", "waiting"}
          BY <5>1 DEF Children
        <5>3. QED
          BY <3>1, <4>1, <5>2 DEF ExecutorTold, Told
      <4>2. CASE child' # child
        BY <2>1, <2>3, <3>1, <4>2 DEF ExecutorTold, Before, Told
      <4>3. QED
        BY <4>1, <4>2
    <3>5. QED
      BY <3>2, <3>3, <3>4 DEF RowsOfChildren
  <2>4. QED
    BY <2>1, <2>2, <2>3
<1>5. ASSUME NEW s, UndoStep(s) PROVE RowsOfChildren'
    BY <1>2, <1>5, UndoFrame DEF rows
<1>6. ASSUME NEW s \in Steps, ChildStep(s) \/ ChildCancelled(s) \/ UserRollsBack(s) PROVE RowsOfChildren'
  <2>1. ChildTold(s) /\ ChildMoved(s)
    BY <1>6, ChildTells, ChildMoves
  <2>2. row' = row /\ link' = link /\ \A t \in Steps : t # s => child'[t] = child[t]
    BY <2>1 DEF ChildMoved, Others, SameAt
  <2>3. /\ row[s] \in Told => child'[s].job \notin ActiveJob
        /\ row[s] = "success" => child'[s].tx = "success"
        /\ row[s] \in Lifecycle /\ s \notin link => child'[s].job = "none"
    BY <2>1 DEF ChildTold, ChildMoved, RowsOfChildren, Told
  <2>4. QED
    BY <2>2, <2>3 DEF RowsOfChildren
<1>7. ASSUME NEW s \in Steps, SortStep(s) PROVE RowsOfChildren'
  <2>1. SortMoved(s) /\ SortTold(s) /\ (s \notin link => SameKind(View[s], row[s]))
    BY <1>7, SortViews, SortTells
  <2>2. child' = child /\ link' = link /\ pc = "sorting"
    BY <1>7, SortFrame DEF SortTail
  <2>3. Agree(child[s]) /\ child[s].job # "queued"
    BY <2>2 DEF Children
  <2>4. CASE row'[s] = row[s]
    <3>1. row' = row
      BY <1>1, <2>1, <2>4 DEF SortMoved, RowsTyped
    <3>2. QED
      BY <1>2, <2>2, <3>1
  <2>5. CASE row'[s] # row[s] /\ s \in link
    <3>1. child[s].job \notin ActiveJob /\ (row'[s] = "success" => child[s].tx = "success")
      BY <2>1, <2>3, <2>5 DEF SortTold, Agree
    <3>2. QED
      BY <2>1, <2>2, <2>5, <3>1 DEF SortMoved, RowsOfChildren
  <2>6. CASE row'[s] # row[s] /\ s \notin link
    <3>1. row'[s] # "interrupted" => child[s].job = "none" /\ row'[s] # "success"
      BY <2>1, <2>6 DEF SortMoved, SameKind, RowsOfChildren, Lifecycle
    <3>2. QED
      BY <2>1, <2>2, <3>1 DEF SortMoved, RowsOfChildren, Told, Lifecycle, ActiveJob
  <2>7. QED
    BY <2>4, <2>5, <2>6
<1>8. ASSUME RunStep PROVE RowsOfChildren'
  <2>1. child' = child
    BY <1>8, RunFrame DEF members
  <2>2. CASE CancelSafely
    BY <1>1, <2>1, <2>2 DEF CancelSafely, finishChainSafeCancel, RowsTyped, RowsOfChildren, Told, Lifecycle,
       chainRunStepTerminal
  <2>3. CASE NothingToDo
    BY <1>3, <2>1, <2>3 DEF NothingToDo, Before, Ahead, Lifecycle
  <2>4. CASE row' = row /\ link' = link
    BY <1>2, <2>1, <2>4
  <2>5. QED
    BY <1>8, <2>2, <2>3, <2>4 DEF RunStep, ClaimChain, CancelledInQueue, AllChecked, Planned, NextStep,
       StopChain, BeginUndo, EndRun, CloseJob, rows
<1>9. ASSUME RecoveryStep \/ OutsideStep PROVE RowsOfChildren'
  <2>1. row' = row
    BY <1>9, RecoveryStage, OutsideStage
  <2>2. link' = link
    BY <1>9 DEF RecoveryStep, OutsideStep, RecovererReads, RecovererEnters, BeginRecovery,
       RecoveryCannotStart, RecoveryLeavesToOperator, RecoveryUndoes, RecoveryUndoIncomplete, RecoverySettles,
       RecoveryStops, finishChainSafeCancel, Restart, ScanLists, SignalCancel, OrphanCancel, StartChain,
       CancelQueuedChain, RequestCancel, Crash, rows
  <2>3. CASE Restart
    <3>1. ASSUME NEW s \in Steps
          PROVE  /\ child'[s].tx = child[s].tx
                 /\ \/ child'[s].job = child[s].job
                    \/ child[s].job \in ActiveJob /\ child'[s].job \notin ActiveJob
      BY <1>1, <2>3 DEF Restart, MembersTyped, ActiveJob
    <3>2. QED
      BY <2>1, <2>2, <3>1 DEF RowsOfChildren, ActiveJob
  <2>4. CASE child' = child
    BY <1>2, <2>1, <2>2, <2>4
  <2>5. QED
    BY <1>9, <2>3, <2>4 DEF RecoveryStep, OutsideStep, RecovererReads, RecovererEnters, BeginRecovery,
       RecoveryCannotStart, RecoveryLeavesToOperator, RecoveryUndoes, RecoveryUndoIncomplete,
       RecoverySettles, ScanLists, SignalCancel, OrphanCancel, StartChain, CancelQueuedChain,
       RequestCancel, Crash, members
<1>10. CASE UNCHANGED vars
    BY <1>2, <1>10 DEF vars, rows, members
<1>11. QED
  <2>1. \A s \in ToSet(completed) : UndoStep(s) => RowsOfChildren'
    BY <1>5
  <2>2. QED
    BY <1>4, <1>6, <1>7, <1>8, <1>9, <1>10, <2>1, NextSplits

\* Two recoverers read the same row only as far as none of them has worked on it.
LEMMA UpToDateStays ==
    ASSUME ChainInv, Children, UpToDate, [Next]_vars
    PROVE  UpToDate'
<1> USE DEF ChainInv
<1>1. /\ turn \in [Recoverers -> {"off", "due", "listed", "waiting", "working"}] /\ DOMAIN seen = Recoverers
      /\ at \in Nat /\ N \in Nat
      /\ \A r \in Recoverers : Other(r) \in Recoverers /\ Other(r) # r /\ Other(Other(r)) = r
    BY ChainAssumption DEF TypeOK, Other, Recoverers
<1>2. ASSUME UNCHANGED <<row, turn, seen>>, pc' = "sorting" => pc = "sorting" /\ at' = at,
             \A r \in Recoverers : Over(r) => Over(r)'
      PROVE  UpToDate'
  <2> SUFFICES ASSUME NEW r \in Recoverers, NEW s \in Steps,
                      turn'[r] = "waiting" \/ (turn'[r] = "working" /\ pc' = "sorting" /\ at' <= s)
               PROVE  row'[s] = seen'[r].row[s] \/ (Over(Other(r))' /\ seen'[r].row[s] \notin Settled)
    BY DEF UpToDate, Other
  <2>1. row[s] = seen[r].row[s] \/ (Over(Other(r)) /\ seen[r].row[s] \notin Settled)
    BY <1>2 DEF UpToDate
  <2>2. Over(Other(r)) => Over(Other(r))'
    BY <1>1, <1>2 DEF Other
  <2>3. QED
    BY <1>2, <2>1, <2>2
<1>3. ASSUME \A r \in Recoverers : turn'[r] \notin {"waiting", "working"} PROVE UpToDate'
    BY <1>3 DEF UpToDate
<1>4. ASSUME UNCHANGED <<job, cancelling, turn>> PROVE \A r \in Recoverers : Over(r) => Over(r)'
    BY <1>4 DEF Over, CancelSpent
<1>5. ASSUME NEW r \in Recoverers, turn[r] \in {"due", "listed", "waiting"}, row' = row,
             \A q \in Recoverers : q # r => turn'[q] = turn[q] /\ seen'[q] = seen[q],
             turn'[r] \notin {"waiting", "working"} \/ \A s \in Steps : row[s] = seen'[r].row[s],
             pc' = pc, at' = at
      PROVE  UpToDate'
  <2>1. ~Over(r)
    BY <1>5 DEF Over
  <2>2. ASSUME NEW q \in Recoverers, q # r, NEW s \in Steps,
               turn[q] = "waiting" \/ (turn[q] = "working" /\ pc = "sorting" /\ at <= s)
        PROVE  row[s] = seen[q].row[s]
    <3>1. Other(q) = r
      BY <1>1, <2>2 DEF Recoverers, Other
    <3>2. QED
      BY <2>1, <2>2, <3>1 DEF UpToDate
  <2>3. QED
    BY <1>5, <2>2 DEF UpToDate
<1>6. ASSUME NEW s \in Steps, ExecutorStep(s) PROVE UpToDate'
  <2>1. pc \in Phase1 \cup Phase2 /\ turn' = turn
    BY <1>6, ExecutorFrame DEF outside
  <2>2. QED
    BY <1>3, <2>1 DEF Turns, Phase1, Phase2, Undoing
<1>7. ASSUME RunStep PROVE UpToDate'
  <2>1. /\ pc \in {"queued", "ending", "undoing", "closing"} \cup Phase1 \cup Phase2
        /\ pc = "undoing" => ~Recovering
        /\ turn' = turn
    BY <1>7, RunFrame DEF outside
  <2>2. QED
    BY <1>3, <2>1 DEF Turns, Phase1, Phase2, Undoing
<1>8. ASSUME NEW s, UndoStep(s) PROVE UpToDate'
    BY <1>2, <1>4, <1>8, UndoFrame DEF rows, outside, Undoing
<1>9. ASSUME NEW s \in Steps, ChildStep(s) \/ ChildCancelled(s) \/ UserRollsBack(s) PROVE UpToDate'
    BY <1>2, <1>4, <1>9, ChildFrame DEF rows, outside, memory
<1>10. ASSUME NEW s \in Steps, SortStep(s) PROVE UpToDate'
  <2>1. PICK q \in Recoverers : turn[q] = "working" /\ View = seen[q].row
    BY <1>10, SortFrame DEF Turns, Recovering, View
  <2>2. /\ s = at /\ at' = at + 1 /\ pc = "sorting" /\ pc' = pc /\ UNCHANGED <<job, cancelling, turn, seen>>
    BY <1>10, SortFrame DEF SortTail, outside
  <2>3. /\ \A t \in Steps : t # s => row'[t] = row[t]
        /\ View[s] \in Settled => row'[s] = row[s]
    BY <1>10, SortViews, SortTells DEF SortMoved, SortTold
  <2>4. ASSUME NEW r \in Recoverers, NEW t \in Steps,
               turn[r] = "waiting" \/ (turn[r] = "working" /\ at + 1 <= t)
        PROVE  row'[t] = seen[r].row[t] \/ (Over(Other(r)) /\ seen[r].row[t] \notin Settled)
    <3>1. row[t] = seen[r].row[t] \/ (Over(Other(r)) /\ seen[r].row[t] \notin Settled)
      BY <1>1, <2>2, <2>4 DEF UpToDate, Steps
    <3>2. CASE t # s
      BY <2>3, <3>1, <3>2
    <3>3. CASE t = s
      <4>1. turn[r] = "waiting" /\ r # q /\ Other(r) = q /\ Other(q) = r
        BY <1>1, <2>1, <2>2, <2>4, <3>3 DEF Recoverers, Other
      <4>2. Over(q) /\ ~Over(r)
        BY <2>1, <4>1 DEF Over
      <4>3. row[s] = View[s]
        BY <1>1, <2>1, <2>2, <4>1, <4>2 DEF UpToDate
      <4>4. QED
        BY <2>3, <3>1, <3>3, <4>1, <4>2, <4>3
    <3>4. QED
      BY <3>2, <3>3
  <2>5. \A r \in Recoverers : Over(Other(r)) => Over(Other(r))'
    BY <2>2 DEF Over, Other, CancelSpent
  <2>6. QED
    BY <2>2, <2>4, <2>5 DEF UpToDate, Other
<1>11. ASSUME RecoveryStep PROVE UpToDate'
  <2>1. row' = row
    BY <1>11, RecoveryStage
  <2>2. ASSUME NEW r \in Recoverers, RecovererReads(r) PROVE UpToDate'
    <3>1. /\ turn[r] = "listed" /\ pc' = pc /\ at' = at
          /\ turn' = [turn EXCEPT ![r] = "waiting"]
          /\ seen' = [seen EXCEPT ![r] = [row |-> row, cancel |-> run.orphaned]]
      BY <2>2 DEF RecovererReads, Turn, memory
    <3>2. seen'[r].row = row /\ \A q \in Recoverers : q # r => turn'[q] = turn[q] /\ seen'[q] = seen[q]
      BY <1>1, <3>1
    <3>3. QED
      BY <1>5, <2>1, <3>1, <3>2
  <2>3. ASSUME NEW r \in Recoverers, RecovererEnters(r) PROVE UpToDate'
    <3>1. /\ turn[r] = "waiting" /\ pc = "done" /\ at' = at /\ UNCHANGED <<job, cancelling, seen>>
          /\ turn' = [turn EXCEPT ![r] = "working"]
      BY <2>3 DEF RecovererEnters, BeginRecovery, Turn
    <3>2. turn'[r] = "working" /\ \A q \in Recoverers : q # r => turn'[q] = turn[q]
      BY <1>1, <3>1
    <3>3. \A q \in Recoverers : turn[q] # "working"
      BY <3>1 DEF Turns, Undoing
    <3>4. \A q \in Recoverers : Over(q) => Over(q)'
      BY <3>1, <3>2 DEF Over, CancelSpent
    <3>5. ASSUME NEW q \in Recoverers, NEW s \in Steps, turn'[q] \in {"waiting", "working"}
          PROVE  row[s] = seen[q].row[s] \/ (Over(Other(q)) /\ seen[q].row[s] \notin Settled)
      <4>1. turn[q] = "waiting"
        BY <3>1, <3>2, <3>3, <3>5
      <4>2. QED
        BY <4>1 DEF UpToDate
    <3>6. \A q \in Recoverers : Over(Other(q)) => Over(Other(q))'
      BY <1>1, <3>4 DEF Other
    <3>7. QED
      BY <2>1, <3>1, <3>5, <3>6 DEF UpToDate, Other
  <2>4. ASSUME NEW r \in Recoverers, RecoveryCannotStart(r) PROVE UpToDate'
    <3>1. /\ turn[r] \in {"listed", "waiting"} /\ pc' = pc /\ at' = at
          /\ turn' = [turn EXCEPT ![r] = "off"] /\ seen' = [seen EXCEPT ![r] = Nothing]
      BY <2>4 DEF RecoveryCannotStart, Turn, memory
    <3>2. turn'[r] = "off" /\ \A q \in Recoverers : q # r => turn'[q] = turn[q] /\ seen'[q] = seen[q]
      BY <1>1, <3>1
    <3>3. QED
      BY <1>5, <2>1, <3>1, <3>2
  <2>5. CASE ScanLists
    <3>1. /\ turn["scan"] = "due" /\ pc' = pc /\ at' = at /\ seen' = seen
          /\ turn' = [turn EXCEPT !["scan"] = IF run.status \in ActiveRun THEN "listed" ELSE "off"]
      BY <2>5 DEF ScanLists, Turn, memory
    <3>2. /\ "scan" \in Recoverers /\ turn'["scan"] \in {"listed", "off"}
          /\ \A q \in Recoverers : q # "scan" => turn'[q] = turn[q]
      BY <1>1, <3>1 DEF Recoverers
    <3>3. QED
      BY <1>5, <2>1, <3>1, <3>2
  <2>6. CASE RecoveryUndoes
    BY <1>2, <1>4, <2>6 DEF RecoveryUndoes, rows, outside
  <2>7. CASE RecoveryLeavesToOperator \/ RecoveryUndoIncomplete \/ RecoverySettles
    <3>1. Done /\ CancelSpent'
      BY <2>7 DEF RecoveryLeavesToOperator, RecoveryUndoIncomplete, RecoverySettles, RecoveryStops,
         finishChainSafeCancel, CancelSpent
    <3>2. /\ pc' = "done" /\ cancelling' = cancelling
          /\ \A r \in Recoverers : turn'[r] = IF turn[r] = "working" THEN "off" ELSE turn[r]
          /\ \A r \in Recoverers : turn[r] = "waiting" => seen'[r] = seen[r]
      BY <3>1 DEF Done
    <3>3. \A r \in Recoverers : Over(r) => Over(r)'
      BY <3>1, <3>2 DEF Over, Turns, Recoverers
    <3>4. ASSUME NEW r \in Recoverers, NEW s \in Steps, turn'[r] \in {"waiting", "working"}
          PROVE  /\ row[s] = seen[r].row[s] \/ (Over(Other(r)) /\ seen[r].row[s] \notin Settled)
                 /\ seen'[r] = seen[r]
      <4>1. turn[r] = "waiting"
        BY <3>2, <3>4
      <4>2. QED
        BY <3>2, <4>1 DEF UpToDate
    <3>5. \A r \in Recoverers : Over(Other(r)) => Over(Other(r))'
      BY <1>1, <3>3 DEF Other
    <3>6. QED
      BY <2>1, <3>4, <3>5 DEF UpToDate, Other
  <2>8. CASE Restart
    <3>1. /\ \A r \in Recoverers : turn[r] = "off"
          /\ turn' = [turn EXCEPT !["scan"] = "due"]
      BY <2>8 DEF Restart, Turns, Undoing
    <3>2. QED
      BY <1>1, <1>3, <3>1
  <2>9. QED
    BY <1>11, <2>2, <2>3, <2>4, <2>5, <2>6, <2>7, <2>8 DEF RecoveryStep
<1>12. ASSUME OutsideStep PROVE UpToDate'
  <2>1. row' = row
    BY <1>12, OutsideStage
  <2>2. CASE SignalCancel \/ CancelQueuedChain
    BY <1>2, <2>1, <2>2 DEF SignalCancel, CancelQueuedChain, rows, outside, memory, Over, CancelSpent
  <2>3. CASE RequestCancel
    BY <1>2, <2>1, <2>3 DEF RequestCancel, memory, Over, CancelSpent
  <2>4. CASE OrphanCancel
    <3>1. /\ cancelling /\ pc' = pc /\ at' = at /\ seen' = seen /\ job' = job
          /\ turn' = [turn EXCEPT !["orphan"] = "listed"]
      BY <2>4 DEF OrphanCancel, memory
    <3>2. ~Over("orphan")
      BY <3>1 DEF Over, Turns, Recoverers
    <3>3. /\ turn'["orphan"] = "listed" /\ turn'["scan"] = turn["scan"]
      BY <1>1, <3>1 DEF Recoverers
    <3>4. ASSUME NEW r \in Recoverers, NEW s \in Steps,
                 turn'[r] = "waiting" \/ (turn'[r] = "working" /\ pc' = "sorting" /\ at' <= s)
          PROVE  row[s] = seen[r].row[s]
      <4>1. r = "scan" /\ Other(r) = "orphan"
        BY <3>3, <3>4 DEF Recoverers, Other
      <4>2. QED
        BY <3>1, <3>2, <3>3, <3>4, <4>1 DEF UpToDate
    <3>5. QED
      BY <2>1, <3>1, <3>4 DEF UpToDate
  <2>5. CASE StartChain
    BY <1>3, <2>5 DEF StartChain, outside, Turns, Undoing
  <2>6. CASE Crash
    BY <1>3, <2>6 DEF Crash
  <2>7. QED
    BY <1>12, <2>2, <2>3, <2>4, <2>5, <2>6 DEF OutsideStep
<1>13. CASE UNCHANGED vars
    BY <1>2, <1>4, <1>13 DEF vars, rows, memory, outside
<1>14. QED
  <2>1. \A s \in ToSet(completed) : UndoStep(s) => UpToDate'
    BY <1>8
  <2>2. QED
    BY <1>6, <1>7, <1>9, <1>10, <1>11, <1>12, <1>13, <2>1, NextSplits

\* A recovery books what it finds completed and remembers what was rolled back.
LEMMA SortsStay ==
    ASSUME ChainInv, Children, UpToDate, Sorts, [Next]_vars
    PROVE  Sorts'
<1> USE DEF ChainInv
<1>1. ASSUME pc' # "sorting" PROVE Sorts'
    BY <1>1 DEF Sorts
<1>2. ASSUME pc' = pc, UNCHANGED <<row, at, completed, notes>> PROVE Sorts'
    BY <1>2 DEF Sorts
<1>3. ASSUME NEW s \in Steps, ExecutorStep(s) PROVE Sorts'
    BY <1>1, <1>3, ExecutorFrame DEF Phase1, Phase2
<1>4. ASSUME RunStep PROVE Sorts'
    BY <1>1, <1>4, RunFrame DEF Phase1, Phase2
<1>5. ASSUME NEW s, UndoStep(s) PROVE Sorts'
    BY <1>1, <1>5, UndoFrame DEF Undoing
<1>6. ASSUME NEW s \in Steps, ChildStep(s) \/ ChildCancelled(s) \/ UserRollsBack(s) PROVE Sorts'
    BY <1>2, <1>6, ChildFrame DEF rows, memory
<1>7. ASSUME NEW s \in Steps, SortStep(s) PROVE Sorts'
  <2>1. PICK q \in Recoverers : turn[q] = "working" /\ View = seen[q].row
    BY <1>7, SortFrame DEF Turns, Recovering, View
  <2>2. /\ s = at /\ at \in Nat /\ at' = at + 1 /\ pc = "sorting" /\ pc' = pc
    BY <1>7, SortFrame DEF SortTail, Steps
  <2>3. View[s] \in Settled => row[s] = View[s]
    BY <2>1, <2>2 DEF UpToDate
  <2>4. SortTold(s) /\ \A t \in Steps : t # s => row'[t] = row[t]
    BY <1>7, SortTells, SortViews DEF SortMoved
  <2>5. /\ completed' = Append(completed, s) => ToSet(completed') = ToSet(completed) \cup {s}
        /\ ToSet(completed) \subseteq ToSet(completed')
    <3>1. completed \in Seq(Steps) /\ ToSet(Append(completed, s)) = ToSet(completed) \cup {s}
      BY AppendFacts DEF TypeOK
    <3>2. QED
      BY <1>7, <3>1, SortMemory
  <2>6. "operator" \notin notes' =>
          /\ row'[s] \in {"success", "recreated"} => s \in ToSet(completed')
          /\ row'[s] = "rolled_back" => "rolled" \in notes'
    BY <2>3, <2>4, <2>5 DEF SortTold
  <2>7. ASSUME "operator" \notin notes', NEW t \in Steps, t < at'
        PROVE  /\ row'[t] \in {"success", "recreated"} => t \in ToSet(completed')
               /\ row'[t] = "rolled_back" => "rolled" \in notes'
    <3>1. CASE t = s
      BY <2>6, <2>7, <3>1
    <3>2. CASE t # s
      <4>1. t < at /\ row'[t] = row[t] /\ notes \subseteq notes'
        BY <2>2, <2>4, <2>7, <3>2 DEF Steps, SortTold
      <4>2. QED
        BY <2>2, <2>5, <2>7, <4>1 DEF Sorts
    <3>3. QED
      BY <3>1, <3>2
  <2>8. QED
    BY <2>7 DEF Sorts
<1>8. ASSUME RecoveryStep PROVE Sorts'
  <2>1. row' = row
    BY <1>8, RecoveryStage
  <2>2. CASE (\E r \in Recoverers : RecovererReads(r) \/ RecoveryCannotStart(r)) \/ ScanLists
    BY <1>2, <2>1, <2>2 DEF RecovererReads, RecoveryCannotStart, ScanLists, memory
  <2>3. CASE \E r \in Recoverers : RecovererEnters(r)
    <3>1. at' = 1
      BY <2>3 DEF RecovererEnters, BeginRecovery, Memory, Fresh
    <3>2. QED
      BY <3>1 DEF Sorts, Steps
  <2>4. CASE \/ RecoveryLeavesToOperator \/ RecoveryUndoes \/ RecoveryUndoIncomplete \/ RecoverySettles
             \/ Restart
    BY <1>1, <2>4 DEF RecoveryLeavesToOperator, RecoveryUndoes, RecoveryUndoIncomplete, RecoverySettles,
       RecoveryStops, Done, Restart
  <2>5. QED
    BY <1>8, <2>2, <2>3, <2>4 DEF RecoveryStep
<1>9. ASSUME OutsideStep PROVE Sorts'
  <2>1. row' = row
    BY <1>9, OutsideStage
  <2>2. CASE StartChain \/ Crash
    BY <1>1, <2>2 DEF StartChain, Crash
  <2>3. CASE SignalCancel \/ OrphanCancel \/ CancelQueuedChain \/ RequestCancel
    BY <1>2, <2>1, <2>3 DEF SignalCancel, OrphanCancel, CancelQueuedChain, RequestCancel, memory
  <2>4. QED
    BY <1>9, <2>2, <2>3 DEF OutsideStep
<1>10. CASE UNCHANGED vars
    BY <1>2, <1>10 DEF vars, rows, memory
<1>11. QED
  <2>1. \A s \in ToSet(completed) : UndoStep(s) => Sorts'
    BY <1>5
  <2>2. QED
    BY <1>3, <1>4, <1>6, <1>7, <1>8, <1>9, <1>10, <2>1, NextSplits

\* The executor's books say what its rows say.
LEMMA BooksStay ==
    ASSUME ChainInv, Children, RowsOfChildren, Sorts, Books, [Next]_vars
    PROVE  Books'
<1> USE DEF ChainInv
<1>1. /\ MembersTyped /\ RowsTyped /\ completed \in Seq(Steps) /\ at \in Nat /\ N \in Nat /\ N >= 1
      /\ turn \in [Recoverers -> {"off", "due", "listed", "waiting", "working"}]
    BY TypesOfTyped, ChainAssumption DEF TypeOK
<1>2. ASSUME pc' \notin Phase2 \cup Undoing \cup {"ending"} PROVE Books'
    BY <1>2 DEF Books, Phase2
<1>3. ASSUME UNCHANGED <<row, at, completed, notes, err, members, chain>>, pc' = pc,
             pc \in Undoing => (Recovering' <=> Recovering)
      PROVE  Books'
    BY <1>3 DEF Books, members, Completed
<1>4. ASSUME NEW s \in Steps, ExecutorStep(s) PROVE Books'
  <2>1. s = at /\ pc \in Phase1 \cup Phase2
    BY <1>4, ExecutorFrame
  <2>2. CASE pc \in Phase1
    <3>1. /\ pc' \in {pc, "ending", "closing"} /\ UNCHANGED <<chain, hit>>
          /\ \A t \in Steps : row'[t] \in Unbegun
          /\ \A t \in Steps : t \notin hit
      BY <1>4, <2>2, CheckingRows DEF Before, Ahead, Phase1
    <3>2. pc' = "ending" => err' = "critical"
      BY <1>4, <2>2, CheckingRows DEF CheckFinds, CheckFails, PlanAllows, PlanBlocks, Phase1
    <3>3. CASE pc' = "ending"
      BY <3>1, <3>2, <3>3 DEF Books, Unbegun, Undoing
    <3>4. CASE pc' # "ending"
      BY <1>2, <2>2, <3>1, <3>4 DEF Phase1, Phase2, Undoing
    <3>5. QED
      BY <3>3, <3>4
  <2>3. CASE pc \in Phase2
    <3>1. /\ ExecutorTold(s) /\ ExecutorMoved(s) /\ MembersTyped'
      BY <1>4, <2>3, ExecutorTells, ExecutorMoves
    <3>2. pc' \in Phase2
      BY <3>1 DEF ExecutorMoved, Phase2
    <3>3. ASSUME NEW t \in Steps, t # s
          PROVE  /\ row'[t] = row[t] /\ image'[t] = image[t]
                 /\ (t \in hit' <=> t \in hit) /\ (t \in reused' <=> t \in reused)
      BY <3>1, <3>3 DEF ExecutorMoved, Others, SameAt
    <3>4. /\ ToSet(completed) \subseteq ToSet(completed')
          /\ completed' = Append(completed, s) => s \in ToSet(completed')
      <4>1. ToSet(Append(completed, s)) = ToSet(completed) \cup {s}
        BY <1>1, AppendFacts
      <4>2. QED
        BY <3>1, <4>1 DEF ExecutorTold
    <3>5. /\ notes \subseteq notes' /\ hit' = hit /\ chain' = chain
          /\ err' = "none" => err = "none" /\ row'[s] \notin {"failed", "blocked_preflight"}
      BY <3>1 DEF ExecutorTold, ExecutorMoved
    <3>6. pc' \in {"linking", "waiting"} /\ child'[at'].tx = "success" => image'[at'] = "new"
      <4>1. pc' \in {"linking", "waiting"} => at' = s
        BY <2>1, <3>1 DEF ExecutorMoved
      <4>2. pc' = "linking" => child'[s].tx = "none"
        BY <3>1 DEF ExecutorTold
      <4>3. pc' = "waiting" => pc = "linking" /\ child' = child /\ image' = image
        BY <3>1 DEF ExecutorTold
      <4>4. QED
        BY <2>1, <4>1, <4>2, <4>3 DEF Books
    <3>7. /\ row'[s] \in {"success", "recreated"} => s \in ToSet(completed')
          /\ row'[s] = "failed" /\ s \in reused' \cap hit' => "force" \in notes'
      BY <3>1, <3>4 DEF ExecutorTold
    <3>8. row'[s] = "success" => image'[s] = "new"
      <4>1. row'[s] = "success" => pc = "waiting" /\ child[s].job = "success" /\ image' = image
        BY <3>1 DEF ExecutorTold
      <4>2. child[s].job = "success" => child[s].tx = "success"
        BY DEF Children, Agree
      <4>3. QED
        BY <2>1, <4>1, <4>2 DEF Books
    <3>9. ASSUME NEW t \in Steps, t # s
          PROVE  /\ row'[t] \in {"success", "recreated"} => t \in ToSet(completed')
                 /\ row'[t] = "success" => image'[t] = "new"
                 /\ row'[t] = "failed" /\ t \in reused' \cap hit' => "force" \in notes'
                 /\ chain'.stop /\ err' = "none" => row'[t] \notin {"failed", "blocked_preflight"}
      BY <2>3, <3>3, <3>4, <3>5, <3>9 DEF Books
    <3>10. pc' # "ending" /\ pc' \notin Undoing
      BY <3>2 DEF Phase2, Undoing
    <3>11. QED
      BY <3>5, <3>6, <3>7, <3>8, <3>9, <3>10 DEF Books
  <2>4. QED
    BY <2>1, <2>2, <2>3
<1>5. ASSUME RunStep PROVE Books'
  <2>1. chain' = chain /\ UNCHANGED members /\ turn' = turn
    BY <1>5, RunFrame DEF outside
  <2>2. CASE ClaimChain \/ CancelledInQueue \/ CancelSafely \/ NothingToDo \/ EndRun \/ CloseJob
    BY <1>2, <2>2 DEF ClaimChain, CancelledInQueue, CancelSafely, NothingToDo, EndRun, CloseJob, Phase2, Undoing
  <2>3. CASE AllChecked \/ Planned
    <3>1. /\ pc' \in {"planning", "stepping"} /\ at' = 1 /\ Before'
      BY <1>5, <2>3, RunStage DEF AllChecked, Planned
    <3>2. CASE pc' = "stepping"
      <4>1. \A t \in Steps : row'[t] = "checking"
        BY <1>1, <3>1, <3>2 DEF Before, Phase2, Steps
      <4>2. QED
        BY <3>2, <4>1 DEF Books, Undoing
    <3>3. CASE pc' = "planning"
      BY <1>2, <3>3 DEF Phase2, Undoing
    <3>4. QED
      BY <3>1, <3>2, <3>3
  <2>4. CASE NextStep
    <3>1. /\ pc = "judging" /\ pc' = "stepping" /\ UNCHANGED <<row, completed, notes>>
          /\ chain.stop => err = "none"
      BY <2>4 DEF NextStep, rows
    <3>2. QED
      BY <2>1, <3>1 DEF Books, Phase2, Undoing, members
  <2>5. CASE StopChain
    <3>1. /\ pc \in {"judging", "stepping"} /\ pc' = "ending" /\ UNCHANGED <<row, completed, notes, err>>
          /\ err = "none" => pc = "stepping" /\ at > N
      BY <2>5 DEF StopChain, rows, memory
    <3>2. err = "none" => \A s \in Steps : row[s] \in chainRunStepTerminal
      BY <1>1, <3>1 DEF Before, Phase2, Steps
    <3>3. QED
      BY <2>1, <3>1, <3>2 DEF Books, Phase2, Undoing, members
  <2>6. CASE BeginUndo
    <3>1. /\ pc = "ending" /\ pc' = "undoing" /\ UNCHANGED <<row, completed, notes, err>> /\ err \in Kinds
      BY <2>6 DEF BeginUndo, rows, memory, MustUndo
    <3>2. \A s \in Completed : s \in ToSet(completed)
      BY <3>1 DEF Books, Completed
    <3>3. Completed' = Completed
      BY <3>1 DEF Completed
    <3>4. QED
      BY <3>1, <3>2, <3>3 DEF Books, Phase2, Undoing
  <2>7. QED
    BY <1>5, <2>2, <2>3, <2>4, <2>5, <2>6 DEF RunStep
<1>6. ASSUME NEW s, UndoStep(s) PROVE Books'
  <2>1. /\ pc \in Undoing /\ pc' \in Undoing /\ s = Last(completed) /\ completed # <<>>
        /\ UNCHANGED <<row, err, turn>> /\ notes \subseteq notes'
    BY <1>6, UndoFrame, UndoMemory DEF rows, outside
  <2>2. /\ s \in Steps /\ ToSet(completed) = ToSet(Front(completed)) \cup {s}
    BY <1>1, <2>1, FrontFacts
  <2>3. Completed' = Completed /\ Completed \subseteq Steps
    BY <2>1 DEF Completed
  <2>4. \/ "incomplete" \in notes'
        \/ \A t \in Completed : t \in ToSet(completed') \/ image'[t] = "base"
    <3>1. CASE "incomplete" \in notes \/ UndoFails(s)
      BY <2>1, <3>1 DEF UndoFails
    <3>2. ASSUME ~("incomplete" \in notes \/ UndoFails(s)), NEW t \in Completed
          PROVE  t \in ToSet(completed') \/ image'[t] = "base"
      <4>1. t \in ToSet(completed) \/ image[t] = "base"
        BY <2>1, <3>2 DEF Books
      <4>2. CASE SkipRestarted(s)
        <5>1. t # s /\ image' = image /\ completed' = Front(completed)
          BY <3>2, <4>2 DEF SkipRestarted, Completed, members
        <5>2. QED
          BY <2>2, <4>1, <5>1
      <4>3. CASE UndoRemoves(s)
        <5>1. image' = [image EXCEPT ![s] = "down"] /\ completed' = completed
          BY <4>3 DEF UndoRemoves, SetImage, memory
        <5>2. t # s => image'[t] = image[t]
          BY <2>3, <5>1, <1>1 DEF MembersTyped
        <5>3. QED
          BY <2>2, <4>1, <5>1, <5>2
      <4>4. CASE UndoSucceeds(s)
        <5>1. image' = [image EXCEPT ![s] = "base"] /\ completed' = Front(completed)
          BY <4>4 DEF UndoSucceeds, SetImage
        <5>2. image'[s] = "base" /\ (t # s => image'[t] = image[t])
          BY <1>1, <2>2, <2>3, <5>1 DEF MembersTyped
        <5>3. QED
          BY <2>2, <4>1, <5>1, <5>2
      <4>5. QED
        BY <1>6, <3>2, <4>2, <4>3, <4>4 DEF UndoStep
    <3>3. QED
      BY <3>1, <3>2
  <2>5. ~Recovering' => err' \in Kinds
    BY <2>1 DEF Books, Recovering
  <2>6. QED
    BY <2>1, <2>3, <2>4, <2>5 DEF Books, Phase2, Undoing
<1>7. ASSUME NEW s \in Steps, ChildStep(s) \/ ChildCancelled(s) \/ UserRollsBack(s) PROVE Books'
  <2>1. /\ ChildTold(s) /\ ChildMoved(s)
        /\ UNCHANGED <<chain, row, reused, at, completed, notes, err, pc, turn>>
    BY <1>7, ChildTells, ChildMoves, ChildFrame DEF rows, memory, outside
  <2>2. ASSUME NEW t \in Steps, t # s
        PROVE  child'[t] = child[t] /\ image'[t] = image[t] /\ (t \in hit' <=> t \in hit)
    BY <2>1, <2>2 DEF ChildMoved, Others, SameAt
  <2>3. pc # "done" => /\ row[s] \notin Told
                       /\ child'[s].tx = "success" => image'[s] = "new"
    BY <2>1 DEF ChildTold, RowsOfChildren
  <2>4. CASE pc = "done"
    BY <1>2, <2>1, <2>4 DEF Phase2, Undoing
  <2>5. CASE pc # "done"
    <3>1. pc \in {"linking", "waiting"} => at \in Steps
      BY DEF Memory, Phase2
    <3>2. pc' \in {"linking", "waiting"} /\ child'[at'].tx = "success" => image'[at'] = "new"
      BY <2>1, <2>2, <2>3, <2>5, <3>1 DEF Books
    <3>3. Completed' = Completed /\ Completed \subseteq Steps /\ s \notin Completed
      BY <2>1, <2>3, <2>5 DEF Completed, Told
    <3>4. pc \in Undoing => \/ "incomplete" \in notes
                            \/ \A t \in Completed : t \in ToSet(completed) \/ image'[t] = "base"
      BY <2>2, <3>3 DEF Books
    <3>5. pc \in Phase2 \cup {"ending"} => \A t \in Steps :
             /\ row[t] \in {"success", "recreated"} => t \in ToSet(completed)
             /\ row[t] = "success" => image'[t] = "new"
             /\ row[t] = "failed" /\ t \in reused \cap hit' => "force" \in notes
             /\ chain.stop /\ err = "none" => row[t] \notin {"failed", "blocked_preflight"}
      BY <2>2, <2>3, <2>5 DEF Books, Told
    <3>6. Recovering' <=> Recovering
      BY <2>1 DEF Recovering
    <3>7. QED
      BY <2>1, <3>2, <3>3, <3>4, <3>5, <3>6 DEF Books
  <2>6. QED
    BY <2>4, <2>5
<1>8. ASSUME NEW s \in Steps, SortStep(s) PROVE Books'
    BY <1>2, <1>8, SortFrame DEF SortTail, Phase2, Undoing
<1>9. ASSUME RecoveryStep PROVE Books'
  <2>1. ASSUME NEW r \in Recoverers, RecovererReads(r) \/ RecoveryCannotStart(r) PROVE Books'
    <3>1. /\ UNCHANGED <<row, at, completed, notes, err, members, chain, pc>>
          /\ turn[r] \in {"listed", "waiting"}
          /\ turn' = [turn EXCEPT ![r] = "waiting"] \/ turn' = [turn EXCEPT ![r] = "off"]
      BY <2>1, RecoveryStage DEF RecoveryStep, RecovererReads, RecoveryCannotStart, Turn, rows, memory
    <3>2. Recovering' <=> Recovering
      BY <1>1, <3>1 DEF Recovering
    <3>3. QED
      BY <1>3, <3>1, <3>2
  <2>2. CASE ScanLists
    <3>1. /\ UNCHANGED <<row, at, completed, notes, err, members, chain, pc>> /\ turn["scan"] = "due"
          /\ turn' = [turn EXCEPT !["scan"] = IF run.status \in ActiveRun THEN "listed" ELSE "off"]
      BY <2>2 DEF ScanLists, Turn, rows, memory
    <3>2. Recovering' <=> Recovering
      BY <1>1, <3>1 DEF Recovering, Recoverers
    <3>3. QED
      BY <1>3, <3>1, <3>2
  <2>3. CASE RecoveryUndoes
    <3>1. /\ pc = "sorting" /\ at > N /\ "operator" \notin notes /\ pc' = "undoing"
          /\ UNCHANGED <<row, completed, turn>>
      BY <2>3 DEF RecoveryUndoes, Sorted, rows, outside
    <3>2. \A t \in Completed : t \in ToSet(completed)
      BY <1>1, <3>1 DEF Sorts, Completed, Steps
    <3>3. Completed' = Completed /\ Recovering'
      BY <3>1 DEF Completed, Turns, Recovering
    <3>4. QED
      BY <3>1, <3>2, <3>3 DEF Books, Phase2, Undoing
  <2>4. CASE \/ RecoveryLeavesToOperator \/ RecoveryUndoIncomplete \/ RecoverySettles \/ Restart
             \/ \E r \in Recoverers : RecovererEnters(r)
    BY <1>2, <2>4 DEF RecoveryLeavesToOperator, RecoveryUndoIncomplete, RecoverySettles, RecoveryStops, Done,
       Restart, RecovererEnters, BeginRecovery, Phase2, Undoing
  <2>5. QED
    BY <1>9, <2>1, <2>2, <2>3, <2>4 DEF RecoveryStep
<1>10. ASSUME OutsideStep PROVE Books'
  <2>1. CASE StartChain \/ Crash
    BY <1>2, <2>1 DEF StartChain, Crash, Phase2, Undoing
  <2>2. CASE OrphanCancel
    <3>1. /\ UNCHANGED <<row, at, completed, notes, err, members, chain, pc>> /\ cancelling
          /\ turn' = [turn EXCEPT !["orphan"] = "listed"]
      BY <2>2 DEF OrphanCancel, memory
    <3>2. turn["orphan"] = "off"
      BY <3>1 DEF Turns
    <3>3. Recovering' <=> Recovering
      BY <1>1, <3>1, <3>2 DEF Recovering, Recoverers
    <3>4. QED
      BY <1>3, <3>1, <3>3
  <2>3. CASE SignalCancel \/ CancelQueuedChain \/ RequestCancel
    <3>1. UNCHANGED <<row, at, completed, notes, err, members, chain, pc, turn>>
      BY <2>3 DEF SignalCancel, CancelQueuedChain, RequestCancel, rows, memory, outside
    <3>2. QED
      BY <1>3, <3>1 DEF Recovering
  <2>4. QED
    BY <1>10, <2>1, <2>2, <2>3 DEF OutsideStep
<1>11. CASE UNCHANGED vars
    BY <1>3, <1>11 DEF vars, rows, memory, outside, Recovering
<1>12. QED
  <2>1. \A s \in ToSet(completed) : UndoStep(s) => Books'
    BY <1>6
  <2>2. QED
    BY <1>4, <1>5, <1>7, <1>8, <1>9, <1>10, <1>11, <2>1, NextSplits

\* Before its run a chain has no child and no status to be wrong about.
LEMMA InitTruth == Init => TruthInv
<1> SUFFICES ASSUME Init PROVE TruthInv
    OBVIOUS
<1>1. /\ pc = "idle" /\ run.status = "none" /\ hit = {} /\ link = {}
      /\ \A s \in Steps : row[s] = "none" /\ child[s].job = "none" /\ child[s].tx = "none"
      /\ turn = [r \in Recoverers |-> "off"]
    BY DEF Init
<1>2. Lives
    BY <1>1 DEF Lives, UnderWay, Phase1, Phase2, Undoing
<1>3. Children /\ RowsOfChildren
    BY <1>1 DEF Children, RowsOfChildren, Agree, ActiveJob, ActiveTx, Told, Lifecycle
<1>4. Books /\ Sorts
    BY <1>1 DEF Books, Sorts, Phase2, Undoing
<1>5. UpToDate
    BY <1>1 DEF UpToDate
<1>6. SettledRunsAreTrue
    BY <1>1 DEF SettledRunsAreTrue, RollbackIsComplete, SuccessIsWhole, CancelSettlesSteps
<1>7. QED
    BY <1>2, <1>3, <1>4, <1>5, <1>6 DEF TruthInv

\* A run that has not settled, or that promises nothing of its members.
LEMMA NothingToTell ==
    ASSUME run'.status \notin {"success", "failed", "recovered", "cancelled"}
    PROVE  SettledRunsAreTrue'
BY DEF SettledRunsAreTrue, RollbackIsComplete, SuccessIsWhole, CancelSettlesSteps

\* What a settled run says stays so while nothing of it changes but that
\* children end.
LEMMA SaidBefore ==
    ASSUME SettledRunsAreTrue, UNCHANGED <<chain, run, row, link, hit, reused, image>>,
           \A s \in Steps : child'[s].job \in ActiveJob => child[s].job \in ActiveJob
    PROVE  SettledRunsAreTrue'
<1>1. Completed' = Completed
    BY DEF Completed
<1>2. RollbackIsComplete'
    BY <1>1 DEF SettledRunsAreTrue, RollbackIsComplete
<1>3. SuccessIsWhole'
    BY DEF SettledRunsAreTrue, SuccessIsWhole
<1>4. CancelSettlesSteps'
    BY DEF SettledRunsAreTrue, CancelSettlesSteps
<1>5. QED
    BY <1>2, <1>3, <1>4 DEF SettledRunsAreTrue

\* The executor ends a run with what its books and its undoing leave.
LEMMA EndTells ==
    ASSUME ChainInv, Books, EndRun
    PROVE  SettledRunsAreTrue'
<1> USE DEF ChainInv
<1>1. /\ RowsTyped /\ completed \in Seq(Steps) /\ err \in Kinds \cup {"none", "blocked"}
    BY TypesOfTyped DEF TypeOK
<1>2. /\ UNCHANGED <<chain, row, link, members>> /\ run'.status = EndStatus
      /\ Completed' = Completed /\ Completed \subseteq Steps
    BY <1>1 DEF EndRun, SetRun, RowsTyped, Completed
<1>3. completed = <<>> => ToSet(completed) = {}
    BY <1>1, EmptyFacts
<1>4. /\ EndStatus = "success" => err = "none"
      /\ EndStatus = "failed" => err \in Kinds /\ "incomplete" \notin notes
      /\ EndStatus \in {"success", "failed", "blocked", "recovery_required"}
    BY <1>1 DEF EndStatus
<1>5. CASE pc = "ending" /\ ~MustUndo
  <2>1. \A s \in Steps :
          /\ row[s] \in {"success", "recreated"} => s \in ToSet(completed)
          /\ row[s] = "success" => image[s] = "new"
          /\ row[s] = "failed" /\ s \in reused \cap hit => "force" \in notes
          /\ chain.stop /\ err = "none" => row[s] \notin {"failed", "blocked_preflight"}
    BY <1>5 DEF Books
  <2>2. err = "none" => \A s \in Steps : row[s] \in chainRunStepTerminal
    BY <1>5 DEF Books
  <2>3. ASSUME EndStatus = "failed", chain.undo \/ \E s \in reused \cap hit : row[s] = "failed"
        PROVE  Completed = {}
    <3>1. reused \subseteq Steps
      BY DEF TypeOK
    <3>2. completed = <<>>
      BY <1>4, <1>5, <2>1, <2>3, <3>1 DEF MustUndo
    <3>3. QED
      BY <1>3, <2>1, <3>2 DEF Completed
  <2>4. RollbackIsComplete'
    BY <1>2, <1>4, <2>3 DEF RollbackIsComplete, members
  <2>5. SuccessIsWhole'
    BY <1>2, <1>4, <2>1, <2>2 DEF SuccessIsWhole, members
  <2>6. CancelSettlesSteps'
    BY <1>2, <1>4 DEF CancelSettlesSteps
  <2>7. QED
    BY <2>4, <2>5, <2>6 DEF SettledRunsAreTrue
<1>6. CASE pc = "undoing" /\ completed = <<>> /\ ~Recovering
  <2>1. /\ err \in Kinds
        /\ "incomplete" \in notes \/ \A s \in Completed : s \in ToSet(completed) \/ image[s] = "base"
    BY <1>6 DEF Books, Undoing
  <2>2. EndStatus # "success"
    BY <1>4, <2>1 DEF Kinds
  <2>3. EndStatus = "failed" => \A s \in Completed : image[s] = "base"
    BY <1>3, <1>4, <1>6, <2>1
  <2>4. RollbackIsComplete'
    BY <1>2, <1>4, <2>3 DEF RollbackIsComplete, members
  <2>5. SuccessIsWhole' /\ CancelSettlesSteps'
    BY <1>2, <1>4, <2>2 DEF SuccessIsWhole, CancelSettlesSteps
  <2>6. QED
    BY <2>4, <2>5 DEF SettledRunsAreTrue
<1>7. QED
    BY <1>5, <1>6 DEF EndRun

\* The executor cancels only where no child of its run is under way.
LEMMA CancelTells ==
    ASSUME ChainInv, Children, CancelSafely \/ CancelledInQueue
    PROVE  SettledRunsAreTrue'
<1> USE DEF ChainInv
<1>1. RowsTyped
    BY TypesOfTyped
<1>2. /\ pc \in {"queued", "checking", "planning", "stepping", "judging"}
      /\ run'.status = "cancelled" /\ UNCHANGED <<link, child>>
    BY <1>1 DEF CancelSafely, CancelledInQueue, SafePoint, finishChainSafeCancel, SetRun, RowsTyped, members
<1>3. \A s \in Steps : row'[s] \in chainRunStepTerminal \cup {"none"}
  <2>1. CASE CancelSafely
    BY <2>1 DEF CancelSafely, finishChainSafeCancel, chainRunStepTerminal
  <2>2. CASE CancelledInQueue
    BY <2>2 DEF CancelledInQueue, Before
  <2>3. QED
    BY <2>1, <2>2
<1>4. turn["scan"] # "due"
    BY <1>2 DEF Turns, Recoverers, Undoing
<1>5. \A s \in Steps : child[s].job \notin ActiveJob
    BY <1>2, <1>4 DEF Children
<1>6. CancelSettlesSteps'
    BY <1>2, <1>3, <1>5 DEF CancelSettlesSteps
<1>7. RollbackIsComplete' /\ SuccessIsWhole'
    BY <1>2 DEF RollbackIsComplete, SuccessIsWhole
<1>8. QED
    BY <1>6, <1>7 DEF SettledRunsAreTrue

\* A recovery settles a run with every row resolved, and what was completed
\* before a rolled-back step undone.
LEMMA SettleTells ==
    ASSUME ChainInv, RowsOfChildren, Books, Sorts, RecoverySettles
    PROVE  SettledRunsAreTrue'
<1> USE DEF ChainInv
<1>1. RowsTyped /\ completed \in Seq(Steps) /\ at \in Nat /\ N \in Nat
    BY TypesOfTyped, ChainAssumption DEF TypeOK
<1>2. row' = row /\ UNCHANGED <<chain, members, link>>
    BY RecoveryStage DEF RecoveryStep, RecoverySettles, finishChainSafeCancel
<1>3. Completed' = Completed
    BY <1>2 DEF Completed
<1>4. \/ pc = "sorting" /\ at > N /\ "operator" \notin notes /\ ~RecoveryMustUndo
      \/ pc = "undoing" /\ Recovering /\ completed = <<>> /\ "incomplete" \notin notes
    BY DEF RecoverySettles, Sorted
<1>5. \A s \in Steps : row[s] \in Settled
    BY <1>1, <1>4 DEF Resolved, Steps, Undoing
<1>6. completed = <<>> => ToSet(completed) = {}
    BY <1>1, EmptyFacts
<1>7. CASE "cancel" \in notes
  <2>1. run'.status = "cancelled"
    BY <1>1, <1>7 DEF RecoverySettles, finishChainSafeCancel, SetRun, RowsTyped
  <2>2. ASSUME NEW s \in Steps, s \in link PROVE child[s].job \notin ActiveJob
    <3>1. row[s] \in Linked \cap Settled
      BY <1>5, <2>2 DEF Begins
    <3>2. row[s] \in Told
      BY <3>1 DEF Linked, Settled, chainRunStepTerminal, Told
    <3>3. QED
      BY <3>2 DEF RowsOfChildren
  <2>3. CancelSettlesSteps'
    BY <1>2, <1>5, <2>2 DEF CancelSettlesSteps, Settled, members
  <2>4. RollbackIsComplete' /\ SuccessIsWhole'
    BY <2>1 DEF RollbackIsComplete, SuccessIsWhole
  <2>5. QED
    BY <2>3, <2>4 DEF SettledRunsAreTrue
<1>8. CASE "cancel" \notin notes
  <2>1. run'.status \in {"recovered", "interrupted"}
    BY <1>1, <1>8 DEF RecoverySettles, SetRun, RowsTyped
  <2>2. ASSUME chain.undo, NEW s \in Steps, row[s] = "rolled_back", NEW t \in Completed
        PROVE  image[t] = "base"
    <3>1. t \in Steps
      BY DEF Completed
    <3>2. CASE pc = "sorting" /\ at > N /\ "operator" \notin notes /\ ~RecoveryMustUndo
      <4>1. s < at /\ t < at
        BY <1>1, <3>1, <3>2 DEF Steps
      <4>2. "rolled" \in notes /\ t \in ToSet(completed)
        BY <2>2, <3>1, <3>2, <4>1 DEF Sorts, Completed
      <4>3. QED
        BY <1>6, <2>2, <3>2, <4>2 DEF RecoveryMustUndo
    <3>3. CASE pc = "undoing" /\ Recovering /\ completed = <<>> /\ "incomplete" \notin notes
      BY <1>6, <3>3 DEF Books, Undoing
    <3>4. QED
      BY <1>4, <3>2, <3>3
  <2>3. RollbackIsComplete'
    BY <1>2, <1>3, <2>1, <2>2 DEF RollbackIsComplete, members
  <2>4. SuccessIsWhole' /\ CancelSettlesSteps'
    BY <2>1 DEF SuccessIsWhole, CancelSettlesSteps
  <2>5. QED
    BY <2>3, <2>4 DEF SettledRunsAreTrue
<1>9. QED
    BY <1>7, <1>8

\* Neither a child update nor a rollback by the user belies a settled run: rows
\* of ended children are settled, and a user has nothing to roll back of a
\* member that reports success.
LEMMA ChildBelies ==
    ASSUME ChainInv, Children, RowsOfChildren, SettledRunsAreTrue,
           NEW s \in Steps, ChildStep(s) \/ ChildCancelled(s) \/ UserRollsBack(s)
    PROVE  SettledRunsAreTrue'
<1>1. /\ ChildTold(s) /\ ChildMoved(s)
      /\ UNCHANGED <<chain, run, row, link, reused>>
    BY ChildTells, ChildMoves, ChildFrame DEF rows, ChainInv
<1>2. ASSUME NEW t \in Steps, t # s
      PROVE  child'[t] = child[t] /\ image'[t] = image[t] /\ (t \in hit' <=> t \in hit)
    BY <1>1, <1>2 DEF ChildMoved, Others, SameAt
<1>3. row[s] \in Told =>
        /\ hit' = hit /\ image'[s] = "base"
        /\ image[s] = "down" \/ child[s].tx = "recovery_required"
    BY <1>1 DEF ChildTold, RowsOfChildren
<1>4. RollbackIsComplete'
  <2>1. Completed' = Completed /\ Completed \subseteq Steps /\ reused \subseteq Steps
    BY <1>1 DEF Completed, ChainInv, TypeOK
  <2>2. \A t \in reused \cap hit' : row[t] = "failed" => t \in hit
    BY <1>2, <1>3, <2>1 DEF Told
  <2>3. \A t \in Completed : image[t] = "base" => image'[t] = "base"
    BY <1>2, <1>3, <2>1 DEF Told, Completed
  <2>4. QED
    BY <1>1, <2>1, <2>2, <2>3 DEF SettledRunsAreTrue, RollbackIsComplete
<1>5. SuccessIsWhole'
  <2>1. run.status = "success" /\ row[s] = "success" => FALSE
    BY <1>3 DEF SettledRunsAreTrue, SuccessIsWhole, Told, RowsOfChildren
  <2>2. QED
    BY <1>1, <1>2, <2>1 DEF SettledRunsAreTrue, SuccessIsWhole
<1>6. CancelSettlesSteps'
    BY <1>1, <1>2 DEF SettledRunsAreTrue, CancelSettlesSteps, ChildMoved
<1>7. QED
    BY <1>4, <1>5, <1>6 DEF SettledRunsAreTrue

\* No step makes what a settled run says of its members untrue.
LEMMA TruthStays ==
    ASSUME ChainInv, TruthInv, [Next]_vars
    PROVE  SettledRunsAreTrue'
<1> USE DEF ChainInv, TruthInv
<1>1. ASSUME pc' \in UnderWay PROVE SettledRunsAreTrue'
  <2>1. run'.status \in ActiveRun
    BY <1>1, LivesStay DEF Lives
  <2>2. QED
    BY <2>1, NothingToTell DEF ActiveRun
<1>2. ASSUME NEW s \in Steps, ExecutorStep(s) PROVE SettledRunsAreTrue'
  <2>1. CASE pc \in Phase1
    <3>1. CASE PlanBlocks(s)
      <4>1. run'.status = "blocked"
        BY <3>1, TypesOfTyped DEF PlanBlocks, SetRun, RowsTyped
      <4>2. QED
        BY <4>1, NothingToTell
    <3>2. CASE ~PlanBlocks(s)
      <4>1. pc' \in Phase1 \cup {"ending"}
        BY <1>2, <2>1, <3>2, CheckingRows DEF CheckFinds, CheckFails, PlanAllows
      <4>2. QED
        BY <1>1, <4>1 DEF UnderWay
    <3>3. QED
      BY <3>1, <3>2
  <2>2. CASE pc \in Phase2
    <3>1. ExecutorMoved(s)
      BY <1>2, <2>2, ExecutorMoves
    <3>2. QED
      BY <1>1, <3>1 DEF ExecutorMoved, UnderWay, Phase2
  <2>3. QED
    BY <1>2, <2>1, <2>2, ExecutorFrame
<1>3. ASSUME NEW s, UndoStep(s) PROVE SettledRunsAreTrue'
    BY <1>1, <1>3, UndoFrame DEF UnderWay
<1>4. ASSUME NEW s \in Steps, SortStep(s) PROVE SettledRunsAreTrue'
    BY <1>1, <1>4, SortFrame DEF SortTail, UnderWay
<1>5. ASSUME RunStep PROVE SettledRunsAreTrue'
  <2>1. CASE ClaimChain \/ AllChecked \/ Planned \/ NextStep \/ StopChain \/ BeginUndo
    BY <1>1, <2>1 DEF ClaimChain, AllChecked, Planned, NextStep, StopChain, BeginUndo, UnderWay, Phase1,
       Phase2, Undoing
  <2>2. CASE NothingToDo
    <3>1. run'.status = "no_changes"
      BY <2>2, TypesOfTyped DEF NothingToDo, SetRun, RowsTyped
    <3>2. QED
      BY <3>1, NothingToTell
  <2>3. CASE CloseJob
    BY <2>3, SaidBefore DEF CloseJob, members
  <2>4. QED
    BY <1>5, <2>1, <2>2, <2>3, EndTells, CancelTells DEF RunStep
<1>6. ASSUME RecoveryStep PROVE SettledRunsAreTrue'
  <2>1. CASE \/ RecoveryUndoes \/ \E r \in Recoverers : RecovererEnters(r)
    BY <1>1, <2>1 DEF RecoveryUndoes, RecovererEnters, BeginRecovery, UnderWay, Undoing
  <2>2. CASE \/ RecoveryLeavesToOperator \/ RecoveryUndoIncomplete
             \/ \E r \in Recoverers : RecoveryCannotStart(r)
    <3>1. run'.status = "recovery_required"
      BY <2>2, TypesOfTyped DEF RecoveryLeavesToOperator, RecoveryUndoIncomplete, RecoveryStops,
         RecoveryCannotStart, SetRun, RowsTyped
    <3>2. QED
      BY <3>1, NothingToTell
  <2>3. CASE ScanLists \/ \E r \in Recoverers : RecovererReads(r)
    BY <2>3, SaidBefore DEF ScanLists, RecovererReads, rows, members
  <2>4. CASE Restart
    <3>1. \A s \in Steps : child'[s].job \in ActiveJob => child[s].job \in ActiveJob
      BY <2>4, TypesOfTyped DEF Restart, MembersTyped, ActiveJob
    <3>2. QED
      BY <2>4, <3>1, SaidBefore DEF Restart
  <2>5. QED
    BY <1>6, <2>1, <2>2, <2>3, <2>4, SettleTells DEF RecoveryStep
<1>7. ASSUME OutsideStep PROVE SettledRunsAreTrue'
  <2>1. CASE StartChain
    BY <1>1, <2>1 DEF StartChain, UnderWay
  <2>2. CASE OrphanCancel
    BY <2>2, NothingToTell DEF OrphanCancel
  <2>3. CASE SignalCancel \/ CancelQueuedChain \/ RequestCancel \/ Crash
    BY <2>3, SaidBefore DEF SignalCancel, CancelQueuedChain, RequestCancel, Crash, rows, members
  <2>4. QED
    BY <1>7, <2>1, <2>2, <2>3 DEF OutsideStep
<1>8. CASE UNCHANGED vars
    BY <1>8, SaidBefore DEF vars, rows, members
<1>9. QED
  <2>1. \A s \in ToSet(completed) : UndoStep(s) => SettledRunsAreTrue'
    BY <1>3
  <2>2. QED
    BY <1>2, <1>4, <1>5, <1>6, <1>7, <1>8, <2>1, ChildBelies, NextSplits

\* SettledRunsAreTrue (UpdateChain): what the status of a settled run says of
\* the rows, images and children of its members is so, by the end of
\* executeUpdateChain, finishChainSafeCancel or recoverInterruptedChainRun, and
\* it stays so while recoverers, children and users go on.
THEOREM SettledRunsTellTheTruth == Spec => []SettledRunsAreTrue
<1> DEFINE Inv == ChainInv /\ TruthInv
<1>1. Init => Inv
    BY InitChain, InitTruth
<1>2. Inv /\ [Next]_vars => Inv'
  <2> SUFFICES ASSUME ChainInv, TruthInv, [Next]_vars PROVE ChainInv' /\ TruthInv'
    OBVIOUS
  <2>1. Lives' /\ Children' /\ RowsOfChildren'
    BY LivesStay, ChildrenStay, RowsOfChildrenStay DEF ChainInv, TruthInv
  <2>2. Books' /\ UpToDate' /\ Sorts'
    BY BooksStay, UpToDateStays, SortsStay DEF TruthInv
  <2>3. QED
    BY <2>1, <2>2, TruthStays, NextChain DEF TruthInv
<1>3. Inv => SettledRunsAreTrue
    BY DEF TruthInv
<1>4. QED
    BY <1>1, <1>2, <1>3, PTL DEF Spec
=============================================================================
