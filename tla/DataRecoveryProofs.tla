-------------------------- MODULE DataRecoveryProofs --------------------------
(* For every set of writers, dependents and mounts and any number of         *)
(* failures, crashes and rollbacks: a row that says ready has its image and  *)
(* its archives; a capture that ended, or a rollback refused before it       *)
(* replaced anything, leaves no writer stopped but those it reports; and     *)
(* what a finished rollback reports is what is there.  The argument follows  *)
(* an operation: which parts of the point exist at which step, which of the  *)
(* containers that ran when it began it still owes, and what a rollback has  *)
(* replaced and can still put back.                                          *)
EXTENDS DataRecovery, TLAPS

StepNames ==
    {"none", "stop", "archive", "restart", "row", "abort", "recreate", "safety", "others",
     "verify", "rebind", "finish", "undo_stop", "undo_recreate", "undo_restart"}
ResultNames == {"none", "ready", "failed", "success", "recovered", "unrecovered", "crashed"}
Operation ==
    [kind : {"none", "capture", "rollback"}, step : StepNames, stopped : SUBSET Writers,
     fresh : SUBSET Writers, deferred : SUBSET {Target}, downed : SUBSET Writers,
     result : ResultNames]
Point == [row : {"none", "ready", "degraded"}, image : BOOLEAN, archive : BOOLEAN,
          dependents : SUBSET Dependents]

Shape == op \in Operation /\ point \in Point

\* What a capture has made, step by step; a rollback starts from a whole point
\* and removes nothing of it.
PartsFollowSteps ==
    /\ op.kind = "capture" /\ op.step = "archive" => point.image
    /\ op.kind = "capture" /\ op.step \in {"restart", "row", "recreate"} => point.image /\ point.archive
    /\ op.kind = "rollback" => point.image /\ point.archive
PointInv == Shape /\ PartsFollowSteps /\ ReadyPointIsWhole

\* Whoever ran at the beginning and does not run now was stopped by this
\* operation; once a capture has started the others again, only a deferred
\* writer is missing, and at the end only those whose start failed.
CaptureOwes ==
    op.kind = "capture" =>
        /\ op.stopped = op.fresh
        /\ began.up \subseteq up \cup op.stopped
        /\ op.step \in {"row", "recreate"} => began.up \subseteq up \cup op.deferred
RollbackOwes ==
    op.kind = "rollback" /\ op.step \in {"safety", "stop"} =>
        op.stopped = op.fresh /\ began.up \subseteq up \cup op.stopped
NothingOwed ==
    op.kind = "none" /\ op.result \in {"ready", "failed"} => began.up \subseteq up \cup op.downed
IdleRests == op.kind = "none" => op.step = "none"
WritersInv == CaptureOwes /\ RollbackOwes /\ NothingOwed /\ IdleRests

-----------------------------------------------------------------------------
\* What the operators that end or move an operation do to its record.
LEMMA GotoFacts ==
    ASSUME op \in Operation, NEW s \in StepNames, Goto(s)
    PROVE  /\ op' \in Operation /\ op'.step = s /\ op'.kind = op.kind
           /\ op'.stopped = op.stopped /\ op'.fresh = op.fresh /\ op'.deferred = op.deferred
BY DEF Operation, Goto

LEMMA EndFacts ==
    ASSUME op \in Operation, NEW r \in ResultNames
    PROVE  /\ End(r) \in Operation /\ End(r).kind = "none" /\ End(r).step = "none"
           /\ End(r).result = r
           /\ End(r).downed = op.downed /\ End(r).deferred = {}
BY DEF Operation, End, Idle, StepNames

LEMMA FailJobFacts ==
    ASSUME op \in Operation, point \in Point, NEW r \in ResultNames, FailJob(r)
    PROVE  /\ op' \in Operation /\ op'.kind = "none" /\ op'.step = "none" /\ op'.result = r
           /\ point' \in Point /\ point'.row = "degraded"
<1>1. Owed \in SUBSET {Target}
    BY DEF Owed, Operation
<1>2. op' = [End(r) EXCEPT !.deferred = Owed] /\ point' = [point EXCEPT !.row = "degraded"]
    BY DEF FailJob
<1>3. op' \in Operation /\ op'.kind = "none" /\ op'.step = "none" /\ op'.result = r
    BY <1>1, <1>2, EndFacts DEF Operation
<1> QED
    BY <1>2, <1>3 DEF Point

LEMMA UndoOrFailFacts ==
    ASSUME op \in Operation, point \in Point, UndoOrFail
    PROVE  /\ op' \in Operation /\ point' \in Point
           /\ \/ op'.kind = op.kind /\ op'.step = "undo_stop" /\ point' = point
              \/ /\ op'.kind = "none" /\ op'.step = "none" /\ op'.result = "unrecovered"
                 /\ point'.row = "degraded"
<1>1. CASE CanUndo
    <2>1. op' = [op EXCEPT !.step = "undo_stop", !.fresh = {}] /\ point' = point
        BY <1>1 DEF UndoOrFail
    <2> QED
        BY <2>1 DEF Operation, StepNames
<1>2. CASE ~CanUndo
    <2>1. FailJob("unrecovered")
        BY <1>2 DEF UndoOrFail
    <2> QED
        BY <2>1, FailJobFacts DEF ResultNames
<1> QED
    BY <1>1, <1>2

LEMMA InitPoint == Init => PointInv
    BY DEF Init, PointInv, Shape, PartsFollowSteps, ReadyPointIsWhole, NoPoint, Idle, Operation,
           Point, StepNames, ResultNames

\* What the point claims is there, through every step of either operation.
LEMMA StepPoint == PointInv /\ [Next]_vars => PointInv'
<1> SUFFICES ASSUME PointInv, [Next]_vars PROVE PointInv'
    OBVIOUS
<1> USE DEF PointInv, Shape, PartsFollowSteps, ReadyPointIsWhole, Operation, Point, StepNames,
            ResultNames
<1>1. ASSUME NEW w \in Writers, StopWriter(w) PROVE PointInv'
    BY <1>1 DEF StopWriter
<1>2. CASE StartCapture
    <2>1. PICK deferred \in SUBSET {Target} :
              op' = [Idle EXCEPT !.kind = "capture", !.step = "stop", !.deferred = deferred]
        BY <1>2 DEF StartCapture
    <2>2. op' \in Operation /\ op'.kind = "capture" /\ op'.step = "stop"
        BY <2>1 DEF Idle
    <2>3. point' \in Point /\ point'.row = "none"
        BY <1>2, WritersAssumption DEF StartCapture, NoPoint
    <2> QED
        BY <2>2, <2>3
<1>3. CASE Update
    BY <1>3 DEF Update, Free, Idle
<1>4. CASE StartRollback
    BY <1>4 DEF StartRollback, Free, Idle
<1>5. CASE Crash
    BY <1>5 DEF Crash, End, Idle
<1>6. CASE StopFails
    <2>1. PICK failed \in SUBSET op.fresh :
              op' = [End("failed") EXCEPT !.downed = failed, !.deferred = Owed]
        BY <1>6 DEF StopFails
    <2>2. op' \in Operation /\ op'.kind = "none" /\ op'.step = "none" /\ op'.result = "failed"
        BY <2>1, EndFacts DEF Owed
    <2>3. point' \in Point /\ UNCHANGED <<point.image, point.archive>> /\ point'.row \in {point.row, "degraded"}
        BY <1>6 DEF StopFails
    <2> QED
        BY <2>2, <2>3
<1>7. CASE CommitImage
    BY <1>7 DEF CommitImage, At, Goto
<1>8. CASE CaptureArchive
    <2>1. CASE Goto("restart") /\ point' = [point EXCEPT !.archive = TRUE]
        BY <1>8, <2>1, GotoFacts DEF CaptureArchive, At
    <2>2. CASE Goto("abort") /\ point' = NoPoint
        BY <1>8, <2>2, GotoFacts DEF CaptureArchive, At, NoPoint
    <2> QED
        BY <1>8, <2>1, <2>2 DEF CaptureArchive
<1>9. CASE RestartWriters
    <2>1. CASE Goto("row") /\ UNCHANGED point
        BY <1>9, <2>1, GotoFacts DEF RestartWriters, At
    <2>2. CASE Goto("abort") /\ point' = NoPoint
        BY <1>9, <2>2, GotoFacts DEF RestartWriters, At, NoPoint
    <2> QED
        BY <1>9, <2>1, <2>2 DEF RestartWriters
<1>10. CASE AddRestorePoint
    <2>1. CASE point' = [point EXCEPT !.row = "ready"]
        <3>1. CASE op' = End("ready")
            BY <1>10, <2>1, <3>1, EndFacts DEF AddRestorePoint, At
        <3>2. CASE op' = [op EXCEPT !.step = "recreate"]
            BY <1>10, <2>1, <3>2 DEF AddRestorePoint, At
        <3>3. op' = End("ready") \/ op' = [op EXCEPT !.step = "recreate"] \/ point' = NoPoint
            BY <1>10 DEF AddRestorePoint
        <3> QED
            BY <2>1, <3>1, <3>2, <3>3 DEF NoPoint
    <2>2. CASE Goto("abort") /\ point' = NoPoint
        BY <1>10, <2>2, GotoFacts DEF AddRestorePoint, At, NoPoint
    <2> QED
        BY <1>10, <2>1, <2>2 DEF AddRestorePoint
<1>11. CASE AbortCapture
    <2>1. PICK failed \in SUBSET Writers : op' = [End("failed") EXCEPT !.downed = failed]
        BY <1>11 DEF AbortCapture
    <2>2. op' \in Operation /\ op'.kind = "none" /\ op'.step = "none" /\ op'.result = "failed"
        BY <2>1, EndFacts
    <2>3. UNCHANGED point
        BY <1>11 DEF AbortCapture
    <2> QED
        BY <2>2, <2>3
<1>12. CASE RecreateCurrent
    BY <1>12 DEF RecreateCurrent, At, End, Idle
<1>13. CASE ReleaseDeferred
    <2>1. op' = [op EXCEPT !.deferred = {}, !.downed = @ \cup (op.deferred \ up')]
        BY <1>13 DEF ReleaseDeferred
    <2>2. op.downed \cup (op.deferred \ up') \in SUBSET Writers
        BY WritersAssumption
    <2> QED
        BY <1>13, <2>1, <2>2 DEF ReleaseDeferred
<1>14. CASE SafetyCommit
    BY <1>14 DEF SafetyCommit, At, Goto
<1>15. CASE RestoreData
    BY <1>15 DEF RestoreData, At
<1>16. CASE RestoreDataFails
    BY <1>16 DEF RestoreDataFails, At, FailData, End, Owed, Idle
<1>17. CASE RecreateTarget
    <2>1. CASE Goto("others") /\ UNCHANGED point
        BY <1>17, <2>1, GotoFacts DEF RecreateTarget, At
    <2>2. CASE UndoOrFail
        BY <1>17, <2>2, UndoOrFailFacts DEF RecreateTarget, At
    <2> QED
        BY <1>17, <2>1, <2>2 DEF RecreateTarget
<1>18. CASE RestartOthers
    <2>1. CASE Goto("verify") /\ UNCHANGED point
        BY <1>18, <2>1, GotoFacts DEF RestartOthers, At
    <2>2. CASE UndoOrFail
        BY <1>18, <2>2, UndoOrFailFacts DEF RestartOthers, At
    <2> QED
        BY <1>18, <2>1, <2>2 DEF RestartOthers
<1>19. CASE VerifyTarget
    <2>1. CASE Goto("rebind") /\ UNCHANGED point
        BY <1>19, <2>1, GotoFacts DEF VerifyTarget, At
    <2>2. CASE UndoOrFail
        BY <1>19, <2>2, UndoOrFailFacts DEF VerifyTarget, At
    <2> QED
        BY <1>19, <2>1, <2>2 DEF VerifyTarget
<1>20. CASE RebindDependents
    <2>1. CASE Goto("finish") /\ UNCHANGED point
        BY <1>20, <2>1, GotoFacts DEF RebindDependents, At
    <2>2. CASE UndoOrFail
        BY <1>20, <2>2, UndoOrFailFacts DEF RebindDependents, At
    <2>3. CASE FailJob("unrecovered")
        BY <1>20, <2>3, FailJobFacts DEF RebindDependents, At
    <2> QED
        BY <1>20, <2>1, <2>2, <2>3 DEF RebindDependents
<1>21. CASE FinishRollback
    <2>1. CASE op' = [End("success") EXCEPT !.deferred = op.deferred]
               /\ point' = [point EXCEPT !.row = "ready"]
        BY <1>21, <2>1, EndFacts DEF FinishRollback, At
    <2>2. CASE op' = [End("unrecovered") EXCEPT !.deferred = op.deferred]
               /\ point' = [point EXCEPT !.row = "degraded"]
        BY <1>21, <2>2, EndFacts DEF FinishRollback, At
    <2> QED
        BY <1>21, <2>1, <2>2 DEF FinishRollback
<1>22. CASE CustomVerificationFails
    BY <1>22 DEF CustomVerificationFails, At, FailJob, Owed, End, Idle
<1>23. CASE UndoStopFails
    BY <1>23 DEF UndoStopFails, UndoStops, At, FailJob, Owed, End, Idle
<1>24. CASE UndoData
    BY <1>24 DEF UndoData, UndoStops, At, Goto, FailJob, Owed, End, Idle
<1>25. CASE UndoRecreate
    BY <1>25 DEF UndoRecreate, At, Goto, FailJob, Owed, End, Idle
<1>26. CASE UndoRestart
    BY <1>26 DEF UndoRestart, At, FailJob, Owed, End, Idle
<1>27. CASE UNCHANGED vars
    BY <1>27 DEF vars
<1> QED
    BY <1>1, <1>2, <1>3, <1>4, <1>5, <1>6, <1>7, <1>8, <1>9, <1>10, <1>11, <1>12, <1>13,
       <1>14, <1>15, <1>16, <1>17, <1>18, <1>19, <1>20, <1>21, <1>22, <1>23, <1>24, <1>25, <1>26,
       <1>27 DEF Next, Step

\* A row that says ready has its image and its archives.
THEOREM ReadyPointsAreWhole == Spec => []ReadyPointIsWhole
<1>1. PointInv => ReadyPointIsWhole
    BY DEF PointInv
<1> QED
    BY InitPoint, StepPoint, <1>1, PTL DEF Spec

-----------------------------------------------------------------------------
LEMMA InitWriters == Init => WritersInv
    BY DEF Init, WritersInv, CaptureOwes, RollbackOwes, NothingOwed, IdleRests, Idle

\* A rollback that goes on after its restore, or ends unresolved, owes nothing.
LEMMA LaterStepsOweNothing ==
    ASSUME \/ op'.kind = "rollback" /\ op'.step \notin {"safety", "stop"}
           \/ op'.kind = "none" /\ op'.step = "none" /\ op'.result \notin {"ready", "failed"}
    PROVE  WritersInv'
BY DEF WritersInv, CaptureOwes, RollbackOwes, NothingOwed, IdleRests

\* Through every step nobody is forgotten.
LEMMA StepWriters == Shape /\ WritersInv /\ [Next]_vars => WritersInv'
<1> SUFFICES ASSUME Shape, WritersInv, [Next]_vars PROVE WritersInv'
    OBVIOUS
<1>0. op \in Operation /\ point \in Point
    BY DEF Shape
<1> USE DEF WritersInv, CaptureOwes, RollbackOwes, NothingOwed, IdleRests
<1>1. ASSUME NEW w \in Writers, StopWriter(w) PROVE WritersInv'
    <2>1. /\ op'.kind = op.kind /\ op'.step = op.step
          /\ op'.stopped = op.stopped \cup {w} /\ op'.fresh = op.fresh \cup {w}
        BY <1>0, <1>1 DEF StopWriter, Operation
    <2>2. op.step \in {"stop", "undo_stop"} /\ up' = up \ {w} /\ began' = began
        BY <1>1 DEF StopWriter
    <2> QED
        BY <2>1, <2>2
<1>2. CASE StartCapture
    <2>1. PICK deferred \in SUBSET {Target} :
              op' = [Idle EXCEPT !.kind = "capture", !.step = "stop", !.deferred = deferred]
        BY <1>2 DEF StartCapture
    <2>2. op'.kind = "capture" /\ op'.step = "stop" /\ op'.stopped = op'.fresh
        BY <2>1 DEF Idle
    <2>3. began'.up = up /\ up' = up
        BY <1>2 DEF StartCapture, Begin, runtime
    <2> QED
        BY <2>2, <2>3
<1>3. CASE Update
    BY <1>3 DEF Update, Idle
<1>4. CASE StartRollback
    <2>1. began'.up = up /\ up' = up
        BY <1>4 DEF StartRollback, Begin, runtime
    <2>2. \/ /\ op'.kind = "rollback" /\ op'.step = "safety" /\ op'.stopped = op'.fresh
          \/ op'.kind = "none" /\ op'.step = "none"
        BY <1>4 DEF StartRollback, Idle
    <2> QED
        BY <2>1, <2>2
<1>5. CASE Crash
    <2>1. op' = [End("crashed") EXCEPT !.downed = op.stopped]
        BY <1>5 DEF Crash
    <2>2. op'.kind = "none" /\ op'.step = "none" /\ op'.result = "crashed"
        BY <2>1 DEF End, Idle
    <2> QED
        BY <2>2, LaterStepsOweNothing
<1>6. CASE StopFails
    <2>1. PICK failed \in SUBSET op.fresh :
              /\ up' = up \cup (op.fresh \ failed)
              /\ op' = [End("failed") EXCEPT !.downed = failed, !.deferred = Owed]
        BY <1>6 DEF StopFails
    <2>2. op'.kind = "none" /\ op'.step = "none" /\ op'.downed = failed
        BY <2>1 DEF End, Idle
    <2>3. op.step = "stop" /\ began' = began
        BY <1>6 DEF StopFails
    <2>4. op.kind \in {"capture", "rollback"} /\ op.stopped = op.fresh
        BY <1>0, <2>3 DEF Operation
    <2> QED
        BY <2>1, <2>2, <2>3, <2>4
<1>7. CASE CommitImage
    <2>1. op.kind = "capture" /\ up' = up /\ began' = began
        BY <1>7 DEF CommitImage, At, runtime
    <2>2. Goto("archive") \/ Goto("abort")
        BY <1>7 DEF CommitImage
    <2> QED
        BY <1>0, <2>1, <2>2, GotoFacts DEF StepNames
<1>8. CASE CaptureArchive
    <2>1. op.kind = "capture" /\ up' = up /\ began' = began
        BY <1>8 DEF CaptureArchive, At, runtime
    <2>2. Goto("restart") \/ Goto("abort")
        BY <1>8 DEF CaptureArchive
    <2> QED
        BY <1>0, <2>1, <2>2, GotoFacts DEF StepNames
<1>9. CASE RestartWriters
    <2>1. PICK failed \in SUBSET Writers :
              /\ up' = up \cup ((op.stopped \ op.deferred) \ failed)
              /\ IF failed = {} THEN Goto("row") ELSE Goto("abort")
        BY <1>9 DEF RestartWriters, Restart
    <2>2. op.kind = "capture" /\ began' = began
        BY <1>9 DEF RestartWriters, At
    <2>3. CASE failed = {}
        BY <1>0, <2>1, <2>2, <2>3, GotoFacts DEF StepNames
    <2>4. CASE failed # {}
        BY <1>0, <2>1, <2>2, <2>4, GotoFacts DEF StepNames
    <2> QED
        BY <2>3, <2>4
<1>10. CASE AddRestorePoint
    <2>1. op.kind = "capture" /\ op.step = "row" /\ up' = up /\ began' = began
        BY <1>10 DEF AddRestorePoint, At, runtime
    <2>2. CASE op.deferred = {} /\ op' = End("ready")
        BY <1>0, <2>1, <2>2 DEF End, Idle
    <2>3. CASE op' = [op EXCEPT !.step = "recreate"]
        BY <1>0, <2>1, <2>3 DEF Operation
    <2>4. CASE Goto("abort")
        BY <1>0, <2>1, <2>4, GotoFacts DEF StepNames
    <2> QED
        BY <1>10, <2>2, <2>3, <2>4 DEF AddRestorePoint
<1>11. CASE AbortCapture
    <2>1. PICK failed \in SUBSET Writers :
              /\ up' = up \cup (op.stopped \ failed)
              /\ op' = [End("failed") EXCEPT !.downed = failed]
        BY <1>11 DEF AbortCapture, Restart
    <2>2. op.kind = "capture" /\ began' = began
        BY <1>11 DEF AbortCapture, At
    <2>3. op'.kind = "none" /\ op'.step = "none" /\ op'.downed = failed
        BY <2>1 DEF End, Idle
    <2> QED
        BY <2>1, <2>2, <2>3
<1>12. CASE RecreateCurrent
    <2>1. CASE op' = End("ready") /\ up' = up \cup {Target} /\ began' = began
        <3>1. began.up \subseteq up \cup op.deferred /\ op.deferred \subseteq {Target}
            BY <1>0, <1>12 DEF RecreateCurrent, At, Operation
        <3>2. op'.kind = "none" /\ op'.step = "none"
            BY <2>1 DEF End, Idle
        <3> QED
            BY <2>1, <3>1, <3>2
    <2>2. CASE /\ op' = [Idle EXCEPT !.kind = "rollback", !.step = "safety",
                                    !.deferred = op.deferred]
               /\ began' = [up |-> up', image |-> "none", data |-> data, faults |-> faults']
        <3>1. op'.kind = "rollback" /\ op'.stopped = op'.fresh
            BY <2>2 DEF Idle
        <3>2. began'.up = up'
            BY <2>2
        <3> QED
            BY <3>1, <3>2
    <2> QED
        BY <1>12, <2>1, <2>2 DEF RecreateCurrent
<1>13. CASE ReleaseDeferred
    <2>1. op' = [op EXCEPT !.deferred = {}, !.downed = @ \cup (op.deferred \ up')]
        BY <1>13 DEF ReleaseDeferred
    <2>2. /\ op'.kind = op.kind /\ op'.step = op.step /\ op'.result = op.result
          /\ op.downed \subseteq op'.downed
        BY <1>0, <2>1 DEF Operation
    <2>3. op.kind = "none" /\ up \subseteq up' /\ began' = began
        BY <1>13 DEF ReleaseDeferred
    <2> QED
        BY <2>2, <2>3
<1>14. CASE SafetyCommit
    <2>1. op.kind = "rollback" /\ op.step = "safety" /\ up' = up /\ began' = began
        BY <1>14 DEF SafetyCommit, At, runtime
    <2>2. Goto("stop")
        BY <1>14 DEF SafetyCommit
    <2> QED
        BY <1>0, <2>1, <2>2, GotoFacts DEF StepNames
<1>15. CASE RestoreData
    <2>1. op' = [op EXCEPT !.step = "recreate"] /\ op.kind = "rollback"
        BY <1>15 DEF RestoreData, At
    <2>2. op'.kind = "rollback" /\ op'.step = "recreate"
        BY <1>0, <2>1 DEF Operation
    <2> QED
        BY <2>2, LaterStepsOweNothing
<1>16. CASE RestoreDataFails
    <2>1. PICK failed \in SUBSET op.stopped : FailData(failed)
        BY <1>16 DEF RestoreDataFails
    <2>2. op' = [End("failed") EXCEPT !.downed = failed, !.deferred = Owed]
        BY <2>1 DEF FailData
    <2>3. op'.kind = "none" /\ op'.step = "none" /\ op'.downed = failed
        BY <2>2 DEF End, Idle
    <2>4. up' = op.stopped \ failed
        BY <2>1 DEF FailData
    <2>5. op.kind = "rollback" /\ op.step = "stop" /\ up = {} /\ began' = began
        BY <1>16 DEF RestoreDataFails, At
    <2> QED
        BY <2>3, <2>4, <2>5
<1>17. CASE RecreateTarget
    <2>1. op.kind = "rollback" /\ (Goto("others") \/ UndoOrFail)
        BY <1>17 DEF RecreateTarget, At
    <2> QED
        BY <1>0, <2>1, GotoFacts, UndoOrFailFacts, LaterStepsOweNothing DEF StepNames
<1>18. CASE RestartOthers
    <2>1. op.kind = "rollback" /\ (Goto("verify") \/ UndoOrFail)
        BY <1>18 DEF RestartOthers, At
    <2> QED
        BY <1>0, <2>1, GotoFacts, UndoOrFailFacts, LaterStepsOweNothing DEF StepNames
<1>19. CASE VerifyTarget
    <2>1. op.kind = "rollback" /\ (Goto("rebind") \/ UndoOrFail)
        BY <1>19 DEF VerifyTarget, At
    <2> QED
        BY <1>0, <2>1, GotoFacts, UndoOrFailFacts, LaterStepsOweNothing DEF StepNames
<1>20. CASE RebindDependents
    <2>1. op.kind = "rollback" /\ (Goto("finish") \/ UndoOrFail \/ FailJob("unrecovered"))
        BY <1>20 DEF RebindDependents, At
    <2> QED
        BY <1>0, <2>1, GotoFacts, UndoOrFailFacts, FailJobFacts, LaterStepsOweNothing
        DEF StepNames, ResultNames
<1>21. CASE FinishRollback
    <2>1. PICK r \in {"success", "unrecovered"} : op' = [End(r) EXCEPT !.deferred = op.deferred]
        BY <1>21 DEF FinishRollback
    <2>2. op'.kind = "none" /\ op'.step = "none" /\ op'.result = r
        BY <2>1 DEF End, Idle
    <2> QED
        BY <2>2, LaterStepsOweNothing
<1>22. CASE CustomVerificationFails
    BY <1>0, <1>22, FailJobFacts, LaterStepsOweNothing DEF CustomVerificationFails, ResultNames
<1>23. CASE UndoStopFails
    BY <1>0, <1>23, FailJobFacts, LaterStepsOweNothing DEF UndoStopFails, ResultNames
<1>24. CASE UndoData
    <2>1. op.kind = "rollback" /\ (Goto("undo_recreate") \/ FailJob("unrecovered"))
        BY <1>24 DEF UndoData, At, UndoStops
    <2> QED
        BY <1>0, <2>1, GotoFacts, FailJobFacts, LaterStepsOweNothing DEF StepNames, ResultNames
<1>25. CASE UndoRecreate
    <2>1. op.kind = "rollback" /\ (Goto("undo_restart") \/ FailJob("unrecovered"))
        BY <1>25 DEF UndoRecreate, At, UndoStops
    <2> QED
        BY <1>0, <2>1, GotoFacts, FailJobFacts, LaterStepsOweNothing DEF StepNames, ResultNames
<1>26. CASE UndoRestart
    <2>1. FailJob("recovered") \/ FailJob("unrecovered")
        BY <1>26 DEF UndoRestart
    <2> QED
        BY <1>0, <2>1, FailJobFacts, LaterStepsOweNothing DEF ResultNames
<1>27. CASE UNCHANGED vars
    BY <1>27 DEF vars
<1> QED
    BY <1>1, <1>2, <1>3, <1>4, <1>5, <1>6, <1>7, <1>8, <1>9, <1>10, <1>11, <1>12, <1>13,
       <1>14, <1>15, <1>16, <1>17, <1>18, <1>19, <1>20, <1>21, <1>22, <1>23, <1>24, <1>25,
       <1>26, <1>27 DEF Next, Step

\* A capture that ended, and a rollback refused before it replaced anything,
\* leave no container stopped but those whose start failed.
THEOREM WritersReturn == Spec => []WritersComeBack
<1>1. PointInv => Shape
    BY DEF PointInv
<1>2. WritersInv => WritersComeBack
    BY DEF WritersInv, NothingOwed, WritersComeBack, Free
<1> QED
    BY InitPoint, StepPoint, InitWriters, StepWriters, <1>1, <1>2, PTL DEF Spec

-----------------------------------------------------------------------------
\* With several mounts the helper's script overlooks an archive that does not
\* unpack, so what the rollback says of the data is claimed for one mount.
OneMount == \E m : Mounts = <<m>>

Undoing == {"undo_stop", "undo_recreate", "undo_restart"}
Restored == {"recreate", "others", "verify", "rebind", "finish"}
\* What a rollback has replaced, what it can still put back, and what failed.
FaultsCounted == faults \in Nat /\ began.faults \in Nat /\ began.faults <= faults
CaptureOfOld == op.kind = "capture" => began.image = "before" /\ op.step # "undo_stop"
RollbackReplaces ==
    op.kind = "rollback" =>
        /\ op.step \in {"safety", "stop", "recreate"} => image = began.image
        /\ op.step \in {"safety", "stop"} => data = began.data
        /\ op.step \in Restored => (OneMount => data = All("before"))
        /\ op.step \in Restored \ {"recreate"} => image = "before" /\ Target \in up
RollbackCanUndo ==
    op.kind = "rollback" =>
        /\ op.step \in {"stop", "recreate", "others", "verify", "rebind"} =>
              began.image = "none" \/ safety \/ began.faults < faults
        /\ op.step \in Restored \cup Undoing => began.up \subseteq op.stopped
        /\ op.step \in Undoing => began.faults < faults
        /\ op.step \in {"undo_recreate", "undo_restart"} => data = began.data
        /\ op.step = "undo_restart" => image = began.image
\* What a job that ended has reported.
ReportIsTrue ==
    op.kind = "none" =>
        /\ op.result = "success" => /\ image = "before" /\ (OneMount => data = All("before"))
                                   /\ began.up \cup {Target} \subseteq up
        /\ op.result = "recovered" => /\ image = began.image /\ data = began.data
                                     /\ began.up \subseteq up
OneFaultLeavesAVersion == OneMount => OneFaultKeepsDataWithRuntime
HonestInv ==
    /\ FaultsCounted /\ CaptureOfOld /\ RollbackReplaces /\ RollbackCanUndo
    /\ ReportIsTrue /\ OneFaultLeavesAVersion

-----------------------------------------------------------------------------
LEMMA InitHonest == Init => HonestInv
    BY DEF Init, HonestInv, FaultsCounted, CaptureOfOld, RollbackReplaces, RollbackCanUndo,
           ReportIsTrue, OneFaultLeavesAVersion, OneFaultKeepsDataWithRuntime, Idle

\* A job that ends without undoing anything has nothing to show but that one
\* fault leaves the data with the version that runs.
LEMMA EndedHonest ==
    ASSUME FaultsCounted', op'.kind = "none", op'.result \notin {"success", "recovered"},
           \/ op'.result \in {"none", "ready", "crashed"}
           \/ began'.image # "after"
           \/ faults' > began'.faults + 1
           \/ OneMount /\ began'.data = All("after") => data' = All(image')
    PROVE  HonestInv'
<1>1. CaptureOfOld' /\ RollbackReplaces' /\ RollbackCanUndo' /\ ReportIsTrue'
    BY DEF CaptureOfOld, RollbackReplaces, RollbackCanUndo, ReportIsTrue
<1>2. OneFaultKeepsDataWithRuntime' \/ ~OneMount
    BY DEF OneFaultKeepsDataWithRuntime, FaultsCounted, All
<1>3. OneFaultLeavesAVersion'
    BY <1>2 DEF OneFaultLeavesAVersion
<1> QED
    BY <1>1, <1>3 DEF HonestInv

\* A step of a rollback that goes on.
LEMMA RollbackHonest ==
    ASSUME FaultsCounted', op'.kind = "rollback", RollbackReplaces', RollbackCanUndo'
    PROVE  HonestInv'
<1>1. CaptureOfOld' /\ ReportIsTrue'
    BY DEF CaptureOfOld, ReportIsTrue
<1>2. OneFaultLeavesAVersion'
    BY DEF OneFaultLeavesAVersion, OneFaultKeepsDataWithRuntime
<1> QED
    BY <1>1, <1>2 DEF HonestInv

\* A step of a capture that goes on.
LEMMA CaptureHonest ==
    ASSUME FaultsCounted', op'.kind = "capture", op'.step # "undo_stop", began'.image = "before"
    PROVE  HonestInv'
<1>1. CaptureOfOld' /\ ReportIsTrue' /\ RollbackReplaces' /\ RollbackCanUndo'
    BY DEF CaptureOfOld, ReportIsTrue, RollbackReplaces, RollbackCanUndo
<1>2. OneFaultLeavesAVersion'
    BY DEF OneFaultLeavesAVersion, OneFaultKeepsDataWithRuntime
<1> QED
    BY <1>1, <1>2 DEF HonestInv

\* Every step of a capture that is neither its start nor its recreate.
CaptureStep ==
    \/ CommitImage \/ CaptureArchive \/ RestartWriters \/ AddRestorePoint \/ AbortCapture
    \/ op.kind = "capture" /\ (StopFails \/ \E w \in Writers : StopWriter(w))
LEMMA CaptureStepHonest == Shape /\ HonestInv /\ CaptureStep => HonestInv'
<1> SUFFICES ASSUME Shape, HonestInv, CaptureStep PROVE HonestInv'
    OBVIOUS
<1>1. /\ op \in Operation /\ op.kind = "capture" /\ began' = began /\ began.image = "before"
      /\ FaultsCounted
    BY DEF Shape, HonestInv, CaptureOfOld, CaptureStep, CommitImage, CaptureArchive,
           RestartWriters, AddRestorePoint, AbortCapture, StopFails, StopWriter, At
<1>2. faults' \in {faults, faults + 1}
    BY DEF CaptureStep, CommitImage, CaptureArchive, RestartWriters, AddRestorePoint,
           AbortCapture, StopFails, StopWriter, Restart, Works, Fails
<1>3. FaultsCounted'
    BY <1>1, <1>2 DEF FaultsCounted
<1>4. CASE \/ CommitImage \/ CaptureArchive \/ RestartWriters
    <2>1. \E s \in StepNames \ {"undo_stop"} : Goto(s)
        BY <1>4 DEF CommitImage, CaptureArchive, RestartWriters, StepNames
    <2> QED
        BY <1>1, <1>3, <2>1, GotoFacts, CaptureHonest
<1>5. CASE AddRestorePoint
    <2>1. CASE op' = End("ready")
        BY <1>1, <1>3, <2>1, EndFacts, EndedHonest DEF ResultNames
    <2>2. CASE op' = [op EXCEPT !.step = "recreate"]
        BY <1>1, <1>3, <2>2, CaptureHonest DEF Operation
    <2>3. CASE Goto("abort")
        BY <1>1, <1>3, <2>3, GotoFacts, CaptureHonest DEF StepNames
    <2> QED
        BY <1>5, <2>1, <2>2, <2>3 DEF AddRestorePoint
<1>6. CASE AbortCapture \/ StopFails
    <2>1. op'.kind = "none" /\ op'.result = "failed"
        BY <1>6 DEF AbortCapture, StopFails, End, Idle
    <2> QED
        BY <1>1, <1>3, <2>1, EndedHonest
<1>7. CASE \E w \in Writers : StopWriter(w)
    <2>1. op'.kind = "capture" /\ op'.step = op.step /\ op.step # "undo_stop"
        BY <1>1, <1>7 DEF StopWriter, Operation, HonestInv, CaptureOfOld
    <2> QED
        BY <1>1, <1>3, <2>1, CaptureHonest
<1> QED
    BY <1>4, <1>5, <1>6, <1>7 DEF CaptureStep

\* A rollback that gives up a step after a failure: it undoes everything or
\* ends unrecovered.  Without an image to undo to, another command has failed
\* before, or there was no container when it began.
LEMMA UndoOrFailHonest ==
    ASSUME Shape, HonestInv, op.kind = "rollback", UndoOrFail, began' = began,
           op.step \in {"recreate", "others", "verify", "rebind"}, faults' = faults + 1
    PROVE  HonestInv'
<1>1. op \in Operation /\ point \in Point /\ FaultsCounted
    BY DEF Shape, HonestInv
<1>2. FaultsCounted' /\ began'.faults < faults'
    BY <1>1 DEF FaultsCounted
<1>3. CASE CanUndo
    <2>1. op' = [op EXCEPT !.step = "undo_stop", !.fresh = {}]
        BY <1>3 DEF UndoOrFail
    <2>2. op'.kind = "rollback" /\ op'.step = "undo_stop" /\ op'.stopped = op.stopped
        BY <1>1, <2>1 DEF Operation
    <2>3. began'.up \subseteq op'.stopped
        BY <2>2 DEF HonestInv, RollbackCanUndo, Restored
    <2>4. RollbackReplaces' /\ RollbackCanUndo'
        BY <1>2, <2>2, <2>3 DEF RollbackReplaces, RollbackCanUndo, Restored, Undoing
    <2> QED
        BY <1>2, <2>2, <2>4, RollbackHonest
<1>4. CASE ~CanUndo
    <2>1. FailJob("unrecovered")
        BY <1>4 DEF UndoOrFail
    <2>2. op'.kind = "none" /\ op'.result = "unrecovered"
        BY <1>1, <2>1, FailJobFacts DEF ResultNames
    <2>3. began'.image # "after" \/ faults' > began'.faults + 1
        BY <1>1, <1>4 DEF CanUndo, HonestInv, RollbackCanUndo, FaultsCounted
    <2> QED
        BY <1>2, <2>2, <2>3, EndedHonest
<1> QED
    BY <1>3, <1>4

\* Up to the restore a rollback has replaced nothing.
BeforeRestore ==
    \/ SafetyCommit \/ RestoreData \/ RestoreDataFails
    \/ op.kind = "rollback" /\ op.step = "stop" /\ (StopFails \/ \E w \in Writers : StopWriter(w))
LEMMA BeforeRestoreHonest ==
    Shape /\ WritersInv /\ HonestInv /\ BeforeRestore => HonestInv'
<1> SUFFICES ASSUME Shape, WritersInv, HonestInv, BeforeRestore PROVE HonestInv'
    OBVIOUS
<1>1. /\ op \in Operation /\ op.kind = "rollback" /\ op.step \in {"safety", "stop"}
      /\ began' = began /\ image' = image /\ FaultsCounted
    BY DEF Shape, HonestInv, BeforeRestore, SafetyCommit, RestoreData, RestoreDataFails,
           StopFails, StopWriter, At, runtime
<1>2. /\ image = began.image /\ data = began.data /\ began.up \subseteq up \cup op.stopped
    BY <1>1 DEF HonestInv, RollbackReplaces, WritersInv, RollbackOwes
<1>3. CASE SafetyCommit
    <2>1. Goto("stop") /\ UNCHANGED <<up, data>> /\ op.step = "safety"
        BY <1>3 DEF SafetyCommit, runtime, At
    <2>2. op'.kind = "rollback" /\ op'.step = "stop"
        BY <1>1, <2>1, GotoFacts DEF StepNames
    <2>3. /\ FaultsCounted'
          /\ began.image = "none" \/ safety' \/ began.faults < faults'
        BY <1>1, <1>2, <1>3 DEF SafetyCommit, FaultsCounted, Works, Fails
    <2>4. RollbackReplaces' /\ RollbackCanUndo'
        BY <1>1, <1>2, <2>1, <2>2, <2>3 DEF RollbackReplaces, RollbackCanUndo, Restored, Undoing
    <2> QED
        BY <2>2, <2>3, <2>4, RollbackHonest
<1>4. CASE RestoreData
    <2>1. PICK broken \in SUBSET (MountSet \ {Mounts[Len(Mounts)]}) :
              /\ IF broken = {} THEN Works ELSE Fails
              /\ data' = Unpack(broken)
        BY <1>4 DEF RestoreData
    <2>2. op.step = "stop" /\ up = {} /\ safety' = safety
          /\ op' = [op EXCEPT !.step = "recreate"]
        BY <1>4 DEF RestoreData, At
    <2>3. op'.kind = "rollback" /\ op'.step = "recreate" /\ op'.stopped = op.stopped
        BY <1>1, <2>2 DEF Operation
    <2>4. OneMount => data' = All("before")
        <3> SUFFICES ASSUME OneMount PROVE data' = All("before")
            OBVIOUS
        <3>1. PICK m : Mounts = <<m>>
            BY DEF OneMount
        <3>2. MountSet = {m} /\ Mounts[Len(Mounts)] = m
            BY <3>1 DEF MountSet
        <3>3. broken = {}
            BY <2>1, <3>2
        <3> QED
            BY <2>1, <3>3 DEF Unpack, All
    <2>5. faults' \in {faults, faults + 1}
        BY <2>1 DEF Works, Fails
    <2>6. FaultsCounted' /\ faults <= faults'
        BY <1>1, <2>5 DEF FaultsCounted
    <2>7. began.image = "none" \/ safety' \/ began.faults < faults'
        BY <1>1, <2>2, <2>5 DEF HonestInv, RollbackCanUndo, FaultsCounted
    <2>8. RollbackReplaces' /\ RollbackCanUndo'
        BY <1>1, <1>2, <2>2, <2>3, <2>4, <2>7
        DEF RollbackReplaces, RollbackCanUndo, Restored, Undoing
    <2> QED
        BY <2>3, <2>6, <2>8, RollbackHonest
<1>5. CASE RestoreDataFails
    <2>1. PICK failed \in SUBSET op.stopped : FailData(failed)
        BY <1>5 DEF RestoreDataFails
    <2>2. op'.kind = "none" /\ op'.result = "failed"
        BY <2>1 DEF FailData, End, Idle
    <2>3. \/ faults' = faults + 1 /\ data' = data
          \/ faults' = faults + 2
        BY <1>5 DEF RestoreDataFails
    <2>4. FaultsCounted' /\ (data' = data \/ faults' > began'.faults + 1)
        BY <1>1, <2>3 DEF FaultsCounted
    <2>5. began'.image = "after" /\ began'.data = All("after") /\ data' = data
          => data' = All(image')
        BY <1>1, <1>2
    <2> QED
        BY <2>2, <2>4, <2>5, EndedHonest
<1>6. CASE op.step = "stop" /\ StopFails
    <2>1. op'.kind = "none" /\ op'.result = "failed" /\ data' = data /\ faults' = faults + 1
        BY <1>6 DEF StopFails, End, Idle
    <2>2. FaultsCounted'
        BY <1>1, <2>1 DEF FaultsCounted
    <2>3. began'.image = "after" /\ began'.data = All("after") => data' = All(image')
        BY <1>1, <1>2, <2>1
    <2> QED
        BY <2>1, <2>2, <2>3, EndedHonest
<1>7. CASE op.step = "stop" /\ \E w \in Writers : StopWriter(w)
    <2>1. /\ op'.kind = "rollback" /\ op'.step = "stop" /\ data' = data /\ safety' = safety
          /\ faults' = faults
        BY <1>1, <1>7 DEF StopWriter, Operation, Works
    <2>2. FaultsCounted'
        BY <1>1, <2>1 DEF FaultsCounted
    <2>3. began.image = "none" \/ safety \/ began.faults < faults
        BY <1>1, <1>7 DEF HonestInv, RollbackCanUndo
    <2>4. RollbackReplaces' /\ RollbackCanUndo'
        BY <1>1, <1>2, <2>1, <2>3 DEF RollbackReplaces, RollbackCanUndo, Restored, Undoing
    <2> QED
        BY <2>1, <2>2, <2>4, RollbackHonest
<1> QED
    BY <1>3, <1>4, <1>5, <1>6, <1>7 DEF BeforeRestore

\* From the restore to the end of the job.
AfterRestore ==
    \/ RecreateTarget \/ RestartOthers \/ VerifyTarget \/ RebindDependents \/ FinishRollback
    \/ CustomVerificationFails
LEMMA AfterRestoreHonest == Shape /\ HonestInv /\ AfterRestore => HonestInv'
<1> SUFFICES ASSUME Shape, HonestInv, AfterRestore PROVE HonestInv'
    OBVIOUS
<1>1. /\ op \in Operation /\ point \in Point /\ op.kind = "rollback"
      /\ op.step \in Restored /\ began' = began /\ data' = data /\ FaultsCounted
    BY DEF Shape, HonestInv, AfterRestore, RecreateTarget, RestartOthers, VerifyTarget,
           RebindDependents, FinishRollback, CustomVerificationFails, At, runtime, Restored
<1>2. /\ OneMount => data = All("before")
      /\ began.up \subseteq op.stopped
      /\ op.step # "recreate" => image = "before" /\ Target \in up
      /\ op.step # "finish" => began.image = "none" \/ safety \/ began.faults < faults
    BY <1>1 DEF HonestInv, RollbackReplaces, RollbackCanUndo, Restored
<1>3. ASSUME NEW s \in {"others", "verify", "rebind", "finish"}, Goto(s),
             image' = "before", Target \in up', safety' = safety,
             faults' = faults, op.step # "finish"
      PROVE  HonestInv'
    <2>1. op'.kind = "rollback" /\ op'.step = s /\ op'.stopped = op.stopped
        BY <1>1, <1>3, GotoFacts DEF StepNames
    <2>2. FaultsCounted'
        BY <1>1, <1>3 DEF FaultsCounted
    <2>3. RollbackReplaces' /\ RollbackCanUndo'
        BY <1>1, <1>2, <1>3, <2>1 DEF RollbackReplaces, RollbackCanUndo, Restored, Undoing, All
    <2> QED
        BY <2>1, <2>2, <2>3, RollbackHonest
<1>4. ASSUME UndoOrFail, op.step # "finish", faults' = faults + 1 PROVE HonestInv'
    BY <1>1, <1>4, UndoOrFailHonest DEF Restored
\* The old version runs on the old data when the job ends.
<1>5. ASSUME op'.kind = "none", op'.result = "unrecovered", image' = "before",
             faults' \in {faults, faults + 1}
      PROVE  HonestInv'
    <2>1. FaultsCounted'
        BY <1>1, <1>5 DEF FaultsCounted
    <2>2. OneMount => data' = All(image')
        BY <1>1, <1>2, <1>5
    <2> QED
        BY <1>5, <2>1, <2>2, EndedHonest
<1>6. CASE RecreateTarget
    BY <1>3, <1>4, <1>6 DEF RecreateTarget, At, Works, Fails
<1>7. CASE RestartOthers
    <2>1. PICK failed \in SUBSET Writers :
              /\ Restart(op.stopped \ (Dependents \cup {Target}), failed)
              /\ IF failed = {} THEN Goto("verify") /\ UNCHANGED <<point, safety>>
                 ELSE UndoOrFail
        BY <1>7 DEF RestartOthers
    <2>2. op.step = "others" /\ image' = image /\ up \subseteq up'
          /\ faults' = IF failed = {} THEN faults ELSE faults + 1
        BY <1>7, <2>1 DEF RestartOthers, At, Restart
    <2> QED
        BY <1>2, <1>3, <1>4, <2>1, <2>2
<1>8. CASE VerifyTarget
    BY <1>2, <1>3, <1>4, <1>8 DEF VerifyTarget, At, Works, Fails, runtime
<1>9. CASE RebindDependents
    <2>1. op.step = "rebind" /\ image' = image /\ up \subseteq up'
        BY <1>9 DEF RebindDependents, At
    <2>2. CASE Works /\ Goto("finish") /\ UNCHANGED <<point, safety>>
        BY <1>2, <1>3, <2>1, <2>2 DEF Works
    <2>3. CASE Fails /\ FailJob("unrecovered")
        BY <1>1, <1>2, <1>5, <2>1, <2>3, FailJobFacts DEF Fails, ResultNames
    <2>4. CASE Fails /\ UndoOrFail
        BY <1>4, <2>1, <2>4 DEF Fails
    <2> QED
        BY <1>9, <2>2, <2>3, <2>4 DEF RebindDependents
<1>10. CASE FinishRollback
    <2>1. PICK failed \in SUBSET Writers :
              /\ Restart(op.stopped, failed)
              /\ IF failed = {}
                 THEN op' = [End("success") EXCEPT !.deferred = op.deferred]
                 ELSE op' = [End("unrecovered") EXCEPT !.deferred = op.deferred]
        BY <1>10 DEF FinishRollback
    <2>2. op.step = "finish" /\ image' = image
        BY <1>10 DEF FinishRollback, At
    <2>3. CASE failed = {}
        <3>1. op'.kind = "none" /\ op'.result = "success"
            BY <2>1, <2>3 DEF End, Idle
        <3>2. up' = up \cup op.stopped /\ faults' = faults
            BY <2>1, <2>3 DEF Restart
        <3>3. CaptureOfOld' /\ RollbackReplaces' /\ RollbackCanUndo'
            BY <3>1 DEF CaptureOfOld, RollbackReplaces, RollbackCanUndo
        <3>4. ReportIsTrue'
            BY <1>1, <1>2, <2>2, <3>1, <3>2 DEF ReportIsTrue, All
        <3>5. FaultsCounted'
            BY <1>1, <3>2 DEF FaultsCounted
        <3>6. OneFaultLeavesAVersion'
            <4>1. OneMount => data' = All(image')
                BY <1>1, <1>2, <2>2
            <4> QED
                BY <4>1 DEF OneFaultLeavesAVersion, OneFaultKeepsDataWithRuntime, All
        <3> QED
            BY <3>3, <3>4, <3>5, <3>6 DEF HonestInv
    <2>4. CASE failed # {}
        <3>1. op'.kind = "none" /\ op'.result = "unrecovered"
            BY <2>1, <2>4 DEF End, Idle
        <3> QED
            BY <1>2, <1>5, <2>1, <2>2, <3>1 DEF Restart
    <2> QED
        BY <2>3, <2>4
<1>11. CASE CustomVerificationFails
    BY <1>1, <1>2, <1>5, <1>11, FailJobFacts
    DEF CustomVerificationFails, At, Fails, ResultNames
<1> QED
    BY <1>6, <1>7, <1>8, <1>9, <1>10, <1>11 DEF AfterRestore

\* Undoing starts after a first failure, so a second one is one too many.
Undo ==
    \/ UndoStopFails \/ UndoData \/ UndoRecreate \/ UndoRestart
    \/ op.kind = "rollback" /\ op.step = "undo_stop" /\ \E w \in Writers : StopWriter(w)
LEMMA UndoHonest == Shape /\ HonestInv /\ Undo => HonestInv'
<1> SUFFICES ASSUME Shape, HonestInv, Undo PROVE HonestInv'
    OBVIOUS
<1>1. /\ op \in Operation /\ point \in Point /\ op.kind = "rollback" /\ op.step \in Undoing
      /\ began' = began /\ FaultsCounted
    BY DEF Shape, HonestInv, Undo, UndoStopFails, UndoData, UndoRecreate, UndoRestart,
           StopWriter, UndoStops, At, Undoing
<1>2. /\ began.faults < faults /\ began.up \subseteq op.stopped
      /\ op.step \in {"undo_recreate", "undo_restart"} => data = began.data
      /\ op.step = "undo_restart" => image = began.image
    BY <1>1 DEF HonestInv, RollbackCanUndo
\* Another failure.
<1>3. ASSUME FailJob("unrecovered"), faults' = faults + 1 PROVE HonestInv'
    <2>1. op'.kind = "none" /\ op'.result = "unrecovered"
        BY <1>1, <1>3, FailJobFacts DEF ResultNames
    <2>2. FaultsCounted' /\ faults' > began'.faults + 1
        BY <1>1, <1>2, <1>3 DEF FaultsCounted
    <2> QED
        BY <2>1, <2>2, EndedHonest
<1>4. ASSUME op'.kind = "rollback", op'.step \in Undoing, faults' = faults,
             op.stopped \subseteq op'.stopped,
             op'.step \in {"undo_recreate", "undo_restart"} => data' = began.data,
             op'.step = "undo_restart" => image' = began.image
      PROVE  HonestInv'
    <2>1. FaultsCounted'
        BY <1>1, <1>4 DEF FaultsCounted
    <2>2. RollbackReplaces' /\ RollbackCanUndo'
        BY <1>1, <1>2, <1>4 DEF RollbackReplaces, RollbackCanUndo, Restored, Undoing
    <2> QED
        BY <1>4, <2>1, <2>2, RollbackHonest
<1>5. CASE op.step = "undo_stop" /\ \E w \in Writers : StopWriter(w)
    <2>1. /\ op'.kind = "rollback" /\ op'.step = "undo_stop" /\ faults' = faults
          /\ op.stopped \subseteq op'.stopped
        BY <1>1, <1>5 DEF StopWriter, Operation, Works
    <2> QED
        BY <1>4, <2>1 DEF Undoing
<1>6. CASE UndoStopFails
    BY <1>3, <1>6 DEF UndoStopFails, Fails
<1>7. CASE UndoData
    <2>1. CASE Works /\ data' = began.data /\ Goto("undo_recreate")
        <3>1. /\ op'.kind = "rollback" /\ op'.step = "undo_recreate"
              /\ op'.stopped = op.stopped
            BY <1>1, <2>1, GotoFacts DEF StepNames
        <3> QED
            BY <1>4, <2>1, <3>1 DEF Undoing, Works
    <2>2. CASE Fails /\ FailJob("unrecovered")
        BY <1>3, <2>2 DEF Fails
    <2> QED
        BY <1>7, <2>1, <2>2 DEF UndoData
<1>8. CASE UndoRecreate
    <2>1. CASE Works /\ image' = began.image /\ Goto("undo_restart")
        <3>1. /\ op'.kind = "rollback" /\ op'.step = "undo_restart"
              /\ op'.stopped = op.stopped
            BY <1>1, <2>1, GotoFacts DEF StepNames
        <3>2. data' = began.data
            BY <1>2, <1>8 DEF UndoRecreate, At
        <3> QED
            BY <1>4, <2>1, <3>1, <3>2 DEF Undoing, Works
    <2>2. CASE Fails /\ FailJob("unrecovered")
        BY <1>3, <2>2 DEF Fails
    <2> QED
        BY <1>8, <2>1, <2>2 DEF UndoRecreate
<1>9. CASE UndoRestart
    <2>1. PICK failed \in SUBSET Writers :
              /\ Restart(op.stopped \cup (Dependents \cap began.up), failed)
              /\ FailJob(IF failed = {} THEN "recovered" ELSE "unrecovered")
        BY <1>9 DEF UndoRestart
    <2>2. op.step = "undo_restart" /\ image' = image /\ data' = data
        BY <1>9 DEF UndoRestart, At
    <2>3. CASE failed = {}
        <3>1. op'.kind = "none" /\ op'.result = "recovered"
            BY <1>1, <2>1, <2>3, FailJobFacts DEF ResultNames
        <3>2. up' = up \cup op.stopped \cup (Dependents \cap began.up) /\ faults' = faults
            BY <2>1, <2>3 DEF Restart
        <3>3. CaptureOfOld' /\ RollbackReplaces' /\ RollbackCanUndo'
            BY <3>1 DEF CaptureOfOld, RollbackReplaces, RollbackCanUndo
        <3>4. ReportIsTrue'
            BY <1>1, <1>2, <2>2, <3>1, <3>2 DEF ReportIsTrue
        <3>5. FaultsCounted'
            BY <1>1, <3>2 DEF FaultsCounted
        <3>6. OneFaultLeavesAVersion'
            BY <1>1, <1>2, <2>2 DEF OneFaultLeavesAVersion, OneFaultKeepsDataWithRuntime, All
        <3> QED
            BY <3>3, <3>4, <3>5, <3>6 DEF HonestInv
    <2>4. CASE failed # {}
        BY <1>3, <2>1, <2>4 DEF Restart
    <2> QED
        BY <2>3, <2>4
<1> QED
    BY <1>5, <1>6, <1>7, <1>8, <1>9 DEF Undo

LEMMA StepHonest == Shape /\ WritersInv /\ HonestInv /\ [Next]_vars => HonestInv'
<1> SUFFICES ASSUME Shape, WritersInv, HonestInv, [Next]_vars PROVE HonestInv'
    OBVIOUS
<1>1. op \in Operation /\ point \in Point /\ FaultsCounted
    BY DEF Shape, HonestInv
<1>2. CASE CaptureStep
    BY <1>2, CaptureStepHonest
<1>3. CASE BeforeRestore
    BY <1>3, BeforeRestoreHonest
<1>4. CASE AfterRestore
    BY <1>4, AfterRestoreHonest
<1>5. CASE Undo
    BY <1>5, UndoHonest
<1>6. CASE StopFails \/ \E w \in Writers : StopWriter(w)
    <2>1. op.step \in {"stop", "undo_stop"} /\ (StopFails => op.step = "stop")
        BY <1>6 DEF StopFails, StopWriter
    <2>2. op.kind \in {"capture", "rollback"}
        BY <1>1, <2>1 DEF WritersInv, IdleRests, Operation
    <2>3. op.kind = "capture" => op.step # "undo_stop"
        BY DEF HonestInv, CaptureOfOld
    <2> QED
        BY <1>2, <1>3, <1>5, <1>6, <2>1, <2>2, <2>3 DEF CaptureStep, BeforeRestore, Undo
<1>7. CASE StartCapture
    <2>1. PICK deferred \in SUBSET {Target} :
              op' = [Idle EXCEPT !.kind = "capture", !.step = "stop", !.deferred = deferred]
        BY <1>7 DEF StartCapture
    <2>2. op'.kind = "capture" /\ op'.step = "stop"
        BY <2>1 DEF Idle
    <2>3. /\ began' = [up |-> up, image |-> image, data |-> data, faults |-> faults]
          /\ image = "before" /\ faults' = faults
        BY <1>7 DEF StartCapture, Begin
    <2>4. FaultsCounted'
        BY <1>1, <2>3 DEF FaultsCounted
    <2> QED
        BY <2>2, <2>3, <2>4, CaptureHonest
<1>8. CASE Update
    <2>1. op'.kind = "none" /\ op'.result = "none" /\ UNCHANGED <<began, faults>>
        BY <1>8 DEF Update, Idle
    <2>2. FaultsCounted'
        BY <1>1, <2>1 DEF FaultsCounted
    <2> QED
        BY <2>1, <2>2, EndedHonest
<1>9. CASE StartRollback
    <2>1. /\ began' = [up |-> up, image |-> image, data |-> data, faults |-> faults]
          /\ UNCHANGED <<image, data, faults>>
        BY <1>9 DEF StartRollback, Begin, runtime
    <2>2. FaultsCounted'
        BY <1>1, <2>1 DEF FaultsCounted
    <2>3. CASE op' = [Idle EXCEPT !.kind = "rollback", !.step = "safety"]
        <3>1. op'.kind = "rollback" /\ op'.step = "safety"
            BY <2>3 DEF Idle
        <3>2. RollbackReplaces' /\ RollbackCanUndo'
            BY <2>1, <3>1 DEF RollbackReplaces, RollbackCanUndo, Restored, Undoing
        <3> QED
            BY <2>2, <3>1, <3>2, RollbackHonest
    <2>4. CASE op' = [Idle EXCEPT !.result = "failed"]
        <3>1. op'.kind = "none" /\ op'.result = "failed"
            BY <2>4 DEF Idle
        <3>2. began'.image = "after" /\ began'.data = All("after") => data' = All(image')
            BY <2>1
        <3> QED
            BY <2>2, <3>1, <3>2, EndedHonest
    <2> QED
        BY <1>9, <2>3, <2>4 DEF StartRollback
<1>10. CASE Crash
    <2>1. op'.kind = "none" /\ op'.result = "crashed" /\ UNCHANGED <<began, faults>>
        BY <1>10 DEF Crash, End, Idle
    <2>2. FaultsCounted'
        BY <1>1, <2>1 DEF FaultsCounted
    <2> QED
        BY <2>1, <2>2, EndedHonest
\* A recreate step that fails begins a rollback with no container.
<1>11. CASE RecreateCurrent
    <2>1. CASE op' = End("ready") /\ faults' = faults /\ began' = began
        <3>1. FaultsCounted'
            BY <1>1, <2>1 DEF FaultsCounted
        <3> QED
            BY <1>1, <2>1, <3>1, EndFacts, EndedHonest DEF ResultNames
    <2>2. CASE /\ op' = [Idle EXCEPT !.kind = "rollback", !.step = "safety",
                                    !.deferred = op.deferred]
               /\ began' = [up |-> up', image |-> "none", data |-> data, faults |-> faults']
               /\ image' = "none" /\ data' = data /\ faults' = faults + 1
        <3>1. op'.kind = "rollback" /\ op'.step = "safety"
            BY <2>2 DEF Idle
        <3>2. FaultsCounted'
            BY <1>1, <2>2 DEF FaultsCounted
        <3>3. RollbackReplaces' /\ RollbackCanUndo'
            BY <2>2, <3>1 DEF RollbackReplaces, RollbackCanUndo, Restored, Undoing
        <3> QED
            BY <3>1, <3>2, <3>3, RollbackHonest
    <2> QED
        BY <1>11, <2>1, <2>2 DEF RecreateCurrent, Works, Fails
<1>12. CASE ReleaseDeferred
    <2>1. op' = [op EXCEPT !.deferred = {}, !.downed = @ \cup (op.deferred \ up')]
        BY <1>12 DEF ReleaseDeferred
    <2>2. op'.kind = op.kind /\ op'.result = op.result
        BY <1>1, <2>1 DEF Operation
    <2>3. op.kind = "none" /\ up \subseteq up' /\ UNCHANGED <<image, data, began, faults>>
        BY <1>12 DEF ReleaseDeferred
    <2> QED
        BY <2>2, <2>3
        DEF HonestInv, FaultsCounted, CaptureOfOld, RollbackReplaces, RollbackCanUndo,
            ReportIsTrue, OneFaultLeavesAVersion, OneFaultKeepsDataWithRuntime, All
<1>13. CASE UNCHANGED vars
    BY <1>13
    DEF vars, HonestInv, FaultsCounted, CaptureOfOld, RollbackReplaces, RollbackCanUndo,
        ReportIsTrue, OneFaultLeavesAVersion, OneFaultKeepsDataWithRuntime, All
<1> QED
    BY <1>2, <1>3, <1>4, <1>5, <1>6, <1>7, <1>8, <1>9, <1>10, <1>11, <1>12, <1>13
    DEF Next, Step, CaptureStep, BeforeRestore, AfterRestore, Undo

\* What a finished rollback of one mount reports is what is there, and a single
\* failing command never leaves one version running on the data of the other,
\* for any containers and any failures and crashes
\* (executeRestorePointRollback and recoverSafety).
THEOREM RollbacksAreHonest == ASSUME OneMount PROVE Spec => []RollbackIsHonest
<1>1. PointInv => Shape
    BY DEF PointInv
<1>2. HonestInv => RollbackIsHonest
    BY OneMount
    DEF HonestInv, ReportIsTrue, OneFaultLeavesAVersion, RollbackIsHonest, OutcomeIsTrue, Free
<1> QED
    BY InitPoint, StepPoint, InitWriters, StepWriters, InitHonest, StepHonest, <1>1, <1>2, PTL
    DEF Spec

\* Whatever the mounts: the containers are those a finished rollback reports,
\* and a recovered one has put back image and data.
RuntimeIsTrue ==
    Free =>
        /\ op.result = "success" => image = "before" /\ began.up \cup {Target} \subseteq up
        /\ op.result = "recovered" => /\ image = began.image /\ data = began.data
                                     /\ began.up \subseteq up

\* What a rollback reports of the runtime is true for any number of mounts.
THEOREM RuntimesAreTrue == Spec => []RuntimeIsTrue
<1>1. PointInv => Shape
    BY DEF PointInv
<1>2. HonestInv => RuntimeIsTrue
    BY DEF HonestInv, ReportIsTrue, RuntimeIsTrue, Free
<1> QED
    BY InitPoint, StepPoint, InitWriters, StepWriters, InitHonest, StepHonest, <1>1, <1>2, PTL
    DEF Spec
=============================================================================
