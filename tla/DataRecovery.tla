---------------------------- MODULE DataRecovery ----------------------------
(***************************************************************************)
(* Protected application data through a cold capture, an update and a      *)
(* rollback: createRestorePointForSnapshotWithOptions stops every writer   *)
(* of the protected mounts, commits the container, archives the mounts and *)
(* starts the writers again; executeRestorePointRollback stops them,       *)
(* unpacks the archives behind a safety copy, recreates the container and  *)
(* undoes all of it (recoverSafety) when a later step fails.  Any docker   *)
(* command may fail, and the controller may die between two of them.       *)
(*                                                                         *)
(* Every container in Writers writes to every mount.  "before" and "after" *)
(* name the application, and its data, before and after the update.        *)
(***************************************************************************)
EXTENDS Naturals, Sequences

CONSTANTS Writers,     \* running containers that mount protected data writable
          Target,      \* the one that is updated and rolled back
          Dependents,  \* those that share the target's network namespace
          Mounts,      \* the protected mounts, in the order of the manifest
          MaxFaults,   \* bound: failing docker commands
          MaxCrashes,  \* bound: controller crashes
          MaxRollbacks \* bound: rollback jobs

ASSUME WritersAssumption == Target \in Writers /\ Dependents \subseteq Writers \ {Target}
ASSUME BoundsAssumption == MaxFaults \in Nat /\ MaxCrashes \in Nat /\ MaxRollbacks \in Nat

VARIABLES up,        \* containers that run
          image,     \* what the target runs, "none" while it does not exist
          data,      \* contents of every mount
          point,     \* the restore point: its row, its image, its archives
          safety,    \* whether a rollback holds an image of what it replaces
          op,        \* the operation under way and its locals
          began,     \* what ran when the operation began (auxiliary)
          faults, crashes, rollbacks

vars == <<up, image, data, point, safety, op, began, faults, crashes, rollbacks>>
runtime == <<up, image, data>>
bounds == <<crashes, rollbacks>>

MountSet == {Mounts[i] : i \in DOMAIN Mounts}
All(x) == [m \in MountSet |-> x]
Contents == [MountSet -> {"before", "after", "lost"}]

NoPoint == [row |-> "none", image |-> FALSE, archive |-> FALSE, dependents |-> {}]
Idle == [kind |-> "none", step |-> "none", stopped |-> {}, fresh |-> {}, deferred |-> {},
         downed |-> {}, result |-> "none"]

TypeOK ==
  /\ up \subseteq Writers
  /\ image \in {"before", "after", "none"}
  /\ data \in Contents
  /\ point \in [row : {"none", "ready", "degraded"}, image : BOOLEAN, archive : BOOLEAN,
               dependents : SUBSET Dependents]
  /\ safety \in BOOLEAN
  /\ op.kind \in {"none", "capture", "rollback"}
  /\ op.stopped \subseteq Writers /\ op.fresh \subseteq op.stopped /\ op.deferred \subseteq {Target} /\ op.downed \subseteq Writers
  /\ op.result \in {"none", "ready", "failed", "success", "recovered", "unrecovered", "crashed"}
  /\ faults \in 0 .. MaxFaults /\ crashes \in 0 .. MaxCrashes /\ rollbacks \in 0 .. MaxRollbacks

Init ==
  /\ up = Writers /\ image = "before" /\ data = All("before")
  /\ point = NoPoint /\ safety = FALSE /\ op = Idle
  /\ began = [up |-> up, image |-> image, data |-> data, faults |-> 0]
  /\ faults = 0 /\ crashes = 0 /\ rollbacks = 0

At(kind, step) == op.kind = kind /\ op.step = step
Goto(step) == op' = [op EXCEPT !.step = step]
Works == faults' = faults
Fails == faults < MaxFaults /\ faults' = faults + 1
End(result) == [Idle EXCEPT !.result = result, !.downed = op.downed]
Free == op.kind = "none" /\ op.deferred = {}
Begin == began' = [up |-> up, image |-> image, data |-> data, faults |-> faults]

(* Start names that do not run, three passes over those that fail: a       *)
(* container that stays down has failed three times and ends in failed.    *)
Restart(names, failed) ==
  /\ failed \subseteq names \ up
  /\ failed # {} => faults < MaxFaults
  /\ faults' = IF failed = {} THEN faults ELSE faults + 1
  /\ up' = up \cup (names \ failed)

-----------------------------------------------------------------------------
(* Capture *)

StartCapture ==
  /\ Free /\ image = "before" /\ point.row # "ready" /\ data = All("before")
  /\ \E deferred \in {{}, {Target}} :
       op' = [Idle EXCEPT !.kind = "capture", !.step = "stop", !.deferred = deferred]
  /\ Begin
  /\ point' = [NoPoint EXCEPT !.dependents = Dependents \cap up]
  /\ UNCHANGED <<runtime, safety, faults, bounds>>

(* stopDataWriters: one docker stop after the other *)
StopWriter(w) ==
  /\ op.step \in {"stop", "undo_stop"} /\ w \in up
  /\ up' = up \ {w}
  /\ op' = [op EXCEPT !.stopped = @ \cup {w}, !.fresh = @ \cup {w}]
  /\ Works
  /\ UNCHANGED <<image, data, point, safety, began, bounds>>

(* A chain rolls back inside its recreate step; the deferred writer is     *)
(* started when that rollback is over.                                     *)
Owed == IF op.kind = "rollback" THEN op.deferred ELSE {}

(* a stop that fails starts the ones stopped so far and gives up *)
StopFails ==
  /\ op.step = "stop" /\ up # {} /\ faults < MaxFaults
  /\ \E failed \in SUBSET op.fresh :
       /\ up' = up \cup (op.fresh \ failed)
       /\ faults' = faults + 1
       /\ op' = [End("failed") EXCEPT !.downed = failed, !.deferred = Owed]
  /\ point' = IF op.kind = "rollback" THEN [point EXCEPT !.row = "degraded"] ELSE point
  /\ safety' = FALSE
  /\ UNCHANGED <<image, data, began, bounds>>

CommitImage_RowFirst ==
  /\ At("capture", "stop") /\ up = {}
  /\ Works /\ Goto("archive")
  /\ point' = [point EXCEPT !.image = TRUE, !.row = "ready"]
  /\ UNCHANGED <<runtime, safety, began, bounds>>

CommitImage ==
  /\ At("capture", "stop") /\ up = {}
  /\ \/ /\ Works /\ Goto("archive")
        /\ point' = [point EXCEPT !.image = TRUE]
     \/ /\ Fails /\ Goto("abort")                 \* a degraded row is written
        /\ point' = [point EXCEPT !.row = "degraded"]
  /\ UNCHANGED <<runtime, safety, began, bounds>>

(* tar, test -s and the checksum of every mount; a failure removes both    *)
(* the archives and the committed image                                    *)
CaptureArchive ==
  /\ At("capture", "archive")
  /\ \/ /\ Works /\ Goto("restart")
        /\ point' = [point EXCEPT !.archive = TRUE]
     \/ Fails /\ Goto("abort") /\ point' = NoPoint
  /\ UNCHANGED <<runtime, safety, began, bounds>>

RestartWriters ==
  /\ At("capture", "restart")
  /\ \E failed \in SUBSET Writers :
       /\ Restart(op.stopped \ op.deferred, failed)
       /\ IF failed = {} THEN Goto("row") /\ UNCHANGED point
          ELSE Goto("abort") /\ point' = NoPoint
  /\ UNCHANGED <<image, data, safety, began, bounds>>

(* only now the row says that the point exists *)
AddRestorePoint ==
  /\ At("capture", "row")
  /\ \/ /\ Works /\ point' = [point EXCEPT !.row = "ready"]
        /\ op' = IF op.deferred = {} THEN End("ready") ELSE [op EXCEPT !.step = "recreate"]
     \/ Fails /\ Goto("abort") /\ point' = NoPoint
  /\ UNCHANGED <<runtime, safety, began, bounds>>

AbortCapture_ImmediateOnly ==
  /\ At("capture", "abort")
  /\ \E failed \in SUBSET Writers :
       /\ Restart(op.stopped \ op.deferred, failed)
       /\ op' = [End("failed") EXCEPT !.downed = failed]
  /\ UNCHANGED <<image, data, point, safety, began, bounds>>

(* the deferred function of an aborted capture: ensureDataWritersRunning *)
AbortCapture ==
  /\ At("capture", "abort")
  /\ \E failed \in SUBSET Writers :
       /\ Restart(op.stopped, failed)
       /\ op' = [End("failed") EXCEPT !.downed = failed]
  /\ UNCHANGED <<image, data, point, safety, began, bounds>>

(* recreateCurrentChainMember recreates the target on its own image and    *)
(* then releases the deferred writer; what fails here is rolled back       *)
RecreateCurrent ==
  /\ At("capture", "recreate")
  /\ \/ /\ Works /\ up' = up \cup {Target} /\ op' = End("ready")
        /\ UNCHANGED <<image, began>>
     \/ /\ Fails /\ image' = "none" /\ up' = up \ (Dependents \cup {Target})
        /\ op' = [Idle EXCEPT !.kind = "rollback", !.step = "safety", !.deferred = op.deferred]
        /\ began' = [up |-> up', image |-> "none", data |-> data, faults |-> faults']
  /\ UNCHANGED <<data, point, safety, bounds>>

(* releaseDeferred, when the recreate step returns                         *)
ReleaseDeferred ==
  /\ op.kind = "none" /\ op.deferred # {}
  /\ \/ image # "none" /\ up' = up \cup op.deferred
     \/ up' = up
  /\ op' = [op EXCEPT !.deferred = {}, !.downed = @ \cup (op.deferred \ up')]
  /\ UNCHANGED <<image, data, point, safety, began, faults, bounds>>

(* The update between capture and rollback: the new version rewrites the   *)
(* data, or the worker removes the container and fails to recreate it.     *)
Update ==
  /\ Free /\ point.row = "ready" /\ image = "before" /\ Target \in up
  /\ op' = Idle
  /\ \/ image' = "after" /\ data' = All("after") /\ UNCHANGED up
     \/ image' = "none" /\ up' = up \ {Target} /\ UNCHANGED data
  /\ UNCHANGED <<point, safety, began, faults, bounds>>

-----------------------------------------------------------------------------
(* Rollback *)

(* integrity is read from the parts, not from the row's status *)
StartRollback ==
  /\ Free /\ point.row # "none" /\ rollbacks < MaxRollbacks
  /\ rollbacks' = rollbacks + 1
  /\ op' = IF point.image /\ point.archive
           THEN [Idle EXCEPT !.kind = "rollback", !.step = "safety"]
           ELSE [Idle EXCEPT !.result = "failed"]
  /\ Begin
  /\ safety' = FALSE
  /\ UNCHANGED <<runtime, point, faults, crashes>>

(* without a safety image the rollback goes on *)
SafetyCommit ==
  /\ At("rollback", "safety")
  /\ \/ image = "none" /\ Works /\ UNCHANGED safety
     \/ image # "none" /\ Works /\ safety' = TRUE
     \/ image # "none" /\ Fails /\ UNCHANGED safety
  /\ Goto("stop")
  /\ UNCHANGED <<runtime, point, began, bounds>>

FailJob(result) ==
  /\ op' = [End(result) EXCEPT !.deferred = Owed]
  /\ point' = [point EXCEPT !.row = "degraded"]
  /\ safety' = FALSE                          \* deferred clean-ups

(* The helper's script: checksums and the safety copies first, then        *)
(*   if ! (wipe m1; tar m1; wipe m2; tar m2); then (the same with the      *)
(*   safety copies) || true; exit 42; fi                                   *)
(* In a condition the shell ignores set -e and takes the status of the     *)
(* last tar, so an earlier one that fails goes unnoticed.                  *)
Unpack(broken) == [m \in MountSet |-> IF m \in broken THEN "lost" ELSE "before"]

FailData(failed) ==
  /\ up' = op.stopped \ failed
  /\ op' = [End("failed") EXCEPT !.downed = failed, !.deferred = Owed]
  /\ point' = [point EXCEPT !.row = "degraded"] /\ safety' = FALSE

RestoreData ==
  /\ At("rollback", "stop") /\ up = {}
  /\ \E broken \in SUBSET (MountSet \ {Mounts[Len(Mounts)]}) :
       /\ IF broken = {} THEN Works ELSE Fails
       /\ data' = Unpack(broken)
  /\ op' = [op EXCEPT !.step = "recreate"]
  /\ UNCHANGED <<up, image, point, safety, began, bounds>>

(* before anything is wiped, or with the safety copies put back, or with   *)
(* a second failure while they are put back                                *)
RestoreDataFails ==
  /\ At("rollback", "stop") /\ up = {} /\ faults < MaxFaults
  /\ \/ faults' = faults + 1 /\ UNCHANGED data
     \/ /\ faults + 1 < MaxFaults /\ faults' = faults + 2
        /\ \E m \in MountSet : data' = [data EXCEPT ![m] = "lost"]
  /\ \E failed \in SUBSET op.stopped : FailData(failed)
  /\ UNCHANGED <<image, began, bounds>>

CanUndo == safety /\ began.image # "none"
UndoOrFail == IF CanUndo
              THEN op' = [op EXCEPT !.step = "undo_stop", !.fresh = {}] /\ UNCHANGED <<point, safety>>
              ELSE FailJob("unrecovered")

(* dependents are stopped, then rm -f, create, connect and start *)
RecreateTarget ==
  /\ At("rollback", "recreate")
  /\ \/ /\ Works /\ image' = "before" /\ up' = (up \ Dependents) \cup {Target}
        /\ Goto("others") /\ UNCHANGED <<point, safety>>
     \/ /\ Fails /\ image' \in {"none", "before"} /\ up' = up \ (Dependents \cup {Target})
        /\ UndoOrFail
  /\ UNCHANGED <<data, began, bounds>>

RestartOthers ==
  /\ At("rollback", "others")
  /\ \E failed \in SUBSET Writers :
       /\ Restart(op.stopped \ (Dependents \cup {Target}), failed)
       /\ IF failed = {} THEN Goto("verify") /\ UNCHANGED <<point, safety>>
          ELSE UndoOrFail
  /\ UNCHANGED <<image, data, began, bounds>>

VerifyTarget ==
  /\ At("rollback", "verify")
  /\ \/ Works /\ Goto("rebind") /\ UNCHANGED <<point, safety>>
     \/ Fails /\ UndoOrFail
  /\ UNCHANGED <<runtime, began, bounds>>

(* dependents are recreated one after the other against the new target;    *)
(* without an inspect of the target there is no way back                   *)
RebindDependents ==
  /\ At("rollback", "rebind")
  /\ \/ /\ Works /\ up' = up \cup point.dependents
        /\ Goto("finish") /\ UNCHANGED <<point, safety>>
     \/ /\ Dependents # {} /\ Fails /\ UNCHANGED up /\ FailJob("unrecovered")
     \/ /\ Dependents # {} /\ Fails
        /\ \E bound \in SUBSET point.dependents : up' = up \cup bound
        /\ UndoOrFail
  /\ UNCHANGED <<image, data, began, bounds>>

(* the last restart and the custom verification fail without an undo *)
FinishRollback ==
  /\ At("rollback", "finish")
  /\ \E failed \in SUBSET Writers :
       /\ Restart(op.stopped, failed)
       /\ IF failed = {}
          THEN op' = [End("success") EXCEPT !.deferred = op.deferred] /\ point' = [point EXCEPT !.row = "ready"]
          ELSE op' = [End("unrecovered") EXCEPT !.deferred = op.deferred] /\ point' = [point EXCEPT !.row = "degraded"]
  /\ safety' = FALSE
  /\ UNCHANGED <<image, data, began, bounds>>

CustomVerificationFails ==
  /\ At("rollback", "finish") /\ Fails
  /\ up' = up \cup op.stopped
  /\ FailJob("unrecovered")
  /\ UNCHANGED <<image, data, began, bounds>>

-----------------------------------------------------------------------------
(* recoverSafety *)

UndoStops == At("rollback", "undo_stop")

UndoStopFails ==
  /\ UndoStops /\ up # {} /\ Fails
  /\ \E failed \in SUBSET op.fresh : up' = up \cup (op.fresh \ failed)
  /\ FailJob("unrecovered")
  /\ UNCHANGED <<image, data, began, bounds>>

UndoData_RuntimeOnly ==
  /\ UndoStops /\ up = {} /\ Works /\ Goto("undo_recreate")
  /\ UNCHANGED <<runtime, point, safety, began, bounds>>

UndoData ==
  /\ UndoStops /\ up = {}
  /\ \/ Works /\ data' = began.data /\ Goto("undo_recreate") /\ UNCHANGED <<up, point, safety>>
     \/ /\ Fails /\ \E m \in MountSet : data' = [data EXCEPT ![m] = "lost"]
        /\ up' = op.stopped /\ FailJob("unrecovered")
  /\ UNCHANGED <<image, began, bounds>>

UndoRecreate ==
  /\ At("rollback", "undo_recreate")
  /\ \/ /\ Works /\ image' = began.image /\ up' = (up \ Dependents) \cup {Target}
        /\ Goto("undo_restart") /\ UNCHANGED <<point, safety>>
     \/ /\ Fails /\ image' \in {"none", began.image} /\ up' = up \ (Dependents \cup {Target})
        /\ FailJob("unrecovered")
  /\ UNCHANGED <<data, began, bounds>>

UndoRestart ==
  /\ At("rollback", "undo_restart")
  /\ \E failed \in SUBSET Writers :
       /\ Restart(op.stopped \cup (Dependents \cap began.up), failed)
       /\ FailJob(IF failed = {} THEN "recovered" ELSE "unrecovered")
  /\ UNCHANGED <<image, data, began, bounds>>

-----------------------------------------------------------------------------
(* The controller dies.  Containers stay as they are; a helper that was    *)
(* unpacking may have got anywhere.  Nothing restarts stopped writers.     *)
Crash ==
  /\ op.kind # "none" /\ crashes < MaxCrashes
  /\ crashes' = crashes + 1
  /\ data' \in IF At("rollback", "stop") /\ up = {} THEN {data} \cup Contents ELSE {data}
  /\ op' = [End("crashed") EXCEPT !.downed = op.stopped]
  /\ safety' = FALSE
  /\ UNCHANGED <<up, image, point, began, faults, rollbacks>>

Step ==
  \/ \E w \in Writers : StopWriter(w)
  \/ StopFails \/ CommitImage \/ CaptureArchive \/ RestartWriters \/ AddRestorePoint
  \/ AbortCapture \/ RecreateCurrent \/ ReleaseDeferred
  \/ SafetyCommit \/ RestoreData \/ RestoreDataFails \/ RecreateTarget
  \/ RestartOthers \/ VerifyTarget \/ RebindDependents \/ FinishRollback
  \/ CustomVerificationFails \/ UndoStopFails \/ UndoData \/ UndoRecreate \/ UndoRestart

Next == StartCapture \/ Update \/ StartRollback \/ Step \/ Crash

Spec == Init /\ [][Next]_vars /\ WF_vars(Step)

-----------------------------------------------------------------------------
(* Properties *)

(* What a finished rollback reports is what is there: after "success" the  *)
(* old version runs on the old data and every container that ran before    *)
(* runs again; after "pre-rollback runtime was recovered" image, data and  *)
(* containers are those the rollback found.  executeRestorePointRollback.  *)
OutcomeIsTrue ==
  Free =>
    /\ op.result = "success" => /\ image = "before" /\ data = All("before")
                               /\ began.up \cup {Target} \subseteq up
    /\ op.result = "recovered" => /\ image = began.image /\ data = began.data
                                 /\ began.up \subseteq up

(* A rollback of an updated application during which one docker command    *)
(* fails never leaves one version running on the data of the other.        *)
OneFaultKeepsDataWithRuntime ==
  /\ op.kind = "none" /\ op.result \in {"success", "failed", "recovered", "unrecovered"}
  /\ began.image = "after" /\ began.data = All("after") /\ faults <= began.faults + 1
  => data = All(image)

RollbackIsHonest == OutcomeIsTrue /\ OneFaultKeepsDataWithRuntime

(* A capture that ended, and a rollback refused before it replaced         *)
(* anything, leave no container stopped but those whose start failed.      *)
WritersComeBack ==
  Free /\ op.result \in {"ready", "failed"} => began.up \subseteq up \cup op.downed

(* A row that says ready has its image and its archives: the row is        *)
(* written last by the capture, and a rollback marks it ready again only   *)
(* after both were used.                                                   *)
ReadyPointIsWhole == point.row = "ready" => point.image /\ point.archive

(* The comment at data_protection.go:1394: "If any restore step fails, put *)
(* the just-captured current data back before returning failure".  So when *)
(* the runtime is restored, every mount has been.                          *)
RestoreIsAllOrNothing == At("rollback", "recreate") => data = All("before")
=============================================================================
