---------------------------- MODULE DeveloperUpdate ----------------------------
(***************************************************************************)
(* The self-update of a source installation.  The controller uploads a     *)
(* package, queues it and launches a helper container; the helper backs up *)
(* the source tree, overlays the new one, builds, replaces the controller  *)
(* and undoes all of it when a step fails.  They share nothing but files:  *)
(* the status of the update, a cancel marker and the trees.  Either may    *)
(* die between two steps, and a controller that finds an active status     *)
(* without a helper reconciles it: when it starts, and when an owner opens *)
(* the settings, uploads, installs or cancels.  No lock keeps two tabs     *)
(* from installing the same update.                                        *)
(*                                                                         *)
(* One package "new" over the version "old".  A step of the helper goes    *)
(* from one write of the status to the next.                               *)
(***************************************************************************)
EXTENDS Naturals, FiniteSets

CONSTANTS Tabs,        \* browser tabs of the owner: requests in flight
          Rescuers,    \* bound: the tabs that cancel and recover as well as install
          MaxRequests, \* bound: installs, cancels and recoveries asked for
          MaxRestarts  \* bound: restarts of the controller

VARIABLES st,          \* status file: state, SwitchAttempted, CancelRequested
          flag,        \* the .cancel file
          workspace,   \* source tree: its VERSION, and whether all of it is that version
          backup,      \* copy of the source tree
          ref, pin,    \* what the image reference names; whether the rollback tag exists
          ctrl, db,    \* controller container; database schema
          helper,      \* the helper and its own copy of the status
          req, look,   \* requests of the controller; reconciliation under devUpdateMu
          started,     \* the look of the controller's start: "due", "looked", "unread"
          lost,        \* the controller wrote over a newer status, or beside a helper
          crossed,     \* a helper was launched after another had copied the tree
          asked,       \* requests so far
          restarts     \* (lost and crossed are auxiliary)

developerVars == <<st, flag, workspace, backup, ref, pin, ctrl, db, helper, req, look, started,
                   lost, crossed, asked, restarts>>
trees == <<workspace, backup>>
docker == <<ref, pin, ctrl, db>>
looking == <<look, started>>
requests == <<req, look, started>>
others == <<crossed, asked, restarts>>

Versions == {"old", "new"}
Tree(v) == [version |-> v, whole |-> TRUE]
NoTree == [version |-> "none", whole |-> FALSE]
(* files are replaced one by one: what an interrupted ApplySource leaves *)
Partly(tree) == {tree} \cup [version : Versions, whole : {FALSE}]

Active == {"queued", "preparing", "backing_up", "applying", "building", "switching",
           "verifying", "rolling_back"}
Off == [pc |-> "off", sw |-> FALSE, cancel |-> FALSE, cause |-> "none"]
NoStatus == [state |-> "absent", sw |-> FALSE, cancel |-> FALSE]
NoReq == [kind |-> "none", step |-> "none", copy |-> NoStatus]
NoReqs == [t \in Tabs |-> NoReq]
Running == helper.pc # "off"

TypeOK ==
  /\ st.state \in Active \cup {"absent", "uploaded", "completed", "failed", "cancelled",
                              "rolled_back", "recovery_required"}
  /\ {st.sw, st.cancel, flag, pin, ctrl.up, lost, crossed} \subseteq BOOLEAN
  /\ workspace \in Partly(Tree("old")) \cup Partly(Tree("new"))
  /\ ctrl.version \in Versions \cup {"none"} /\ {ref, db} \subseteq Versions

DeveloperInit ==
  /\ st = NoStatus /\ flag = FALSE
  /\ workspace = Tree("old") /\ backup = NoTree
  /\ ref = "old" /\ pin = FALSE /\ ctrl = [version |-> "old", up |-> TRUE] /\ db = "old"
  /\ helper = Off /\ req = NoReqs /\ look = NoStatus
  /\ started = "due" /\ lost = FALSE /\ crossed = FALSE /\ asked = 0 /\ restarts = 0

-----------------------------------------------------------------------------
(* The helper *)

At(pc) == helper.pc = pc

(* r.set: the helper's own copy goes to the file *)
Set(state, pc, sw, cause) ==
  /\ st' = [state |-> state, sw |-> sw, cancel |-> helper.cancel \/ flag]
  /\ helper' = [pc |-> pc, sw |-> sw, cancel |-> helper.cancel \/ flag, cause |-> cause]
  /\ lost' = FALSE
  /\ UNCHANGED flag

GoTo(state) == Set(state, state, helper.sw, "none")

(* a terminal status ends the helper, clears the marker and removes the    *)
(* rollback tag unless recovery is required                                *)
EndAs(state) ==
  /\ st' = [state |-> state, sw |-> helper.sw, cancel |-> helper.cancel \/ flag]
  /\ helper' = Off /\ flag' = FALSE /\ lost' = FALSE

DropPin(state) == IF state = "recovery_required" THEN pin ELSE FALSE

HelperStarts ==
  /\ At("launched")
  /\ Set("preparing", "preparing", st.sw, "none")
  /\ UNCHANGED <<trees, docker, requests, others>>

Prepare ==
  /\ At("preparing")
  /\ \/ EndAs("failed")                          \* discoverProject, preflightCapacity
     \/ flag /\ EndAs("cancelled")
     \/ ~flag /\ GoTo("backing_up")
  /\ UNCHANGED <<trees, docker, requests, others>>

BackUp ==
  /\ At("backing_up")
  /\ \/ EndAs("failed") /\ backup' \in {NoTree, workspace} /\ UNCHANGED pin
     \/ backup' = workspace /\ flag /\ EndAs("cancelled") /\ pin' = FALSE
     \/ backup' = workspace /\ ~flag /\ GoTo("applying") /\ pin' = TRUE
  /\ UNCHANGED <<workspace, ref, ctrl, db, requests, others>>

UndoSourceFor(cause) == Set("rolling_back", "undo_source", FALSE, cause)

ApplyTree ==
  /\ At("applying")
  /\ \/ workspace' \in Partly(workspace) /\ UndoSourceFor("error")
     \/ workspace' = Tree("new") /\ flag /\ UndoSourceFor("cancel")
     \/ workspace' = Tree("new") /\ ~flag /\ GoTo("building")
  /\ UNCHANGED <<backup, docker, requests, others>>

(* the build, its cancel watcher and verifyPreSwitchRecoveryAssets *)
Build ==
  /\ At("building")
  /\ \/ ref' \in {ref, "new"} /\ UndoSourceFor("error")
     \/ ref' \in {ref, "new"} /\ flag /\ UndoSourceFor("cancel")
     \/ /\ ref' = "new" /\ ~flag
        /\ backup.version # "none" /\ workspace.version = "new" /\ pin
        /\ Set("switching", "switching", TRUE, "none")
  /\ UNCHANGED <<trees, pin, ctrl, db, requests, others>>

(* rollbackSourceOnly: the controller was never replaced *)
UndoSource ==
  /\ At("undo_source")
  /\ \/ /\ workspace' \in Partly(workspace) /\ EndAs("recovery_required") /\ UNCHANGED pin
     \/ /\ workspace' = backup /\ pin' = FALSE
        /\ EndAs(IF helper.cause = "cancel" THEN "cancelled" ELSE "failed")
  /\ UNCHANGED <<backup, ref, ctrl, db, requests, others>>

(* a container starts: the new version migrates the database.  Replacing   *)
(* or stopping a container ends the requests it served, and what starts    *)
(* next looks first.                                                       *)
RunsVersion(version) == ctrl' = [version |-> version, up |-> TRUE] /\ db' = IF version = "new" THEN "new" ELSE db
Down == ctrl' \in {[ctrl EXCEPT !.up = FALSE], [version |-> "none", up |-> FALSE]} /\ UNCHANGED db
NoRequests == req' = NoReqs /\ look' = NoStatus /\ started' = "due"
Recreated == RunsVersion(ref) /\ NoRequests
NotRecreated == (Down /\ NoRequests) \/ UNCHANGED <<ctrl, db, requests>>

Switch ==
  /\ At("switching")
  /\ \/ Recreated /\ GoTo("verifying")
     \/ (Recreated \/ NotRecreated) /\ Set("rolling_back", "undo_stop", TRUE, "error")
  /\ UNCHANGED <<trees, ref, pin, others>>

Verify ==
  /\ At("verifying")
  /\ \/ ctrl.up /\ EndAs("completed") /\ pin' = FALSE
     \/ Set("rolling_back", "undo_stop", TRUE, "error") /\ UNCHANGED pin
  /\ UNCHANGED <<trees, ref, ctrl, db, requests, others>>

Continue(pc) == helper' = [helper EXCEPT !.pc = pc] /\ UNCHANGED <<st, flag, lost>>

(* rollbackAfterSwitch: stop, database, source, image, recreate, health *)
UndoStop ==
  /\ At("undo_stop")
  /\ \/ /\ ctrl' = [ctrl EXCEPT !.up = FALSE] /\ NoRequests /\ Continue("undo_db")
     \/ /\ ctrl.up /\ EndAs("recovery_required") /\ UNCHANGED <<ctrl, requests>>
  /\ UNCHANGED <<trees, ref, pin, db, others>>

UndoDatabase ==
  /\ At("undo_db")
  /\ \/ db' = "old" /\ Continue("undo_tree")
     \/ EndAs("recovery_required") /\ UNCHANGED db
  /\ UNCHANGED <<trees, ref, pin, ctrl, requests, others>>

UndoTree ==
  /\ At("undo_tree")
  /\ \/ workspace' = backup /\ Continue("undo_up")
     \/ workspace' \in Partly(workspace) /\ EndAs("recovery_required")
  /\ UNCHANGED <<backup, docker, requests, others>>

UndoUp_NotRetagged ==
  /\ At("undo_up") /\ ref' = ref
  /\ \/ RunsVersion(ref') /\ NoRequests /\ Continue("undo_health")
     \/ EndAs("recovery_required") /\ (RunsVersion(ref') \/ Down) /\ NoRequests
  /\ UNCHANGED <<trees, pin, others>>

UndoUp ==
  /\ At("undo_up") /\ ref' = IF pin THEN "old" ELSE ref
  /\ \/ pin /\ RunsVersion(ref') /\ NoRequests /\ Continue("undo_health")
     \/ EndAs("recovery_required") /\ (RunsVersion(ref') \/ Down) /\ NoRequests
  /\ UNCHANGED <<trees, pin, others>>

UndoHealth ==
  /\ At("undo_health")
  /\ \E state \in {"rolled_back", "recovery_required"} : EndAs(state) /\ pin' = DropPin(state)
  /\ UNCHANGED <<trees, ref, ctrl, db, requests, others>>

Helper ==
  \/ HelperStarts \/ Prepare \/ BackUp \/ ApplyTree \/ Build \/ UndoSource \/ Switch \/ Verify
  \/ UndoStop \/ UndoDatabase \/ UndoTree \/ UndoUp \/ UndoHealth

(* the helper dies in the middle of what it is doing *)
Interrupted ==
  /\ workspace' \in IF helper.pc \in {"applying", "undo_source", "undo_tree"} THEN Partly(workspace) ELSE {workspace}
  /\ backup' \in IF At("backing_up") THEN {NoTree, workspace} ELSE {backup}

HelperCrash ==
  /\ Running /\ helper' = Off /\ Interrupted
  /\ IF helper.pc \in {"switching", "undo_up"}
     THEN Recreated \/ NotRecreated ELSE UNCHANGED <<ctrl, db, requests>>
  /\ UNCHANGED <<st, flag, ref, pin, lost, others>>

-----------------------------------------------------------------------------
(* The controller *)

(* it listens once the look of its start is over                           *)
Serves(t) == ctrl.up /\ started # "due" /\ req[t].kind = "none"
Asks(t) == Serves(t) /\ asked < MaxRequests /\ asked' = asked + 1
Rescues(t) == t \in Rescuers /\ Asks(t)
Put(t, kind, step, copy) == req' = [req EXCEPT ![t] = [kind |-> kind, step |-> step, copy |-> copy]]
In(t, kind, step) == ctrl.up /\ req[t].kind = kind /\ req[t].step = step
Finish(t) == req' = [req EXCEPT ![t] = NoReq]
Stale(copy) == copy.state # st.state \/ copy.sw # st.sw
Write(copy, status) == st' = status /\ lost' = (lost \/ Stale(copy))

Upload(t) ==
  /\ Serves(t) /\ st.state = "absent"
  /\ Write(st, [NoStatus EXCEPT !.state = "uploaded"])
  /\ UNCHANGED <<flag, trees, docker, helper, requests, others>>

(* checked now, written after the database backup, launched after that: no *)
(* lock is held, and another tab may have come as far                      *)
InstallCheck(t) ==
  /\ Asks(t) /\ st.state = "uploaded"
  /\ Put(t, "install", "backup", st)
  /\ UNCHANGED <<st, flag, trees, docker, helper, looking, lost, crossed, restarts>>

InstallQueue(t) ==
  /\ In(t, "install", "backup")
  /\ \/ Finish(t) /\ UNCHANGED <<st, lost>>
     \/ /\ Write(req[t].copy, [req[t].copy EXCEPT !.state = "queued"])
        /\ Put(t, "install", "launch", [req[t].copy EXCEPT !.state = "queued"])
  /\ UNCHANGED <<flag, trees, docker, helper, looking, others>>

(* LaunchDevelopmentUpdater removes a helper of that name first, working   *)
(* or not; it may fail before that or after                                *)
Launch(t) ==
  /\ In(t, "install", "launch")
  /\ \/ /\ Interrupted /\ helper' = [Off EXCEPT !.pc = "launched"]
        /\ crossed' = (crossed \/ backup' # NoTree) /\ UNCHANGED <<st, lost>>
     \/ /\ \/ Interrupted /\ helper' = Off
           \/ UNCHANGED <<trees, helper>>
        /\ Write(req[t].copy, [req[t].copy EXCEPT !.state = "failed"]) /\ UNCHANGED crossed
  /\ Finish(t)
  /\ UNCHANGED <<flag, docker, looking, asked, restarts>>

(* handleDeveloperUpdateCancel works on the status it read first *)
CancelRead(t) ==
  /\ Rescues(t) /\ st.state \in Active
  /\ Put(t, "cancel", "mark", st)
  /\ UNCHANGED <<st, flag, trees, docker, helper, looking, lost, crossed, restarts>>

RequestCancel(t) ==
  /\ In(t, "cancel", "mark") /\ flag' = TRUE
  /\ Put(t, "cancel", "write", [req[t].copy EXCEPT !.cancel = TRUE])
  /\ UNCHANGED <<st, trees, docker, helper, looking, lost, others>>

CancelWrite(t) ==
  /\ In(t, "cancel", "write")
  /\ Write(req[t].copy, req[t].copy)
  /\ Put(t, "cancel", "look", NoStatus)
  /\ UNCHANGED <<flag, trees, docker, helper, looking, others>>

(* reconcileDeveloperUpdates: an active status, and Docker knows no helper *)
Orphaned_QueuedIsLaunching == st.state \in Active \ {"queued"} /\ ~Running
Orphaned_HelperNotProbed == st.state \in Active
Orphaned == st.state \in Active /\ ~Running
Take == look = NoStatus /\ Orphaned /\ look' = st

(* once when the controller starts, unless Docker cannot be asked ...      *)
StartLook ==
  /\ ctrl.up /\ started = "due"
  /\ \/ Take /\ started' = "looked"
     \/ ~Orphaned /\ started' = "looked" /\ UNCHANGED look
     \/ st.state \in Active /\ started' = "unread" /\ UNCHANGED look
  /\ UNCHANGED <<st, flag, trees, docker, helper, req, lost, others>>

(* ... for the settings page, an upload and an install ...                 *)
Look ==
  /\ ctrl.up /\ started # "due" /\ Take
  /\ UNCHANGED <<st, flag, trees, docker, helper, req, started, lost, others>>

(* ... and at the end of a cancel, which may find no reason or no Docker.  *)
(* The status route, which the page of an update polls, does not look.     *)
CancelLook(t) ==
  /\ In(t, "cancel", "look") /\ Finish(t)
  /\ Take \/ UNCHANGED look
  /\ UNCHANGED <<st, flag, trees, docker, helper, started, lost, others>>

(* handleDeveloperUpdateRecover reads and probes before it takes the lock *)
RecoverRead(t) ==
  /\ Rescues(t) /\ st.state \in Active \cup {"recovery_required"} /\ ~Running
  /\ Put(t, "recover", "lock", st)
  /\ UNCHANGED <<st, flag, trees, docker, helper, looking, lost, crossed, restarts>>

RecoverLock(t) ==
  /\ In(t, "recover", "lock") /\ look = NoStatus
  /\ look' = req[t].copy /\ Finish(t)
  /\ UNCHANGED <<st, flag, trees, docker, helper, started, lost, others>>

Terminal(state) ==
  /\ st' = [look EXCEPT !.state = state, !.cancel = @ \/ flag]
  /\ lost' = (lost \/ Stale(look) \/ Running)
  /\ flag' = FALSE /\ look' = NoStatus

(* restoreBackup, then the terminal status; or the proof is missing *)
RestoreThen(state) ==
  \/ backup.version # "none" /\ workspace' = backup /\ Terminal(state)
  \/ /\ workspace' \in (IF backup.version = "none" THEN {workspace} ELSE Partly(workspace))
     /\ Terminal("recovery_required")

CancelledOrFailed == IF look.cancel \/ flag THEN "cancelled" ELSE "failed"
NeedsRestore == look.state \in {"applying", "building", "rolling_back", "recovery_required"}
SwitchAttempted == look.sw \/ look.state \in {"switching", "verifying"}

(* reconcileOrphanedDeveloperUpdate *)
ReconcileUnswitched ==
  /\ ctrl.up /\ look # NoStatus /\ ~SwitchAttempted
  /\ IF NeedsRestore THEN RestoreThen(CancelledOrFailed)
     ELSE Terminal(CancelledOrFailed) /\ UNCHANGED workspace
  /\ UNCHANGED <<backup, docker, helper, req, started, others>>

ReconcileSwitched ==
  /\ ctrl.up /\ look # NoStatus /\ SwitchAttempted
  /\ IF ctrl.version = backup.version THEN RestoreThen("rolled_back")
     ELSE /\ UNCHANGED workspace
          /\ \/ /\ ctrl.version = "new" /\ workspace.version = "new" /\ look.state # "rolling_back"
                /\ Terminal("completed")
             \/ Terminal("recovery_required")
  /\ UNCHANGED <<backup, docker, helper, req, started, others>>

Reconcile == ReconcileUnswitched \/ ReconcileSwitched

(* the controller's process ends and its container starts again *)
Restart ==
  /\ ctrl.up /\ restarts < MaxRestarts /\ restarts' = restarts + 1
  /\ NoRequests
  /\ workspace' \in IF look # NoStatus /\ backup.version # "none" /\ (NeedsRestore \/ SwitchAttempted)
                    THEN Partly(workspace) ELSE {workspace}
  /\ lost' = (lost \/ (look # NoStatus /\ Stale(look)))
  /\ UNCHANGED <<st, flag, backup, docker, helper, crossed, asked>>

(* by hand, when an update left the controller down *)
OwnerStarts ==
  /\ ~ctrl.up /\ ~Running
  /\ RunsVersion(IF ctrl.version = "none" THEN ref ELSE ctrl.version)
  /\ UNCHANGED <<st, flag, trees, ref, pin, helper, requests, lost, others>>

Handlers(t) ==
  \/ InstallQueue(t) \/ Launch(t)
  \/ RequestCancel(t) \/ CancelWrite(t) \/ CancelLook(t) \/ RecoverLock(t)

DeveloperNext ==
  \/ Helper \/ HelperCrash \/ StartLook \/ Look \/ Reconcile \/ Restart \/ OwnerStarts
  \/ \E t \in Tabs :
       Upload(t) \/ InstallCheck(t) \/ CancelRead(t) \/ RecoverRead(t) \/ Handlers(t)

(* The helper, a start of the controller and requests under way run on.    *)
(* Nobody has to open a page or to start a controller that is down.        *)
Fairness ==
  /\ WF_developerVars(Helper) /\ WF_developerVars(StartLook) /\ WF_developerVars(Reconcile)
  /\ \A t \in Tabs : WF_developerVars(Handlers(t))

DeveloperSpec == DeveloperInit /\ [][DeveloperNext]_developerVars /\ Fairness

-----------------------------------------------------------------------------
(* Properties *)

Settled == ~Running /\ req = NoReqs /\ look = NoStatus /\ ctrl.up /\ st.state \notin Active

(* What a finished update says is what is there: after failed, cancelled   *)
(* and rolled_back the old controller runs on the whole old tree and the   *)
(* old schema, after completed the new one runs and the tree is named new. *)
(* Two exceptions: the controller wrote over a status it had not read, or  *)
(* beside a helper, and no helper has written since (lost); and two        *)
(* installs crossed, the second after the first helper's backup (crossed). *)
SettledIsTrue ==
  Settled /\ ~lost /\ ~crossed =>
    /\ st.state \in {"failed", "cancelled", "rolled_back"}
         => ctrl.version = "old" /\ workspace = Tree("old") /\ db = "old"
    /\ st.state = "completed" => ctrl.version = "new" /\ workspace.version = "new" /\ db = "new"

(* Nobody but the helper touches the tree while the helper runs, until two *)
(* installs cross; the probe of reconcileDeveloperUpdates and the states   *)
(* it restores from.  A second install may kill the helper at its work.    *)
HelperOwnsTheTree ==
  [][Running /\ workspace' # workspace /\ ~crossed =>
       Helper \/ HelperCrash \/ \E t \in Tabs : Launch(t)]_developerVars

(* An active status ends, or the helper and the installs are gone and left *)
(* it behind, or they left no controller.  What was left behind ends when  *)
(* the controller starts again, unless Docker cannot be asked then, and it *)
(* ends if an owner keeps opening the settings.                            *)
LeftBehind ==
  ~Running /\ look = NoStatus /\ started # "due" /\ \A t \in Tabs : req[t].kind # "install"
UpdatesEnd ==
  /\ (st.state \in Active) ~> (st.state \notin Active \/ ~ctrl.up \/ LeftBehind)
  /\ (st.state \in Active /\ ~Running /\ started = "due")
       ~> (st.state \notin Active \/ ~ctrl.up \/ started = "unread")
  /\ WF_developerVars(Look) => (st.state \in Active) ~> (st.state \notin Active \/ ~ctrl.up)

(* The message at developer_update.go:203: "Safe cancel completed before   *)
(* the controller switch. The previous source tree is active."  So once an *)
(* update is cancelled the controller is not replaced any more.            *)
CancelledIsFinal == [](st.state = "cancelled" => [](ctrl.version = "old"))
=============================================================================
