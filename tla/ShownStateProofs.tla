--------------------------- MODULE ShownStateProofs ---------------------------
(* What the controller shows of itself and of its containers is true: the    *)
(* status of its own update, the updates it offers and the results of the    *)
(* verifications.  Each is kept in a row or a file that several requests     *)
(* read, work on and write back.                                             *)
EXTENDS DeveloperUpdate, UpdateTracking, UpdateReadiness, TLAPS

-----------------------------------------------------------------------------
(* The self-update of a source installation, for any tabs, any requests and  *)
(* any number of restarts.  An update goes through three phases and each has *)
(* its own reason to be right: until a helper copies the tree nothing is     *)
(* touched and there is nothing to restore; while the helper works, only     *)
(* where it stands says what the trees, the image and the containers are;    *)
(* and when it is gone, the status it left does.  All of it ends when a      *)
(* second install, checked before, launches its helper after a first one has *)
(* copied the tree.                                                          *)

-----------------------------------------------------------------------------
(* The inductive invariant *)

Early == {"queued", "preparing", "backing_up", "failed", "cancelled"}
States == Active \cup {"absent", "uploaded", "completed", "failed", "cancelled", "rolled_back",
                       "recovery_required"}
Statuses == [state : States, sw : BOOLEAN, cancel : BOOLEAN]
TreeType == [version : Versions \cup {"none"}, whole : BOOLEAN]
Undoing == {"undo_source", "undo_stop", "undo_db", "undo_tree", "undo_up", "undo_health"}
AfterSwitch == {"switching", "verifying", "undo_stop", "undo_db", "undo_tree", "undo_up", "undo_health"}
Pcs == {"off", "launched", "preparing", "backing_up", "applying", "building"} \cup Undoing \cup AfterSwitch
Steps == {"none", "backup", "launch", "mark", "write", "look", "lock"}
Requests == [kind : {"none", "install", "cancel", "recover"},
             step : Steps,
             copy : Statuses]

Types ==
  /\ st \in Statuses /\ look \in Statuses
  /\ req \in [Tabs -> Requests]
  /\ helper \in [pc : Pcs, sw : BOOLEAN, cancel : BOOLEAN, cause : {"none", "error", "cancel"}]
  /\ workspace \in TreeType /\ workspace.version \in Versions /\ backup \in TreeType
  /\ ctrl \in [version : Versions \cup {"none"}, up : BOOLEAN]
  /\ ref \in Versions /\ db \in Versions
  /\ flag \in BOOLEAN /\ pin \in BOOLEAN /\ lost \in BOOLEAN

(* What the requests and the reconciliation have read. *)
Installs(r) == r.kind = "install"
Cancels(r) == r.kind = "cancel" /\ r.step # "look"
Recovers(r) == r.kind = "recover"
Copies ==
  /\ look = NoStatus \/ look.state \in Active \cup {"recovery_required"}
  /\ \A t \in Tabs : Cancels(req[t]) => req[t].copy.state \in Active
  /\ \A t \in Tabs : Recovers(req[t]) => req[t].copy.state \in Active \cup {"recovery_required"}
  /\ \A t \in Tabs : Installs(req[t]) =>
        req[t].copy.state = IF req[t].step = "launch" THEN "queued" ELSE "uploaded"

IsEarly(copy) == copy.state \in {"queued", "preparing", "backing_up"} /\ ~copy.sw
Kept == backup = Tree("old")
OldRuns == ctrl.version = "old" /\ db = "old"
OldWorld == OldRuns /\ workspace = Tree("old")
Untouched == OldWorld /\ backup = NoTree /\ ref = "old" /\ ~pin
Sound ==
  /\ ctrl.version = "old" => db = "old"
  /\ ctrl.version = "none" /\ db = "new" => ref = "new"
  /\ ctrl.version = "new" /\ ctrl.up => db = "new"

(* A reconciliation or a recovery under way looked before there was a copy. *)
LookedEarly ==
  /\ look = NoStatus \/ IsEarly(look)
  /\ \A t \in Tabs : Recovers(req[t]) => IsEarly(req[t].copy)

BeforeCopy == {"off", "launched", "preparing", "backing_up"}
Fresh ==
  /\ helper.pc \in BeforeCopy /\ helper.sw = FALSE
  /\ Untouched
  /\ st.state \in Early \cup {"absent", "uploaded"} /\ ~st.sw
  /\ LookedEarly
  /\ \A t \in Tabs : Cancels(req[t]) => IsEarly(req[t].copy)
  /\ \A t \in Tabs : Installs(req[t]) => ~req[t].copy.sw
  /\ \A t \in Tabs : Installs(req[t]) /\ req[t].step = "launch" => st.state \in Early
  /\ helper.pc # "off" => st.state \in Early

World ==
  /\ At("applying") => OldWorld /\ Kept /\ pin /\ ref = "old"
  /\ At("building") => OldRuns /\ workspace.version = "new" /\ Kept /\ pin
  /\ At("undo_source") => OldRuns /\ Kept
  /\ At("switching") => OldRuns /\ workspace.version = "new" /\ Kept /\ pin /\ ref = "new"
  /\ At("verifying") =>
       ctrl.version = "new" /\ db = "new" /\ workspace.version = "new" /\ Kept /\ pin /\ ref = "new"
  /\ At("undo_stop") => Sound /\ Kept /\ pin
  /\ At("undo_db") => Sound /\ Kept /\ pin /\ ~ctrl.up
  /\ At("undo_tree") => db = "old" /\ Kept /\ pin /\ ~ctrl.up
  /\ At("undo_up") => db = "old" /\ Kept /\ pin /\ ~ctrl.up /\ workspace = Tree("old")
  /\ At("undo_health") => OldWorld /\ Kept
StateOf(pc) == IF pc \in Undoing THEN "rolling_back" ELSE pc

Helping ==
  /\ helper.pc \notin BeforeCopy
  /\ World
  /\ helper.sw <=> (helper.pc \in AfterSwitch)
  /\ st.state \notin {"absent", "uploaded"}
  /\ ~lost => st.state = StateOf(helper.pc) /\ st.sw = helper.sw
  /\ LookedEarly

(* What the status the helper left says of the trees and the controller. *)
Told ==
  /\ st.state \in {"queued", "preparing", "backing_up"} => OldWorld /\ ~st.sw
  /\ st.state \in {"failed", "cancelled", "rolled_back"} => OldWorld
  /\ st.state \in {"applying", "building"} => OldRuns /\ ~st.sw
  /\ st.state \in {"rolling_back", "recovery_required"} => (~st.sw => OldRuns)
  /\ st.state \in {"switching", "verifying"} => st.sw
  /\ st.state = "completed" => ctrl.version = "new" /\ workspace.version = "new"
Ended ==
  /\ helper.pc = "off"
  /\ st.state \notin {"absent", "uploaded"}
  /\ Kept /\ Sound
  /\ ~lost => Told

Phase == Fresh \/ Helping \/ Ended
DevInv == ~crossed => Types /\ Copies /\ Phase

-----------------------------------------------------------------------------
(* Every variable keeps its type *)

HelperType == [pc : Pcs, sw : BOOLEAN, cancel : BOOLEAN, cause : {"none", "error", "cancel"}]
CtrlType == [version : Versions \cup {"none"}, up : BOOLEAN]

LEMMA Members ==
    /\ NoStatus \in Statuses /\ NoReq \in Requests /\ Off \in HelperType
    /\ NoTree \in TreeType /\ Tree("old") \in TreeType /\ Tree("new") \in TreeType
    /\ Tree("old").version = "old" /\ Tree("new").version = "new"
  <1>1. NoStatus \in Statuses
    BY DEF NoStatus, Statuses, States
  <1>2. NoReq \in Requests
    BY <1>1 DEF NoReq, Requests, Steps
  <1>3. QED
    BY <1>1, <1>2 DEF Off, HelperType, Pcs, NoTree, Tree, TreeType, Versions

LEMMA TypesInit == DeveloperInit => Types
  <1> SUFFICES ASSUME DeveloperInit PROVE Types
    OBVIOUS
  <1>1. req \in [Tabs -> Requests]
    BY Members DEF DeveloperInit, NoReqs
  <1>2. workspace \in TreeType /\ workspace.version \in Versions
    BY Members DEF DeveloperInit, Tree, Versions
  <1>3. QED
    BY <1>1, <1>2, Members DEF DeveloperInit, Types, HelperType, Versions

(* The helper's writes. *)
LEMMA SetTypes ==
    ASSUME Types, NEW state \in States, NEW pc \in Pcs, NEW sw \in BOOLEAN,
           NEW cause \in {"none", "error", "cancel"}, Set(state, pc, sw, cause)
    PROVE  st' \in Statuses /\ flag' \in BOOLEAN /\ lost' \in BOOLEAN /\ helper' \in HelperType
  BY DEF Types, Set, Statuses, HelperType

LEMMA EndTypes ==
    ASSUME Types, NEW state \in States, EndAs(state)
    PROVE  st' \in Statuses /\ flag' \in BOOLEAN /\ lost' \in BOOLEAN /\ helper' \in HelperType
  BY Members DEF Types, EndAs, Statuses, HelperType

LEMMA ContinueTypes ==
    ASSUME Types, NEW pc \in Pcs, Continue(pc)
    PROVE  st' \in Statuses /\ flag' \in BOOLEAN /\ lost' \in BOOLEAN /\ helper' \in HelperType
  BY DEF Types, Continue, HelperType

LEMMA NoRequestsTypes ==
    ASSUME Types, NoRequests \/ UNCHANGED requests
    PROVE  look' \in Statuses /\ req' \in [Tabs -> Requests]
  BY Members DEF Types, NoRequests, requests, NoReqs

LEMMA RunsTypes ==
    ASSUME Types, NEW version \in Versions, RunsVersion(version)
    PROVE  ctrl' \in CtrlType /\ db' \in Versions
  BY DEF Types, RunsVersion, Versions, CtrlType

LEMMA DownTypes ==
    ASSUME Types, Down
    PROVE  ctrl' \in CtrlType /\ db' \in Versions
  <1>1. [ctrl EXCEPT !.up = FALSE] \in CtrlType
    BY DEF Types, CtrlType
  <1>2. [version |-> "none", up |-> FALSE] \in CtrlType
    BY DEF CtrlType
  <1>3. ctrl' \in {[ctrl EXCEPT !.up = FALSE], [version |-> "none", up |-> FALSE]} /\ db' = db
    BY DEF Down
  <1>4. QED
    BY <1>1, <1>2, <1>3 DEF Types

LEMMA RecreationTypes ==
    ASSUME Types, Recreated \/ NotRecreated
    PROVE  /\ ctrl' \in CtrlType /\ db' \in Versions
           /\ look' \in Statuses /\ req' \in [Tabs -> Requests]
  <1>1. ref \in Versions /\ ctrl \in CtrlType /\ db \in Versions
    BY DEF Types, CtrlType
  <1>2. QED
    BY <1>1, NoRequestsTypes, RunsTypes, DownTypes DEF Recreated, NotRecreated, requests

LEMMA PartlyTypes ==
    ASSUME Types, workspace' \in Partly(workspace)
    PROVE  workspace' \in TreeType /\ workspace'.version \in Versions
  BY DEF Types, Partly, TreeType, Versions

(* All of them together. *)
LEMMA TypesFrom ==
    ASSUME st' \in Statuses, look' \in Statuses, req' \in [Tabs -> Requests], helper' \in HelperType,
           workspace' \in TreeType, workspace'.version \in Versions, backup' \in TreeType,
           ctrl' \in CtrlType, ref' \in Versions, db' \in Versions,
           flag' \in BOOLEAN, pin' \in BOOLEAN, lost' \in BOOLEAN
    PROVE  Types'
  BY DEF Types, HelperType, CtrlType

LEMMA HelperTypes ==
    ASSUME Types, Helper, At("undo_source") \/ At("undo_tree") => Kept
    PROVE  Types'
  <1> USE DEF States, Active, Pcs, Undoing, AfterSwitch
  <1>0. /\ st \in Statuses /\ look \in Statuses /\ req \in [Tabs -> Requests] /\ helper \in HelperType
        /\ workspace \in TreeType /\ workspace.version \in Versions /\ backup \in TreeType
        /\ ctrl \in CtrlType /\ ref \in Versions /\ db \in Versions
        /\ flag \in BOOLEAN /\ pin \in BOOLEAN /\ lost \in BOOLEAN
        /\ st.sw \in BOOLEAN /\ helper.sw \in BOOLEAN
    BY DEF Types, HelperType, CtrlType, Statuses
  <1>a. Kept => backup.version \in Versions
    BY DEF Kept, Tree, Versions
  <1>1. CASE HelperStarts
    BY <1>0, <1>1, SetTypes, TypesFrom DEF HelperStarts, trees, docker, requests
  <1>2. CASE Prepare
    BY <1>0, <1>2, SetTypes, EndTypes, TypesFrom DEF Prepare, GoTo, trees, docker, requests
  <1>3. CASE BackUp
    BY <1>0, <1>3, SetTypes, EndTypes, TypesFrom, Members DEF BackUp, GoTo, requests
  <1>4. CASE ApplyTree
    <2>1. workspace' \in TreeType /\ workspace'.version \in Versions
      <3>1. workspace' \in Partly(workspace) \/ workspace' = Tree("new")
        BY <1>4 DEF ApplyTree
      <3>2. QED
        BY <3>1, PartlyTypes, Members DEF Versions
    <2>2. QED
      BY <1>0, <1>4, <2>1, SetTypes, TypesFrom DEF ApplyTree, GoTo, UndoSourceFor, docker, requests
  <1>5. CASE Build
    BY <1>0, <1>5, SetTypes, TypesFrom DEF Build, UndoSourceFor, Versions, trees, requests
  <1>6. CASE UndoSource
    <2>1. workspace' \in TreeType /\ workspace'.version \in Versions
      BY <1>0, <1>6, <1>a, PartlyTypes DEF UndoSource
    <2>2. QED
      BY <1>0, <1>6, <2>1, EndTypes, TypesFrom DEF UndoSource, requests
  <1>7. CASE Switch
    BY <1>0, <1>7, SetTypes, RecreationTypes, TypesFrom DEF Switch, GoTo, trees
  <1>8. CASE Verify
    BY <1>0, <1>8, SetTypes, EndTypes, TypesFrom DEF Verify, trees, requests
  <1>9. CASE UndoStop
    <2>1. ctrl' \in CtrlType
      BY <1>0, <1>9 DEF UndoStop, CtrlType
    <2>2. QED
      BY <1>0, <1>9, <2>1, ContinueTypes, EndTypes, NoRequestsTypes, TypesFrom DEF UndoStop, trees
  <1>10. CASE UndoDatabase
    BY <1>0, <1>10, ContinueTypes, EndTypes, TypesFrom DEF UndoDatabase, trees, requests, Versions
  <1>11. CASE UndoTree
    <2>1. workspace' \in TreeType /\ workspace'.version \in Versions
      BY <1>0, <1>11, <1>a, PartlyTypes DEF UndoTree
    <2>2. QED
      BY <1>0, <1>11, <2>1, ContinueTypes, EndTypes, TypesFrom DEF UndoTree, docker, requests
  <1>12. CASE UndoUp
    <2>1. ref' \in Versions
      BY <1>0, <1>12 DEF UndoUp, Versions
    <2>2. ctrl' \in CtrlType /\ db' \in Versions
      BY <1>12, <2>1, RunsTypes, DownTypes DEF UndoUp
    <2>3. look' \in Statuses /\ req' \in [Tabs -> Requests]
      BY <1>12, NoRequestsTypes DEF UndoUp
    <2>4. QED
      BY <1>0, <1>12, <2>1, <2>2, <2>3, ContinueTypes, EndTypes, TypesFrom DEF UndoUp, trees
  <1>13. CASE UndoHealth
    BY <1>0, <1>13, EndTypes, TypesFrom DEF UndoHealth, DropPin, trees, requests
  <1>20. QED
    BY <1>1, <1>2, <1>3, <1>4, <1>5, <1>6, <1>7, <1>8, <1>9, <1>10, <1>11, <1>12, <1>13 DEF Helper

LEMMA InterruptedTypes ==
    ASSUME Types, Interrupted
    PROVE  /\ workspace' \in TreeType /\ workspace'.version \in Versions
           /\ backup' \in TreeType
  <1>0. workspace \in TreeType /\ workspace.version \in Versions /\ backup \in TreeType
    BY DEF Types
  <1>1. workspace' \in TreeType /\ workspace'.version \in Versions
    BY <1>0, PartlyTypes DEF Interrupted
  <1>2. backup' \in TreeType
    BY <1>0, Members DEF Interrupted
  <1>3. QED
    BY <1>1, <1>2

LEMMA CrashTypes ==
    ASSUME Types, HelperCrash
    PROVE  Types'
  <1>0. /\ st \in Statuses /\ look \in Statuses /\ req \in [Tabs -> Requests]
        /\ ctrl \in CtrlType /\ ref \in Versions /\ db \in Versions
        /\ flag \in BOOLEAN /\ pin \in BOOLEAN /\ lost \in BOOLEAN
    BY DEF Types, CtrlType
  <1>1. workspace' \in TreeType /\ workspace'.version \in Versions /\ backup' \in TreeType
    BY InterruptedTypes DEF HelperCrash
  <1>2. ctrl' \in CtrlType /\ db' \in Versions /\ look' \in Statuses /\ req' \in [Tabs -> Requests]
    BY <1>0, RecreationTypes DEF HelperCrash, requests
  <1>3. QED
    BY <1>0, <1>1, <1>2, Members, TypesFrom DEF HelperCrash

(* A request reads, writes or ends; the reconciliation writes. *)
LEMMA PutTypes ==
    ASSUME Types, NEW t \in Tabs, NEW kind \in {"none", "install", "cancel", "recover"},
           NEW step \in Steps,
           NEW copy \in Statuses, Put(t, kind, step, copy)
    PROVE  req' \in [Tabs -> Requests]
  BY DEF Types, Put, Requests

LEMMA FinishTypes ==
    ASSUME Types, NEW t \in Tabs, Finish(t)
    PROVE  req' \in [Tabs -> Requests]
  BY Members DEF Types, Finish

LEMMA WriteTypes ==
    ASSUME Types, NEW copy \in Statuses, NEW status \in Statuses, Write(copy, status)
    PROVE  st' \in Statuses /\ lost' \in BOOLEAN
  BY DEF Types, Write, Stale

LEMMA RequestTypes ==
    ASSUME Types, NEW t \in Tabs,
           Upload(t) \/ InstallCheck(t) \/ CancelRead(t) \/ RecoverRead(t) \/ Handlers(t)
    PROVE  Types'
  <1>0. /\ st \in Statuses /\ look \in Statuses /\ req \in [Tabs -> Requests] /\ helper \in HelperType
        /\ workspace \in TreeType /\ workspace.version \in Versions /\ backup \in TreeType
        /\ ctrl \in CtrlType /\ ref \in Versions /\ db \in Versions
        /\ flag \in BOOLEAN /\ pin \in BOOLEAN /\ lost \in BOOLEAN
        /\ req[t].copy \in Statuses
    BY DEF Types, HelperType, CtrlType, Requests
  <1>a. \A copy \in Statuses : \A state \in States : [copy EXCEPT !.state = state] \in Statuses
    BY DEF Statuses
  <1>b. {"uploaded", "queued", "failed"} \subseteq States
    BY DEF States, Active
  <1>c. {"backup", "launch", "mark", "write", "look", "lock"} \subseteq Steps
    BY DEF Steps
  <1>1. CASE Upload(t)
    <2>1. [NoStatus EXCEPT !.state = "uploaded"] \in Statuses
      BY <1>a, <1>b, Members
    <2>2. QED
      BY <1>0, <1>1, <2>1, WriteTypes, TypesFrom DEF Upload, trees, docker, requests
  <1>2. CASE InstallCheck(t)
    BY <1>0, <1>c, <1>2, PutTypes, TypesFrom DEF InstallCheck, trees, docker, looking
  <1>3. CASE CancelRead(t)
    BY <1>0, <1>c, <1>3, PutTypes, TypesFrom DEF CancelRead, trees, docker, looking
  <1>4. CASE RecoverRead(t)
    BY <1>0, <1>c, <1>4, PutTypes, TypesFrom DEF RecoverRead, trees, docker, looking
  <1>5. CASE InstallQueue(t)
    <2>1. [req[t].copy EXCEPT !.state = "queued"] \in Statuses
      BY <1>0, <1>a, <1>b
    <2>2. QED
      BY <1>0, <1>c, <1>5, <2>1, WriteTypes, PutTypes, FinishTypes, TypesFrom
         DEF InstallQueue, trees, docker, looking
  <1>6. CASE Launch(t)
    <2>1. [req[t].copy EXCEPT !.state = "failed"] \in Statuses
      BY <1>0, <1>a, <1>b
    <2>2. st' \in Statuses /\ lost' \in BOOLEAN
      BY <1>0, <1>6, <2>1, WriteTypes DEF Launch
    <2>3. helper' \in HelperType
      BY <1>0, <1>6, Members DEF Launch, HelperType, Pcs
    <2>4. workspace' \in TreeType /\ workspace'.version \in Versions /\ backup' \in TreeType
      BY <1>0, <1>6, InterruptedTypes DEF Launch, trees
    <2>5. QED
      BY <1>0, <1>6, <2>2, <2>3, <2>4, FinishTypes, TypesFrom DEF Launch, docker, looking
  <1>7. CASE RequestCancel(t)
    <2>1. [req[t].copy EXCEPT !.cancel = TRUE] \in Statuses
      BY <1>0 DEF Statuses
    <2>2. QED
      BY <1>0, <1>c, <1>7, <2>1, PutTypes, TypesFrom DEF RequestCancel, trees, docker, looking
  <1>8. CASE CancelWrite(t)
    BY <1>0, <1>c, <1>8, WriteTypes, PutTypes, Members, TypesFrom DEF CancelWrite, trees, docker, looking
  <1>9. CASE CancelLook(t)
    BY <1>0, <1>9, FinishTypes, TypesFrom DEF CancelLook, Take, trees, docker
  <1>10. CASE RecoverLock(t)
    BY <1>0, <1>10, FinishTypes, TypesFrom DEF RecoverLock, trees, docker
  <1>11. QED
    BY <1>1, <1>2, <1>3, <1>4, <1>5, <1>6, <1>7, <1>8, <1>9, <1>10 DEF Handlers

LEMMA TerminalTypes ==
    ASSUME Types, NEW state \in States, Terminal(state)
    PROVE  st' \in Statuses /\ lost' \in BOOLEAN /\ flag' \in BOOLEAN /\ look' \in Statuses
  <1>1. [look EXCEPT !.state = state, !.cancel = @ \/ flag] \in Statuses
    BY DEF Types, Statuses
  <1>2. QED
    BY <1>1, Members DEF Types, Terminal, Stale, Running

LEMMA ControllerTypes ==
    ASSUME Types, StartLook \/ Look \/ Reconcile \/ Restart \/ OwnerStarts
    PROVE  Types'
  <1>0. /\ st \in Statuses /\ look \in Statuses /\ req \in [Tabs -> Requests] /\ helper \in HelperType
        /\ workspace \in TreeType /\ workspace.version \in Versions /\ backup \in TreeType
        /\ ctrl \in CtrlType /\ ref \in Versions /\ db \in Versions
        /\ flag \in BOOLEAN /\ pin \in BOOLEAN /\ lost \in BOOLEAN
    BY DEF Types, HelperType, CtrlType
  <1>a. backup.version # "none" => backup.version \in Versions
    BY <1>0 DEF TreeType
  <1>b. {"failed", "cancelled", "rolled_back", "completed", "recovery_required"} \subseteq States
    BY DEF States
  <1>1. CASE StartLook \/ Look
    BY <1>0, <1>1, TypesFrom DEF StartLook, Look, Take, trees, docker
  <1>2. CASE Reconcile
    <2>1. PICK state \in States : Terminal(state)
      BY <1>2, <1>b DEF Reconcile, ReconcileUnswitched, ReconcileSwitched, RestoreThen, CancelledOrFailed
    <2>2. workspace' \in TreeType /\ workspace'.version \in Versions
      <3>1. \/ workspace' = workspace
            \/ workspace' \in Partly(workspace)
            \/ backup.version # "none" /\ workspace' = backup
        BY <1>2 DEF Reconcile, ReconcileUnswitched, ReconcileSwitched, RestoreThen
      <3>2. QED
        BY <1>0, <1>a, <3>1, PartlyTypes
    <2>3. UNCHANGED <<backup, docker, helper, req>>
      BY <1>2 DEF Reconcile, ReconcileUnswitched, ReconcileSwitched
    <2>4. QED
      BY <1>0, <2>1, <2>2, <2>3, TerminalTypes, TypesFrom DEF docker
  <1>3. CASE Restart
    <2>1. workspace' \in TreeType /\ workspace'.version \in Versions
      BY <1>0, <1>3, PartlyTypes DEF Restart
    <2>2. lost' \in BOOLEAN
      BY <1>0, <1>3 DEF Restart, Stale
    <2>3. QED
      BY <1>0, <1>3, <2>1, <2>2, NoRequestsTypes, TypesFrom DEF Restart, docker
  <1>4. CASE OwnerStarts
    <2>1. PICK version \in Versions : RunsVersion(version)
      BY <1>0, <1>4 DEF OwnerStarts, CtrlType
    <2>2. QED
      BY <1>0, <1>4, <2>1, RunsTypes, TypesFrom DEF OwnerStarts, trees, requests
  <1>5. QED
    BY <1>1, <1>2, <1>3, <1>4

-----------------------------------------------------------------------------
(* The helper *)

(* Stopping the controller only ends requests. *)
LEMMA QuietSteps ==
    ASSUME NoRequests \/ UNCHANGED requests
    PROVE  /\ Copies => Copies'
           /\ LookedEarly => LookedEarly'
           /\ \A t \in Tabs : Cancels(req'[t]) => Cancels(req[t]) /\ req'[t] = req[t]
           /\ \A t \in Tabs : Installs(req'[t]) => Installs(req[t]) /\ req'[t] = req[t]
  BY DEF NoRequests, requests, NoReqs, NoReq, Copies, LookedEarly, Installs, Cancels, Recovers

LEMMA HelperIsQuiet == Helper \/ HelperCrash => NoRequests \/ UNCHANGED requests
  BY DEF Helper, HelperCrash, HelperStarts, Prepare, BackUp, ApplyTree, Build, UndoSource, Switch, Verify,
         UndoStop, UndoDatabase, UndoTree, UndoUp, UndoHealth, Recreated, NotRecreated, requests

(* The helper writes down the step it takes next. *)
LEMMA MovesOn ==
    ASSUME LookedEarly', World',
           NEW pc \in Pcs \ BeforeCopy, NEW state, state = StateOf(pc),
           NEW sw \in BOOLEAN, sw <=> pc \in AfterSwitch,
           NEW cause \in {"none", "error", "cancel"}, Set(state, pc, sw, cause)
    PROVE  Helping'
  <1>1. state \notin {"absent", "uploaded"}
    BY DEF StateOf, Pcs, Undoing, AfterSwitch
  <1>2. /\ st'.state = state /\ st'.sw = sw
        /\ helper'.pc = pc /\ helper'.sw = sw
    BY DEF Set
  <1>3. QED
    BY <1>1, <1>2 DEF Helping

(* Or goes on undoing without writing anything. *)
LEMMA GoesOn ==
    ASSUME Types, Helping, LookedEarly', World',
           helper.pc \in Undoing \cap AfterSwitch,
           NEW pc \in Undoing \cap AfterSwitch, Continue(pc)
    PROVE  Helping'
  <1>1. helper'.pc = pc /\ helper'.sw = helper.sw /\ st' = st /\ lost' = lost
    BY DEF Continue, Types
  <1>2. StateOf(helper.pc) = "rolling_back" /\ StateOf(pc) = "rolling_back"
    BY DEF StateOf
  <1>3. pc \notin BeforeCopy
    BY DEF Undoing, BeforeCopy
  <1>4. QED
    BY <1>1, <1>2, <1>3 DEF Helping

(* Or ends, leaving a status that is true. *)
LEMMA EndsAs ==
    ASSUME Kept', Sound',
           NEW state \in {"failed", "cancelled", "rolled_back", "completed", "recovery_required"},
           EndAs(state),
           state \in {"failed", "cancelled", "rolled_back"} => OldWorld',
           state = "completed" => ctrl'.version = "new" /\ workspace'.version = "new",
           state = "recovery_required" => (~helper.sw => OldRuns')
    PROVE  Phase'
  <1>1. helper'.pc = "off" /\ st'.state = state /\ st'.sw = helper.sw
    BY DEF EndAs, Off
  <1>2. QED
    BY <1>1 DEF Phase, Ended, Told

LEMMA OldIsSound == OldRuns => Sound
  BY DEF OldRuns, Sound

(* Until there is a copy of the tree the helper changes only its status. *)
LEMMA StaysFresh ==
    ASSUME Types, Fresh, NoRequests \/ UNCHANGED requests, UNCHANGED <<trees, docker>>,
           helper'.pc \in BeforeCopy, helper'.sw = FALSE,
           st'.state \in Early \/ (st'.state = st.state /\ helper.pc # "off"), ~st'.sw
    PROVE  Fresh'
  <1>1. st'.state \in Early
    BY DEF Fresh
  <1>2. Untouched'
    BY DEF Fresh, Untouched, OldWorld, OldRuns, trees, docker
  <1>3. LookedEarly'
    BY QuietSteps DEF Fresh
  <1>4. /\ \A t \in Tabs : Cancels(req'[t]) => IsEarly(req'[t].copy)
        /\ \A t \in Tabs : Installs(req'[t]) => ~req'[t].copy.sw
    BY QuietSteps DEF Fresh
  <1>5. QED
    BY <1>1, <1>2, <1>3, <1>4 DEF Fresh

LEMMA StartPhase ==
    ASSUME Types, Fresh, HelperStarts
    PROVE  Phase'
  <1>1. st.sw = FALSE
    BY DEF Fresh, Types, Statuses
  <1>2. Set("preparing", "preparing", FALSE, "none")
    BY <1>1 DEF HelperStarts
  <1>3. helper'.pc = "preparing" /\ helper'.sw = FALSE /\ st'.state = "preparing" /\ st'.sw = FALSE
    BY <1>2 DEF Set
  <1>4. QED
    BY <1>3, StaysFresh DEF Phase, HelperStarts, BeforeCopy, Early

LEMMA PreparePhase ==
    ASSUME Types, Fresh, Prepare
    PROVE  Phase'
  <1>1. CASE \E state \in {"failed", "cancelled"} : EndAs(state)
    <2>1. helper'.pc = "off" /\ helper'.sw = FALSE /\ st'.state \in Early /\ st'.sw = FALSE
      BY <1>1 DEF EndAs, Off, Early, Fresh
    <2>2. QED
      BY <2>1, StaysFresh DEF Phase, Prepare, BeforeCopy
  <1>2. CASE GoTo("backing_up")
    <2>1. /\ helper'.pc = "backing_up" /\ helper'.sw = FALSE
          /\ st'.state = "backing_up" /\ st'.sw = FALSE
      BY <1>2 DEF GoTo, Set, Fresh
    <2>2. QED
      BY <2>1, StaysFresh DEF Phase, Prepare, BeforeCopy, Early
  <1>3. QED
    BY <1>1, <1>2 DEF Prepare

LEMMA BackUpPhase ==
    ASSUME Types, Fresh, BackUp
    PROVE  Phase'
  <1>1. LookedEarly' /\ helper.sw = FALSE
    BY QuietSteps, HelperIsQuiet DEF Fresh, Helper
  <1>2. /\ OldWorld' /\ ref' = "old" /\ workspace = Tree("old") /\ backup = NoTree /\ pin = FALSE
    BY DEF Fresh, BackUp, Untouched, OldWorld, OldRuns, Types
  <1>3. Sound'
    BY <1>2 DEF OldWorld, OldRuns, Sound
  <1>4. ASSUME NEW state \in {"failed", "cancelled"}, EndAs(state), pin' = FALSE
        PROVE  Phase'
    <2>1. CASE backup' = workspace
      BY <1>2, <1>3, <1>4, <2>1, EndsAs DEF Kept
    <2>2. CASE backup' = NoTree
      <3>1. UNCHANGED <<trees, docker>>
        BY <1>2, <1>4, <2>2 DEF BackUp, trees, docker, Types
      <3>2. helper'.pc = "off" /\ helper'.sw = FALSE /\ st'.state \in Early /\ st'.sw = FALSE
        BY <1>1, <1>4 DEF EndAs, Off, Early
      <3>3. QED
        BY <3>1, <3>2, StaysFresh DEF Phase, BackUp, BeforeCopy
    <2>3. QED
      BY <2>1, <2>2 DEF BackUp
  <1>5. CASE backup' = workspace /\ GoTo("applying") /\ pin' = TRUE
    <2>1. Set("applying", "applying", FALSE, "none")
      BY <1>1, <1>5 DEF GoTo
    <2>2. World'
      BY <1>2, <1>5, <2>1 DEF World, At, Set, Kept
    <2>3. "applying" \in Pcs \ BeforeCopy /\ "applying" \notin AfterSwitch
          /\ StateOf("applying") = "applying"
      BY DEF Pcs, AfterSwitch, StateOf, Undoing, BeforeCopy
    <2>4. QED
      BY <1>1, <2>1, <2>2, <2>3, MovesOn DEF Phase
  <1>6. QED
    BY <1>2, <1>4, <1>5 DEF BackUp

(* Before the switch a step that fails, or is cancelled, undoes the source. *)
LEMMA UndoSourcePhase ==
    ASSUME LookedEarly', OldRuns', Kept', NEW cause \in {"error", "cancel"}, UndoSourceFor(cause)
    PROVE  Phase'
  <1>1. Set("rolling_back", "undo_source", FALSE, cause)
    BY DEF UndoSourceFor
  <1>2. World'
    BY <1>1 DEF World, At, Set
  <1>3. "undo_source" \in Pcs \ BeforeCopy /\ "undo_source" \notin AfterSwitch
        /\ StateOf("undo_source") = "rolling_back"
    BY DEF Pcs, AfterSwitch, StateOf, Undoing, BeforeCopy
  <1>4. QED
    BY <1>1, <1>2, <1>3, MovesOn DEF Phase

LEMMA ApplyPhase ==
    ASSUME Types, Helping, ApplyTree
    PROVE  Phase'
  <1>1. LookedEarly'
    BY QuietSteps, HelperIsQuiet DEF Helping, Helper
  <1>2. /\ At("applying") /\ ~helper.sw /\ helper.sw \in BOOLEAN
    BY DEF ApplyTree, At, Helping, AfterSwitch, Types
  <1>3. OldRuns' /\ Kept' /\ pin'
    BY <1>2 DEF Helping, World, ApplyTree, OldWorld, OldRuns, Kept, docker
  <1>4. CASE \E cause \in {"error", "cancel"} : UndoSourceFor(cause)
    BY <1>1, <1>3, <1>4, UndoSourcePhase
  <1>5. CASE workspace' = Tree("new") /\ GoTo("building")
    <2>1. Set("building", "building", FALSE, "none")
      BY <1>2, <1>5 DEF GoTo
    <2>2. World'
      BY <1>3, <1>5, <2>1, Members DEF World, At, Set
    <2>3. "building" \in Pcs \ BeforeCopy /\ "building" \notin AfterSwitch
          /\ StateOf("building") = "building"
      BY DEF Pcs, AfterSwitch, StateOf, Undoing, BeforeCopy
    <2>4. QED
      BY <1>1, <2>1, <2>2, <2>3, MovesOn DEF Phase
  <1>6. QED
    BY <1>4, <1>5 DEF ApplyTree

LEMMA BuildPhase ==
    ASSUME Types, Helping, Build
    PROVE  Phase'
  <1>1. LookedEarly'
    BY QuietSteps, HelperIsQuiet DEF Helping, Helper
  <1>2. At("building")
    BY DEF Build
  <1>3. OldRuns' /\ Kept' /\ workspace'.version = "new"
    BY <1>2 DEF Helping, World, Build, OldRuns, Kept, trees
  <1>4. CASE \E cause \in {"error", "cancel"} : UndoSourceFor(cause)
    BY <1>1, <1>3, <1>4, UndoSourcePhase
  <1>5. CASE ref' = "new" /\ pin /\ Set("switching", "switching", TRUE, "none")
    <2>1. World'
      BY <1>3, <1>5 DEF World, At, Set, Build
    <2>2. "switching" \in Pcs \ BeforeCopy /\ "switching" \in AfterSwitch
          /\ StateOf("switching") = "switching"
      BY DEF Pcs, AfterSwitch, StateOf, Undoing, BeforeCopy
    <2>3. QED
      BY <1>1, <1>5, <2>1, <2>2, MovesOn DEF Phase
  <1>6. QED
    BY <1>4, <1>5 DEF Build

LEMMA UndoneSourcePhase ==
    ASSUME Types, Helping, UndoSource
    PROVE  Phase'
  <1>2. At("undo_source")
    BY DEF UndoSource
  <1>3. OldRuns' /\ Kept' /\ backup = Tree("old")
    BY <1>2 DEF Helping, World, UndoSource, OldRuns, Kept
  <1>4. Sound'
    BY <1>3 DEF OldRuns, Sound
  <1>5. CASE EndAs("recovery_required")
    BY <1>3, <1>4, <1>5, EndsAs
  <1>6. CASE workspace' = backup /\ \E state \in {"failed", "cancelled"} : EndAs(state)
    BY <1>3, <1>4, <1>6, EndsAs DEF OldWorld
  <1>7. QED
    BY <1>5, <1>6 DEF UndoSource

(* Replacing the controller, or failing to: the database is new where the   *)
(* new version has run.                                                       *)
LEMMA RecreationIsSound ==
    ASSUME Types, Sound, ref = "new" \/ db = "old", ref' = ref, Recreated \/ NotRecreated
    PROVE  Sound'
  <1>0. ref \in Versions /\ db \in Versions
    BY DEF Types
  <1>1. CASE Recreated
    BY <1>0, <1>1 DEF Recreated, RunsVersion, Sound, Versions
  <1>2. CASE Down
    <2>1. ctrl'.up = FALSE /\ db' = db /\ ctrl'.version \in {ctrl.version, "none"}
      BY <1>2 DEF Down, Types
    <2>2. QED
      BY <1>0, <2>1 DEF Sound, Versions
  <1>3. CASE UNCHANGED <<ctrl, db, requests>>
    BY <1>3 DEF Sound
  <1>4. QED
    BY <1>1, <1>2, <1>3 DEF NotRecreated

(* After the switch a step that fails undoes it. *)
LEMMA UndoSwitchPhase ==
    ASSUME LookedEarly', Sound', Kept', pin',
           Set("rolling_back", "undo_stop", TRUE, "error")
    PROVE  Phase'
  <1>1. World'
    BY DEF World, At, Set
  <1>2. "undo_stop" \in Pcs \ BeforeCopy /\ "undo_stop" \in AfterSwitch
        /\ StateOf("undo_stop") = "rolling_back"
    BY DEF Pcs, AfterSwitch, StateOf, Undoing, BeforeCopy
  <1>3. QED
    BY <1>1, <1>2, MovesOn DEF Phase

LEMMA SwitchPhase ==
    ASSUME Types, Helping, Switch
    PROVE  Phase'
  <1>1. LookedEarly'
    BY QuietSteps, HelperIsQuiet DEF Helping, Helper
  <1>2. At("switching") /\ helper.sw = TRUE
    BY DEF Switch, Helping, At, AfterSwitch, Types
  <1>3. /\ OldRuns /\ Sound
        /\ Kept' /\ pin' /\ workspace'.version = "new" /\ ref = "new" /\ ref' = "new"
    BY <1>2, OldIsSound DEF Switch, Helping, World, Kept, trees
  <1>4. CASE Recreated /\ GoTo("verifying")
    <2>1. Set("verifying", "verifying", TRUE, "none")
      BY <1>2, <1>4 DEF GoTo
    <2>2. ctrl'.version = "new" /\ db' = "new"
      BY <1>3, <1>4 DEF Recreated, RunsVersion
    <2>3. World'
      BY <1>3, <2>1, <2>2 DEF World, At, Set
    <2>4. "verifying" \in Pcs \ BeforeCopy /\ "verifying" \in AfterSwitch
          /\ StateOf("verifying") = "verifying"
      BY DEF Pcs, AfterSwitch, StateOf, Undoing, BeforeCopy
    <2>5. QED
      BY <1>1, <2>1, <2>3, <2>4, MovesOn DEF Phase
  <1>5. CASE (Recreated \/ NotRecreated) /\ Set("rolling_back", "undo_stop", TRUE, "error")
    <2>1. Sound'
      BY <1>3, <1>5, RecreationIsSound
    <2>2. QED
      BY <1>1, <1>3, <1>5, <2>1, UndoSwitchPhase
  <1>6. QED
    BY <1>4, <1>5 DEF Switch

LEMMA VerifyPhase ==
    ASSUME Types, Helping, Verify
    PROVE  Phase'
  <1>1. LookedEarly'
    BY QuietSteps, HelperIsQuiet DEF Helping, Helper
  <1>2. At("verifying")
    BY DEF Verify
  <1>3. /\ ctrl'.version = "new" /\ db' = "new" /\ workspace'.version = "new" /\ Kept' /\ pin
    BY <1>2 DEF Verify, Helping, World, Kept, trees
  <1>4. Sound'
    BY <1>3 DEF Sound
  <1>5. CASE EndAs("completed")
    BY <1>1, <1>3, <1>4, <1>5, EndsAs
  <1>6. CASE Set("rolling_back", "undo_stop", TRUE, "error") /\ UNCHANGED pin
    BY <1>1, <1>3, <1>4, <1>6, UndoSwitchPhase
  <1>7. QED
    BY <1>5, <1>6 DEF Verify

(* The rollback after the switch may give up at any step: what it keeps is   *)
(* the copy of the tree.                                                      *)
LEMMA GivesUp ==
    ASSUME Sound', Kept', helper.sw, EndAs("recovery_required")
    PROVE  Phase'
  BY EndsAs

LEMMA UndoStopPhase ==
    ASSUME Types, Helping, UndoStop
    PROVE  Phase'
  <1>1. LookedEarly'
    BY QuietSteps, HelperIsQuiet DEF Helping, Helper
  <1>2. At("undo_stop") /\ helper.sw /\ helper.pc \in Undoing \cap AfterSwitch
    BY DEF UndoStop, Helping, At, AfterSwitch, Undoing
  <1>3. Sound /\ Kept' /\ pin' /\ pin /\ db' = db /\ ref' = ref
    BY <1>2 DEF UndoStop, Helping, World, Kept, trees
  <1>4. CASE ctrl' = [ctrl EXCEPT !.up = FALSE] /\ Continue("undo_db")
    <2>1. ctrl'.version = ctrl.version /\ ctrl'.up = FALSE
      BY <1>4 DEF Types
    <2>2. Sound'
      BY <1>3, <2>1 DEF Sound
    <2>3. helper'.pc = "undo_db"
      BY <1>4 DEF Continue, Types
    <2>4. World'
      BY <1>3, <2>1, <2>2, <2>3 DEF World, At
    <2>5. QED
      BY <1>1, <1>2, <1>4, <2>4, GoesOn DEF Phase, Undoing, AfterSwitch
  <1>5. CASE EndAs("recovery_required") /\ UNCHANGED <<ctrl, requests>>
    <2>1. Sound'
      BY <1>3, <1>5 DEF Sound
    <2>2. QED
      BY <1>1, <1>2, <1>3, <1>5, <2>1, GivesUp
  <1>6. QED
    BY <1>4, <1>5 DEF UndoStop

LEMMA UndoDatabasePhase ==
    ASSUME Types, Helping, UndoDatabase
    PROVE  Phase'
  <1>1. LookedEarly'
    BY QuietSteps, HelperIsQuiet DEF Helping, Helper
  <1>2. At("undo_db") /\ helper.sw /\ helper.pc \in Undoing \cap AfterSwitch
    BY DEF UndoDatabase, Helping, At, AfterSwitch, Undoing
  <1>3. Sound /\ Kept' /\ pin' /\ ~ctrl.up /\ ctrl' = ctrl /\ ref' = ref
    BY <1>2 DEF UndoDatabase, Helping, World, Kept, trees
  <1>4. CASE db' = "old" /\ Continue("undo_tree")
    <2>1. helper'.pc = "undo_tree"
      BY <1>4 DEF Continue, Types
    <2>2. World'
      BY <1>3, <1>4, <2>1 DEF World, At
    <2>3. QED
      BY <1>1, <1>2, <1>4, <2>2, GoesOn DEF Phase, Undoing, AfterSwitch
  <1>5. CASE EndAs("recovery_required") /\ UNCHANGED db
    <2>1. Sound'
      BY <1>3, <1>5 DEF Sound
    <2>2. QED
      BY <1>1, <1>2, <1>3, <1>5, <2>1, GivesUp
  <1>6. QED
    BY <1>4, <1>5 DEF UndoDatabase

LEMMA UndoTreePhase ==
    ASSUME Types, Helping, UndoTree
    PROVE  Phase'
  <1>1. LookedEarly'
    BY QuietSteps, HelperIsQuiet DEF Helping, Helper
  <1>2. At("undo_tree") /\ helper.sw /\ helper.pc \in Undoing \cap AfterSwitch
    BY DEF UndoTree, Helping, At, AfterSwitch, Undoing
  <1>3. /\ db' = "old" /\ Kept' /\ pin' /\ ~ctrl.up /\ ctrl' = ctrl
        /\ backup = Tree("old")
    BY <1>2 DEF UndoTree, Helping, World, Kept, docker
  <1>4. CASE workspace' = backup /\ Continue("undo_up")
    <2>1. helper'.pc = "undo_up"
      BY <1>4 DEF Continue, Types
    <2>2. World'
      BY <1>3, <1>4, <2>1 DEF World, At
    <2>3. QED
      BY <1>1, <1>2, <1>4, <2>2, GoesOn DEF Phase, Undoing, AfterSwitch
  <1>5. CASE EndAs("recovery_required")
    <2>1. Sound'
      BY <1>3 DEF Sound
    <2>2. QED
      BY <1>1, <1>2, <1>3, <1>5, <2>1, GivesUp
  <1>6. QED
    BY <1>4, <1>5 DEF UndoTree

LEMMA UndoUpPhase ==
    ASSUME Types, Helping, UndoUp
    PROVE  Phase'
  <1>1. LookedEarly'
    BY QuietSteps, HelperIsQuiet DEF Helping, Helper
  <1>2. At("undo_up") /\ helper.sw /\ helper.pc \in Undoing \cap AfterSwitch
    BY DEF UndoUp, Helping, At, AfterSwitch, Undoing
  <1>3. /\ db = "old" /\ Kept' /\ ~ctrl.up /\ workspace' = Tree("old") /\ ref' = "old"
    BY <1>2 DEF UndoUp, Helping, World, Kept, trees
  <1>4. RunsVersion(ref') => ctrl'.version = "old" /\ db' = "old"
    BY <1>3 DEF RunsVersion
  <1>5. CASE RunsVersion(ref') /\ Continue("undo_health")
    <2>1. helper'.pc = "undo_health"
      BY <1>5 DEF Continue, Types
    <2>2. World'
      BY <1>3, <1>4, <1>5, <2>1 DEF World, At, OldWorld, OldRuns
    <2>3. QED
      BY <1>1, <1>2, <1>5, <2>2, GoesOn DEF Phase, Undoing, AfterSwitch
  <1>6. CASE EndAs("recovery_required") /\ (RunsVersion(ref') \/ Down)
    <2>1. db' = "old"
      BY <1>3, <1>4, <1>6 DEF Down
    <2>2. ctrl'.version = "new" => ~ctrl'.up
      BY <1>4, <1>6 DEF Down, Types
    <2>3. Sound'
      BY <2>1, <2>2 DEF Sound
    <2>4. QED
      BY <1>1, <1>2, <1>3, <1>6, <2>3, GivesUp
  <1>7. QED
    BY <1>5, <1>6 DEF UndoUp

LEMMA UndoHealthPhase ==
    ASSUME Types, Helping, UndoHealth
    PROVE  Phase'
  <1>1. LookedEarly'
    BY QuietSteps, HelperIsQuiet DEF Helping, Helper
  <1>2. At("undo_health") /\ helper.sw
    BY DEF UndoHealth, Helping, At, AfterSwitch
  <1>3. OldWorld' /\ Kept'
    BY <1>2 DEF UndoHealth, Helping, World, OldWorld, OldRuns, Kept, trees
  <1>4. Sound'
    BY <1>3 DEF OldWorld, OldRuns, Sound
  <1>5. CASE EndAs("rolled_back")
    BY <1>1, <1>3, <1>4, <1>5, EndsAs
  <1>6. CASE EndAs("recovery_required")
    BY <1>1, <1>2, <1>3, <1>4, <1>6, EndsAs
  <1>7. QED
    BY <1>5, <1>6 DEF UndoHealth

LEMMA HelperPhase ==
    ASSUME Types, Phase, Helper
    PROVE  Phase'
  <1>1. CASE HelperStarts \/ Prepare \/ BackUp
    <2>1. Fresh
      BY <1>1 DEF HelperStarts, Prepare, BackUp, At, Phase, Helping, Ended, BeforeCopy
    <2>2. QED
      BY <1>1, <2>1, StartPhase, PreparePhase, BackUpPhase
  <1>2. CASE ~(HelperStarts \/ Prepare \/ BackUp)
    <2>1. helper.pc \notin BeforeCopy
      BY <1>2 DEF Helper, ApplyTree, Build, UndoSource, Switch, Verify, UndoStop,
                  UndoDatabase, UndoTree, UndoUp, UndoHealth, At, BeforeCopy
    <2>2. Helping
      BY <2>1 DEF Phase, Fresh, Ended, BeforeCopy
    <2>3. QED
      BY <1>2, <2>2, ApplyPhase, BuildPhase, UndoneSourcePhase, SwitchPhase,
         VerifyPhase, UndoStopPhase, UndoDatabasePhase, UndoTreePhase, UndoUpPhase, UndoHealthPhase
      DEF Helper
  <1>3. QED
    BY <1>1, <1>2

(* The helper dies: its place and the status agree, unless a stale copy has   *)
(* overwritten the status, so the status tells what is there.                 *)
LEMMA HelpingIsSound ==
    ASSUME Types, Helping
    PROVE  Kept /\ Sound
  <1>1. helper.pc \in {"applying", "building"} \cup Undoing \cup AfterSwitch
    BY DEF Types, Helping, Pcs, BeforeCopy
  <1>2. Kept
    BY <1>1 DEF Helping, World, At, Undoing, AfterSwitch
  <1>3. Sound
    BY <1>1, OldIsSound DEF Helping, World, At, Undoing, AfterSwitch, Sound, OldWorld
  <1>4. QED
    BY <1>2, <1>3

(* Who dies before there is a copy leaves things as they are, or a copy. *)
LEMMA FreshInterrupted ==
    ASSUME Types, Fresh, Interrupted
    PROVE  /\ workspace' = workspace
           /\ backup' = backup \/ (helper.pc # "off" /\ backup' = Tree("old"))
  BY DEF Fresh, Interrupted, BeforeCopy, At, Untouched, OldWorld

LEMMA CrashPhase ==
    ASSUME Types, Phase, HelperCrash
    PROVE  Phase'
  <1>1. /\ helper'.pc = "off" /\ helper'.sw = FALSE
        /\ st' = st /\ lost' = lost /\ ref' = ref /\ pin' = pin
        /\ helper.pc # "off" /\ Interrupted
    BY DEF HelperCrash, Off, Running
  <1>2. CASE Fresh
    <2>1. workspace' = workspace /\ UNCHANGED <<ctrl, db, requests>>
      BY <1>2, FreshInterrupted DEF HelperCrash, Fresh, BeforeCopy
    <2>2. st.state \in Early /\ ~st.sw
      BY <1>1, <1>2 DEF Fresh
    <2>3. CASE backup' = backup
      <3>1. UNCHANGED <<trees, docker>>
        BY <1>1, <2>1, <2>3 DEF trees, docker
      <3>2. QED
        BY <1>1, <1>2, <2>1, <2>2, <3>1, StaysFresh DEF Phase, BeforeCopy
    <2>4. CASE backup' = Tree("old")
      <3>1. OldWorld' /\ Kept'
        BY <1>2, <2>1, <2>4 DEF Fresh, Untouched, OldWorld, OldRuns, Kept
      <3>2. Sound'
        BY <3>1 DEF OldWorld, OldRuns, Sound
      <3>3. Told'
        BY <1>1, <2>2, <3>1 DEF Told, Early
      <3>4. QED
        BY <1>1, <2>2, <3>1, <3>2, <3>3 DEF Phase, Ended, Early
    <2>5. QED
      BY <1>1, <1>2, <2>3, <2>4, FreshInterrupted
  <1>3. CASE Helping
    <2>1. Kept /\ Sound
      BY <1>3, HelpingIsSound
    <2>2. backup' = backup /\ Kept'
      BY <1>1, <1>3, <2>1 DEF Helping, BeforeCopy, Interrupted, At, Kept
    <2>3. Sound'
      <3>1. CASE helper.pc \in {"switching", "undo_up"}
        <4>1. ref = "new" \/ db = "old"
          BY <1>3, <3>1 DEF Helping, World, At
        <4>2. Recreated \/ NotRecreated
          BY <3>1 DEF HelperCrash
        <4>3. QED
          BY <1>1, <2>1, <4>1, <4>2, RecreationIsSound
      <3>2. CASE helper.pc \notin {"switching", "undo_up"}
        BY <1>1, <2>1, <3>2 DEF HelperCrash, Sound
      <3>3. QED
        BY <3>1, <3>2
    <2>4. ASSUME ~lost' PROVE Told'
      <3>1. st.state = StateOf(helper.pc) /\ (st.sw <=> helper.pc \in AfterSwitch)
        BY <1>1, <1>3, <2>4 DEF Helping
      <3>2. CASE helper.pc \in {"applying", "building", "undo_source"}
        <4>1. OldRuns /\ UNCHANGED <<ctrl, db>>
          BY <1>3, <3>2 DEF Helping, World, HelperCrash, At, OldWorld
        <4>2. OldRuns'
          BY <4>1 DEF OldRuns
        <4>3. st.state \in {"applying", "building", "rolling_back"} /\ ~st.sw
          BY <3>1, <3>2 DEF StateOf, AfterSwitch, Undoing
        <4>4. QED
          BY <1>1, <4>2, <4>3 DEF Told
      <3>3. CASE helper.pc \in AfterSwitch
        <4>1. st.state \in {"switching", "verifying", "rolling_back"} /\ st.sw
          BY <3>1, <3>3 DEF StateOf, AfterSwitch, Undoing
        <4>2. QED
          BY <1>1, <4>1 DEF Told
      <3>4. QED
        BY <1>3, <3>2, <3>3 DEF Types, Helping, Pcs, Undoing, AfterSwitch, BeforeCopy
    <2>5. QED
      BY <1>1, <1>3, <2>2, <2>3, <2>4 DEF Phase, Ended, Helping
  <1>4. QED
    BY <1>1, <1>2, <1>3 DEF Phase, Ended

-----------------------------------------------------------------------------
(* The requests and the reconciliation *)

(* What a request may do while the helper works: nothing to the trees, the    *)
(* controller or the helper itself.                                           *)
LEMMA OnlyStatus ==
    ASSUME Types, Helping, UNCHANGED <<workspace, backup, docker, helper>>,
           LookedEarly', st'.state \notin {"absent", "uploaded"},
           ~lost' => ~lost /\ st'.state = st.state /\ st'.sw = st.sw
    PROVE  Helping'
  <1>1. World'
    BY DEF Helping, World, At, OldWorld, OldRuns, Kept, Sound, docker
  <1>2. QED
    BY <1>1 DEF Helping

LEMMA OnlyTruth ==
    ASSUME Types, Ended, UNCHANGED <<workspace, backup, docker, helper>>,
           st'.state \notin {"absent", "uploaded"},
           ~lost' => ~lost /\ st'.state = st.state /\ st'.sw = st.sw
    PROVE  Ended'
  <1>1. Sound' /\ Kept'
    BY DEF Ended, Sound, Kept, docker
  <1>2. Told => (st'.state = st.state /\ st'.sw = st.sw => Told')
    BY DEF Told, OldWorld, OldRuns, docker
  <1>3. QED
    BY <1>1, <1>2 DEF Ended

(* A write that is not of a stale copy leaves the state and the attempt flag. *)
LEMMA WriteTells ==
    ASSUME Types, NEW copy \in Statuses, Write(copy, copy)
    PROVE  st' = copy /\ (~lost' => ~lost /\ copy.state = st.state /\ copy.sw = st.sw)
  BY DEF Write, Stale, Types

LEMMA PutIs ==
    ASSUME Types, NEW t \in Tabs, NEW kind, NEW step, NEW copy, Put(t, kind, step, copy)
    PROVE  /\ req'[t].kind = kind /\ req'[t].step = step /\ req'[t].copy = copy
           /\ \A u \in Tabs \ {t} : req'[u] = req[u]
  BY DEF Types, Put

LEMMA FinishIs ==
    ASSUME Types, NEW t \in Tabs, Finish(t)
    PROVE  /\ req'[t].kind = "none"
           /\ \A u \in Tabs \ {t} : req'[u] = req[u]
  BY DEF Types, Finish, NoReq

LEMMA MarkIs ==
    ASSUME Types, NEW t \in Tabs, RequestCancel(t)
    PROVE  /\ Cancels(req[t]) /\ req'[t].kind = "cancel"
           /\ req'[t].copy.state = req[t].copy.state /\ req'[t].copy.sw = req[t].copy.sw
           /\ \A u \in Tabs \ {t} : req'[u] = req[u]
  <1> DEFINE marked == [req[t].copy EXCEPT !.cancel = TRUE]
  <1>1. marked.state = req[t].copy.state /\ marked.sw = req[t].copy.sw
    BY DEF Types, Requests, Statuses
  <1>2. req' = [req EXCEPT ![t] = [kind |-> "cancel", step |-> "write", copy |-> marked]]
    BY DEF RequestCancel, Put
  <1>3. req'[t] = [kind |-> "cancel", step |-> "write", copy |-> marked]
    BY <1>2 DEF Types
  <1> HIDE DEF marked
  <1>4. req'[t].kind = "cancel" /\ req'[t].copy = marked
    BY <1>3
  <1>5. \A u \in Tabs \ {t} : req'[u] = req[u]
    BY <1>2 DEF Types
  <1>6. QED
    BY <1>1, <1>4, <1>5 DEF RequestCancel, In, Cancels

LEMMA QueueIs ==
    ASSUME Types, NEW t \in Tabs,
           Put(t, "install", "launch", [req[t].copy EXCEPT !.state = "queued"])
    PROVE  /\ req'[t].kind = "install" /\ req'[t].step = "launch" /\ req'[t].copy.state = "queued"
           /\ req'[t].copy.sw = req[t].copy.sw
           /\ \A u \in Tabs \ {t} : req'[u] = req[u]
  <1> DEFINE queued == [req[t].copy EXCEPT !.state = "queued"]
  <1>1. queued.state = "queued" /\ queued.sw = req[t].copy.sw
    BY DEF Types, Requests, Statuses
  <1>2. req' = [req EXCEPT ![t] = [kind |-> "install", step |-> "launch", copy |-> queued]]
    BY DEF Put
  <1>3. req'[t] = [kind |-> "install", step |-> "launch", copy |-> queued]
    BY <1>2 DEF Types
  <1> HIDE DEF queued
  <1>4. req'[t].kind = "install" /\ req'[t].step = "launch" /\ req'[t].copy = queued
    BY <1>3
  <1>5. \A u \in Tabs \ {t} : req'[u] = req[u]
    BY <1>2 DEF Types
  <1>6. QED
    BY <1>1, <1>4, <1>5

(* What the requests read are statuses of an update under way. *)
LEMMA RequestCopies ==
    ASSUME Types, Copies, NEW t \in Tabs,
           Upload(t) \/ InstallCheck(t) \/ CancelRead(t) \/ RecoverRead(t) \/ Handlers(t)
    PROVE  Copies'
  <1> USE DEF Installs, Cancels, Recovers
  <1>1. CASE Upload(t)
    BY <1>1 DEF Upload, Copies, requests
  <1>2. CASE InstallCheck(t)
    BY <1>2, PutIs DEF InstallCheck, Copies, looking
  <1>3. CASE CancelRead(t)
    BY <1>3, PutIs DEF CancelRead, Copies, looking
  <1>4. CASE RecoverRead(t)
    BY <1>4, PutIs DEF RecoverRead, Copies, looking
  <1>5. CASE InstallQueue(t)
    BY <1>5, QueueIs, FinishIs DEF InstallQueue, Copies, looking
  <1>6. CASE Launch(t)
    BY <1>6, FinishIs DEF Launch, Copies, looking
  <1>7. CASE RequestCancel(t)
    BY <1>7, MarkIs DEF RequestCancel, Copies, looking
  <1>8. CASE CancelWrite(t)
    BY <1>8, PutIs DEF CancelWrite, Copies, looking
  <1>9. CASE CancelLook(t)
    BY <1>9, FinishIs DEF CancelLook, Take, Orphaned, Copies
  <1>10. CASE RecoverLock(t)
    BY <1>10, FinishIs DEF RecoverLock, Copies, In
  <1>11. QED
    BY <1>1, <1>2, <1>3, <1>4, <1>5, <1>6, <1>7, <1>8, <1>9, <1>10 DEF Handlers

LEMMA ControllerCopies ==
    ASSUME Copies, StartLook \/ Look \/ Reconcile \/ Restart \/ OwnerStarts
    PROVE  Copies'
  <1>1. CASE StartLook \/ Look
    BY <1>1 DEF StartLook, Look, Take, Orphaned, Copies
  <1>2. CASE Reconcile
    BY <1>2 DEF Reconcile, ReconcileUnswitched, ReconcileSwitched, RestoreThen, Terminal, Copies
  <1>3. CASE Restart \/ OwnerStarts
    BY <1>3, QuietSteps DEF Restart, OwnerStarts
  <1>4. QED
    BY <1>1, <1>2, <1>3

(* Until there is a copy of the tree: every request has read a status that   *)
(* restores nothing.                                                          *)
LEMMA FreshAgain ==
    ASSUME Fresh, UNCHANGED <<trees, docker, helper>>, LookedEarly',
           st'.state \in Early \/ st' = st, ~st'.sw,
           \A u \in Tabs : Cancels(req'[u]) => IsEarly(req'[u].copy),
           \A u \in Tabs : Installs(req'[u]) => ~req'[u].copy.sw,
           \A u \in Tabs : Installs(req'[u]) /\ req'[u].step = "launch" => st'.state \in Early
    PROVE  Fresh'
  <1>1. Untouched'
    BY DEF Fresh, Untouched, OldWorld, OldRuns, trees, docker
  <1>2. QED
    BY <1>1 DEF Fresh

LEMMA EarlyStatus ==
    ASSUME Fresh, st.state \in Active \cup {"recovery_required"}
    PROVE  IsEarly(st)
  BY DEF Fresh, IsEarly, Early, Active

(* An install that fails to launch writes "failed" over its own "queued". *)
LEMMA FailsIs ==
    ASSUME Types, Copies, NEW t \in Tabs, In(t, "install", "launch"),
           Write(req[t].copy, [req[t].copy EXCEPT !.state = "failed"])
    PROVE  /\ Installs(req[t]) /\ req[t].copy.state = "queued"
           /\ st'.state = "failed" /\ st'.sw = req[t].copy.sw
           /\ ~lost' => ~lost /\ st.state = "queued" /\ st.sw = req[t].copy.sw
  <1>1. Installs(req[t]) /\ req[t].copy.state = "queued" /\ req[t].copy \in Statuses
    BY DEF In, Installs, Copies, Types, Requests
  <1>2. [req[t].copy EXCEPT !.state = "failed"].state = "failed"
        /\ [req[t].copy EXCEPT !.state = "failed"].sw = req[t].copy.sw
    BY <1>1 DEF Statuses
  <1>3. QED
    BY <1>1, <1>2 DEF Write, Stale, Types

LEMMA FreshLaunch ==
    ASSUME Types, Copies, Fresh, NEW t \in Tabs, Launch(t), ~crossed'
    PROVE  Phase'
  <1>1. /\ look' = look /\ UNCHANGED docker /\ In(t, "install", "launch")
        /\ Installs(req[t]) /\ req[t].step = "launch" /\ ~req[t].copy.sw /\ st.state \in Early
    BY DEF Launch, In, Installs, Fresh, looking
  <1>2. /\ req'[t].kind = "none"
        /\ \A u \in Tabs \ {t} : req'[u] = req[u]
    BY FinishIs DEF Launch
  <1>3. /\ LookedEarly'
        /\ \A u \in Tabs : Cancels(req'[u]) => IsEarly(req'[u].copy)
        /\ \A u \in Tabs : Installs(req'[u]) => ~req'[u].copy.sw
    BY <1>1, <1>2 DEF Fresh, LookedEarly, Installs, Cancels, Recovers
  <1>4. CASE /\ Interrupted /\ helper' = [Off EXCEPT !.pc = "launched"]
             /\ crossed' = (crossed \/ backup' # NoTree) /\ UNCHANGED <<st, lost>>
    <2>1. workspace' = workspace /\ backup' = NoTree
      BY <1>4, FreshInterrupted
    <2>2. Untouched'
      BY <1>1, <2>1 DEF Fresh, Untouched, OldWorld, OldRuns, docker
    <2>3. helper'.pc = "launched" /\ helper'.sw = FALSE
      BY <1>4 DEF Off
    <2>4. QED
      BY <1>1, <1>3, <1>4, <2>2, <2>3 DEF Phase, Fresh, BeforeCopy
  <1>5. ASSUME Write(req[t].copy, [req[t].copy EXCEPT !.state = "failed"])
        PROVE  st'.state = "failed" /\ ~st'.sw
    BY <1>1, <1>5, FailsIs
  <1>6. CASE /\ Interrupted /\ helper' = Off
             /\ Write(req[t].copy, [req[t].copy EXCEPT !.state = "failed"])
    <2>1. workspace' = workspace /\ helper'.pc = "off" /\ helper'.sw = FALSE
      BY <1>6, FreshInterrupted DEF Off
    <2>2. OldWorld'
      BY <1>1, <2>1 DEF Fresh, Untouched, OldWorld, OldRuns, docker
    <2>3. CASE backup' = backup
      <3>1. Untouched'
        BY <1>1, <2>2, <2>3 DEF Fresh, Untouched, docker
      <3>2. QED
        BY <1>3, <1>5, <1>6, <2>1, <3>1 DEF Phase, Fresh, BeforeCopy, Early
    <2>4. CASE backup' = Tree("old")
      <3>1. Kept' /\ Sound' /\ Told'
        BY <1>5, <1>6, <2>2, <2>4 DEF Kept, Sound, Told, OldWorld, OldRuns
      <3>2. QED
        BY <1>5, <1>6, <2>1, <3>1 DEF Phase, Ended
    <2>5. QED
      BY <1>6, <2>3, <2>4, FreshInterrupted
  <1>7. CASE /\ UNCHANGED <<trees, helper>>
             /\ Write(req[t].copy, [req[t].copy EXCEPT !.state = "failed"])
    BY <1>1, <1>3, <1>5, <1>7, FreshAgain DEF Phase, Early
  <1>8. QED
    BY <1>4, <1>6, <1>7 DEF Launch

LEMMA FreshRequests ==
    ASSUME Types, Copies, Fresh, ~crossed', NEW t \in Tabs,
           Upload(t) \/ InstallCheck(t) \/ CancelRead(t) \/ RecoverRead(t) \/ Handlers(t)
    PROVE  Phase'
  <1> USE DEF Installs, Cancels, Recovers
  <1>0. /\ ~st.sw /\ LookedEarly /\ (look = NoStatus \/ IsEarly(look))
        /\ \A u \in Tabs : Cancels(req[u]) => IsEarly(req[u].copy)
        /\ \A u \in Tabs : Recovers(req[u]) => IsEarly(req[u].copy)
        /\ \A u \in Tabs : Installs(req[u]) => ~req[u].copy.sw
        /\ \A u \in Tabs : Installs(req[u]) /\ req[u].step = "launch" => st.state \in Early
    BY DEF Fresh, LookedEarly
  <1>1. CASE Upload(t)
    <2>1. st'.state = "uploaded" /\ st'.sw = FALSE /\ UNCHANGED <<trees, docker, helper, requests>>
      BY <1>1 DEF Upload, Write, NoStatus
    <2>2. st.state = "absent" /\ "absent" \notin Early
      BY <1>1 DEF Upload, Early
    <2>3. helper.pc = "off" /\ \A u \in Tabs : ~(Installs(req[u]) /\ req[u].step = "launch")
      BY <2>2 DEF Fresh
    <2>4. Untouched'
      BY <2>1 DEF Fresh, Untouched, OldWorld, OldRuns, trees, docker
    <2>5. QED
      BY <1>0, <2>1, <2>3, <2>4 DEF Phase, Fresh, LookedEarly, requests
  <1>2. CASE InstallCheck(t)
    <2>1. st' = st /\ look' = look /\ UNCHANGED <<trees, docker, helper>>
      BY <1>2 DEF InstallCheck, looking
    <2>2. /\ req'[t].kind = "install" /\ req'[t].step = "backup" /\ req'[t].copy = st
          /\ \A u \in Tabs \ {t} : req'[u] = req[u]
      BY <1>2, PutIs DEF InstallCheck
    <2>3. QED
      BY <1>0, <2>1, <2>2, FreshAgain DEF Phase, LookedEarly
  <1>3. CASE CancelRead(t) \/ RecoverRead(t)
    <2>1. st' = st /\ look' = look /\ UNCHANGED <<trees, docker, helper>>
          /\ st.state \in Active \cup {"recovery_required"}
      BY <1>3 DEF CancelRead, RecoverRead, looking
    <2>2. PICK kind \in {"cancel", "recover"} :
            /\ req'[t].kind = kind /\ req'[t].copy = st
            /\ \A u \in Tabs \ {t} : req'[u] = req[u]
      BY <1>3, PutIs DEF CancelRead, RecoverRead
    <2>3. IsEarly(st)
      BY <2>1, EarlyStatus
    <2>4. QED
      BY <1>0, <2>1, <2>2, <2>3, FreshAgain DEF Phase, LookedEarly
  <1>4. CASE InstallQueue(t)
    <2>1. look' = look /\ UNCHANGED <<trees, docker, helper>>
          /\ req[t].kind = "install" /\ req[t].copy.sw = FALSE
      BY <1>4 DEF InstallQueue, In, Fresh, Types, Requests, Statuses, looking
    <2>2. CASE Finish(t) /\ st' = st
      BY <1>0, <2>1, <2>2, FinishIs, FreshAgain DEF Phase, LookedEarly
    <2>3. CASE /\ Write(req[t].copy, [req[t].copy EXCEPT !.state = "queued"])
               /\ Put(t, "install", "launch", [req[t].copy EXCEPT !.state = "queued"])
      <3>1. [req[t].copy EXCEPT !.state = "queued"].state = "queued"
            /\ [req[t].copy EXCEPT !.state = "queued"].sw = FALSE
        BY <2>1 DEF Types, Requests, Statuses
      <3>2. st'.state = "queued" /\ st'.sw = FALSE
        BY <2>3, <3>1 DEF Write
      <3>3. /\ req'[t].kind = "install" /\ req'[t].copy.sw = FALSE
            /\ \A u \in Tabs \ {t} : req'[u] = req[u]
        BY <2>1, <2>3, QueueIs
      <3>4. QED
        BY <1>0, <2>1, <3>2, <3>3, FreshAgain DEF Phase, LookedEarly, Early
    <2>4. QED
      BY <1>4, <2>2, <2>3 DEF InstallQueue
  <1>5. CASE Launch(t)
    BY <1>5, FreshLaunch
  <1>6. CASE RequestCancel(t)
    <2>1. st' = st /\ look' = look /\ UNCHANGED <<trees, docker, helper>>
      BY <1>6 DEF RequestCancel, looking
    <2>2. /\ Cancels(req[t]) /\ req'[t].kind = "cancel"
          /\ req'[t].copy.state = req[t].copy.state /\ req'[t].copy.sw = req[t].copy.sw
          /\ \A u \in Tabs \ {t} : req'[u] = req[u]
      BY <1>6, MarkIs
    <2>3. IsEarly(req'[t].copy)
      BY <1>0, <2>2 DEF IsEarly
    <2>4. QED
      BY <1>0, <2>1, <2>2, <2>3, FreshAgain DEF Phase, LookedEarly
  <1>7. CASE CancelWrite(t)
    <2>1. look' = look /\ UNCHANGED <<trees, docker, helper>>
          /\ Cancels(req[t]) /\ st' = req[t].copy
      BY <1>7 DEF CancelWrite, In, Write, looking
    <2>2. st'.state \in Early /\ ~st'.sw
      BY <1>0, <2>1 DEF IsEarly, Early
    <2>3. /\ req'[t].kind = "cancel" /\ req'[t].step = "look"
          /\ \A u \in Tabs \ {t} : req'[u] = req[u]
      BY <1>7, PutIs DEF CancelWrite
    <2>4. QED
      BY <1>0, <2>1, <2>2, <2>3, FreshAgain DEF Phase, LookedEarly
  <1>8. CASE CancelLook(t)
    <2>1. st' = st /\ UNCHANGED <<trees, docker, helper>>
      BY <1>8 DEF CancelLook
    <2>2. look' = look \/ (look' = st /\ IsEarly(st))
      BY <1>8, EarlyStatus DEF CancelLook, Take, Orphaned
    <2>3. /\ req'[t].kind = "none"
          /\ \A u \in Tabs \ {t} : req'[u] = req[u]
      BY <1>8, FinishIs DEF CancelLook
    <2>4. QED
      BY <1>0, <2>1, <2>2, <2>3, FreshAgain DEF Phase, LookedEarly
  <1>9. CASE RecoverLock(t)
    <2>1. st' = st /\ look' = req[t].copy /\ UNCHANGED <<trees, docker, helper>>
          /\ req[t].kind = "recover"
      BY <1>9 DEF RecoverLock, In
    <2>2. IsEarly(req[t].copy)
      BY <1>0, <2>1
    <2>3. /\ req'[t].kind = "none"
          /\ \A u \in Tabs \ {t} : req'[u] = req[u]
      BY <1>9, FinishIs DEF RecoverLock
    <2>4. QED
      BY <1>0, <2>1, <2>2, <2>3, FreshAgain DEF Phase, LookedEarly
  <1>10. QED
    BY <1>1, <1>2, <1>3, <1>4, <1>5, <1>6, <1>7, <1>8, <1>9 DEF Handlers

(* From then on: a tab that still installs writes over a newer status, and a  *)
(* second helper would be one too many.                                       *)
LEMMA HelpingLaunch ==
    ASSUME Types, Copies, Helping, NEW t \in Tabs, Launch(t), ~crossed'
    PROVE  Phase'
  <1>1. /\ In(t, "install", "launch") /\ UNCHANGED docker /\ UNCHANGED look
        /\ Kept /\ Sound /\ LookedEarly /\ (lost \/ st.state # "queued")
    BY HelpingIsSound DEF Launch, looking, Helping, StateOf, Types, Pcs, Undoing, AfterSwitch, BeforeCopy
  <1>2. Interrupted => backup' = backup
    BY DEF Helping, BeforeCopy, Interrupted, At
  <1>3. backup # NoTree
    BY <1>1 DEF Kept, Tree, NoTree
  <1>4. Write(req[t].copy, [req[t].copy EXCEPT !.state = "failed"])
    BY <1>2, <1>3 DEF Launch
  <1>5. st'.state = "failed" /\ lost'
    BY <1>1, <1>4, FailsIs DEF Types
  <1>6. Sound'
    BY <1>1 DEF Sound, docker
  <1>7. CASE Interrupted /\ helper' = Off
    <2>1. Kept'
      BY <1>1, <1>2, <1>7 DEF Kept
    <2>2. QED
      BY <1>5, <1>6, <1>7, <2>1 DEF Phase, Ended, Off
  <1>8. CASE UNCHANGED <<trees, helper>>
    <2>1. LookedEarly'
      BY <1>1, FinishIs DEF Launch, LookedEarly, Recovers
    <2>2. QED
      BY <1>1, <1>5, <1>8, <2>1, OnlyStatus DEF Phase, trees
  <1>9. QED
    BY <1>2, <1>3, <1>7, <1>8 DEF Launch

LEMMA EndedLaunch ==
    ASSUME Types, Copies, Ended, NEW t \in Tabs, Launch(t), ~crossed'
    PROVE  Ended'
  <1>1. /\ In(t, "install", "launch") /\ UNCHANGED docker
        /\ Kept /\ Sound /\ helper.pc = "off"
    BY DEF Launch, Ended
  <1>2. Interrupted => UNCHANGED trees
    BY <1>1 DEF Interrupted, At, trees
  <1>3. backup # NoTree
    BY <1>1 DEF Kept, Tree, NoTree
  <1>4. /\ Write(req[t].copy, [req[t].copy EXCEPT !.state = "failed"])
        /\ UNCHANGED trees /\ helper'.pc = "off"
    <2>1. ~(Interrupted /\ crossed' = (crossed \/ backup' # NoTree))
      BY <1>2, <1>3 DEF trees
    <2>2. /\ Write(req[t].copy, [req[t].copy EXCEPT !.state = "failed"])
          /\ (Interrupted /\ helper' = Off) \/ UNCHANGED <<trees, helper>>
      BY <2>1 DEF Launch
    <2>3. QED
      BY <1>1, <1>2, <2>2 DEF Off
  <1>5. st'.state = "failed" /\ (~lost' => ~lost /\ st.state = "queued")
    BY <1>1, <1>4, FailsIs
  <1>6. Sound' /\ Kept'
    BY <1>1, <1>4 DEF Sound, Kept, docker, trees
  <1>7. ~lost' => Told'
    BY <1>1, <1>4, <1>5 DEF Ended, Told, OldWorld, OldRuns, docker, trees
  <1>8. QED
    BY <1>4, <1>5, <1>6, <1>7 DEF Ended

LEMMA LaterRequests ==
    ASSUME Types, Copies, Helping \/ Ended, NEW t \in Tabs, ~Launch(t),
           Upload(t) \/ InstallCheck(t) \/ CancelRead(t) \/ RecoverRead(t) \/ Handlers(t)
    PROVE  /\ st'.state \notin {"absent", "uploaded"}
           /\ Helping => LookedEarly'
           /\ UNCHANGED <<workspace, backup, docker, helper>>
           /\ ~lost' => ~lost /\ st'.state = st.state /\ st'.sw = st.sw
  <1> USE DEF Installs, Cancels, Recovers
  <1>0. /\ st.state \notin {"absent", "uploaded"}
        /\ Helping => LookedEarly /\ Running
        /\ lost \in BOOLEAN
    BY DEF Helping, Ended, Running, Types, BeforeCopy
  <1>1. ~Upload(t) /\ ~InstallCheck(t)
    BY <1>0 DEF Upload, InstallCheck
  <1>2. CASE CancelRead(t)
    <2>1. st' = st /\ lost' = lost /\ look' = look /\ UNCHANGED <<trees, docker, helper>>
      BY <1>2 DEF CancelRead, looking
    <2>2. req'[t].kind = "cancel" /\ \A u \in Tabs \ {t} : req'[u] = req[u]
      BY <1>2, PutIs DEF CancelRead
    <2>3. QED
      BY <1>0, <2>1, <2>2 DEF LookedEarly, trees
  <1>3. CASE RecoverRead(t)
    BY <1>0, <1>3 DEF RecoverRead, trees
  <1>4. CASE InstallQueue(t)
    <2>1. look' = look /\ UNCHANGED <<trees, docker, helper>>
          /\ req[t].kind = "install" /\ req[t].copy.state = "uploaded" /\ req[t].copy \in Statuses
      BY <1>4 DEF InstallQueue, In, Copies, looking, Types, Requests
    <2>2. req'[t].kind \in {"install", "none"} /\ \A u \in Tabs \ {t} : req'[u] = req[u]
      BY <1>4, FinishIs, QueueIs DEF InstallQueue
    <2>3. [req[t].copy EXCEPT !.state = "queued"].state = "queued"
      BY <2>1 DEF Statuses
    <2>4. \/ st' = st /\ lost' = lost
          \/ st'.state = "queued" /\ lost'
      BY <1>0, <1>4, <2>1, <2>3 DEF InstallQueue, Write, Stale
    <2>5. QED
      BY <1>0, <2>1, <2>2, <2>4 DEF LookedEarly, trees
  <1>5. CASE RequestCancel(t)
    <2>1. st' = st /\ lost' = lost /\ look' = look /\ UNCHANGED <<trees, docker, helper>>
      BY <1>5 DEF RequestCancel, looking
    <2>2. QED
      BY <1>0, <1>5, <2>1, MarkIs DEF LookedEarly, trees
  <1>6. CASE CancelWrite(t)
    <2>1. look' = look /\ UNCHANGED <<trees, docker, helper>> /\ Cancels(req[t])
          /\ Write(req[t].copy, req[t].copy)
      BY <1>6 DEF CancelWrite, In, looking
    <2>2. req'[t].kind = "cancel" /\ \A u \in Tabs \ {t} : req'[u] = req[u]
      BY <1>6, PutIs DEF CancelWrite
    <2>3. req[t].copy \in Statuses /\ req[t].copy.state \in Active
      BY <2>1 DEF Types, Requests, Copies
    <2>4. st'.state \notin {"absent", "uploaded"}
      BY <2>1, <2>3, WriteTells DEF Active
    <2>5. ~lost' => ~lost /\ st'.state = st.state /\ st'.sw = st.sw
      BY <2>1, <2>3, WriteTells
    <2>6. QED
      BY <1>0, <2>1, <2>2, <2>4, <2>5 DEF LookedEarly, trees
  <1>7. CASE CancelLook(t)
    <2>1. st' = st /\ lost' = lost /\ UNCHANGED <<trees, docker, helper>> /\ (Running => look' = look)
      BY <1>7 DEF CancelLook, Take, Orphaned
    <2>2. req'[t].kind = "none" /\ \A u \in Tabs \ {t} : req'[u] = req[u]
      BY <1>7, FinishIs DEF CancelLook
    <2>3. QED
      BY <1>0, <2>1, <2>2 DEF LookedEarly, trees
  <1>8. CASE RecoverLock(t)
    <2>1. st' = st /\ lost' = lost /\ look' = req[t].copy /\ UNCHANGED <<trees, docker, helper>>
          /\ req[t].kind = "recover"
      BY <1>8 DEF RecoverLock, In
    <2>2. req'[t].kind = "none" /\ \A u \in Tabs \ {t} : req'[u] = req[u]
      BY <1>8, FinishIs DEF RecoverLock
    <2>3. QED
      BY <1>0, <2>1, <2>2 DEF LookedEarly, trees
  <1>9. QED
    BY <1>1, <1>2, <1>3, <1>4, <1>5, <1>6, <1>7, <1>8 DEF Handlers

LEMMA RequestPhase ==
    ASSUME Types, Copies, Phase, ~crossed', NEW t \in Tabs,
           Upload(t) \/ InstallCheck(t) \/ CancelRead(t) \/ RecoverRead(t) \/ Handlers(t)
    PROVE  Phase'
  <1>1. CASE Fresh
    BY <1>1, FreshRequests
  <1>2. CASE Helping
    BY <1>2, LaterRequests, HelpingLaunch, OnlyStatus DEF Phase
  <1>3. CASE Ended
    BY <1>3, LaterRequests, EndedLaunch, OnlyTruth DEF Phase
  <1>4. QED
    BY <1>1, <1>2, <1>3 DEF Phase

(* The reconciliation of an early status restores nothing.                    *)
LEMMA EarlyRestoresNothing ==
    ASSUME look # NoStatus => IsEarly(look)
    PROVE  /\ Reconcile => UNCHANGED workspace
           /\ Reconcile => \E state \in {"failed", "cancelled"} : Terminal(state)
           /\ Restart => UNCHANGED workspace
  <1>1. look # NoStatus => ~NeedsRestore /\ ~SwitchAttempted
    BY DEF IsEarly, NeedsRestore, SwitchAttempted
  <1>2. QED
    BY <1>1 DEF Reconcile, ReconcileUnswitched, ReconcileSwitched, CancelledOrFailed, Restart

LEMMA TerminalIs ==
    ASSUME Types, NEW state, Terminal(state)
    PROVE  /\ st'.state = state /\ st'.sw = look.sw /\ look' = NoStatus
           /\ ~lost' => ~lost /\ look.state = st.state /\ look.sw = st.sw /\ ~Running
  BY DEF Types, Statuses, Terminal, Stale

LEMMA FreshController ==
    ASSUME Types, Fresh, StartLook \/ Look \/ Reconcile \/ Restart \/ OwnerStarts
    PROVE  Fresh'
  <1>0. (look # NoStatus => IsEarly(look)) /\ LookedEarly /\ ~st.sw
    BY DEF Fresh, LookedEarly
  <1>1. CASE StartLook \/ Look
    <2>1. look' = look \/ (look' = st /\ IsEarly(st))
      BY <1>1, EarlyStatus DEF StartLook, Look, Take, Orphaned
    <2>2. UNCHANGED <<st, trees, docker, helper, req>>
      BY <1>1 DEF StartLook, Look
    <2>3. LookedEarly'
      BY <1>0, <2>1, <2>2 DEF LookedEarly
    <2>4. QED
      BY <1>0, <2>2, <2>3, FreshAgain DEF Fresh
  <1>2. CASE Reconcile
    <2>1. PICK state \in {"failed", "cancelled"} : Terminal(state)
      BY <1>0, <1>2, EarlyRestoresNothing
    <2>2. UNCHANGED <<workspace, backup, docker, helper, req>>
      BY <1>0, <1>2, EarlyRestoresNothing DEF Reconcile, ReconcileUnswitched, ReconcileSwitched
    <2>3. look # NoStatus
      BY <1>2 DEF Reconcile, ReconcileUnswitched, ReconcileSwitched
    <2>4. st'.state \in Early /\ ~st'.sw /\ look' = NoStatus
      BY <1>0, <2>1, <2>3, TerminalIs DEF Early, IsEarly
    <2>5. LookedEarly'
      BY <1>0, <2>2, <2>4 DEF LookedEarly
    <2>6. QED
      BY <2>2, <2>4, <2>5, FreshAgain DEF Fresh, trees
  <1>3. CASE Restart
    <2>1. workspace' = workspace /\ NoRequests /\ UNCHANGED <<st, backup, docker, helper>>
      BY <1>0, <1>3, EarlyRestoresNothing DEF Restart
    <2>2. LookedEarly' /\ \A u \in Tabs : req'[u].kind = "none"
      BY <2>1 DEF NoRequests, NoReqs, NoReq, LookedEarly, Recovers
    <2>3. QED
      BY <1>0, <2>1, <2>2, FreshAgain DEF trees, Installs, Cancels
  <1>4. CASE OwnerStarts
    <2>1. ctrl'.version = "old" /\ db' = "old"
      BY <1>4 DEF OwnerStarts, RunsVersion, Fresh, Untouched, OldWorld, OldRuns
    <2>2. UNCHANGED <<st, trees, ref, pin, helper, requests>>
      BY <1>4 DEF OwnerStarts
    <2>3. Untouched'
      BY <2>1, <2>2 DEF Fresh, Untouched, OldWorld, OldRuns, trees
    <2>4. LookedEarly'
      BY <1>0, <2>2 DEF LookedEarly, requests
    <2>5. QED
      BY <2>2, <2>3, <2>4 DEF Fresh, requests
  <1>5. QED
    BY <1>1, <1>2, <1>3, <1>4

LEMMA HelpingController ==
    ASSUME Types, Helping, StartLook \/ Look \/ Reconcile \/ Restart \/ OwnerStarts
    PROVE  Helping'
  <1>0. /\ Running /\ LookedEarly /\ lost \in BOOLEAN
        /\ st.state \notin {"absent", "uploaded"}
        /\ look # NoStatus => IsEarly(look)
    BY DEF Helping, LookedEarly, Running, Types, BeforeCopy
  <1>1. ~Look /\ ~OwnerStarts
    BY <1>0 DEF Look, Take, Orphaned, OwnerStarts
  <1>2. CASE StartLook
    <2>1. UNCHANGED <<st, workspace, backup, docker, helper, req, look, lost>>
      BY <1>0, <1>2 DEF StartLook, Take, Orphaned, trees
    <2>2. LookedEarly'
      BY <1>0, <2>1 DEF LookedEarly
    <2>3. QED
      BY <1>0, <2>1, <2>2, OnlyStatus
  <1>3. CASE Reconcile
    <2>1. PICK state \in {"failed", "cancelled"} : Terminal(state)
      BY <1>0, <1>3, EarlyRestoresNothing
    <2>2. UNCHANGED <<workspace, backup, docker, helper, req>>
      BY <1>0, <1>3, EarlyRestoresNothing DEF Reconcile, ReconcileUnswitched, ReconcileSwitched
    <2>3. st'.state \notin {"absent", "uploaded"} /\ look' = NoStatus /\ lost'
      BY <1>0, <2>1, TerminalIs
    <2>4. LookedEarly'
      BY <1>0, <2>2, <2>3 DEF LookedEarly
    <2>5. QED
      BY <2>2, <2>3, <2>4, OnlyStatus
  <1>4. CASE Restart
    <2>1. workspace' = workspace /\ NoRequests /\ UNCHANGED <<st, backup, docker, helper>>
      BY <1>0, <1>4, EarlyRestoresNothing DEF Restart
    <2>2. LookedEarly'
      BY <1>0, <2>1, QuietSteps
    <2>3. ~lost' => ~lost
      BY <1>4 DEF Restart
    <2>4. QED
      BY <1>0, <2>1, <2>2, <2>3, OnlyStatus
  <1>5. QED
    BY <1>1, <1>2, <1>3, <1>4

(* Once the helper is gone the reconciliation settles what the status says.   *)
LEMMA EndedReconcile ==
    ASSUME Types, Copies, Ended, Reconcile
    PROVE  Ended'
  <1>1. UNCHANGED <<backup, docker, helper, req>> /\ look # NoStatus
    BY DEF Reconcile, ReconcileUnswitched, ReconcileSwitched
  <1>2. PICK state \in {"failed", "cancelled", "rolled_back", "completed", "recovery_required"} :
          Terminal(state)
    BY DEF Reconcile, ReconcileUnswitched, ReconcileSwitched, RestoreThen, CancelledOrFailed
  <1>3. /\ st'.state = state /\ st'.sw = look.sw
        /\ ~lost' => ~lost /\ look.state = st.state /\ look.sw = st.sw
    BY <1>2, TerminalIs
  <1>4. Kept /\ Kept' /\ Sound'
    BY <1>1 DEF Ended, Kept, Sound, docker
  <1>5. ASSUME ~lost' PROVE Told'
    <2>1. ~lost /\ Told /\ look.state = st.state /\ look.sw = st.sw /\ Sound
      BY <1>3, <1>5 DEF Ended
    <2>2. look.state \in Active \cup {"recovery_required"}
      BY <1>1 DEF Copies
    <2>3. CASE ReconcileUnswitched
      <3>1. ~st.sw /\ st.state \notin {"switching", "verifying"}
        BY <2>1, <2>3 DEF ReconcileUnswitched, SwitchAttempted
      <3>2. CASE NeedsRestore
        <4>1. OldRuns' /\ backup = Tree("old")
          BY <1>1, <1>4, <2>1, <3>1, <3>2 DEF NeedsRestore, Told, OldRuns, Kept, docker
        <4>2. \/ workspace' = backup /\ Terminal(CancelledOrFailed)
              \/ Terminal("recovery_required")
          BY <2>3, <3>2 DEF ReconcileUnswitched, RestoreThen
        <4>3. CASE workspace' = backup /\ Terminal(CancelledOrFailed)
          <5>1. st'.state \in {"failed", "cancelled"}
            BY <4>3, TerminalIs DEF CancelledOrFailed
          <5>2. QED
            BY <4>1, <4>3, <5>1 DEF Told, OldWorld
        <4>4. CASE Terminal("recovery_required")
          <5>1. st'.state = "recovery_required"
            BY <4>4, TerminalIs
          <5>2. QED
            BY <4>1, <5>1 DEF Told
        <4>5. QED
          BY <4>2, <4>3, <4>4
      <3>3. CASE ~NeedsRestore
        <4>1. st.state \in {"queued", "preparing", "backing_up"}
          BY <2>1, <2>2, <3>1, <3>3 DEF NeedsRestore, Active
        <4>2. Terminal(CancelledOrFailed) /\ workspace' = workspace
          BY <2>3, <3>3 DEF ReconcileUnswitched
        <4>3. OldWorld'
          BY <1>1, <2>1, <4>1, <4>2 DEF Told, OldWorld, OldRuns, docker
        <4>4. st'.state \in {"failed", "cancelled"}
          BY <4>2, TerminalIs DEF CancelledOrFailed
        <4>5. QED
          BY <4>3, <4>4 DEF Told
      <3>4. QED
        BY <3>2, <3>3
    <2>4. CASE ReconcileSwitched
      <3>1. st.sw \/ st.state \in {"switching", "verifying"}
        BY <2>1, <2>4 DEF ReconcileSwitched, SwitchAttempted
      <3>2. st.sw = TRUE /\ backup.version = "old"
        <4>1. st.sw
          BY <2>1, <2>2, <3>1 DEF Told, Active
        <4>2. QED
          BY <1>4, <4>1, Members DEF Kept, Types, Statuses
      <3>3. CASE ctrl.version = backup.version /\ RestoreThen("rolled_back")
        <4>1. OldRuns'
          BY <1>1, <2>1, <3>2, <3>3 DEF Sound, OldRuns, docker
        <4>2. CASE workspace' = backup /\ Terminal("rolled_back")
          <5>1. st'.state = "rolled_back"
            BY <4>2, TerminalIs
          <5>2. QED
            BY <1>4, <4>1, <4>2, <5>1 DEF Told, OldWorld, Kept
        <4>3. CASE Terminal("recovery_required")
          <5>1. st'.state = "recovery_required"
            BY <4>3, TerminalIs
          <5>2. QED
            BY <3>2, <4>1, <5>1 DEF Told
        <4>4. QED
          BY <3>3, <4>2, <4>3 DEF RestoreThen
      <3>4. CASE ctrl.version = "new" /\ workspace.version = "new" /\ workspace' = workspace
                 /\ Terminal("completed")
        <4>1. st'.state = "completed"
          BY <3>4, TerminalIs
        <4>2. QED
          BY <1>1, <3>4, <4>1 DEF Told, docker
      <3>5. CASE Terminal("recovery_required")
        <4>1. st'.state = "recovery_required" /\ st'.sw = TRUE
          BY <2>1, <3>2, <3>5, TerminalIs
        <4>2. QED
          BY <3>2, <4>1 DEF Told
      <3>6. QED
        BY <2>4, <3>3, <3>4, <3>5 DEF ReconcileSwitched
    <2>5. QED
      BY <2>3, <2>4 DEF Reconcile
  <1>6. QED
    BY <1>1, <1>2, <1>3, <1>4, <1>5 DEF Ended

LEMMA EndedController ==
    ASSUME Types, Copies, Ended, StartLook \/ Look \/ Reconcile \/ Restart \/ OwnerStarts
    PROVE  Ended'
  <1>1. CASE StartLook \/ Look
    BY <1>1, OnlyTruth DEF StartLook, Look, Ended, trees
  <1>2. CASE Reconcile
    BY <1>2, EndedReconcile
  <1>3. CASE Restart
    <2>1. UNCHANGED <<st, backup, docker, helper>>
      BY <1>3 DEF Restart
    <2>2. Kept' /\ Sound'
      BY <2>1 DEF Ended, Kept, Sound, docker
    <2>3. ASSUME ~lost' PROVE Told'
      <3>1. ~lost /\ Told /\ (look # NoStatus => look.state = st.state /\ look.sw = st.sw)
        BY <1>3, <2>3 DEF Restart, Stale, Ended
      <3>2. CASE workspace' = workspace
        BY <2>1, <3>1, <3>2 DEF Told, OldWorld, OldRuns, docker
      <3>3. CASE look # NoStatus /\ (NeedsRestore \/ SwitchAttempted)
        <4>1. look.state \in Active \cup {"recovery_required"}
          BY <3>3 DEF Copies
        <4>2. \/ look.state \in {"applying", "building", "rolling_back", "recovery_required",
                                 "switching", "verifying"}
              \/ look.sw
          BY <3>3 DEF NeedsRestore, SwitchAttempted
        <4>3. st.state \in {"applying", "building", "rolling_back", "recovery_required",
                            "switching", "verifying"}
          BY <3>1, <3>3, <4>1, <4>2 DEF Told, Active
        <4>4. QED
          BY <2>1, <3>1, <4>3 DEF Told, OldRuns, docker
      <3>4. QED
        BY <1>3, <3>2, <3>3 DEF Restart
    <2>4. QED
      BY <2>1, <2>2, <2>3 DEF Ended
  <1>4. CASE OwnerStarts
    <2>1. /\ RunsVersion(IF ctrl.version = "none" THEN ref ELSE ctrl.version)
          /\ UNCHANGED <<st, trees, ref, pin, helper, requests, lost>>
      BY <1>4 DEF OwnerStarts
    <2>2. Kept' /\ Sound'
      BY <2>1 DEF Ended, Kept, Sound, RunsVersion, trees, Types, Versions
    <2>3. Told => Told'
      <3>1. ctrl.version # "none" => ctrl'.version = ctrl.version
        BY <2>1 DEF RunsVersion
      <3>2. OldRuns => OldRuns'
        BY <2>1 DEF RunsVersion, OldRuns
      <3>3. QED
        BY <2>1, <3>1, <3>2 DEF Told, OldWorld, trees
    <2>4. QED
      BY <2>1, <2>2, <2>3 DEF Ended
  <1>5. QED
    BY <1>1, <1>2, <1>3, <1>4

-----------------------------------------------------------------------------
(* The theorems *)

LEMMA DevInit == DeveloperInit => DevInv
  <1> SUFFICES ASSUME DeveloperInit PROVE DevInv
    OBVIOUS
  <1> USE DEF Installs, Cancels, Recovers
  <1>1. Copies
    BY DEF DeveloperInit, Copies, NoReqs, NoReq
  <1>2. Fresh
    BY DEF DeveloperInit, Fresh, Off, Untouched, OldWorld, OldRuns, LookedEarly, NoStatus, NoReqs, NoReq,
           BeforeCopy
  <1>3. QED
    BY <1>1, <1>2, TypesInit DEF DevInv, Phase

LEMMA HelperNeedsCopy == Phase /\ (At("undo_source") \/ At("undo_tree")) => Kept
  BY DEF Phase, Fresh, Helping, Ended, World, At, BeforeCopy

(* Installs that have crossed stay so. *)
LEMMA CrossedStays == [DeveloperNext]_developerVars /\ crossed => crossed'
  <1> SUFFICES ASSUME [DeveloperNext]_developerVars, crossed PROVE crossed'
    OBVIOUS
  <1> USE DEF others
  <1>1. CASE Helper
    BY <1>1 DEF Helper, HelperStarts, Prepare, BackUp, ApplyTree, Build, UndoSource, Switch, Verify,
                UndoStop, UndoDatabase, UndoTree, UndoUp, UndoHealth
  <1>2. CASE HelperCrash \/ StartLook \/ Look \/ Reconcile \/ Restart \/ OwnerStarts
    BY <1>2 DEF HelperCrash, StartLook, Look, Reconcile, ReconcileUnswitched, ReconcileSwitched, Restart,
                OwnerStarts
  <1>3. ASSUME NEW t \in Tabs,
               Upload(t) \/ InstallCheck(t) \/ CancelRead(t) \/ RecoverRead(t) \/ Handlers(t)
        PROVE  crossed'
    BY <1>3 DEF Upload, InstallCheck, CancelRead, RecoverRead, Handlers, InstallQueue, Launch,
                RequestCancel, CancelWrite, CancelLook, RecoverLock
  <1>4. QED
    BY <1>1, <1>2, <1>3 DEF DeveloperNext, developerVars

LEMMA DevStep == DevInv /\ [DeveloperNext]_developerVars => DevInv'
  <1> SUFFICES ASSUME DevInv, [DeveloperNext]_developerVars, ~crossed'
               PROVE  Types' /\ Copies' /\ Phase'
    BY DEF DevInv
  <1>0. Types /\ Copies /\ Phase
    BY CrossedStays DEF DevInv
  <1>1. CASE Helper
    BY <1>0, <1>1, HelperTypes, HelperNeedsCopy, HelperIsQuiet, QuietSteps, HelperPhase
  <1>2. CASE HelperCrash
    BY <1>0, <1>2, CrashTypes, HelperIsQuiet, QuietSteps, CrashPhase
  <1>3. CASE StartLook \/ Look \/ Reconcile \/ Restart \/ OwnerStarts
    <2>1. Types' /\ Copies'
      BY <1>0, <1>3, ControllerTypes, ControllerCopies
    <2>2. Phase'
      BY <1>0, <1>3, FreshController, HelpingController, EndedController DEF Phase
    <2>3. QED
      BY <2>1, <2>2
  <1>4. ASSUME NEW t \in Tabs,
               Upload(t) \/ InstallCheck(t) \/ CancelRead(t) \/ RecoverRead(t) \/ Handlers(t)
        PROVE  Types' /\ Copies' /\ Phase'
    BY <1>0, <1>4, RequestTypes, RequestCopies, RequestPhase
  <1>5. CASE UNCHANGED developerVars
    <2>1. Types' /\ Copies'
      BY <1>0, <1>5 DEF Types, Copies, developerVars
    <2>2. Fresh => Fresh'
      BY <1>5 DEF Fresh, Untouched, OldWorld, OldRuns, LookedEarly, developerVars
    <2>3. Helping => Helping'
      BY <1>0, <1>5, OnlyStatus DEF Helping, LookedEarly, developerVars, docker
    <2>4. Ended => Ended'
      BY <1>0, <1>5, OnlyTruth DEF Ended, developerVars, docker
    <2>5. QED
      BY <1>0, <2>1, <2>2, <2>3, <2>4 DEF Phase
  <1>6. QED
    BY <1>1, <1>2, <1>3, <1>4, <1>5 DEF DeveloperNext

(* The inductive invariant holds in every state.                              *)
THEOREM DevInvariant == DeveloperSpec => []DevInv
  BY DevInit, DevStep, PTL DEF DeveloperSpec

LEMMA DevInvTells == DevInv => SettledIsTrue
  <1> SUFFICES ASSUME DevInv, Settled, ~lost, ~crossed
               PROVE  /\ st.state \in {"failed", "cancelled", "rolled_back"}
                           => ctrl.version = "old" /\ workspace = Tree("old") /\ db = "old"
                      /\ st.state = "completed" =>
                           ctrl.version = "new" /\ workspace.version = "new" /\ db = "new"
    BY DEF SettledIsTrue
  <1>1. helper.pc = "off" /\ ctrl.up
    BY DEF Settled, Running
  <1>2. CASE Fresh
    BY <1>2 DEF Fresh, Untouched, OldWorld, OldRuns, Early
  <1>3. CASE Ended
    BY <1>1, <1>3 DEF Ended, Told, OldWorld, OldRuns, Sound
  <1>4. QED
    BY <1>1, <1>2, <1>3 DEF DevInv, Phase, Helping, BeforeCopy

(* SettledIsTrue: what a finished self-update says is what is there, however  *)
(* often the helper or the controller die, whatever the other tabs cancel and *)
(* recover meanwhile, and though several install it, until two installs cross *)
(* with a copy of the tree between them.                                      *)
THEOREM FinishedUpdatesAreTrue == DeveloperSpec => []SettledIsTrue
  BY DevInvariant, DevInvTells, PTL

LEMMA TreeStep ==
    ASSUME DevInv, [DeveloperNext]_developerVars
    PROVE  Running /\ workspace' # workspace /\ ~crossed
             => Helper \/ HelperCrash \/ \E t \in Tabs : Launch(t)
  <1> SUFFICES ASSUME Running, workspace' # workspace, ~crossed, ~Helper, ~HelperCrash,
                      \A t \in Tabs : ~Launch(t)
               PROVE  FALSE
    OBVIOUS
  <1>1. look # NoStatus => IsEarly(look)
    BY DEF DevInv, Phase, Fresh, Helping, Ended, LookedEarly, Running
  <1>2. ~Reconcile /\ ~Restart
    BY <1>1, EarlyRestoresNothing
  <1>3. ~StartLook /\ ~Look /\ ~OwnerStarts /\ ~UNCHANGED developerVars
    BY DEF StartLook, Look, OwnerStarts, trees, developerVars
  <1>4. PICK t \in Tabs : Upload(t) \/ InstallCheck(t) \/ CancelRead(t) \/ RecoverRead(t) \/ Handlers(t)
    BY <1>2, <1>3 DEF DeveloperNext
  <1>5. UNCHANGED trees
    BY <1>4 DEF Upload, InstallCheck, CancelRead, RecoverRead, Handlers, InstallQueue,
                RequestCancel, CancelWrite, CancelLook, RecoverLock
  <1>6. QED
    BY <1>5 DEF trees

(* HelperOwnsTheTree: while a helper runs nobody else touches the tree, until *)
(* two installs cross: a reconciliation under way then looked before there    *)
(* was a copy to restore, and restores nothing.                               *)
THEOREM TreeIsTheHelpers == DeveloperSpec => HelperOwnsTheTree
  <1>1. DevInv /\ [DeveloperNext]_developerVars =>
          [Running /\ workspace' # workspace /\ ~crossed
             => Helper \/ HelperCrash \/ \E t \in Tabs : Launch(t)]_developerVars
    BY TreeStep
  <1>2. QED
    BY <1>1, DevInvariant, PTL DEF DeveloperSpec, HelperOwnsTheTree

-----------------------------------------------------------------------------
(* The offered update, for any number of digests, clicks, failures and       *)
(* rollbacks.  A writer works on a copy that may be minutes old, so what the *)
(* invariant says of the row it says of every copy, and of each writer what  *)
(* it has learnt when it writes: a row is then a real offer whatever it      *)
(* replaces, and until a rollback holds a digest back its date and its       *)
(* snooze are those of the digest it names.                                  *)

Images == Digests \cup {None}
CacheRows == [current : Images, latest : Images, available : BOOLEAN,
              snoozed : Images, first : Images, error : BOOLEAN]
Writers == [op : {"idle", "check", "info", "snooze", "unsnooze", "admit", "hold"},
            step : {"none", "local", "remote", "save", "worker", "reread", "resave",
                    "choose", "read", "hold"},
            old : CacheRows, cur : Images, late : Images,
            answer : {"none", "full", "bare", "item error", "error"}]
TrackedJobs == [state : {"none", "queued", "verifying", "refresh", "undone", "stuck"},
                prev : Images, digest : Images, held : BOOLEAN]

TrackingTypes ==
  /\ tag \in Digests /\ running \in Digests /\ mode \in {"auto", "manual", "ignore"}
  /\ row \in CacheRows /\ proc \in [Procs -> Writers] /\ job \in TrackedJobs /\ undone \in Nat

(* what OffersAreReal says of a row, but for its date                      *)
RealOffer(r) ==
  r.available /\ ~r.error /\ r.latest # None =>
    /\ r.latest = r.current => r.snoozed # None
    /\ r.latest # r.current => r.latest # r.snoozed

(* the date and the snooze of a row are those of its latest digest; and it *)
(* has a date when it is offered                                           *)
Dated(r) ==
  /\ r.snoozed # None => r.snoozed = r.latest /\ r.first = r.latest
  /\ r.latest # None /\ r.first # None => r.first = r.latest
HasDate(r) == r.available /\ ~r.error /\ r.latest # None => r.first = r.latest

(* what a writer has learnt at each of its steps                           *)
Learnt(c) ==
  /\ c.op \in {"snooze", "unsnooze"} => c.step = "save"
  /\ c.step = "save" => c.op \in {"check", "info", "snooze", "unsnooze"}
  /\ c.op = "snooze" => c.old.latest \notin {None, c.old.current}
  /\ c.step \in {"local", "remote"} => c.op \in {"check", "info"} /\ c.late = None
  /\ c.step \in {"local", "remote"} => c.cur # None
  /\ c.step = "save" /\ c.late # None => c.cur # None
  /\ c.step \in {"reread", "resave"} =>
       /\ c.op = "check"
       /\ c.answer = "full" => c.cur # None /\ c.late # None
       /\ c.answer \in {"bare", "item error"} => c.cur # None
  /\ c.step = "worker" => c.op = "check"
  /\ c.step \in {"choose", "read", "hold"} => c.op = "hold"
  /\ c.step \in {"read", "hold"} => c.late # None

(* until a rollback every copy is dated, and only a rollback holds back    *)
Honest(c) ==
  /\ Learnt(c)
  /\ undone = 0 => c.op # "hold" /\ Dated(c.old)

RowInv == RealOffer(row) /\ (undone = 0 => Dated(row) /\ HasDate(row))
TrackingInv ==
  /\ TrackingTypes
  /\ RowInv
  /\ \A p \in Procs : Honest(proc[p])
  /\ undone = 0 => job.state # "undone"
  /\ job.state = "verifying" => job.prev # None
  /\ job.prev = None <=> job.digest = None

-----------------------------------------------------------------------------
(* Rows *)

(* The empty string is no digest; the first rows, writers and jobs are typed *)
LEMMA NoDigest == None \notin Digests /\ None \in Images /\ Digests \subseteq Images /\ 1 \in Digests
BY TrackingAssumption DEF None, Digests, Images

LEMMA NoRowTyped ==
  /\ NoRow \in CacheRows /\ Dated(NoRow) /\ RealOffer(NoRow) /\ HasDate(NoRow)
  /\ NoRow.current = None /\ NoRow.latest = None /\ NoRow.available = FALSE
  /\ NoRow.snoozed = None /\ NoRow.first = None /\ NoRow.error = FALSE
BY NoDigest DEF NoRow, CacheRows, Dated, RealOffer, HasDate

LEMMA IdleTyped ==
  /\ Idle \in Writers /\ Learnt(Idle) /\ Dated(Idle.old)
  /\ Idle.op = "idle" /\ Idle.step = "none" /\ Idle.old = NoRow
  /\ Idle.cur = None /\ Idle.late = None /\ Idle.answer = "none"
BY NoDigest, NoRowTyped DEF Idle, Writers, Learnt

LEMMA NoJobTyped ==
  NoJob \in TrackedJobs /\ NoJob.state = "none" /\ NoJob.prev = None /\ NoJob.digest = None
BY NoDigest DEF NoJob, TrackedJobs

(* Rows equal in their fields are equal *)
LEMMA AppliedRow ==
  ASSUME NEW old \in CacheRows, NEW next \in CacheRows, NEW raw \in BOOLEAN,
         raw <=> next.current # next.latest, next.latest # None
  PROVE  LET r == ApplyTrackedUpdateState(old, next, raw) IN
         /\ r \in CacheRows /\ RealOffer(r)
         /\ Dated(old) => Dated(r) /\ HasDate(r)
         /\ r.error = next.error
         /\ r.snoozed \in {None, old.snoozed}
         /\ old.snoozed # None /\ r.snoozed = None =>
              next.latest # old.snoozed \/ next.current = old.snoozed
<1> DEFINE dated == [next EXCEPT !.first = IF old.first # None /\ next.latest = old.latest
                                           THEN old.first ELSE next.latest]
           r == ApplyTrackedUpdateState(old, next, raw)
<1>1. /\ dated \in CacheRows
      /\ dated.current = next.current /\ dated.latest = next.latest /\ dated.error = next.error
      /\ dated.first = (IF old.first # None /\ next.latest = old.latest THEN old.first ELSE next.latest)
  BY DEF CacheRows
<1>2. CASE ~raw
  <2>1. r = [next EXCEPT !.available = FALSE, !.first = None, !.snoozed = None]
    BY <1>2 DEF ApplyTrackedUpdateState
  <2>2. /\ r \in CacheRows /\ r.available = FALSE /\ r.first = None /\ r.snoozed = None
        /\ r.error = next.error /\ r.latest = next.latest
    BY <2>1, NoDigest DEF CacheRows
  <2>. HIDE DEF r
  <2>. QED BY <1>2, <2>2 DEF RealOffer, Dated, HasDate, r
<1>3. CASE raw /\ DigestEqual(old.snoozed, next.latest) /\ next.current # next.latest
  <2>1. r = [dated EXCEPT !.snoozed = old.snoozed, !.available = FALSE]
    BY <1>3 DEF ApplyTrackedUpdateState
  <2>. HIDE DEF dated
  <2>2. /\ r \in CacheRows /\ r.available = FALSE /\ r.first = dated.first /\ r.snoozed = old.snoozed
        /\ r.error = next.error /\ r.latest = next.latest /\ old.snoozed = next.latest
    BY <2>1, <1>1, <1>3 DEF CacheRows, DigestEqual
  <2>. HIDE DEF r
  <2>3. Dated(old) => r.first = r.latest
    BY <1>1, <2>2 DEF Dated
  <2>. QED BY <2>2, <2>3, <1>3 DEF RealOffer, Dated, HasDate, r
<1>4. CASE raw /\ ~(DigestEqual(old.snoozed, next.latest) /\ next.current # next.latest)
  <2>1. r = [dated EXCEPT !.snoozed = None, !.available = TRUE]
    BY <1>4 DEF ApplyTrackedUpdateState
  <2>. HIDE DEF dated
  <2>2. /\ r \in CacheRows /\ r.available = TRUE /\ r.first = dated.first /\ r.snoozed = None
        /\ r.error = next.error /\ r.latest = next.latest /\ r.current = next.current
    BY <2>1, <1>1, NoDigest DEF CacheRows
  <2>. HIDE DEF r
  <2>3. Dated(old) => r.first = r.latest
    BY <1>1, <2>2 DEF Dated
  <2>. QED BY <2>2, <2>3, <1>4 DEF RealOffer, Dated, HasDate, DigestEqual, r
<1>. QED BY <1>2, <1>3, <1>4

(* The row a check writes, with the registry's answer or without *)
LEMMA CheckedRows ==
  ASSUME NEW c \in Writers, c.late # None => c.cur # None
  PROVE  LET r == CheckedRow(c) IN
         /\ r \in CacheRows /\ RealOffer(r)
         /\ Dated(c.old) => Dated(r) /\ HasDate(r)
         /\ r.snoozed \in {None, c.old.snoozed}
         /\ c.old.snoozed # None /\ r.snoozed = None =>
              c.late \notin {None, c.old.snoozed} \/ c.cur = c.old.snoozed
<1> DEFINE next == [c.old EXCEPT !.current = IF c.cur = None THEN @ ELSE c.cur,
                                 !.latest = IF c.late = None THEN @ ELSE c.late,
                                 !.error = c.late = None]
           r == CheckedRow(c)
<1>1. c.old \in CacheRows /\ c.cur \in Images /\ c.late \in Images
  BY DEF Writers
<1>2. /\ next \in CacheRows
      /\ next.current = (IF c.cur = None THEN c.old.current ELSE c.cur)
      /\ next.latest = (IF c.late = None THEN c.old.latest ELSE c.late)
      /\ next.error = (c.late = None) /\ next.available = c.old.available
      /\ next.snoozed = c.old.snoozed /\ next.first = c.old.first
  BY <1>1 DEF CacheRows
<1>3. CASE c.late = None
  <2>1. r = next
    BY <1>3 DEF CheckedRow
  <2>. HIDE DEF next, r
  <2>. QED BY <2>1, <1>2, <1>3 DEF RealOffer, Dated, HasDate, r
<1>4. CASE c.late # None
  <2>1. r = ApplyTrackedUpdateState(c.old, next, c.cur # c.late)
    BY <1>4 DEF CheckedRow
  <2>. HIDE DEF next
  <2>2. next.current = c.cur /\ next.latest = c.late
    BY <1>2, <1>4
  <2> DEFINE raw == c.cur # c.late
  <2>3. raw \in BOOLEAN /\ (raw <=> next.current # next.latest)
    BY <2>2
  <2>. HIDE DEF raw
  <2>4. r = ApplyTrackedUpdateState(c.old, next, raw)
    BY <2>1 DEF raw
  <2>. HIDE DEF r
  <2>. QED BY <2>2, <2>3, <2>4, <1>1, <1>2, <1>4, AppliedRow DEF r
<1>. QED BY <1>3, <1>4

(* The row after an answer without digests keeps the snooze *)
LEMMA DigestlessRows ==
  ASSUME NEW old \in CacheRows, NEW cur \in Images, cur # None, NEW available \in BOOLEAN
  PROVE  LET r == DigestlessRow(old, cur, available) IN
         /\ r \in CacheRows /\ RealOffer(r) /\ r.snoozed = old.snoozed
         /\ Dated(old) => Dated(r) /\ HasDate(r)
<1> DEFINE late == IF old.snoozed = None THEN None ELSE IF old.latest # None THEN old.latest ELSE old.snoozed
           c == [NoRow EXCEPT !.first = old.first, !.snoozed = old.snoozed, !.available = available,
                              !.latest = IF old.snoozed = None THEN None
                                         ELSE IF old.latest # None THEN old.latest ELSE old.snoozed,
                              !.current = IF old.snoozed = None THEN None ELSE cur]
           r == DigestlessRow(old, cur, available)
<1>1. /\ c \in CacheRows /\ c.first = old.first /\ c.snoozed = old.snoozed
      /\ c.available = available /\ c.latest = late /\ c.error = FALSE
      /\ c.current = (IF old.snoozed = None THEN None ELSE cur)
  BY NoDigest DEF CacheRows, NoRow
<1>2. r = (IF CacheHasSnoozedUpdate(c) \/ CacheHasSnoozedUpdate(old)
           THEN [c EXCEPT !.available = FALSE] ELSE c)
  BY DEF DigestlessRow
<1>. HIDE DEF c
<1>3. /\ r \in CacheRows /\ r.first = old.first /\ r.snoozed = old.snoozed
      /\ r.latest = late /\ r.error = FALSE /\ r.current = c.current
      /\ r.available => ~CacheHasSnoozedUpdate(c) /\ ~CacheHasSnoozedUpdate(old)
  BY <1>1, <1>2 DEF CacheRows
<1>. HIDE DEF r
<1>4. RealOffer(r)
  BY <1>1, <1>3 DEF RealOffer, CacheHasSnoozedUpdate
<1>5. Dated(old) => Dated(r) /\ HasDate(r)
  BY <1>1, <1>3 DEF Dated, HasDate
<1>. QED BY <1>3, <1>4, <1>5 DEF r

(* A row with its error set offers nothing *)
LEMMA ErrorRows ==
  ASSUME NEW old \in CacheRows
  PROVE  LET r == [old EXCEPT !.error = TRUE] IN
         /\ r \in CacheRows /\ RealOffer(r) /\ r.snoozed = old.snoozed
         /\ Dated(old) => Dated(r) /\ HasDate(r)
BY DEF CacheRows, RealOffer, Dated, HasDate

(* The row after the snooze button *)
LEMMA SnoozedRows ==
  ASSUME NEW old \in CacheRows, old.latest # None
  PROVE  LET r == Snoozed(old) IN
         /\ r \in CacheRows /\ RealOffer(r)
         /\ Dated(old) => Dated(r) /\ HasDate(r)
<1> DEFINE r == Snoozed(old)
<1>1. /\ r \in CacheRows /\ r.snoozed = old.latest /\ r.available = FALSE
      /\ r.first = (IF old.first = None THEN old.latest ELSE old.first)
      /\ r.latest = old.latest
  BY DEF Snoozed, CacheRows
<1>. HIDE DEF r
<1>. QED BY <1>1 DEF RealOffer, Dated, HasDate, r

(* The row after a snooze is released *)
LEMMA ReleasedRows ==
  ASSUME NEW old \in CacheRows
  PROVE  LET r == ClearUpdateSnooze(old) IN
         /\ r \in CacheRows /\ RealOffer(r)
         /\ Dated(old) => Dated(r) /\ HasDate(r)
<1> DEFINE r == ClearUpdateSnooze(old)
           hidden == old.snoozed \notin {None, old.current} /\ old.latest \in {None, old.current}
           latest == IF hidden THEN old.snoozed ELSE old.latest
           available == latest \notin {None, old.current}
<1>1. r = [old EXCEPT !.latest = latest, !.snoozed = None, !.available = available,
                      !.first = IF available /\ old.first = None THEN latest ELSE old.first]
  BY DEF ClearUpdateSnooze, CacheRows
<1>2. latest \in Images /\ available \in BOOLEAN
  BY DEF CacheRows
<1>. HIDE DEF available, latest
<1>3. /\ r \in CacheRows /\ r.snoozed = None /\ r.available = available
      /\ r.first = (IF available /\ old.first = None THEN latest ELSE old.first)
      /\ r.latest = latest /\ r.current = old.current
  BY <1>1, <1>2, NoDigest DEF CacheRows
<1>. HIDE DEF r
<1>4. RealOffer(r)
  BY <1>3 DEF RealOffer, available
<1>5. Dated(old) => Dated(r) /\ HasDate(r)
  BY <1>3 DEF Dated, HasDate, available, latest
<1>. QED BY <1>3, <1>4, <1>5 DEF r

(* The row after a rollback holds a digest back *)
LEMMA HeldRows ==
  ASSUME NEW old \in CacheRows, NEW late \in Images, late # None
  PROVE  LET r == [old EXCEPT !.snoozed = late, !.available = @ /\ old.latest # late] IN
         r \in CacheRows /\ RealOffer(r)
BY DEF CacheRows, RealOffer

-----------------------------------------------------------------------------
(* Writers *)

(* Who becomes an honest writer leaves the others as they were *)
LEMMA Becoming ==
  ASSUME TrackingInv, NEW p \in Procs, NEW to \in Writers, Honest(to),
         Become(p, to), undone' = undone
  PROVE  proc' \in [Procs -> Writers] /\ \A q \in Procs : Honest(proc[q])'
<1>1. proc \in [Procs -> Writers] /\ \A q \in Procs : Honest(proc[q])
  BY DEF TrackingInv, TrackingTypes
<1>2. proc' = [proc EXCEPT ![p] = to]
  BY DEF Become
<1>3. \A q \in Procs : proc'[q] = IF q = p THEN to ELSE proc[q]
  BY <1>1, <1>2
<1>4. \A q \in Procs : Honest(proc'[q])
  BY <1>1, <1>3
<1>. QED BY <1>1, <1>2, <1>4 DEF Honest

(* An idle process and one that has inspected the container are honest *)
LEMMA Starting ==
  ASSUME TrackingInv
  PROVE  /\ Idle \in Writers /\ Honest(Idle)
         /\ AskWorker \in Writers /\ Honest(AskWorker)
<1>1. Honest(Idle)
  BY IdleTyped DEF Honest
<1>2. /\ AskWorker \in Writers /\ AskWorker.op = "check" /\ AskWorker.step = "worker"
      /\ AskWorker.old = Idle.old
  BY IdleTyped DEF AskWorker, Writers
<1>3. Honest(AskWorker)
  BY <1>2, IdleTyped DEF Honest, Learnt
<1>. QED BY <1>1, <1>2, <1>3, IdleTyped

LEMMA Inspecting ==
  ASSUME NEW op \in {"check", "info"}, NEW image \in Digests
  PROVE  /\ Checking(op, image) \in Writers /\ Learnt(Checking(op, image))
         /\ Honest(Checking(op, image))
<1> DEFINE c == Checking(op, image)
<1>1. /\ c \in Writers /\ c.op = op /\ c.step = "local" /\ c.cur = image
      /\ c.late = None /\ c.old = NoRow
  BY IdleTyped, NoDigest DEF Checking, Writers
<1>. HIDE DEF c
<1>2. Learnt(c)
  BY <1>1, NoDigest DEF Learnt
<1>3. Honest(c)
  BY <1>1, <1>2, NoRowTyped DEF Honest
<1>. QED BY <1>1, <1>2, <1>3 DEF c

(* What follows a finished check is honest *)
LEMMA Following ==
  ASSUME TrackingInv, NEW p \in Procs, NEW item \in CacheRows
  PROVE  /\ After(p, item) \in Writers /\ Honest(After(p, item))
         /\ After(p, item).step \in {"none", "choose"}
<1> DEFINE admit == [Idle EXCEPT !.op = "admit"]
           hold == [Idle EXCEPT !.op = "hold", !.step = "choose"]
           t == After(p, item)
<1>1. t = admit \/ (t = hold /\ job.state = "undone") \/ t = Idle
  BY DEF After
<1>2. admit \in Writers /\ admit.op = "admit" /\ admit.step = "none" /\ admit.old = Idle.old
  BY IdleTyped DEF Writers
<1>3. hold \in Writers /\ hold.op = "hold" /\ hold.step = "choose" /\ hold.old = Idle.old
  BY IdleTyped DEF Writers
<1>4. job.state = "undone" => undone # 0
  BY DEF TrackingInv
<1>. HIDE DEF admit, hold, t
<1>5. Honest(admit)
  BY <1>2, IdleTyped DEF Honest, Learnt
<1>6. job.state = "undone" => Honest(hold)
  BY <1>3, <1>4, IdleTyped DEF Honest, Learnt
<1>. QED BY <1>1, <1>2, <1>3, <1>5, <1>6, IdleTyped, Starting DEF t

(* The rows that are written are real offers, and dated as their copies *)
LEMMA WrittenRow ==
  ASSUME TrackingInv, NEW old \in CacheRows, undone = 0 => Dated(old), row' \in CacheRows,
         RealOffer(row'), Dated(old) => Dated(row') /\ HasDate(row'), undone' = undone
  PROVE  RowInv'
BY DEF RowInv

(* A settled job keeps what it remembers *)
LEMMA Settling ==
  ASSUME TrackingInv, NEW p \in Procs, SettleJob(p), undone' = undone
  PROVE  /\ job' \in TrackedJobs /\ (undone' = 0 => job'.state # "undone")
         /\ job'.state = "verifying" => job'.prev # None
         /\ job'.prev = None <=> job'.digest = None
<1>1. job \in TrackedJobs
  BY DEF TrackingInv, TrackingTypes
<1>2. CASE job' = job
  BY <1>2, <1>1 DEF TrackingInv
<1>3. CASE job' = [job EXCEPT !.state = "none"]
  <2>1. job' \in TrackedJobs /\ job'.state = "none" /\ job'.prev = job.prev /\ job'.digest = job.digest
    BY <1>1, <1>3 DEF TrackedJobs
  <2>. QED BY <2>1 DEF TrackingInv
<1>. QED BY <1>2, <1>3 DEF SettleJob

(* The invariant from its parts *)
LEMMA RowKept ==
  ASSUME TrackingInv, tag' \in Digests, running' \in Digests, mode' = mode, undone' = undone,
         row' = row, job' = job, proc' \in [Procs -> Writers], \A q \in Procs : Honest(proc[q])'
  PROVE  TrackingInv'
BY DEF TrackingInv, TrackingTypes, RowInv, RealOffer, Dated, HasDate

-----------------------------------------------------------------------------
(* The steps of a check *)

(* What a check learns of the container, of the registry and of the worker  *)
(* it keeps beside the copy of the row it started with                      *)
LEMMA LocalStep == ASSUME TrackingInv, NEW p \in Procs, Local(p) PROVE TrackingInv'
<1> DEFINE c == proc[p]
           known == [proc[p] EXCEPT !.step = "remote", !.old = row]
           failed == [proc[p] EXCEPT !.step = "save", !.old = row, !.cur = None]
<1>1. /\ c \in Writers /\ Honest(c) /\ c.step = "local" /\ running \in Digests /\ tag \in Digests
      /\ row \in CacheRows /\ (undone = 0 => Dated(row))
  BY DEF TrackingInv, TrackingTypes, RowInv, Local, AtStep
<1>2. UNCHANGED <<tag, mode, running, row, job, undone>>
  BY DEF Local, world
<1>3. CASE Become(p, known)
  <2>1. /\ known \in Writers /\ known.op = c.op /\ known.step = "remote" /\ known.old = row
        /\ known.cur = c.cur /\ known.late = c.late
    BY <1>1 DEF Writers
  <2>. HIDE DEF known
  <2>2. Honest(known)
    BY <1>1, <2>1 DEF Honest, Learnt
  <2>. QED BY <1>1, <1>2, <1>3, <2>1, <2>2, Becoming, RowKept
<1>4. CASE Become(p, failed)
  <2>1. /\ failed \in Writers /\ failed.op = c.op /\ failed.step = "save" /\ failed.old = row
        /\ failed.late = c.late
    BY <1>1, NoDigest DEF Writers
  <2>. HIDE DEF failed
  <2>2. Honest(failed)
    BY <1>1, <2>1 DEF Honest, Learnt
  <2>. QED BY <1>1, <1>2, <1>4, <2>1, <2>2, Becoming, RowKept
<1>5. CASE Become(p, AskWorker)
  <2>1. AskWorker \in Writers /\ Honest(AskWorker)
    BY Starting
  <2>. QED BY <1>1, <1>2, <1>5, <2>1, Becoming, RowKept
<1>. QED BY <1>3, <1>4, <1>5 DEF Local

LEMMA RemoteStep == ASSUME TrackingInv, NEW p \in Procs, Remote(p) PROVE TrackingInv'
<1> DEFINE c == proc[p]
           known == [proc[p] EXCEPT !.step = "save", !.late = tag]
           failed == [proc[p] EXCEPT !.step = "save"]
<1>1. c \in Writers /\ Honest(c) /\ c.step = "remote" /\ running \in Digests /\ tag \in Digests
  BY DEF TrackingInv, TrackingTypes, Remote, AtStep
<1>2. UNCHANGED <<tag, mode, running, row, job, undone>>
  BY DEF Remote, world
<1>3. CASE Become(p, known)
  <2>1. /\ known \in Writers /\ known.op = c.op /\ known.step = "save" /\ known.old = c.old
        /\ known.cur = c.cur /\ known.late = tag
    BY <1>1, NoDigest DEF Writers
  <2>. HIDE DEF known
  <2>2. Honest(known)
    BY <1>1, <2>1 DEF Honest, Learnt
  <2>. QED BY <1>1, <1>2, <1>3, <2>1, <2>2, Becoming, RowKept
<1>4. CASE Become(p, failed)
  <2>1. /\ failed \in Writers /\ failed.op = c.op /\ failed.step = "save" /\ failed.old = c.old
        /\ failed.late = c.late
    BY <1>1 DEF Writers
  <2>. HIDE DEF failed
  <2>2. Honest(failed)
    BY <1>1, <2>1 DEF Honest, Learnt
  <2>. QED BY <1>1, <1>2, <1>4, <2>1, <2>2, Becoming, RowKept
<1>. QED BY <1>3, <1>4 DEF Remote

(* A step that writes the row of a finished check *)
LEMMA Finishing ==
  ASSUME TrackingInv, NEW p \in Procs, NEW old \in CacheRows, undone = 0 => Dated(old),
         row' \in CacheRows, RealOffer(row'), Dated(old) => Dated(row') /\ HasDate(row'),
         \/ Become(p, AskWorker) /\ UNCHANGED job
         \/ Become(p, After(p, row')) /\ SettleJob(p),
         UNCHANGED <<tag, mode, running, undone>>
  PROVE  TrackingInv'
<1>1. tag \in Digests /\ running \in Digests /\ mode \in {"auto", "manual", "ignore"} /\ undone \in Nat
  BY DEF TrackingInv, TrackingTypes
<1>2. RowInv'
  BY WrittenRow
<1>3. proc' \in [Procs -> Writers] /\ \A q \in Procs : Honest(proc[q])'
  <2>1. CASE Become(p, AskWorker)
    BY <2>1, Starting, Becoming
  <2>2. CASE Become(p, After(p, row'))
    BY <2>2, Following, Becoming
  <2>. QED BY <2>1, <2>2
<1>4. /\ job' \in TrackedJobs /\ (undone' = 0 => job'.state # "undone")
      /\ job'.state = "verifying" => job'.prev # None
      /\ job'.prev = None <=> job'.digest = None
  <2>1. CASE UNCHANGED job
    BY <2>1 DEF TrackingInv, TrackingTypes
  <2>. QED BY <2>1, Settling
<1>. QED BY <1>1, <1>2, <1>3, <1>4 DEF TrackingInv, TrackingTypes

(* Every row a check writes is a real offer, and as dated as its copy       *)
LEMMA SaveStep == ASSUME TrackingInv, NEW p \in Procs, Save(p) PROVE TrackingInv'
<1> DEFINE c == proc[p]
<1>1. c \in Writers /\ Honest(c) /\ c.step = "save"
  BY DEF TrackingInv, TrackingTypes, Save, AtStep
<1>2. UNCHANGED <<tag, mode, running, undone>>
  BY DEF Save, world, used
<1>3. c.old \in CacheRows /\ (c.late # None => c.cur # None) /\ (undone = 0 => Dated(c.old))
  BY <1>1 DEF Writers, Honest, Learnt
<1>4. row' = CheckedRow(c)
  BY DEF Save
<1>5. row' \in CacheRows /\ RealOffer(row') /\ (Dated(c.old) => Dated(row') /\ HasDate(row'))
  BY <1>1, <1>3, <1>4, CheckedRows
<1>6. \/ Become(p, AskWorker) /\ UNCHANGED job
      \/ Become(p, After(p, row')) /\ SettleJob(p)
  BY DEF Save
<1>. QED BY <1>2, <1>3, <1>5, <1>6, Finishing

LEMMA WorkerStep == ASSUME TrackingInv, NEW p \in Procs, Worker(p) PROVE TrackingInv'
<1> DEFINE c == proc[p]
           to(a) == [proc[p] EXCEPT !.step = "reread", !.cur = a.cur, !.late = a.late,
                                    !.answer = a.answer]
<1>1. c \in Writers /\ Honest(c) /\ c.step = "worker" /\ running \in Digests /\ tag \in Digests
  BY DEF TrackingInv, TrackingTypes, Worker, AtStep
<1>2. UNCHANGED <<tag, mode, running, row, job, undone>>
  BY DEF Worker, world, used
<1>3. PICK a \in Answers : Become(p, to(a))
  BY DEF Worker
<1>4. /\ a.cur \in Images /\ a.late \in Images
      /\ a.answer \in {"full", "bare", "item error", "error"}
      /\ a.answer = "full" => a.cur # None /\ a.late # None
      /\ a.answer \in {"bare", "item error"} => a.cur # None
  <2>1. running \in Images /\ tag \in Images /\ running # None /\ tag # None /\ None \in Images
    BY <1>1, NoDigest
  <2>2. CASE a \in {[cur |-> cur, late |-> tag, answer |-> "full"] : cur \in {running, tag}}
    <3>1. PICK cur \in {running, tag} : a = [cur |-> cur, late |-> tag, answer |-> "full"]
      BY <2>2
    <3>. QED BY <3>1, <2>1
  <2>3. CASE a = [cur |-> running, late |-> tag, answer |-> "bare"]
    BY <2>1, <2>3
  <2>4. CASE a = [cur |-> running, late |-> None, answer |-> "item error"]
    BY <2>1, <2>4
  <2>5. CASE a = [cur |-> None, late |-> None, answer |-> "error"]
    BY <2>1, <2>5
  <2>. QED BY <2>2, <2>3, <2>4, <2>5 DEF Answers
<1>5. /\ to(a) \in Writers /\ to(a).op = c.op /\ to(a).step = "reread" /\ to(a).old = c.old
      /\ to(a).cur = a.cur /\ to(a).late = a.late /\ to(a).answer = a.answer
  BY <1>1, <1>4 DEF Writers
<1>. HIDE DEF to
<1>6. Honest(to(a))
  BY <1>1, <1>4, <1>5 DEF Honest, Learnt
<1>. QED BY <1>1, <1>2, <1>3, <1>5, <1>6, Becoming, RowKept

LEMMA RereadStep == ASSUME TrackingInv, NEW p \in Procs, Reread(p) PROVE TrackingInv'
<1> DEFINE c == proc[p]
           to == [proc[p] EXCEPT !.step = "resave", !.old = row]
<1>1. /\ c \in Writers /\ Honest(c) /\ c.step = "reread" /\ running \in Digests /\ tag \in Digests
      /\ row \in CacheRows /\ (undone = 0 => Dated(row))
  BY DEF TrackingInv, TrackingTypes, RowInv, Reread, AtStep
<1>2. UNCHANGED <<tag, mode, running, row, job, undone>> /\ Become(p, to)
  BY DEF Reread, world, used
<1>3. /\ to \in Writers /\ to.op = c.op /\ to.step = "resave" /\ to.old = row
      /\ to.cur = c.cur /\ to.late = c.late /\ to.answer = c.answer
  BY <1>1 DEF Writers
<1>. HIDE DEF to
<1>4. Honest(to)
  BY <1>1, <1>3 DEF Honest, Learnt
<1>. QED BY <1>1, <1>2, <1>3, <1>4, Becoming, RowKept
(* The row that the worker's answer leaves, whatever the answer *)
LEMMA ResavedRow ==
  ASSUME TrackingInv, NEW p \in Procs, Resave(p)
  PROVE  LET c == proc[p] IN
         /\ c \in Writers /\ c.step = "resave" /\ c.old \in CacheRows /\ (undone = 0 => Dated(c.old))
         /\ row' \in CacheRows /\ RealOffer(row')
         /\ Dated(c.old) => Dated(row') /\ HasDate(row')
         /\ row'.snoozed \in {None, c.old.snoozed}
         /\ c.old.snoozed # None /\ row'.snoozed = None =>
              c.late \notin {None, c.old.snoozed} \/ c.cur = c.old.snoozed
<1> DEFINE c == proc[p]
           full == [c.old EXCEPT !.current = c.cur, !.latest = c.late, !.error = FALSE]
           raw == c.cur # c.late
<1>1. c \in Writers /\ Honest(c) /\ c.step = "resave"
  BY DEF TrackingInv, TrackingTypes, Resave, AtStep
<1>2. /\ c.old \in CacheRows /\ c.cur \in Images /\ c.late \in Images
      /\ c.answer = "full" => c.cur # None /\ c.late # None
      /\ c.answer \in {"bare", "item error"} => c.cur # None
      /\ undone = 0 => Dated(c.old)
  BY <1>1 DEF Writers, Honest, Learnt
<1>3. CASE c.answer = "full"
  <2>1. row' = ApplyTrackedUpdateState(c.old, full, raw)
    BY <1>3 DEF Resave
  <2>2. full \in CacheRows /\ full.current = c.cur /\ full.latest = c.late
    BY <1>2 DEF CacheRows
  <2>. HIDE DEF full
  <2>3. raw \in BOOLEAN /\ (raw <=> full.current # full.latest)
    BY <2>2
  <2>. HIDE DEF raw
  <2>. QED BY <1>1, <1>2, <1>3, <2>1, <2>2, <2>3, AppliedRow
<1>4. CASE c.answer = "bare"
  <2>1. row' = DigestlessRow(c.old, c.cur, raw) /\ raw \in BOOLEAN
    BY <1>4 DEF Resave
  <2>. HIDE DEF raw
  <2>. QED BY <1>1, <1>2, <1>4, <2>1, DigestlessRows
<1>5. CASE c.answer = "item error"
  <2>1. row' = [DigestlessRow(c.old, c.cur, FALSE) EXCEPT !.error = TRUE]
    BY <1>5 DEF Resave
  <2>2. /\ DigestlessRow(c.old, c.cur, FALSE) \in CacheRows
        /\ DigestlessRow(c.old, c.cur, FALSE).snoozed = c.old.snoozed
        /\ Dated(c.old) => Dated(DigestlessRow(c.old, c.cur, FALSE))
    BY <1>2, <1>5, DigestlessRows
  <2>. QED BY <1>1, <1>2, <2>1, <2>2, ErrorRows
<1>6. CASE c.answer \notin {"full", "bare", "item error"}
  <2>1. row' = [c.old EXCEPT !.error = TRUE]
    BY <1>6 DEF Resave, Unavailable
  <2>. QED BY <1>1, <1>2, <2>1, ErrorRows
<1>. QED BY <1>3, <1>4, <1>5, <1>6

LEMMA ResaveStep == ASSUME TrackingInv, NEW p \in Procs, Resave(p) PROVE TrackingInv'
<1>1. UNCHANGED <<tag, mode, running, undone>> /\ Become(p, After(p, row')) /\ SettleJob(p)
  BY DEF Resave, world, used
<1>. QED BY <1>1, ResavedRow, Finishing

LEMMA CheckStep == ASSUME TrackingInv, NEW p \in Procs, RunCheck(p) PROVE TrackingInv'
BY LocalStep, RemoteStep, SaveStep, WorkerStep, RereadStep, ResaveStep DEF RunCheck

-----------------------------------------------------------------------------
(* The browser *)

(* The browser reads the row; a snooze is only asked for what is offered    *)
LEMMA BrowserStep == ASSUME TrackingInv, Browser PROVE TrackingInv'
<1>1. tag \in Digests /\ running \in Digests /\ row \in CacheRows /\ (undone = 0 => Dated(row))
  BY DEF TrackingInv, TrackingTypes, RowInv
<1>2. UNCHANGED <<tag, mode, running, undone>> /\ row' = row
  BY DEF Browser, ManualCheck, RefreshExcludedImageState, ReadForSnooze, ManualUpdate, Click, world
<1>3. CASE ManualCheck \/ RefreshExcludedImageState
  <2>1. PICK op \in {"check", "info"} : Become("tab", Checking(op, running)) /\ job' = job
    BY <1>3 DEF ManualCheck, RefreshExcludedImageState
  <2>2. Checking(op, running) \in Writers /\ Honest(Checking(op, running)) /\ "tab" \in Procs
    BY <1>1, Inspecting DEF Procs
  <2>. HIDE DEF Checking
  <2>. QED BY <1>1, <1>2, <2>1, <2>2, Becoming, RowKept
<1>4. CASE ReadForSnooze
  <2>. DEFINE snooze == [Idle EXCEPT !.op = "snooze", !.step = "save", !.old = row]
              unsnooze == [Idle EXCEPT !.op = "unsnooze", !.step = "save", !.old = row]
  <2>1. /\ job' = job
        /\ \/ Become("tab", snooze) /\ row.latest \notin {None, row.current}
           \/ Become("tab", unsnooze)
    BY <1>4 DEF ReadForSnooze
  <2>2. /\ snooze \in Writers /\ snooze.op = "snooze" /\ snooze.step = "save" /\ snooze.old = row
        /\ snooze.late = None
    BY <1>1, IdleTyped DEF Writers
  <2>3. /\ unsnooze \in Writers /\ unsnooze.op = "unsnooze" /\ unsnooze.step = "save"
        /\ unsnooze.old = row /\ unsnooze.late = None
    BY <1>1, IdleTyped DEF Writers
  <2>. HIDE DEF snooze, unsnooze
  <2>4. row.latest \notin {None, row.current} => Honest(snooze)
    BY <1>1, <2>2 DEF Honest, Learnt
  <2>5. Honest(unsnooze)
    BY <1>1, <2>3 DEF Honest, Learnt
  <2>6. "tab" \in Procs
    BY DEF Procs
  <2>. QED BY <1>1, <1>2, <2>1, <2>2, <2>3, <2>4, <2>5, <2>6, Becoming, RowKept
<1>5. CASE ManualUpdate
  <2>1. job' = [job EXCEPT !.state = "queued"] /\ proc' = proc
    BY <1>5 DEF ManualUpdate, EnqueueUpdate
  <2>2. job \in TrackedJobs
    BY DEF TrackingInv, TrackingTypes
  <2>3. job' \in TrackedJobs /\ job'.state = "queued" /\ job'.prev = job.prev /\ job'.digest = job.digest
    BY <2>1, <2>2 DEF TrackedJobs
  <2>. QED BY <1>1, <1>2, <2>1, <2>3 DEF TrackingInv, TrackingTypes, RowInv, Honest
<1>. QED BY <1>3, <1>4, <1>5 DEF Browser

(* The snooze button writes back the row it read                            *)
LEMMA SaveSnoozeStep == ASSUME TrackingInv, SaveSnooze PROVE TrackingInv'
<1> DEFINE c == proc["tab"]
<1>1. c \in Writers /\ Honest(c) /\ c.op \in {"snooze", "unsnooze"} /\ "tab" \in Procs
  BY DEF TrackingInv, TrackingTypes, SaveSnooze, Procs
<1>2. UNCHANGED <<tag, mode, running, undone>> /\ Become("tab", Idle)
  BY DEF SaveSnooze, world, used
<1>3. /\ c.old \in CacheRows /\ (undone = 0 => Dated(c.old))
      /\ c.op = "snooze" => c.old.latest # None
  BY <1>1 DEF Writers, Honest, Learnt
<1>4. row' \in CacheRows /\ RealOffer(row') /\ (Dated(c.old) => Dated(row') /\ HasDate(row'))
  <2>1. CASE c.op = "snooze"
    BY <2>1, <1>3, SnoozedRows DEF SaveSnooze
  <2>2. CASE c.op # "snooze"
    BY <2>2, <1>3, ReleasedRows DEF SaveSnooze
  <2>. QED BY <2>1, <2>2
<1>5. RowInv'
  BY <1>2, <1>3, <1>4, WrittenRow
<1>6. proc' \in [Procs -> Writers] /\ \A q \in Procs : Honest(proc[q])'
  BY <1>1, <1>2, Starting, Becoming
<1>7. /\ job \in TrackedJobs /\ tag \in Digests /\ running \in Digests /\ undone \in Nat
      /\ mode \in {"auto", "manual", "ignore"}
  BY DEF TrackingInv, TrackingTypes
<1>8. job' \in TrackedJobs /\ job'.state = job.state /\ job'.prev = job.prev /\ job'.digest = job.digest
  BY <1>7 DEF TrackedJobs, SaveSnooze
<1>. QED BY <1>2, <1>4, <1>5, <1>6, <1>7, <1>8 DEF TrackingInv, TrackingTypes

-----------------------------------------------------------------------------
(* The update job *)

(* Updates and rollbacks; holding back needs a rollback before it            *)
LEMMA UpdateActionStep == ASSUME TrackingInv, Update PROVE TrackingInv'
<1>1. /\ tag \in Digests /\ running \in Digests /\ row \in CacheRows /\ (undone = 0 => Dated(row))
      /\ job \in TrackedJobs /\ "job" \in Procs /\ undone \in Nat /\ mode \in {"auto", "manual", "ignore"}
      /\ proc["job"] \in Writers /\ Honest(proc["job"])
  BY DEF TrackingInv, TrackingTypes, RowInv, Procs
<1>2. CASE UpdateGivesUp
  <2>1. job' = [job EXCEPT !.state = "none"] /\ UNCHANGED <<tag, mode, running, row, proc, undone>>
    BY <1>2 DEF UpdateGivesUp, world
  <2>2. job' \in TrackedJobs /\ job'.state = "none" /\ job'.prev = job.prev /\ job'.digest = job.digest
    BY <1>1, <2>1 DEF TrackedJobs
  <2>. QED BY <1>1, <2>1, <2>2 DEF TrackingInv, TrackingTypes, RowInv, Honest
<1>3. CASE Recreate
  <2>1. /\ job' = [state |-> "verifying", prev |-> running, digest |-> tag, held |-> FALSE]
        /\ running' = tag /\ UNCHANGED <<tag, mode, row, proc, undone>>
    BY <1>3 DEF Recreate, world, used
  <2>2. /\ job' \in TrackedJobs /\ job'.state = "verifying" /\ job'.prev = running /\ job'.digest = tag
    BY <1>1, <2>1, NoDigest DEF TrackedJobs
  <2>. QED BY <1>1, <2>1, <2>2, NoDigest DEF TrackingInv, TrackingTypes, RowInv, Honest
<1>4. CASE VerifyUpdated
  <2>1. /\ job' = [job EXCEPT !.state = "refresh"] /\ Become("job", Checking("check", running))
        /\ UNCHANGED <<tag, mode, running, row, undone>>
    BY <1>4 DEF VerifyUpdated, world, used
  <2>2. job' \in TrackedJobs /\ job'.state = "refresh" /\ job'.prev = job.prev /\ job'.digest = job.digest
    BY <1>1, <2>1 DEF TrackedJobs
  <2>3. proc' \in [Procs -> Writers] /\ \A q \in Procs : Honest(proc[q])'
    BY <1>1, <2>1, Inspecting, Becoming
  <2>. QED BY <1>1, <2>1, <2>2, <2>3 DEF TrackingInv, TrackingTypes, RowInv
<1>5. CASE Rollback
  <2>1. /\ job' = [job EXCEPT !.state = "undone"] /\ Become("job", Checking("check", job.prev))
        /\ running' = job.prev /\ undone' = undone + 1 /\ UNCHANGED <<tag, mode, row>>
    BY <1>5 DEF Rollback, world
  <2>2. job' \in TrackedJobs /\ job'.state = "undone" /\ job'.prev = job.prev /\ job'.digest = job.digest
    BY <1>1, <2>1 DEF TrackedJobs
  <2>3. job.prev # None /\ undone' # 0 /\ undone' \in Nat
    BY <1>1, <1>5, <2>1 DEF Rollback, TrackingInv
  <2>4. running' \in Digests
    BY <1>1, <2>1, <2>3 DEF TrackedJobs, Images
  <2>5. /\ proc' = [proc EXCEPT !["job"] = Checking("check", job.prev)] /\ proc \in [Procs -> Writers]
        /\ Checking("check", job.prev) \in Writers /\ Learnt(Checking("check", job.prev))
    BY <2>1, <2>4, Inspecting DEF Become, TrackingInv, TrackingTypes
  <2>6. proc' \in [Procs -> Writers] /\ \A q \in Procs : Learnt(proc'[q])
    BY <1>1, <2>5 DEF TrackingInv, Honest
  <2>7. \A q \in Procs : Honest(proc[q])'
    BY <2>3, <2>6 DEF Honest
  <2>. QED BY <1>1, <2>1, <2>2, <2>3, <2>4, <2>6, <2>7 DEF TrackingInv, TrackingTypes, RowInv
<1>6. CASE ChooseSnooze
  <2>1. UNCHANGED <<tag, mode, running, row, undone>> /\ proc["job"].step = "choose"
    BY <1>6 DEF ChooseSnooze, world, used, AtStep
  <2>2. CASE Candidate = None
    <3>1. job' = [job EXCEPT !.state = "none"] /\ Become("job", Idle)
      BY <1>6, <2>2 DEF ChooseSnooze
    <3>2. job' \in TrackedJobs /\ job'.state = "none" /\ job'.prev = job.prev /\ job'.digest = job.digest
      BY <1>1, <3>1 DEF TrackedJobs
    <3>3. proc' \in [Procs -> Writers] /\ \A q \in Procs : Honest(proc[q])'
      BY <1>1, <2>1, <3>1, Starting, Becoming
    <3>. QED BY <1>1, <2>1, <3>2, <3>3 DEF TrackingInv, TrackingTypes, RowInv
  <2>3. CASE Candidate # None
    <3>. DEFINE to == [proc["job"] EXCEPT !.step = "read", !.late = Candidate]
    <3>1. job' = job /\ Become("job", to)
      BY <1>6, <2>3 DEF ChooseSnooze
    <3>2. Candidate \in Images
      BY <1>1, NoDigest DEF Candidate, CacheRows, TrackedJobs
    <3>3. /\ to \in Writers /\ to.op = proc["job"].op /\ to.step = "read"
          /\ to.old = proc["job"].old /\ to.late = Candidate
      BY <1>1, <3>2 DEF Writers
    <3>. HIDE DEF to
    <3>4. Honest(to)
      BY <1>1, <2>1, <2>3, <3>3 DEF Honest, Learnt
    <3>. QED BY <1>1, <2>1, <3>1, <3>3, <3>4, Becoming, RowKept
  <2>. QED BY <2>2, <2>3
<1>7. CASE ReadForHold
  <2>. DEFINE to == [proc["job"] EXCEPT !.step = "hold", !.old = row]
  <2>1. /\ UNCHANGED <<tag, mode, running, row, job, undone>> /\ proc["job"].step = "read"
        /\ Become("job", to)
    BY <1>7 DEF ReadForHold, world, used, AtStep
  <2>2. /\ to \in Writers /\ to.op = proc["job"].op /\ to.step = "hold"
        /\ to.old = row /\ to.late = proc["job"].late
    BY <1>1 DEF Writers
  <2>. HIDE DEF to
  <2>3. Honest(to)
    BY <1>1, <2>1, <2>2 DEF Honest, Learnt
  <2>. QED BY <1>1, <2>1, <2>2, <2>3, Becoming, RowKept
<1>8. CASE SaveHold
  <2>. DEFINE c == proc["job"]
  <2>1. /\ UNCHANGED <<tag, mode, running, undone>> /\ c.step = "hold" /\ Become("job", Idle)
        /\ row' = [c.old EXCEPT !.snoozed = c.late, !.available = @ /\ c.old.latest # c.late]
        /\ job' = [job EXCEPT !.state = "none", !.held = TRUE]
    BY <1>8 DEF SaveHold, world, used, AtStep
  <2>2. c.late # None /\ c.op = "hold" /\ c.late \in Images /\ c.old \in CacheRows /\ undone # 0
    BY <1>1, <2>1 DEF Honest, Learnt, Writers
  <2>3. row' \in CacheRows /\ RealOffer(row')
    BY <2>1, <2>2, HeldRows
  <2>4. job' \in TrackedJobs /\ job'.state = "none" /\ job'.prev = job.prev /\ job'.digest = job.digest
    BY <1>1, <2>1 DEF TrackedJobs
  <2>5. proc' \in [Procs -> Writers] /\ \A q \in Procs : Honest(proc[q])'
    BY <1>1, <2>1, Starting, Becoming
  <2>. QED BY <1>1, <2>1, <2>2, <2>3, <2>4, <2>5 DEF TrackingInv, TrackingTypes, RowInv
<1>9. CASE RollbackFails
  <2>1. /\ job' = [job EXCEPT !.state = "stuck"] /\ running' \in {running, job.prev}
        /\ job.state = "verifying" /\ UNCHANGED <<tag, mode, row, proc, undone>>
    BY <1>9 DEF RollbackFails, world
  <2>2. job' \in TrackedJobs /\ job'.state = "stuck" /\ job'.prev = job.prev /\ job'.digest = job.digest
    BY <1>1, <2>1 DEF TrackedJobs
  <2>3. running' \in Digests
    BY <1>1, <2>1 DEF TrackingInv, TrackedJobs, Images
  <2>. QED BY <1>1, <2>1, <2>2, <2>3 DEF TrackingInv, TrackingTypes, RowInv, Honest
<1>. QED BY <1>2, <1>3, <1>4, <1>5, <1>6, <1>7, <1>8, <1>9 DEF Update

-----------------------------------------------------------------------------
(* Automations *)

(* The cron loop starts a check or an update and leaves the row alone        *)
LEMMA AutomationStep == ASSUME TrackingInv, Automation PROVE TrackingInv'
<1>1. /\ tag \in Digests /\ running \in Digests /\ job \in TrackedJobs /\ "scan" \in Procs
      /\ UNCHANGED <<tag, mode, running, row, undone>>
  BY DEF TrackingInv, TrackingTypes, Procs, Automation, RunAutomation, InstallScanned, world, used
<1>2. CASE RunAutomation
  <2>1. PICK op \in {"check", "info"} : Become("scan", Checking(op, running)) /\ job' = job
    BY <1>2 DEF RunAutomation
  <2>2. Checking(op, running) \in Writers /\ Honest(Checking(op, running))
    BY <1>1, Inspecting
  <2>. HIDE DEF Checking
  <2>. QED BY <1>1, <2>1, <2>2, Becoming, RowKept
<1>3. CASE InstallScanned
  <2>1. /\ Become("scan", Idle)
        /\ job' = job \/ job' = [job EXCEPT !.state = "queued"]
    BY <1>3 DEF InstallScanned, EnqueueUpdate
  <2>2. proc' \in [Procs -> Writers] /\ \A q \in Procs : Honest(proc[q])'
    BY <1>1, <2>1, Starting, Becoming
  <2>3. CASE job' = job
    BY <1>1, <2>2, <2>3, RowKept
  <2>4. CASE job' = [job EXCEPT !.state = "queued"]
    <3>1. job' \in TrackedJobs /\ job'.state = "queued" /\ job'.prev = job.prev /\ job'.digest = job.digest
      BY <1>1, <2>4 DEF TrackedJobs
    <3>. QED BY <1>1, <2>2, <3>1 DEF TrackingInv, TrackingTypes, RowInv
  <2>. QED BY <2>1, <2>3, <2>4
<1>. QED BY <1>2, <1>3 DEF Automation

LEMMA WorldStep == ASSUME TrackingInv, MinutePasses \/ Publish PROVE TrackingInv'
<1>1. job \in TrackedJobs /\ tag \in Digests
  BY DEF TrackingInv, TrackingTypes
<1>2. CASE MinutePasses
  BY <1>2 DEF MinutePasses, world, used, TrackingInv, TrackingTypes, RowInv, Honest
<1>3. CASE Publish
  <2>1. /\ tag' = tag + 1 /\ tag < MaxDigest /\ job' = [job EXCEPT !.held = FALSE]
        /\ UNCHANGED <<mode, running, row, proc, undone>>
    BY <1>3 DEF Publish, used
  <2>2. tag' \in Digests
    BY <1>1, <2>1, TrackingAssumption DEF Digests
  <2>3. job' \in TrackedJobs /\ job'.state = job.state /\ job'.prev = job.prev /\ job'.digest = job.digest
    BY <1>1, <2>1 DEF TrackedJobs
  <2>. QED BY <2>1, <2>2, <2>3 DEF TrackingInv, TrackingTypes, RowInv, Honest
<1>. QED BY <1>2, <1>3

(* The invariant holds at the start and after every step                     *)
LEMMA TrackingInvInit == TrackingInit => TrackingInv
<1>. SUFFICES ASSUME TrackingInit PROVE TrackingInv
  OBVIOUS
<1>1. tag \in Digests /\ running \in Digests /\ mode \in {"auto", "manual", "ignore"} /\ undone \in Nat
  BY NoDigest, TrackingAssumption DEF TrackingInit
<1>2. row = NoRow /\ job = NoJob /\ proc = [p \in Procs |-> Idle]
  BY DEF TrackingInit
<1>3. \A p \in Procs : Honest(proc[p])
  BY <1>2, IdleTyped DEF Honest
<1>. QED BY <1>1, <1>2, <1>3, IdleTyped, NoRowTyped, NoJobTyped DEF TrackingInv, TrackingTypes, RowInv

LEMMA TrackingInvStep == TrackingInv /\ [TrackingNext]_trackingVars => TrackingInv'
<1>. SUFFICES ASSUME TrackingInv, [TrackingNext]_trackingVars PROVE TrackingInv'
  OBVIOUS
<1>1. CASE UNCHANGED trackingVars
  BY <1>1 DEF trackingVars, TrackingInv, TrackingTypes, RowInv, Honest
<1>. QED BY <1>1, CheckStep, BrowserStep, SaveSnoozeStep, UpdateActionStep, AutomationStep, WorldStep
         DEF TrackingNext

(* The cache row and every copy a check, the snooze button or a rollback     *)
(* works on are what their writers may take them for (app.go:1821-1886).     *)
THEOREM TrackingInvariant == TrackingSpec => []TrackingInv
BY TrackingInvInit, TrackingInvStep, PTL DEF TrackingSpec

(* OffersAreReal: no writer of the row (ApplyTrackedUpdateState, the worker's *)
(* answers, the snooze button, the hold after a rollback) offers what runs or *)
(* what is snoozed, and an offer has its own date until a rollback held one.  *)
THEOREM OffersAreTrue == TrackingSpec => []OffersAreReal
<1>1. TrackingInv => OffersAreReal
  BY DEF TrackingInv, RowInv, RealOffer, HasDate, OffersAreReal
<1>. QED BY <1>1, TrackingInvariant, PTL

-----------------------------------------------------------------------------
(* The snooze *)

(* why a snooze may end when a writer writes                               *)
Grounds(p) ==
  /\ Writing(p) /\ proc'[p] # proc[p]
  /\ \/ proc[p].op \in {"snooze", "unsnooze", "hold"}
     \/ proc[p].late \notin {None, row.snoozed}
     \/ proc[p].cur = row.snoozed
     \/ proc[p].old.snoozed # row.snoozed

(* A writer that writes moves on                                             *)
LEMMA Departing ==
  ASSUME TrackingInv, NEW p \in Procs, NEW to, Become(p, to), to.step # proc[p].step
  PROVE  proc'[p] # proc[p]
<1>1. proc \in [Procs -> Writers]
  BY DEF TrackingInv, TrackingTypes
<1>. QED BY <1>1 DEF Become

(* The two writes of a check end a snooze only on grounds                    *)
LEMMA SaveHasGrounds ==
  ASSUME TrackingInv, NEW p \in Procs, Save(p), row.snoozed \notin {None, row'.snoozed}
  PROVE  Grounds(p)
<1> DEFINE c == proc[p]
<1>1. c \in Writers /\ Honest(c) /\ c.step = "save"
  BY DEF TrackingInv, TrackingTypes, Save, AtStep
<1>2. c.late # None => c.cur # None
  BY <1>1 DEF Honest, Learnt
<1>3. row' = CheckedRow(c)
  BY DEF Save
<1>4. /\ row' \in CacheRows /\ row'.snoozed \in {None, c.old.snoozed}
      /\ c.old.snoozed # None /\ row'.snoozed = None =>
           c.late \notin {None, c.old.snoozed} \/ c.cur = c.old.snoozed
  BY <1>1, <1>2, <1>3, CheckedRows
<1>5. proc'[p] # proc[p]
  <2>1. CASE Become(p, AskWorker)
    <3>1. AskWorker.step = "worker"
      BY IdleTyped DEF AskWorker
    <3>. QED BY <2>1, <3>1, <1>1, Departing
  <2>2. CASE Become(p, After(p, row'))
    <3>1. After(p, row').step \in {"none", "choose"}
      BY <1>4, Following
    <3>. QED BY <2>2, <3>1, <1>1, Departing
  <2>. QED BY <2>1, <2>2 DEF Save
<1>. QED BY <1>1, <1>4, <1>5 DEF Grounds, Writing

LEMMA ResaveHasGrounds ==
  ASSUME TrackingInv, NEW p \in Procs, Resave(p), row.snoozed \notin {None, row'.snoozed}
  PROVE  Grounds(p)
<1>1. Become(p, After(p, row')) /\ After(p, row').step \in {"none", "choose"}
  BY ResavedRow, Following DEF Resave
<1>2. proc'[p] # proc[p]
  BY <1>1, ResavedRow, Departing
<1>. QED BY <1>2, ResavedRow DEF Grounds, Writing

(* No other step ends a snooze but the owner's and the hold's                *)
LEMMA SnoozeEnds ==
  ASSUME TrackingInv, [TrackingNext]_trackingVars, row.snoozed \notin {None, row'.snoozed}
  PROVE  \E p \in Procs : Grounds(p)
<1>1. row' # row
  OBVIOUS
<1>2. \/ \E p \in Procs : Save(p) \/ Resave(p)
      \/ SaveSnooze \/ SaveHold
  BY <1>1 DEF TrackingNext, trackingVars, RunCheck, Local, Remote, Worker, Reread, Browser, ManualCheck,
     ManualUpdate, RefreshExcludedImageState, ReadForSnooze, Update, UpdateGivesUp, Recreate,
     VerifyUpdated, Rollback, RollbackFails, ChooseSnooze, ReadForHold, Automation, RunAutomation,
     InstallScanned, MinutePasses, Publish
<1>3. CASE \E p \in Procs : Save(p) \/ Resave(p)
  BY <1>3, SaveHasGrounds, ResaveHasGrounds
<1>4. CASE SaveSnooze
  <2>1. /\ "tab" \in Procs /\ Honest(proc["tab"]) /\ proc["tab"].op \in {"snooze", "unsnooze"}
        /\ Become("tab", Idle)
    BY <1>4 DEF TrackingInv, SaveSnooze, Procs
  <2>2. proc["tab"].step = "save"
    BY <2>1 DEF Honest, Learnt
  <2>. QED BY <2>1, <2>2, IdleTyped, Departing DEF Grounds, Writing
<1>5. CASE SaveHold
  <2>1. "job" \in Procs /\ Honest(proc["job"]) /\ proc["job"].step = "hold" /\ Become("job", Idle)
    BY <1>5 DEF TrackingInv, SaveHold, AtStep, Procs
  <2>2. proc["job"].op = "hold"
    BY <2>1 DEF Honest, Learnt
  <2>. QED BY <2>1, <2>2, IdleTyped, Departing DEF Grounds, Writing
<1>. QED BY <1>2, <1>3, <1>4, <1>5

(* SnoozeIsBoundToItsDigest (update_tracking.go:17): a snooze ends only when *)
(* its digest is no longer the offer, its owner ends it or an older copy     *)
(* of the row is written back.                                               *)
THEOREM SnoozeKeepsItsDigest == TrackingSpec => SnoozeIsBoundToItsDigest
<1>1. TrackingInv /\ [TrackingNext]_trackingVars =>
        [row.snoozed \notin {None, row'.snoozed} => \E p \in Procs : Grounds(p)]_trackingVars
  BY SnoozeEnds
<1>2. TrackingInv /\ [TrackingNext]_trackingVars =>
        [row.snoozed \notin {None, row'.snoozed} =>
           \E p \in Procs :
             /\ Writing(p) /\ proc'[p] # proc[p]
             /\ \/ proc[p].op \in {"snooze", "unsnooze", "hold"}
                \/ proc[p].late \notin {None, row.snoozed}
                \/ proc[p].cur = row.snoozed
                \/ proc[p].old.snoozed # row.snoozed]_trackingVars
  BY <1>1 DEF Grounds
<1>. QED BY <1>2, TrackingInvariant, PTL DEF TrackingSpec, SnoozeIsBoundToItsDigest

-----------------------------------------------------------------------------
(* Preflight and verification, for any situations, profiles and numbers of   *)
(* checks, edits, updates, tests, faults and crashes.  A stored result knows *)
(* the version of the profile it is of, and while it says "running" somebody *)
(* runs it; what an update was promised and has not lost still holds, from   *)
(* the verdict through the restore point to the last check.                  *)

Kinds == {"verification", "protection"}
Facts == {Remembered(f) : f \in Situations} \cup {[target |-> "unseen"]}
Jobs == {"none", "running", "cancelled", "skipped", "failed", "success", "interrupted"}
Updates ==
  [stage : {"idle", "preflight", "snapshot", "restore", "decide", "apply", "verify", "recheck"},
   mode : Modes, facts : Facts, block : {"none", "red", "automatic_safety"},
   snapshots : SUBSET {"target", "dependents"}, point : {"none", "config_only", "full"},
   data : BOOLEAN, promised : SUBSET Kinds, lost : SUBSET Kinds, job : Jobs]
Runs == [at : {"idle", "checks", "end", "done"}, scope : Scopes \cup {"none"}, version : Nat,
         todo : Nat, tries : Nat, passed : Nat,
         status : {"none", "running", "not_configured", "failed", "verified"}]
Results == [status : {"not_configured", "running", "failed", "verified"}, stale : BOOLEAN,
            ran : Nat, crossed : BOOLEAN, left : BOOLEAN]
Profiles == [is : {"none", "on", "off"}, version : Nat]

ReadinessTypes ==
  /\ verification \in [Scopes -> Profiles] /\ protection \in [Scopes -> BOOLEAN]
  /\ result \in [Scopes -> Results] /\ run \in [Runners -> Runs] /\ update \in Updates
  /\ edits \in Nat

(* a stored result is of the profile in force, and one that says running   *)
(* has a runner                                                            *)
ResultOf(s) ==
  /\ result[s].status # "not_configured" /\ ~result[s].stale =>
       result[s].ran = verification[s].version \/ result[s].crossed
  /\ result[s].status = "running" =>
       result[s].left \/ \E p \in Runners : run[p].scope = s /\ run[p].at \in {"checks", "end"}

(* what a run has counted                                                  *)
Counted(r) ==
  /\ r.at \in {"checks", "end"} => r.scope \in Scopes
  /\ r.at = "checks" => r.passed + r.todo = Checks
  /\ r.at = "done" => r.status \in {"not_configured", "failed", "verified"}
  /\ r.at = "done" /\ r.status = "verified" => r.passed = Checks
RunInv ==
  /\ \A p \in Runners : Counted(run[p])
  /\ run["update"].at # "idle" => update.stage \in {"verify", "recheck"}
  /\ run["update"].at = "done" /\ run["update"].status = "not_configured" =>
       "verification" \notin update.promised \ update.lost

(* what the verdict, the snapshots and the restore point have established  *)
Cleared(u) == u.stage \in {"snapshot", "restore"} \/ (u.stage = "decide" /\ u.block = "none")
Prepared(u) ==
  /\ u.stage # "idle" => u.job = "running"
  /\ u.stage = "idle" => u.promised = {}
  /\ Cleared(u) =>
       /\ u.mode # "manual" => u.facts.target = "running" /\ u.facts.newer /\ u.facts.major # "jump"
       /\ u.mode = "strict" =>
            "verification" \in u.promised /\ (u.facts.mounts = "none" \/ "protection" \in u.promised)
       /\ u.facts.swarm # "no" => "protection" \notin u.promised
       /\ u.stage # "snapshot" =>
            "target" \in u.snapshots /\ (u.facts.dependents => "dependents" \in u.snapshots)
       /\ u.stage = "decide" =>
            /\ u.mode = "strict" => u.point = "full"
            /\ "protection" \in u.promised \ u.lost => u.data

(* what was promised and not lost still holds                                *)
PromisesHold ==
  /\ "verification" \in update.promised \ update.lost => Verifies(verification, TRUE)
  /\ "protection" \in update.promised \ update.lost => Protects(protection, TRUE)

ReadinessInv ==
  /\ ReadinessTypes
  /\ \A s \in Scopes : ResultOf(s)
  /\ RunInv
  /\ Prepared(update)
  /\ PromisesHold

-----------------------------------------------------------------------------
(* The verdict *)

(* Nothing red in what passes, and nothing waived that nobody may waive *)
LEMMA PassingVerdict ==
  ASSUME NEW policy \in Modes, NEW checks, Block(policy, checks) = "none", NEW c \in checks
  PROVE  /\ c.status # "red"
         /\ policy # "manual" /\ c.status = "yellow" => ~ApprovalRequired(c)
         /\ policy = "strict" => c.status # "yellow"
<1>1. Red(checks) = {}
  BY DEF Block
<1>2. c.status # "red"
  BY <1>1 DEF Red
<1>3. policy # "manual" => ~\E d \in Yellow(checks) : ApprovalRequired(d) \/ policy = "strict"
  BY <1>1 DEF Block
<1>4. c.status = "yellow" => c \in Yellow(checks)
  BY DEF Yellow
<1>. QED BY <1>2, <1>3, <1>4 DEF Modes

(* What a situation is, and what of it is remembered                       *)
LEMMA SituationTyped ==
  ASSUME NEW f \in Situations
  PROVE  /\ f.target \in {"running", "stopped", "unsafe", "missing", "unreadable", "no host"}
         /\ f.dependents \in BOOLEAN /\ f.newer \in BOOLEAN /\ f.major \in {"same", "jump", "unknown"}
         /\ f.mounts \in {"none", "some"} /\ f.selected \in {"there", "external", "missing", "unread"}
         /\ f.swarm \in {"no", "service", "namespace"}
<1>1. f \in Situation
  BY ReadinessAssumption
<1>. QED BY <1>1 DEF Situation

LEMMA RememberedFacts ==
  ASSUME NEW f \in Situations
  PROVE  LET r == Remembered(f) IN
         /\ r \in Facts
         /\ r.target = f.target /\ r.dependents = f.dependents /\ r.newer = f.newer
         /\ r.major = f.major /\ r.mounts = f.mounts /\ r.swarm = f.swarm
BY DEF Remembered, Facts

(* What a preflight without objections has found *)
LEMMA PassingPreflight ==
  ASSUME NEW policy \in Modes, NEW f \in Situations, NEW verifies \in BOOLEAN, NEW protects \in BOOLEAN,
         Block(policy, AllChecks(f, verifies, protects)) = "none"
  PROVE  /\ policy # "manual" => f.target = "running" /\ f.newer /\ f.major # "jump"
         /\ policy = "strict" => verifies /\ (protects \/ f.mounts = "none")
         /\ f.swarm # "no" => ~protects
<1> DEFINE checks == AllChecks(f, verifies, protects)
<1>1. \A c \in checks :
        /\ c.status # "red"
        /\ policy # "manual" /\ c.status = "yellow" => ~ApprovalRequired(c)
        /\ policy = "strict" => c.status # "yellow"
  BY PassingVerdict
<1>2. f.target # "no host"
  <2>. SUFFICES ASSUME f.target = "no host" PROVE FALSE
    OBVIOUS
  <2>1. Check("host", "red") \in checks /\ Check("host", "red").status = "red"
    BY DEF AllChecks, Check
  <2>. QED BY <1>1, <2>1
<1>3. /\ DependencyCheck(f) \subseteq checks /\ StateCheck(f) \subseteq checks
      /\ HealthChecks(f, verifies) \subseteq checks /\ NewImageCheck(f) \subseteq checks
      /\ MajorCheck(f) \subseteq checks /\ DataCheck(f, protects) \subseteq checks
  BY <1>2 DEF AllChecks
<1>. HIDE DEF checks
<1>4. f.target # "unreadable"
  BY <1>1, <1>3 DEF DependencyCheck, Verdict, Check
<1>5. /\ f.target \notin {"missing", "unsafe"}
      /\ policy # "manual" => f.target # "stopped"
  <2>1. PICK c \in StateCheck(f) :
          /\ c.key = "container_state"
          /\ f.target \in {"missing", "unsafe"} => c.status = "red"
          /\ f.target \notin {"missing", "unsafe"} /\ f.target = "stopped" => c.status = "yellow"
    BY <1>4 DEF StateCheck, Verdict, Check
  <2>2. c \in checks
    BY <1>3
  <2>. QED BY <1>1, <2>1, <2>2 DEF ApprovalRequired
<1>6. policy # "manual" => f.newer
  <2>1. PICK c \in NewImageCheck(f) : c.key = "new_image" /\ (~f.newer => c.status = "yellow")
    BY SituationTyped DEF NewImageCheck, Verdict, Check
  <2>2. c \in checks
    BY <1>3
  <2>. QED BY <1>1, <2>1, <2>2 DEF ApprovalRequired
<1>7. policy # "manual" => f.major # "jump"
  <2>1. \E c \in MajorCheck(f) : f.major = "jump" => c.status = "yellow" /\ c.jump
    BY DEF MajorCheck
  <2>. QED BY <1>1, <1>3, <2>1 DEF ApprovalRequired
<1>8. policy = "strict" => verifies
  <2>1. PICK c \in Verdict("custom_verification", FALSE, ~verifies) : ~verifies => c.status = "yellow"
    BY DEF Verdict, Check
  <2>2. c \in checks
    BY <1>3 DEF HealthChecks
  <2>. QED BY <1>1, <2>1, <2>2
<1>9. policy = "strict" => protects \/ f.mounts = "none"
  <2>. SUFFICES ASSUME ~protects PROVE policy = "strict" => f.mounts = "none"
    OBVIOUS
  <2>1. PICK c \in DataCheck(f, protects) : f.mounts # "none" => c.status = "yellow"
    BY DEF DataCheck, Verdict, Check
  <2>2. c \in checks
    BY <1>3
  <2>. QED BY <1>1, <2>1, <2>2
<1>10. f.swarm # "no" => ~protects
  <2>. SUFFICES ASSUME protects PROVE f.swarm = "no"
    OBVIOUS
  <2>1. PICK c \in DataCheck(f, protects) :
          f.swarm # "no" \/ f.selected \in {"missing", "unread"} => c.status = "red"
    BY DEF DataCheck, Verdict, Check
  <2>2. c \in checks
    BY <1>3
  <2>. QED BY <1>1, <2>1, <2>2
<1>. QED BY <1>2, <1>4, <1>5, <1>6, <1>7, <1>8, <1>9, <1>10, SituationTyped

(* The second verdict holds an incomplete restore point against strictness *)
LEMMA PassingSecondVerdict ==
  ASSUME update.mode \in Modes
  PROVE  /\ SecondVerdict(Check("restore_point", "green")) \in {"none", "red", "automatic_safety"}
         /\ SecondVerdict(Check("restore_point", "yellow")) \in {"none", "red", "automatic_safety"}
         /\ SecondVerdict(Check("restore_point", "yellow")) = "none" => update.mode # "strict"
<1>1. \A policy, checks : Block(policy, checks) \in {"none", "red", "automatic_safety"}
  BY DEF Block
<1>2. ASSUME SecondVerdict(Check("restore_point", "yellow")) = "none" PROVE update.mode # "strict"
  <2> DEFINE c == Check("restore_point", "yellow")
  <2>1. Block(update.mode, {c}) = "none" /\ c \in {c}
    BY <1>2 DEF SecondVerdict
  <2>2. c.status = "yellow"
    BY DEF Check
  <2>. HIDE DEF c
  <2>. QED BY <2>1, <2>2, PassingVerdict
<1>. QED BY <1>1, <1>2 DEF SecondVerdict

(* A profile found without the stack's is found with it *)
LEMMA Readable ==
  ASSUME NEW v \in BOOLEAN, verification \in [Scopes -> Profiles], protection \in [Scopes -> BOOLEAN]
  PROVE  /\ Verifies(verification, v) \in BOOLEAN /\ Protects(protection, v) \in BOOLEAN
         /\ Verifies(verification, v) => Verifies(verification, TRUE)
         /\ Protects(protection, v) => Protects(protection, TRUE)
BY DEF Verifies, EffectiveIn, Protects, Scopes, Profiles

-----------------------------------------------------------------------------
(* The update *)

(* The idle update and the idle run                                        *)
LEMMA NoUpdateTyped ==
  /\ NoUpdate \in Updates /\ NoUpdate.stage = "idle" /\ NoUpdate.mode = "manual"
  /\ NoUpdate.block = "none" /\ NoUpdate.promised = {} /\ NoUpdate.lost = {} /\ NoUpdate.job = "none"
BY DEF NoUpdate, Updates, Facts, Modes, Jobs

LEMMA NoRunTyped ==
  /\ NoRun \in Runs /\ NoRun.at = "idle" /\ NoRun.scope = "none" /\ NoRun.status = "none"
  /\ Counted(NoRun)
BY DEF NoRun, Runs, Counted

(* A step of the update alone *)
LEMMA UpdateAlone ==
  ASSUME ReadinessInv, UNCHANGED <<verification, protection, result, run, edits>>,
         update.stage \notin {"verify", "recheck"},
         update' \in Updates, Prepared(update'), PromisesHold'
  PROVE  ReadinessInv'
<1>1. run["update"].at = "idle"
  BY DEF ReadinessInv, RunInv
<1>2. ReadinessTypes'
  BY DEF ReadinessInv, ReadinessTypes
<1>3. \A s \in Scopes : ResultOf(s)'
  BY DEF ReadinessInv, ResultOf
<1>4. RunInv'
  BY <1>1 DEF ReadinessInv, RunInv
<1>. QED BY <1>2, <1>3, <1>4 DEF ReadinessInv, Prepared

(* An update that goes without promises *)
LEMMA NothingPromised ==
  ASSUME NEW u \in Updates, u.promised = {}, ~Cleared(u), u.stage # "idle" => u.job = "running"
  PROVE  Prepared(u)
BY DEF Prepared, Updates

(* An update begins without promises                                       *)
LEMMA BeginUpdateStep == ASSUME ReadinessInv, BeginUpdate PROVE ReadinessInv'
<1> DEFINE to(policy) == [NoUpdate EXCEPT !.stage = "preflight", !.mode = policy, !.job = "running"]
<1>1. PICK policy \in Modes : update' = to(policy)
  BY DEF BeginUpdate
<1>2. /\ to(policy) \in Updates /\ to(policy).stage = "preflight" /\ to(policy).promised = {}
      /\ to(policy).job = "running"
  BY NoUpdateTyped DEF Updates, Jobs
<1>. HIDE DEF to
<1>3. Prepared(update') /\ PromisesHold'
  BY <1>1, <1>2, NothingPromised DEF Cleared, PromisesHold
<1>. QED BY <1>1, <1>2, <1>3, UpdateAlone DEF BeginUpdate, profiles

(* The preflight promises what it finds, if nothing objects                *)
LEMMA PreflightStep == ASSUME ReadinessInv, RunUpdatePreflight PROVE ReadinessInv'
<1> DEFINE blocked(b) == [update EXCEPT !.stage = "decide", !.block = b]
           cleared(r, p) == [update EXCEPT !.stage = "snapshot", !.facts = r, !.promised = p]
           promise(v, d) == {k \in {"verification", "protection"} : IF k = "verification" THEN v ELSE d}
<1>1. /\ update \in Updates /\ update.stage = "preflight" /\ update.job = "running"
      /\ UNCHANGED <<verification, protection, result, run, edits>>
      /\ verification \in [Scopes -> Profiles] /\ protection \in [Scopes -> BOOLEAN]
  BY DEF ReadinessInv, ReadinessTypes, Prepared, RunUpdatePreflight, profiles
<1>2. PICK f \in Situations, v \in ReadVerification(BOOLEAN), d \in ReadProtection(BOOLEAN) :
        LET verifies == Verifies(verification, v /\ Reached(f))
            protects == Protects(protection, d /\ Reached(f))
            checks == AllChecks(f, verifies, protects)
            block == Block(update.mode, checks)
        IN  update' =
              IF block # "none" THEN [update EXCEPT !.stage = "decide", !.block = block]
              ELSE [update EXCEPT !.stage = "snapshot", !.facts = Remembered(f),
                      !.promised = {k \in {"verification", "protection"} :
                                      IF k = "verification" THEN verifies ELSE protects}]
  BY Zenon DEF RunUpdatePreflight
<1> DEFINE verifies == Verifies(verification, v /\ Reached(f))
           protects == Protects(protection, d /\ Reached(f))
           block == Block(update.mode, AllChecks(f, verifies, protects))
<1>3. /\ verifies \in BOOLEAN /\ protects \in BOOLEAN
      /\ verifies => Verifies(verification, TRUE)
      /\ protects => Protects(protection, TRUE)
  <2>1. (v /\ Reached(f)) \in BOOLEAN /\ (d /\ Reached(f)) \in BOOLEAN
    BY DEF ReadVerification, ReadProtection
  <2>. QED BY <1>1, <2>1, Readable
<1>4. block \in {"none", "red", "automatic_safety"}
  BY DEF Block
<1>5. CASE block # "none"
  <2>1. update' = blocked(block)
    BY <1>2, <1>5
  <2>. HIDE DEF block
  <2>2. /\ blocked(block) \in Updates /\ blocked(block).stage = "decide" /\ blocked(block).block = block
        /\ blocked(block).promised = update.promised /\ blocked(block).lost = update.lost
        /\ blocked(block).job = update.job
    BY <1>1, <1>4 DEF Updates
  <2>. HIDE DEF blocked
  <2>3. Prepared(update')
    BY <1>1, <1>5, <2>1, <2>2 DEF Prepared, Cleared
  <2>4. PromisesHold'
    BY <1>1, <2>1, <2>2 DEF PromisesHold, ReadinessInv
  <2>. QED BY <1>1, <2>1, <2>2, <2>3, <2>4, UpdateAlone
<1>6. CASE block = "none"
  <2>1. update' = cleared(Remembered(f), promise(verifies, protects))
    BY <1>2, <1>6
  <2>2. /\ update.mode # "manual" => f.target = "running" /\ f.newer /\ f.major # "jump"
        /\ update.mode = "strict" => verifies /\ (protects \/ f.mounts = "none")
        /\ f.swarm # "no" => ~protects
    <3>1. update.mode \in Modes
      BY <1>1 DEF Updates
    <3>. HIDE DEF verifies, protects
    <3>. QED BY <3>1, <1>3, <1>6, PassingPreflight
  <2>. HIDE DEF verifies, protects, block
  <2> DEFINE p == promise(verifies, protects)
             r == Remembered(f)
  <2>3. /\ p \subseteq Kinds /\ ("verification" \in p <=> verifies) /\ ("protection" \in p <=> protects)
    BY DEF Kinds
  <2>. HIDE DEF promise
  <2>4. /\ r \in Facts /\ r.target = f.target /\ r.newer = f.newer
        /\ r.major = f.major /\ r.mounts = f.mounts /\ r.swarm = f.swarm
    BY RememberedFacts
  <2>. HIDE DEF r, p
  <2>5. update' = cleared(r, p)
    BY <2>1 DEF r, p
  <2>6. /\ cleared(r, p) \in Updates /\ cleared(r, p).stage = "snapshot" /\ cleared(r, p).facts = r
        /\ cleared(r, p).promised = p /\ cleared(r, p).job = update.job
        /\ cleared(r, p).mode = update.mode
    BY <1>1, <2>3, <2>4 DEF Updates
  <2>. HIDE DEF cleared
  <2>7. Prepared(update')
    BY <1>1, <2>2, <2>3, <2>4, <2>5, <2>6 DEF Prepared, Cleared
  <2>8. PromisesHold'
    BY <1>1, <1>3, <2>3, <2>5, <2>6 DEF PromisesHold
  <2>. QED BY <1>1, <2>5, <2>6, <2>7, <2>8, UpdateAlone
<1>. QED BY <1>5, <1>6

(* A stage that fails leads to a refusal *)
LEMMA Refusing ==
  ASSUME ReadinessInv, Refuse
  PROVE  update' \in Updates /\ Prepared(update') /\ PromisesHold'
<1> DEFINE to == [NoUpdate EXCEPT !.stage = "decide", !.block = "red", !.job = "running"]
<1>1. /\ to \in Updates /\ to.stage = "decide" /\ to.block = "red" /\ to.promised = {}
      /\ to.job = "running"
  BY NoUpdateTyped DEF Updates, Jobs
<1>2. update' = to
  BY DEF Refuse
<1>. HIDE DEF to
<1>. QED BY <1>1, <1>2, NothingPromised DEF Cleared, PromisesHold

(* The preparation adds snapshots and a restore point, or is refused       *)
LEMMA SnapshotStep == ASSUME ReadinessInv, CreateSnapshots PROVE ReadinessInv'
<1> DEFINE snapshots == {"target"} \cup IF update.facts.dependents THEN {"dependents"} ELSE {}
           to == [update EXCEPT !.stage = "restore", !.snapshots = snapshots]
<1>1. /\ update \in Updates /\ update.stage = "snapshot" /\ Prepared(update) /\ PromisesHold
      /\ UNCHANGED <<verification, protection, result, run, edits>>
  BY DEF ReadinessInv, ReadinessTypes, CreateSnapshots, profiles
<1>2. CASE update' = to
  <2>1. /\ snapshots \subseteq {"target", "dependents"} /\ "target" \in snapshots
        /\ update.facts.dependents => "dependents" \in snapshots
    OBVIOUS
  <2>. HIDE DEF snapshots
  <2>2. /\ to \in Updates /\ to.stage = "restore" /\ to.snapshots = snapshots /\ to.facts = update.facts
        /\ to.promised = update.promised /\ to.lost = update.lost /\ to.job = update.job
        /\ to.mode = update.mode
    BY <1>1, <2>1 DEF Updates
  <2>. HIDE DEF to
  <2>3. Prepared(update')
    BY <1>1, <1>2, <2>1, <2>2 DEF Prepared, Cleared
  <2>4. PromisesHold'
    BY <1>1, <1>2, <2>2 DEF PromisesHold
  <2>. QED BY <1>1, <1>2, <2>2, <2>3, <2>4, UpdateAlone
<1>3. CASE Refuse
  BY <1>1, <1>3, Refusing, UpdateAlone
<1>. QED BY <1>2, <1>3 DEF CreateSnapshots

LEMMA RestorePointStep == ASSUME ReadinessInv, CreateRestorePoint PROVE ReadinessInv'
<1> DEFINE config(b) == [update EXCEPT !.stage = "decide", !.point = "config_only", !.block = b]
           full(b, data, losses) == [update EXCEPT !.stage = "decide", !.point = "full", !.block = b,
                                                 !.data = data, !.lost = losses]
<1>1. /\ update \in Updates /\ update.stage = "restore" /\ Prepared(update) /\ PromisesHold
      /\ UNCHANGED <<verification, protection, result, run, edits>>
      /\ verification \in [Scopes -> Profiles] /\ protection \in [Scopes -> BOOLEAN]
      /\ update.mode \in Modes /\ update.lost \subseteq Kinds
  BY DEF ReadinessInv, ReadinessTypes, CreateRestorePoint, profiles, Updates
<1>2. ASSUME update.facts.swarm # "no",
             update' = config(SecondVerdict(Check("restore_point", "yellow")))
      PROVE  ReadinessInv'
  <2> DEFINE b == SecondVerdict(Check("restore_point", "yellow"))
  <2>1. b \in {"none", "red", "automatic_safety"} /\ (b = "none" => update.mode # "strict")
    BY <1>1, PassingSecondVerdict
  <2>2. update' = config(b)
    BY <1>2
  <2>. HIDE DEF b
  <2>3. /\ config(b) \in Updates /\ config(b).stage = "decide" /\ config(b).block = b
        /\ config(b).facts = update.facts /\ config(b).snapshots = update.snapshots
        /\ config(b).promised = update.promised /\ config(b).lost = update.lost
        /\ config(b).job = update.job /\ config(b).mode = update.mode
    BY <1>1, <2>1 DEF Updates
  <2>. HIDE DEF config
  <2>4. Prepared(update')
    BY <1>1, <1>2, <2>1, <2>2, <2>3 DEF Prepared, Cleared
  <2>5. PromisesHold'
    BY <1>1, <2>2, <2>3 DEF PromisesHold
  <2>. QED BY <1>1, <2>2, <2>3, <2>4, <2>5, UpdateAlone
<1>3. ASSUME NEW d \in BOOLEAN, update.facts.swarm = "no",
             update' = full(SecondVerdict(Check("restore_point", "green")), Protects(protection, d),
                            IF d THEN update.lost ELSE update.lost \cup {"protection"})
      PROVE  ReadinessInv'
  <2> DEFINE b == SecondVerdict(Check("restore_point", "green"))
             data == Protects(protection, d)
             losses == IF d THEN update.lost ELSE update.lost \cup {"protection"}
  <2>1. b \in {"none", "red", "automatic_safety"}
    BY <1>1, PassingSecondVerdict
  <2>2. /\ data \in BOOLEAN /\ losses \subseteq Kinds /\ update.lost \subseteq losses
        /\ "protection" \in update.promised \ losses => data
    BY <1>1, Readable DEF PromisesHold, Kinds
  <2>3. update' = full(b, data, losses)
    BY <1>3
  <2>. HIDE DEF b, data, losses
  <2>4. /\ full(b, data, losses) \in Updates /\ full(b, data, losses).stage = "decide"
        /\ full(b, data, losses).point = "full" /\ full(b, data, losses).data = data
        /\ full(b, data, losses).facts = update.facts /\ full(b, data, losses).snapshots = update.snapshots
        /\ full(b, data, losses).promised = update.promised /\ full(b, data, losses).lost = losses
        /\ full(b, data, losses).job = update.job /\ full(b, data, losses).mode = update.mode
    BY <1>1, <2>1, <2>2 DEF Updates
  <2>. HIDE DEF full
  <2>5. Prepared(update')
    BY <1>1, <2>2, <2>3, <2>4 DEF Prepared, Cleared
  <2>6. PromisesHold'
    BY <1>1, <2>2, <2>3, <2>4 DEF PromisesHold
  <2>. QED BY <1>1, <2>3, <2>4, <2>5, <2>6, UpdateAlone
<1>4. CASE Refuse
  BY <1>1, <1>4, Refusing, UpdateAlone
<1>. QED BY <1>2, <1>3, <1>4 DEF CreateRestorePoint, ReadProtection

(* A settled update promises nothing *)
LEMMA SettledUpdate ==
  ASSUME NEW outcome \in Jobs, Settle(outcome)
  PROVE  /\ update' \in Updates /\ Prepared(update') /\ PromisesHold'
         /\ update'.stage = "idle" /\ update'.promised = {} /\ update'.job = outcome
<1>1. update' = [NoUpdate EXCEPT !.job = outcome]
  BY DEF Settle
<1>2. update' \in Updates /\ update'.stage = "idle" /\ update'.promised = {} /\ update'.job = outcome
  BY <1>1, NoUpdateTyped DEF Updates
<1>. QED BY <1>2, NothingPromised DEF Cleared, PromisesHold

(* The decision keeps the promises of an update that goes on               *)
LEMMA DecideStep == ASSUME ReadinessInv, DecideOnPreflight PROVE ReadinessInv'
<1> DEFINE to == [NoUpdate EXCEPT !.stage = "apply", !.job = "running",
                                  !.promised = update.promised, !.lost = update.lost]
<1>1. /\ update \in Updates /\ update.stage = "decide" /\ PromisesHold
      /\ UNCHANGED <<verification, protection, result, run, edits>>
  BY DEF ReadinessInv, ReadinessTypes, DecideOnPreflight, profiles, counters
<1>2. CASE \E outcome \in Jobs : Settle(outcome)
  BY <1>1, <1>2, SettledUpdate, UpdateAlone
<1>3. CASE update' = to
  <2>1. /\ to \in Updates /\ to.stage = "apply" /\ to.job = "running"
        /\ to.promised = update.promised /\ to.lost = update.lost
    BY <1>1, NoUpdateTyped DEF Updates, Jobs
  <2>. HIDE DEF to
  <2>2. Prepared(update') /\ PromisesHold'
    BY <1>1, <1>3, <2>1 DEF Prepared, Cleared, PromisesHold
  <2>. QED BY <1>1, <1>3, <2>1, <2>2, UpdateAlone
<1>. QED BY <1>2, <1>3 DEF DecideOnPreflight, Jobs

(* The update moves on with its promises *)
LEMMA GoingTo ==
  ASSUME ReadinessInv, update.stage # "idle", NEW stage \in {"verify", "recheck"}, update' = Goto(stage)
  PROVE  /\ update' \in Updates /\ Prepared(update')
         /\ update'.stage = stage /\ update'.promised = update.promised /\ update'.lost = update.lost
<1>1. update \in Updates /\ update.job = "running"
  BY DEF ReadinessInv, ReadinessTypes, Prepared
<1>2. /\ Goto(stage) \in Updates /\ Goto(stage).stage = stage /\ Goto(stage).job = "running"
      /\ Goto(stage).promised = update.promised /\ Goto(stage).lost = update.lost
  BY <1>1 DEF Updates, Goto
<1>. QED BY <1>2 DEF Prepared, Cleared

LEMMA ApplyStep == ASSUME ReadinessInv, Apply PROVE ReadinessInv'
<1>1. /\ update.stage = "apply" /\ PromisesHold
      /\ UNCHANGED <<verification, protection, result, run, edits>>
  BY DEF ReadinessInv, Apply, profiles
<1>2. PICK stage \in {"verify", "recheck"} : update' = Goto(stage)
  BY DEF Apply
<1>3. /\ update' \in Updates /\ Prepared(update')
      /\ update'.promised = update.promised /\ update'.lost = update.lost
  BY <1>1, <1>2, GoingTo
<1>4. PromisesHold'
  BY <1>1, <1>3 DEF PromisesHold
<1>. QED BY <1>1, <1>3, <1>4, UpdateAlone

-----------------------------------------------------------------------------
(* Custom verification *)

(* The end of the update's verification ends the update or undoes it       *)
LEMMA ConcludeStep == ASSUME ReadinessInv, Conclude PROVE ReadinessInv'
<1>1. /\ run["update"].at = "done" /\ run' = [run EXCEPT !["update"] = NoRun]
      /\ run \in [Runners -> Runs] /\ "update" \in Runners /\ update \in Updates
      /\ UNCHANGED <<verification, protection, result, edits>>
      /\ update.stage \in {"verify", "recheck"} /\ PromisesHold
      /\ \A s \in Scopes : ResultOf(s)
      /\ \A p \in Runners : Counted(run[p])
  BY DEF ReadinessInv, ReadinessTypes, RunInv, Conclude, profiles, Runners
<1>2. /\ run' \in [Runners -> Runs] /\ run'["update"] = NoRun
      /\ \A p \in Runners \ {"update"} : run'[p] = run[p]
  BY <1>1, NoRunTyped
<1>3. update' \in Updates /\ Prepared(update') /\ PromisesHold'
  <2>1. CASE \E outcome \in Jobs : Settle(outcome)
    BY <2>1, SettledUpdate
  <2>2. CASE update' = Goto("recheck")
    BY <1>1, <2>2, GoingTo DEF PromisesHold
  <2>. QED BY <2>1, <2>2 DEF Conclude, Jobs
<1>4. \A s \in Scopes : ResultOf(s)'
  <2>. SUFFICES ASSUME NEW s \in Scopes PROVE ResultOf(s)'
    OBVIOUS
  <2>1. ResultOf(s)
    BY <1>1
  <2>2. ASSUME NEW p \in Runners, run[p].scope = s, run[p].at \in {"checks", "end"}
        PROVE  run'[p].scope = s /\ run'[p].at \in {"checks", "end"}
    BY <1>1, <1>2, <2>2
  <2>. QED BY <1>1, <2>1, <2>2 DEF ResultOf
<1>5. \A p \in Runners : Counted(run'[p])
  BY <1>1, <1>2, NoRunTyped
<1>6. RunInv'
  BY <1>2, <1>5, NoRunTyped DEF RunInv, Counted
<1>. QED BY <1>1, <1>2, <1>3, <1>4, <1>6 DEF ReadinessInv, ReadinessTypes, Prepared

(* A stored result is of the version that ran; it crosses an edit or is of *)
(* the profile in force                                                    *)
LEMMA Storing ==
  ASSUME ReadinessTypes, NEW s \in Scopes, NEW status \in {"not_configured", "running", "failed", "verified"},
         NEW version \in Nat, Store(s, status, version)
  PROVE  /\ result' \in [Scopes -> Results]
         /\ result'[s].status = status /\ result'[s].left = FALSE
         /\ result'[s].ran = verification[s].version \/ result'[s].crossed
         /\ \A t \in Scopes \ {s} : result'[t] = result[t]
<1> DEFINE r == [status |-> status, stale |-> FALSE, ran |-> version, left |-> FALSE,
                 crossed |-> version # verification[s].version]
<1>1. r \in Results
  BY DEF Results
<1>2. result' = [result EXCEPT ![s] = r] /\ result \in [Scopes -> Results]
  BY DEF Store, ReadinessTypes
<1>3. result' \in [Scopes -> Results] /\ result'[s] = r /\ \A t \in Scopes \ {s} : result'[t] = result[t]
  BY <1>1, <1>2
<1>4. /\ r.status = status /\ r.left = FALSE /\ r.ran = version
      /\ r.crossed = (version # verification[s].version)
  OBVIOUS
<1>. HIDE DEF r
<1>. QED BY <1>3, <1>4

(* A step of one run, with what it stores                                  *)
LEMMA RunStep ==
  ASSUME ReadinessInv, UNCHANGED <<verification, protection, edits>>,
         NEW p \in Runners, NEW r \in Runs, Counted(r), run' = [run EXCEPT ![p] = r],
         result' \in [Scopes -> Results],
         NEW s \in Scopes,
         \A t \in Scopes \ {s} : result'[t] = result[t],
         ResultOf(s)',
         run[p].at \in {"checks", "end"} /\ r.at \notin {"checks", "end"} => run[p].scope = s,
         run[p].at \in {"checks", "end"} /\ r.at \in {"checks", "end"} => run[p].scope = r.scope,
         update' \in Updates, Prepared(update'), update'.stage = update.stage,
         update'.promised = update.promised, update.lost \subseteq update'.lost,
         p = "update" =>
           /\ r.at # "idle" => update.stage \in {"verify", "recheck"}
           /\ r.at = "done" /\ r.status = "not_configured" =>
                "verification" \notin update'.promised \ update'.lost
  PROVE  ReadinessInv'
<1>1. run \in [Runners -> Runs] /\ RunInv /\ PromisesHold /\ \A t \in Scopes : ResultOf(t)
  BY DEF ReadinessInv, ReadinessTypes
<1>2. run' \in [Runners -> Runs] /\ run'[p] = r /\ \A q \in Runners \ {p} : run'[q] = run[q]
  BY <1>1
<1>3. ReadinessTypes'
  BY <1>2 DEF ReadinessInv, ReadinessTypes
<1>4. \A t \in Scopes : ResultOf(t)'
  <2>. SUFFICES ASSUME NEW t \in Scopes, t # s PROVE ResultOf(t)'
    OBVIOUS
  <2>1. ResultOf(t) /\ result'[t] = result[t]
    BY <1>1
  <2>2. ASSUME NEW q \in Runners, run[q].scope = t, run[q].at \in {"checks", "end"}
        PROVE  run'[q].scope = t /\ run'[q].at \in {"checks", "end"}
    BY <1>2, <2>2
  <2>. QED BY <2>1, <2>2 DEF ResultOf
<1>5. RunInv'
  <2>1. \A q \in Runners : Counted(run'[q])
    BY <1>1, <1>2 DEF RunInv
  <2>2. "update" \in Runners
    BY DEF Runners
  <2>3. CASE p = "update"
    BY <1>2, <2>1, <2>2, <2>3 DEF RunInv, Counted
  <2>4. CASE p # "update"
    BY <1>1, <1>2, <2>1, <2>2, <2>4 DEF RunInv, Counted
  <2>. QED BY <2>3, <2>4
<1>6. PromisesHold'
  BY <1>1 DEF PromisesHold
<1>. QED BY <1>3, <1>4, <1>5, <1>6 DEF ReadinessInv, Prepared

(* An update that loses a promise, or nothing                              *)
LEMMA Losing ==
  ASSUME ReadinessInv, NEW kind \in Kinds,
         update' \in {update, [update EXCEPT !.lost = @ \cup {kind}]}
  PROVE  /\ update' \in Updates /\ Prepared(update') /\ update'.stage = update.stage
         /\ update'.promised = update.promised /\ update.lost \subseteq update'.lost
         /\ update' # update => kind \in update'.lost
<1>1. update \in Updates /\ Prepared(update)
  BY DEF ReadinessInv, ReadinessTypes
<1>2. CASE update' = update
  BY <1>1, <1>2
<1>3. CASE update' = [update EXCEPT !.lost = @ \cup {kind}]
  <2>1. /\ update' \in Updates /\ update'.stage = update.stage /\ update'.promised = update.promised
        /\ update'.lost = update.lost \cup {kind} /\ update'.facts = update.facts
        /\ update'.mode = update.mode /\ update'.block = update.block /\ update'.data = update.data
        /\ update'.snapshots = update.snapshots /\ update'.point = update.point
        /\ update'.job = update.job
    BY <1>1, <1>3 DEF Updates
  <2>. QED BY <1>1, <2>1 DEF Prepared, Cleared
<1>. QED BY <1>2, <1>3

(* A verification that starts is stored as running, or as none, which      *)
(* breaks a promise only when the profile could not be read                *)
LEMMA StartStep == ASSUME ReadinessInv, NEW p \in Runners, StartVerification(p) PROVE ReadinessInv'
<1>1. /\ ReadinessTypes /\ run[p].at = "idle" /\ UNCHANGED <<verification, protection, edits>>
      /\ p = "update" => update.stage \in {"verify", "recheck"}
      /\ verification \in [Scopes -> Profiles] /\ update \in Updates
  BY DEF ReadinessInv, ReadinessTypes, StartVerification, Starts, profiles
<1> DEFINE none == [NoRun EXCEPT !.at = IF p = "update" THEN "done" ELSE "idle", !.status = "not_configured"]
           first(s) == [at |-> "checks", scope |-> s, todo |-> Checks, tries |-> 0, passed |-> 0,
                        version |-> verification[s].version, status |-> "running"]
<1>2. PICK v \in ReadVerification(BOOLEAN) :
        LET s == EffectiveIn(verification, v) IN
        /\ IF Verifies(verification, v)
           THEN /\ Store(s, "running", verification[s].version) /\ run' = [run EXCEPT ![p] = first(s)]
           ELSE /\ Store("container", "not_configured", 0) /\ run' = [run EXCEPT ![p] = none]
        /\ update' = IF p = "update" /\ ~v THEN [update EXCEPT !.lost = @ \cup {"verification"}] ELSE update
  BY DEF StartVerification
<1>3. v \in BOOLEAN
  BY DEF ReadVerification
<1>4. /\ update' \in Updates /\ Prepared(update') /\ update'.stage = update.stage
      /\ update'.promised = update.promised /\ update.lost \subseteq update'.lost
      /\ p = "update" /\ ~v => "verification" \in update'.lost
  <2>1. update' \in {update, [update EXCEPT !.lost = @ \cup {"verification"}]} /\ "verification" \in Kinds
    BY <1>2 DEF Kinds
  <2>2. p = "update" /\ ~v => "verification" \in update'.lost
    <3>. SUFFICES ASSUME p = "update", ~v PROVE "verification" \in update'.lost
      OBVIOUS
    <3>1. update' = [update EXCEPT !.lost = @ \cup {"verification"}]
      BY <1>2
    <3>. QED BY <1>1, <3>1 DEF Updates
  <2>. QED BY <2>1, <2>2, Losing
<1>5. CASE Verifies(verification, v)
  <2>1. PICK s \in Scopes : s = EffectiveIn(verification, v)
    BY <1>5 DEF Verifies, EffectiveIn, Scopes
  <2> DEFINE r == first(s)
  <2>2. Store(s, "running", verification[s].version) /\ run' = [run EXCEPT ![p] = r]
    BY <1>2, <1>5, <2>1
  <2>3. verification[s].version \in Nat
    BY <1>1, <2>1 DEF Profiles
  <2>4. r \in Runs /\ r.at = "checks" /\ r.scope = s /\ r.passed = 0 /\ r.todo = Checks
    BY <2>1, <2>3, ReadinessAssumption DEF Runs
  <2>. HIDE DEF first
  <2>5. Counted(r)
    BY <2>1, <2>4, ReadinessAssumption DEF Counted
  <2>6. /\ result' \in [Scopes -> Results] /\ \A t \in Scopes \ {s} : result'[t] = result[t]
        /\ result'[s].ran = verification[s].version \/ result'[s].crossed
    BY <1>1, <2>1, <2>2, <2>3, Storing
  <2>7. run'[p].at = "checks" /\ run'[p].scope = s
    BY <1>1, <2>2, <2>4 DEF ReadinessTypes
  <2>8. ResultOf(s)'
    BY <1>1, <2>6, <2>7 DEF ResultOf
  <2>. QED BY <1>1, <1>4, <2>1, <2>2, <2>4, <2>5, <2>6, <2>8, RunStep
<1>6. CASE ~Verifies(verification, v)
  <2>1. Store("container", "not_configured", 0) /\ run' = [run EXCEPT ![p] = none]
    BY <1>2, <1>6
  <2>2. /\ none \in Runs /\ none.at = (IF p = "update" THEN "done" ELSE "idle")
        /\ none.status = "not_configured"
    BY NoRunTyped DEF Runs
  <2>. HIDE DEF none
  <2>3. Counted(none)
    BY <2>2 DEF Counted
  <2>4. /\ result' \in [Scopes -> Results] /\ "container" \in Scopes
        /\ \A t \in Scopes \ {"container"} : result'[t] = result[t]
        /\ result'["container"].status = "not_configured"
    BY <1>1, <2>1, Storing DEF Scopes
  <2>5. ResultOf("container")'
    BY <2>4 DEF ResultOf
  <2>6. p = "update" => "verification" \notin update'.promised \ update'.lost
    <3>1. CASE ~v
      BY <1>4, <3>1
    <3>2. CASE v
      <4>1. ~Verifies(verification, TRUE)
        BY <1>3, <1>6, <3>2
      <4>2. "verification" \notin update.promised \ update.lost
        BY <4>1 DEF ReadinessInv, PromisesHold
      <4>. QED BY <1>4, <4>2
    <3>. QED BY <3>1, <3>2
  <2>. QED BY <1>1, <1>4, <2>1, <2>2, <2>3, <2>4, <2>5, <2>6, RunStep
<1>. QED BY <1>5, <1>6

(* A check passes, is repeated or ends the run                             *)
LEMMA ExecuteStep ==
  ASSUME ReadinessInv, NEW p \in Runners, ExecuteVerificationCheck(p)
  PROVE  ReadinessInv'
<1> DEFINE passes == [run[p] EXCEPT !.todo = @ - 1, !.tries = 0, !.passed = @ + 1]
           retries == [run[p] EXCEPT !.tries = @ + 1]
           givesUp == [run[p] EXCEPT !.at = "end", !.status = "failed"]
<1>1. /\ run \in [Runners -> Runs] /\ run[p] \in Runs /\ run[p].at = "checks" /\ run[p].todo > 0
      /\ Counted(run[p]) /\ UNCHANGED <<verification, protection, edits, result, update>>
      /\ update \in Updates /\ Prepared(update) /\ result \in [Scopes -> Results]
      /\ p = "update" => update.stage \in {"verify", "recheck"}
  BY DEF ReadinessInv, ReadinessTypes, RunInv, ExecuteVerificationCheck, profiles, Runners
<1>2. PICK r \in {passes, retries, givesUp} : run' = [run EXCEPT ![p] = r]
  BY <1>1 DEF ExecuteVerificationCheck, NextCheck, GiveUp
<1>3. /\ r \in Runs /\ Counted(r) /\ r.at \in {"checks", "end"} /\ r.scope = run[p].scope
      /\ r.scope \in Scopes
  <2>0. run[p].scope \in Scopes /\ run[p].passed + run[p].todo = Checks
    BY <1>1 DEF Counted
  <2>1. CASE r = passes
    <3>2. /\ run[p].todo \in Nat /\ run[p].passed \in Nat
          /\ run[p].todo - 1 \in Nat /\ run[p].passed + 1 \in Nat
      BY <1>1 DEF Runs
    <3>1. /\ passes \in Runs /\ passes.at = "checks" /\ passes.scope = run[p].scope
          /\ passes.todo = run[p].todo - 1 /\ passes.passed = run[p].passed + 1
      BY <1>1, <3>2 DEF Runs
    <3>. HIDE DEF passes
    <3>3. passes.passed + passes.todo = Checks
      BY <2>0, <3>1, <3>2
    <3>. QED BY <2>0, <2>1, <3>1, <3>3 DEF Counted
  <2>2. CASE r = retries
    <3>1. /\ retries \in Runs /\ retries.at = "checks" /\ retries.scope = run[p].scope
          /\ retries.todo = run[p].todo /\ retries.passed = run[p].passed
      BY <1>1 DEF Runs
    <3>. HIDE DEF retries
    <3>. QED BY <2>0, <2>2, <3>1 DEF Counted
  <2>3. CASE r = givesUp
    <3>1. givesUp \in Runs /\ givesUp.at = "end" /\ givesUp.scope = run[p].scope
      BY <1>1 DEF Runs
    <3>. HIDE DEF givesUp
    <3>. QED BY <2>0, <2>3, <3>1 DEF Counted
  <2>. QED BY <2>1, <2>2, <2>3
<1>. HIDE DEF passes, retries, givesUp
<1>4. run'[p] = r /\ \A q \in Runners \ {p} : run'[q] = run[q]
  BY <1>1, <1>2
<1>5. ResultOf(r.scope)'
  <2>1. ResultOf(r.scope)
    BY <1>3 DEF ReadinessInv
  <2>2. ASSUME NEW q \in Runners, run[q].scope = r.scope, run[q].at \in {"checks", "end"}
        PROVE  run'[q].scope = r.scope /\ run'[q].at \in {"checks", "end"}
    BY <1>3, <1>4, <2>2
  <2>. QED BY <1>1, <2>1, <2>2 DEF ResultOf
<1>. QED BY <1>1, <1>2, <1>3, <1>5, RunStep

(* A result is stored, or its row is left to say running                   *)
LEMMA FinishStep == ASSUME ReadinessInv, NEW p \in Runners, FinishVerification(p) PROVE ReadinessInv'
<1> DEFINE status == IF run[p].at = "end" THEN "failed" ELSE "verified"
           done == [run[p] EXCEPT !.at = "done", !.status = status]
           r == IF p = "update" THEN done ELSE NoRun
<1>1. /\ ReadinessTypes /\ run \in [Runners -> Runs] /\ run[p] \in Runs /\ Counted(run[p])
      /\ run[p].at = "end" \/ (run[p].at = "checks" /\ run[p].todo = 0)
      /\ UNCHANGED <<verification, protection, edits, update>>
      /\ update \in Updates /\ Prepared(update)
      /\ p = "update" => update.stage \in {"verify", "recheck"}
  BY DEF ReadinessInv, ReadinessTypes, RunInv, FinishVerification, profiles, Runners
<1>2. /\ run[p].scope \in Scopes /\ run[p].version \in Nat /\ run[p].passed \in Nat
      /\ run[p].at = "checks" => run[p].passed = Checks
  BY <1>1 DEF Counted, Runs
<1>3. run' = [run EXCEPT ![p] = r]
  BY DEF FinishVerification
<1>4. status \in {"failed", "verified"} /\ (status = "verified" => run[p].passed = Checks)
  BY <1>1, <1>2
<1> PICK s \in Scopes : s = run[p].scope
  BY <1>2
<1>5. Store(s, status, run[p].version) \/ result' = [result EXCEPT ![s].left = TRUE]
  BY DEF FinishVerification
<1>. HIDE DEF status
<1>6. /\ done \in Runs /\ done.at = "done" /\ done.status = status /\ done.passed = run[p].passed
  BY <1>1, <1>4 DEF Runs
<1>. HIDE DEF done
<1>7. r \in Runs /\ Counted(r) /\ r.at \in {"idle", "done"} /\ r.status # "not_configured"
      /\ (p = "update" \/ r.at = "idle")
  BY <1>4, <1>6, NoRunTyped DEF Counted
<1>. HIDE DEF r
<1>8. /\ result' \in [Scopes -> Results] /\ \A t \in Scopes \ {s} : result'[t] = result[t]
      /\ ResultOf(s)'
  <2>1. CASE Store(s, status, run[p].version)
    <3>1. /\ result' \in [Scopes -> Results] /\ result'[s].status = status
          /\ result'[s].ran = verification[s].version \/ result'[s].crossed
          /\ \A t \in Scopes \ {s} : result'[t] = result[t]
      BY <1>1, <1>2, <1>4, <2>1, Storing
    <3>. QED BY <1>1, <1>4, <3>1 DEF ResultOf
  <2>2. CASE result' = [result EXCEPT ![s].left = TRUE]
    <3>1. /\ result \in [Scopes -> Results] /\ ResultOf(s)
      BY <1>1, <1>2 DEF ReadinessTypes, ReadinessInv
    <3>2. /\ result' \in [Scopes -> Results] /\ \A t \in Scopes \ {s} : result'[t] = result[t]
          /\ result'[s].left = TRUE /\ result'[s].status = result[s].status
          /\ result'[s].stale = result[s].stale /\ result'[s].ran = result[s].ran
          /\ result'[s].crossed = result[s].crossed
      BY <1>2, <2>2, <3>1 DEF Results
    <3>. QED BY <1>1, <3>1, <3>2 DEF ResultOf
  <2>. QED BY <1>5, <2>1, <2>2
<1>9. /\ update' \in Updates /\ Prepared(update') /\ update'.stage = update.stage
      /\ update'.promised = update.promised /\ update.lost \subseteq update'.lost
  BY <1>1
<1>. QED BY <1>1, <1>3, <1>7, <1>8, <1>9, RunStep

LEMMA VerificationStep == ASSUME ReadinessInv, NEW p \in Runners, Verification(p) PROVE ReadinessInv'
BY StartStep, ExecuteStep, FinishStep DEF Verification

-----------------------------------------------------------------------------
(* Administrators *)

(* An edit takes back the promise of a profile it switches off             *)
LEMMA LostOrHeld ==
  ASSUME ReadinessInv, NEW kind \in Kinds, NEW holds \in BOOLEAN, Lose(kind, holds), run' = run
  PROVE  /\ update' \in Updates /\ Prepared(update') /\ RunInv'
         /\ update'.promised = update.promised /\ update.lost \subseteq update'.lost
         /\ kind \in update'.promised \ update'.lost => holds
<1>1. update' \in {update, [update EXCEPT !.lost = @ \cup {kind}]}
  BY DEF Lose
<1>2. /\ update' \in Updates /\ Prepared(update') /\ update'.stage = update.stage
      /\ update'.promised = update.promised /\ update.lost \subseteq update'.lost
      /\ update' # update => kind \in update'.lost
  BY <1>1, Losing
<1>3. RunInv'
  BY <1>2 DEF ReadinessInv, RunInv
<1>4. kind \in update'.promised \ update'.lost => holds
  <2>. SUFFICES ASSUME ~holds, kind \in update'.promised PROVE kind \in update'.lost
    OBVIOUS
  <2>1. update.stage # "idle"
    BY <1>2 DEF ReadinessInv, Prepared
  <2>2. update' = [update EXCEPT !.lost = @ \cup {kind}] /\ update \in Updates
    BY <2>1 DEF Lose, ReadinessInv, ReadinessTypes
  <2>. QED BY <2>2 DEF Updates
<1>. QED BY <1>2, <1>3, <1>4

(* A saved profile makes its result stale, a deleted one clears it         *)
LEMMA SaveVerificationStep ==
  ASSUME ReadinessInv, NEW s \in Scopes, NEW is \in {"on", "off"}, SaveVerificationProfile(s, is)
  PROVE  ReadinessInv'
<1> DEFINE new == [is |-> is, version |-> edits']
<1>1. /\ verification \in [Scopes -> Profiles] /\ result \in [Scopes -> Results]
      /\ edits' \in Nat /\ UNCHANGED <<protection, run>> /\ protection \in [Scopes -> BOOLEAN]
      /\ verification' = [verification EXCEPT ![s] = new]
      /\ result' = [result EXCEPT ![s].stale = TRUE]
      /\ (\A t \in Scopes : ResultOf(t)) /\ ReadinessTypes /\ PromisesHold
  <2>1. edits' = edits + 1 /\ edits \in Nat
    BY DEF ReadinessInv, ReadinessTypes, SaveVerificationProfile
  <2>. QED BY <2>1 DEF ReadinessInv, ReadinessTypes, SaveVerificationProfile
<1>0. Lose("verification", Verifies(verification', TRUE))
  BY Zenon DEF SaveVerificationProfile
<1>2. /\ verification' \in [Scopes -> Profiles]
      /\ \A t \in Scopes \ {s} : verification'[t] = verification[t]
  <2>1. new \in Profiles
    BY <1>1 DEF Profiles
  <2>. HIDE DEF new
  <2>. QED BY <1>1, <2>1
<1>3. /\ result' \in [Scopes -> Results] /\ result'[s].stale = TRUE
      /\ result'[s].status = result[s].status /\ result'[s].left = result[s].left
      /\ \A t \in Scopes \ {s} : result'[t] = result[t]
  BY <1>1 DEF Results
<1>4. \A t \in Scopes : ResultOf(t)'
  BY <1>1, <1>2, <1>3 DEF ResultOf
<1>5. Verifies(verification', TRUE) \in BOOLEAN
  BY DEF Verifies
<1>6. /\ update' \in Updates /\ Prepared(update') /\ RunInv'
      /\ update'.promised = update.promised /\ update.lost \subseteq update'.lost
      /\ "verification" \in update'.promised \ update'.lost => Verifies(verification', TRUE)
  <2> DEFINE holds == Verifies(verification', TRUE)
  <2>1. holds \in BOOLEAN /\ Lose("verification", holds) /\ "verification" \in Kinds
    BY <1>0, <1>5 DEF Kinds
  <2>2. holds <=> Verifies(verification', TRUE)
    OBVIOUS
  <2>. HIDE DEF holds
  <2>. QED BY <1>1, <2>1, <2>2, LostOrHeld
<1>7. PromisesHold'
  BY <1>1, <1>6 DEF PromisesHold
<1>. QED BY <1>1, <1>2, <1>3, <1>4, <1>6, <1>7 DEF ReadinessInv, ReadinessTypes, Prepared

LEMMA DeleteVerificationStep ==
  ASSUME ReadinessInv, NEW s \in Scopes, DeleteVerificationProfile(s)
  PROVE  ReadinessInv'
<1> DEFINE new == [is |-> "none", version |-> edits']
<1>1. /\ verification \in [Scopes -> Profiles] /\ result \in [Scopes -> Results]
      /\ edits' \in Nat /\ UNCHANGED <<protection, run>> /\ protection \in [Scopes -> BOOLEAN]
      /\ verification' = [verification EXCEPT ![s] = new]
      /\ result' = [result EXCEPT ![s] = NoResult]
      /\ (\A t \in Scopes : ResultOf(t)) /\ ReadinessTypes /\ PromisesHold
  <2>1. edits' = edits + 1 /\ edits \in Nat
    BY DEF ReadinessInv, ReadinessTypes, DeleteVerificationProfile
  <2>. QED BY <2>1 DEF ReadinessInv, ReadinessTypes, DeleteVerificationProfile
<1>0. Lose("verification", Verifies(verification', TRUE))
  BY Zenon DEF DeleteVerificationProfile
<1>2. /\ verification' \in [Scopes -> Profiles]
      /\ \A t \in Scopes \ {s} : verification'[t] = verification[t]
  <2>1. new \in Profiles
    BY <1>1 DEF Profiles
  <2>. HIDE DEF new
  <2>. QED BY <1>1, <2>1
<1>3. /\ result' \in [Scopes -> Results] /\ result'[s].status = "not_configured"
      /\ \A t \in Scopes \ {s} : result'[t] = result[t]
  <2>1. NoResult \in Results /\ NoResult.status = "not_configured"
    BY DEF NoResult, Results
  <2>. QED BY <1>1, <2>1
<1>4. \A t \in Scopes : ResultOf(t)'
  BY <1>1, <1>2, <1>3 DEF ResultOf
<1>5. Verifies(verification', TRUE) \in BOOLEAN
  BY DEF Verifies
<1>6. /\ update' \in Updates /\ Prepared(update') /\ RunInv'
      /\ update'.promised = update.promised /\ update.lost \subseteq update'.lost
      /\ "verification" \in update'.promised \ update'.lost => Verifies(verification', TRUE)
  <2> DEFINE holds == Verifies(verification', TRUE)
  <2>1. holds \in BOOLEAN /\ Lose("verification", holds) /\ "verification" \in Kinds
    BY <1>0, <1>5 DEF Kinds
  <2>2. holds <=> Verifies(verification', TRUE)
    OBVIOUS
  <2>. HIDE DEF holds
  <2>. QED BY <1>1, <2>1, <2>2, LostOrHeld
<1>7. PromisesHold'
  BY <1>1, <1>6 DEF PromisesHold
<1>. QED BY <1>1, <1>2, <1>3, <1>4, <1>6, <1>7 DEF ReadinessInv, ReadinessTypes, Prepared

LEMMA SaveProtectionStep ==
  ASSUME ReadinessInv, NEW s \in Scopes, SaveDataProtectionProfile(s)
  PROVE  ReadinessInv'
<1>1. /\ edits' \in Nat /\ UNCHANGED <<verification, result, run>> /\ PromisesHold /\ ReadinessTypes
      /\ protection' = [protection EXCEPT ![s] = ~@] /\ protection \in [Scopes -> BOOLEAN]
  <2>1. edits' = edits + 1 /\ edits \in Nat
    BY DEF ReadinessInv, ReadinessTypes, SaveDataProtectionProfile
  <2>. QED BY <2>1 DEF ReadinessInv, ReadinessTypes, SaveDataProtectionProfile
<1>0. Lose("protection", Protects(protection', TRUE))
  BY Zenon DEF SaveDataProtectionProfile
<1>2. protection' \in [Scopes -> BOOLEAN]
  BY <1>1
<1>3. Protects(protection', TRUE) \in BOOLEAN
  BY <1>2 DEF Protects, Scopes
<1>4. /\ update' \in Updates /\ Prepared(update') /\ RunInv'
      /\ update'.promised = update.promised /\ update.lost \subseteq update'.lost
      /\ "protection" \in update'.promised \ update'.lost => Protects(protection', TRUE)
  <2> DEFINE holds == Protects(protection', TRUE)
  <2>1. holds \in BOOLEAN /\ Lose("protection", holds) /\ "protection" \in Kinds
    BY <1>0, <1>3 DEF Kinds
  <2>2. holds <=> Protects(protection', TRUE)
    OBVIOUS
  <2>. HIDE DEF holds
  <2>. QED BY <1>1, <2>1, <2>2, LostOrHeld
<1>5. PromisesHold'
  BY <1>1, <1>4 DEF PromisesHold
<1>6. \A t \in Scopes : ResultOf(t)'
  BY <1>1 DEF ReadinessInv, ResultOf
<1>. QED BY <1>1, <1>2, <1>4, <1>5, <1>6 DEF ReadinessInv, ReadinessTypes, Prepared

(* A crash leaves the rows of the runs it ended                            *)
LEMMA CrashStep == ASSUME ReadinessInv, Crash PROVE ReadinessInv'
<1>1. /\ run' = [p \in Runners |-> NoRun] /\ UNCHANGED <<verification, protection, edits>>
      /\ result' = [s \in Scopes |-> IF \E p \in Runners : run[p].scope = s
                                     THEN [result[s] EXCEPT !.left = TRUE] ELSE result[s]]
      /\ ReadinessTypes /\ result \in [Scopes -> Results] /\ PromisesHold
  BY DEF ReadinessInv, ReadinessTypes, Crash, profiles
<1>2. run' \in [Runners -> Runs] /\ \A p \in Runners : run'[p] = NoRun
  BY <1>1, NoRunTyped
<1>3. \A s \in Scopes :
        /\ result'[s] \in Results /\ result'[s].status = result[s].status
        /\ result'[s].stale = result[s].stale /\ result'[s].ran = result[s].ran
        /\ result'[s].crossed = result[s].crossed
        /\ result[s].left => result'[s].left
        /\ (\E p \in Runners : run[p].scope = s) => result'[s].left
  BY <1>1 DEF Results
<1>4. result' \in [Scopes -> Results]
  BY <1>1, <1>3
<1>5. \A s \in Scopes : ResultOf(s)'
  BY <1>1, <1>3 DEF ReadinessInv, ResultOf
<1>6. update' \in Updates /\ Prepared(update') /\ PromisesHold'
  <2>1. CASE update' = update
    BY <1>1, <2>1 DEF ReadinessInv, ReadinessTypes, PromisesHold
  <2>2. CASE Settle("interrupted")
    BY <2>2, SettledUpdate DEF Jobs
  <2>. QED BY <2>1, <2>2 DEF Crash
<1>7. RunInv'
  BY <1>2, NoRunTyped DEF RunInv, Runners
<1>. QED BY <1>1, <1>2, <1>4, <1>5, <1>6, <1>7 DEF ReadinessInv, ReadinessTypes, Prepared

-----------------------------------------------------------------------------
(* The theorems *)

(* The invariant holds at the start and after every step                   *)
LEMMA ReadinessStart == Init => ReadinessInv
<1>. SUFFICES ASSUME Init PROVE ReadinessInv
  OBVIOUS
<1>1. PICK on \in Configured :
        /\ verification = [s \in Scopes |-> [is |-> IF s \in on THEN "on" ELSE "none", version |-> 0]]
        /\ protection = [s \in Scopes |-> s \in on]
  BY DEF Init
<1>2. verification \in [Scopes -> Profiles] /\ protection \in [Scopes -> BOOLEAN]
  BY <1>1 DEF Profiles
<1>3. /\ result = [s \in Scopes |-> NoResult] /\ run = [p \in Runners |-> NoRun]
      /\ update = NoUpdate /\ edits = 0
  BY DEF Init
<1>4. NoResult \in Results /\ NoResult.status = "not_configured"
  BY DEF NoResult, Results
<1>5. ReadinessTypes
  BY <1>2, <1>3, <1>4, NoRunTyped, NoUpdateTyped DEF ReadinessTypes
<1>6. \A s \in Scopes : ResultOf(s)
  BY <1>3, <1>4 DEF ResultOf
<1>7. RunInv
  BY <1>3, NoRunTyped DEF RunInv, Runners
<1>8. Prepared(update) /\ PromisesHold
  BY <1>3, NoUpdateTyped, NothingPromised DEF Cleared, PromisesHold
<1>. QED BY <1>5, <1>6, <1>7, <1>8 DEF ReadinessInv

LEMMA ReadinessNext == ReadinessInv /\ [Next]_vars => ReadinessInv'
<1>. SUFFICES ASSUME ReadinessInv, [Next]_vars PROVE ReadinessInv'
  OBVIOUS
<1>1. CASE UNCHANGED vars
  BY <1>1 DEF vars, ReadinessInv, ReadinessTypes, ResultOf, RunInv, Prepared, PromisesHold
<1>2. CASE UpdateStep
  BY <1>2, PreflightStep, SnapshotStep, RestorePointStep, DecideStep, ApplyStep, ConcludeStep DEF UpdateStep
<1>. QED BY <1>1, <1>2, BeginUpdateStep, VerificationStep, SaveVerificationStep, DeleteVerificationStep,
            SaveProtectionStep, CrashStep DEF Next

(* The verification rows, the runs and the update's promises agree with    *)
(* the profiles in force, whoever edits them (verification.go, preflight.go). *)
THEOREM ReadinessInvariant == Spec => []ReadinessInv
BY ReadinessStart, ReadinessNext, PTL DEF Spec

(* ShownIsTrue (effectiveVerificationState): what is shown as verified has *)
(* been run with the profile in force, and what is shown as running runs,  *)
(* but for the edits, crashes and failed writes it names.                  *)
THEOREM ShownResultsAreTrue == Spec => []ShownIsTrue
<1>1. ReadinessInv => ShownIsTrue
  BY DEF ReadinessInv, ReadinessTypes, ResultOf, ShownIsTrue, Shown, Verifies, EffectiveIn, Scopes, Results
<1>. QED BY <1>1, ReadinessInvariant, PTL

-----------------------------------------------------------------------------
(* What is covered *)

(* Beside the update's own steps, a step settles it or loses a promise *)
LEMMA OtherSteps ==
  ASSUME ReadinessInv, [Next]_vars, ~BeginUpdate, ~UpdateStep
  PROVE  \/ update'.stage = update.stage /\ update'.job = update.job
         \/ update'.stage = "idle" /\ update'.job = "interrupted"
<1>1. update \in Updates
  BY DEF ReadinessInv, ReadinessTypes
<1>2. \/ \E kind \in Kinds : update' \in {update, [update EXCEPT !.lost = @ \cup {kind}]}
      \/ Settle("interrupted")
  <2>1. CASE UNCHANGED vars
    BY <2>1 DEF vars, Kinds
  <2>2. CASE \E p \in Runners : Verification(p)
    <3>1. PICK p \in Runners : Verification(p)
      BY <2>2
    <3>2. CASE StartVerification(p)
      BY <3>2 DEF StartVerification, Kinds
    <3>3. CASE ExecuteVerificationCheck(p) \/ FinishVerification(p)
      BY <3>3 DEF ExecuteVerificationCheck, FinishVerification, Kinds
    <3>. QED BY <3>1, <3>2, <3>3 DEF Verification
  <2>3. CASE \E s \in Scopes, is \in {"on", "off"} : SaveVerificationProfile(s, is)
    BY <2>3 DEF SaveVerificationProfile, Lose, Kinds
  <2>4. CASE \E s \in Scopes : DeleteVerificationProfile(s) \/ SaveDataProtectionProfile(s)
    BY <2>4 DEF DeleteVerificationProfile, SaveDataProtectionProfile, Lose, Kinds
  <2>5. CASE Crash
    BY <2>5 DEF Crash, Kinds
  <2>. QED BY <2>1, <2>2, <2>3, <2>4, <2>5 DEF Next
<1>3. CASE Settle("interrupted")
  <2>1. "interrupted" \in Jobs
    BY DEF Jobs
  <2>. QED BY <2>1, <1>3, SettledUpdate
<1>4. CASE \E kind \in Kinds : update' \in {update, [update EXCEPT !.lost = @ \cup {kind}]}
  <2>1. PICK kind \in Kinds : update' \in {update, [update EXCEPT !.lost = @ \cup {kind}]}
    BY <1>4
  <2>2. CASE update' = update
    BY <2>2
  <2>3. CASE update' = [update EXCEPT !.lost = @ \cup {kind}]
    BY <1>1, <2>3 DEF Updates
  <2>. QED BY <2>1, <2>2, <2>3
<1>. QED BY <1>2, <1>3, <1>4

(* Only a decision that objects to nothing lets the update touch the host *)
LEMMA Deciding ==
  ASSUME ReadinessInv, [Next]_vars, Mutates
  PROVE  update.block = "none"
<1>1. update.stage = "decide" /\ update'.stage = "apply"
  BY DEF Mutates
<1>2. run["update"].at # "done"
  BY <1>1 DEF ReadinessInv, RunInv
<1>3. DecideOnPreflight
  BY <1>1, <1>2, OtherSteps DEF UpdateStep, BeginUpdate, RunUpdatePreflight, CreateSnapshots,
     CreateRestorePoint, Apply, Conclude
<1>4. ~\E outcome \in Jobs : Settle(outcome)
  BY <1>1, SettledUpdate
<1>. QED BY <1>3, <1>4 DEF DecideOnPreflight, Jobs

(* Only a verification that did not fail keeps the update *)
LEMMA Concluding ==
  ASSUME ReadinessInv, [Next]_vars, update.stage = "verify", update'.job = "success"
  PROVE  run["update"].at = "done" /\ run["update"].status # "failed"
<1>1. update.job = "running" /\ update \in Updates
  BY DEF ReadinessInv, Prepared, ReadinessTypes
<1>2. Conclude
  BY <1>1, OtherSteps DEF UpdateStep, BeginUpdate, RunUpdatePreflight, CreateSnapshots,
     CreateRestorePoint, Apply, DecideOnPreflight
<1>3. run["update"].status # "failed"
  <2>. SUFFICES ASSUME run["update"].status = "failed" PROVE FALSE
    OBVIOUS
  <2>1. update' = Goto("recheck")
    BY <1>2 DEF Conclude
  <2>. QED BY <1>1, <2>1 DEF Goto, Updates
<1>. QED BY <1>2, <1>3 DEF Conclude

(* What an update that nobody watches has when it touches the container    *)
LEMMA UnattendedStep ==
  ASSUME ReadinessInv, [Next]_vars, Mutates, update.mode # "manual"
  PROVE  LET f == update.facts IN
         /\ f.target = "running" /\ f.newer /\ f.major # "jump"
         /\ "target" \in update.snapshots /\ (f.dependents => "dependents" \in update.snapshots)
         /\ update.mode = "strict" =>
              /\ "verification" \in update.promised /\ update.point = "full"
              /\ update.data \/ f.mounts = "none" \/ "protection" \in update.lost
<1>1. Cleared(update) /\ update.stage = "decide"
  BY Deciding DEF Mutates, Cleared
<1>. QED BY <1>1 DEF ReadinessInv, Prepared

(* What every update has of what was announced                             *)
LEMMA AnnouncedStep ==
  ASSUME ReadinessInv, [Next]_vars
  PROVE  /\ Mutates /\ "protection" \in update.promised \ update.lost => update.data
         /\ /\ update.stage = "verify" /\ update'.job = "success"
            /\ "verification" \in update.promised \ update.lost
            => run["update"].passed = Checks
<1>1. ASSUME Mutates, "protection" \in update.promised \ update.lost PROVE update.data
  <2>1. Cleared(update) /\ update.stage = "decide"
    BY <1>1, Deciding DEF Mutates, Cleared
  <2>. QED BY <1>1, <2>1 DEF ReadinessInv, Prepared
<1>2. ASSUME update.stage = "verify", update'.job = "success",
             "verification" \in update.promised \ update.lost
      PROVE  run["update"].passed = Checks
  <2>1. run["update"].at = "done" /\ run["update"].status # "failed"
    BY <1>2, Concluding
  <2>2. Counted(run["update"]) /\ run["update"].status # "not_configured"
    BY <1>2, <2>1 DEF ReadinessInv, RunInv, Runners
  <2>. QED BY <2>1, <2>2 DEF Counted
<1>. QED BY <1>1, <1>2

(* UpdatesAreCovered (preflight.go:126, 159 and 258, data_protection.go:   *)
(* 1032): what the safety settings demand and what the preflight announced *)
(* is there before the container changes and before the update is kept.    *)
THEOREM EveryUpdateIsCovered == Spec => UpdatesAreCovered
<1>1. ReadinessInv /\ [Next]_vars =>
        [Mutates /\ update.mode # "manual" =>
           LET f == update.facts IN
           /\ f.target = "running" /\ f.newer /\ f.major # "jump"
           /\ "target" \in update.snapshots /\ (f.dependents => "dependents" \in update.snapshots)
           /\ update.mode = "strict" =>
                /\ "verification" \in update.promised /\ update.point = "full"
                /\ update.data \/ f.mounts = "none" \/ "protection" \in update.lost]_vars
  BY UnattendedStep
<1>2. ReadinessInv /\ [Next]_vars =>
        [/\ Mutates /\ "protection" \in update.promised \ update.lost => update.data
         /\ /\ update.stage = "verify" /\ update'.job = "success"
            /\ "verification" \in update.promised \ update.lost
            => run["update"].passed = Checks]_vars
  BY AnnouncedStep
<1>3. Spec => UnattendedIsProtected
  BY <1>1, ReadinessInvariant, PTL DEF Spec, UnattendedIsProtected
<1>4. Spec => AnnouncedIsDone
  BY <1>2, ReadinessInvariant, PTL DEF Spec, AnnouncedIsDone
<1>. QED BY <1>3, <1>4 DEF UpdatesAreCovered
=============================================================================
