---------------------------- MODULE RecoveryStore ----------------------------
(***************************************************************************)
(* The configuration snapshots of one unit, the restore points and images  *)
(* that belong to them, and everyone who removes them: the retention that  *)
(* follows every new snapshot and opens every garbage collection, the      *)
(* collection itself, the cleanup of unusable points and the deletion of   *)
(* an archive.  Updates create and use the points under the host's lease;  *)
(* retention and deletion take none.                                       *)
(*                                                                         *)
(* A snapshot is its number in the order of creation (names are times); a  *)
(* restore point has the number of its snapshot.                           *)
(***************************************************************************)
EXTENDS Naturals, FiniteSets, FiniteSetsExt

CONSTANTS MaxSnapshots, \* bound: snapshots ever taken
          Retention,    \* container_snapshot_retention
          MaxCrashes    \* bound: controller crashes

ASSUME RetentionAssumption == Retention \in Nat \ {0}
ASSUME BoundsAssumption == MaxSnapshots \in Nat /\ MaxCrashes \in Nat

VARIABLES file,    \* snapshots on disk
          image,   \* restore images on the host
          row,     \* the restore point's status in the store
          tx,      \* the transaction of the update that took the snapshot
          created, \* snapshots taken so far
          lease,   \* holder of the host's operation lease
          update,  \* the update under way
          sweep,   \* retention passes under way
          gc,      \* the garbage collection
          cleanup, \* the cleanup of unusable points
          doomed,  \* snapshots an archive deletion has yet to remove
          crashes

vars == <<file, image, row, tx, created, lease, update, sweep, gc, cleanup, doomed, crashes>>
store == <<file, image, row>>
jobs == <<sweep, gc, cleanup, doomed>>

Ids == 1 .. MaxSnapshots
Sweepers == {"update", "admin", "gc"}
NoUpdate == [at |-> "idle", id |-> 0]
NoSweep == [todo |-> {}, excess |-> 0, victim |-> 0]
NoGC == [at |-> "idle", list |-> {}, degraded |-> {}, keep |-> {}, id |-> 0, verdict |-> "none"]
NoCleanup == [list |-> {}, keep |-> {}]

Init ==
  /\ file = {} /\ image = {} /\ doomed = {}
  /\ row = [s \in Ids |-> "none"] /\ tx = [s \in Ids |-> "none"]
  /\ created = 0 /\ lease = "free" /\ crashes = 0
  /\ update = NoUpdate /\ sweep = [w \in Sweepers |-> NoSweep]
  /\ gc = NoGC /\ cleanup = NoCleanup

(* recoveryTransactionPinsRestorePoint: a transaction that knows its point *)
(* and is not settled                                                      *)
Pinned(s) == tx[s] \in {"prepared", "required"}
Listed == {s \in Ids : row[s] \notin {"none", "deleted"}}
Live == {s \in Ids : row[s] \in {"ready", "degraded", "restored"}}
Sweeping(w) == sweep[w].todo # {} \/ sweep[w].victim # 0

-----------------------------------------------------------------------------
(* Retention *)

(* enforceSnapshotRetention reads the directory and counts the excess *)
SweepOf(files) ==
  IF Cardinality(files) <= Retention THEN NoSweep
  ELSE [todo |-> files, excess |-> Cardinality(files) - Retention, victim |-> 0]

(* what is pinned is skipped without lowering the excess *)
CheckOldest(w) ==
  /\ sweep[w].todo # {} /\ sweep[w].victim = 0
  /\ LET s == Min(sweep[w].todo) IN
     sweep' = [sweep EXCEPT ![w] =
       IF @.excess = 0 THEN NoSweep
       ELSE [todo |-> @.todo \ {s}, excess |-> @.excess, victim |-> IF Pinned(s) THEN 0 ELSE s]]
  /\ UNCHANGED <<store, tx, created, lease, update, gc, cleanup, doomed, crashes>>

(* expireRestorePointsForSnapshot looks at the pins again; an image that   *)
(* cannot be removed is only logged                                        *)
Expire(s) ==
  IF Pinned(s) \/ s \notin Live THEN UNCHANGED <<row, image>>
  ELSE row' = [row EXCEPT ![s] = "expired"] /\ image' \in {image, image \ {s}}

(* a file another pass has removed does not lower the excess *)
RemoveOldest(w) ==
  /\ sweep[w].victim # 0
  /\ LET s == sweep[w].victim IN
     IF s \in file
     THEN /\ file' = file \ {s} /\ Expire(s)
          /\ sweep' = [sweep EXCEPT ![w].victim = 0, ![w].excess = @ - 1]
     ELSE sweep' = [sweep EXCEPT ![w].victim = 0] /\ UNCHANGED store
  /\ UNCHANGED <<tx, created, lease, update, gc, cleanup, doomed, crashes>>

Snapshot_SweepsFirst(w) ==
  /\ created < MaxSnapshots /\ ~Sweeping(w)
  /\ created' = created + 1
  /\ file' = file \cup {created + 1}
  /\ sweep' = [sweep EXCEPT ![w] = SweepOf(file)]

(* createContainerSnapshot writes the archive and enforces the retention *)
Snapshot(w) ==
  /\ created < MaxSnapshots /\ ~Sweeping(w)
  /\ created' = created + 1
  /\ file' = file \cup {created + 1}
  /\ sweep' = [sweep EXCEPT ![w] = SweepOf(file')]

AdminSnapshot ==
  /\ Snapshot("admin")
  /\ UNCHANGED <<image, row, tx, lease, update, gc, cleanup, doomed, crashes>>

(* the handler refuses while any snapshot of the unit is pinned *)
DeleteArchive ==
  /\ doomed = {} /\ file # {} /\ \A s \in file : ~Pinned(s)
  /\ doomed' = file
  /\ UNCHANGED <<store, tx, created, lease, update, sweep, gc, cleanup, crashes>>

(* a file that is gone fails the request *)
DeleteOne ==
  /\ doomed # {}
  /\ \E s \in doomed :
       IF s \in file
       THEN file' = file \ {s} /\ Expire(s) /\ doomed' = doomed \ {s}
       ELSE doomed' = {} /\ UNCHANGED store
  /\ UNCHANGED <<tx, created, lease, update, sweep, gc, cleanup, crashes>>

-----------------------------------------------------------------------------
(* Updates *)

StartUpdate ==
  /\ lease = "free" /\ update = NoUpdate
  /\ Snapshot("update")
  /\ lease' = "update"
  /\ update' = [at |-> "commit", id |-> created + 1]
  /\ tx' = [tx EXCEPT ![created + 1] = "open"]
  /\ UNCHANGED <<image, row, gc, cleanup, doomed, crashes>>

EndUpdate(status) ==
  /\ update' = NoUpdate /\ lease' = "free"
  /\ tx' = [tx EXCEPT ![update.id] = status]

(* the capture reads the snapshot back; a failed commit leaves a degraded  *)
(* row                                                                     *)
CommitImage ==
  /\ update.at = "commit" /\ ~Sweeping("update")
  /\ \/ /\ update.id \in file
        /\ image' = image \cup {update.id} /\ update' = [update EXCEPT !.at = "row"]
        /\ UNCHANGED <<row, lease, tx>>
     \/ /\ update.id \in file /\ row' = [row EXCEPT ![update.id] = "degraded"]
        /\ EndUpdate("failed") /\ UNCHANGED image
     \/ /\ update.id \notin file /\ EndUpdate("failed") /\ UNCHANGED <<image, row>>
  /\ UNCHANGED <<file, created, jobs, crashes>>

AddRestorePoint ==
  /\ update.at = "row"
  /\ row' = [row EXCEPT ![update.id] = "ready"]
  /\ update' = [update EXCEPT !.at = "prepare"]
  /\ UNCHANGED <<file, image, tx, created, lease, jobs, crashes>>

SetPrepared ==
  /\ update.at = "prepare"
  /\ tx' = [tx EXCEPT ![update.id] = "prepared"]
  /\ update' = [update EXCEPT !.at = "mutate"]
  /\ UNCHANGED <<store, created, lease, jobs, crashes>>

FinishUpdate ==
  /\ update.at = "mutate"
  /\ \E status \in {"settled", "required"} : EndUpdate(status)
  /\ UNCHANGED <<store, created, jobs, crashes>>

(* a rollback validates the point and settles what waits for it *)
ResolveByRollback(s) ==
  /\ lease = "free" /\ tx[s] = "required" /\ s \in file \cap image
  /\ tx' = [tx EXCEPT ![s] = "settled"]
  /\ row' = [row EXCEPT ![s] = "restored"]
  /\ UNCHANGED <<file, image, created, lease, update, jobs, crashes>>

-----------------------------------------------------------------------------
(* Garbage collection *)

GcSweep ==
  /\ gc.at = "idle" /\ ~Sweeping("gc")
  /\ gc' = [NoGC EXCEPT !.at = "read"]
  /\ sweep' = [sweep EXCEPT !["gc"] = SweepOf(file)]
  /\ UNCHANGED <<store, tx, created, lease, update, cleanup, doomed, crashes>>

GcRead_KeepsExpired ==
  /\ gc.at = "read" /\ ~Sweeping("gc")
  /\ gc' = [gc EXCEPT !.at = "validate", !.list = Live, !.keep = Listed,
                      !.degraded = {s \in Live : row[s] = "degraded"}]
  /\ UNCHANGED <<store, tx, created, lease, update, sweep, cleanup, doomed, crashes>>

(* one list of points serves the whole run *)
GcRead ==
  /\ gc.at = "read" /\ ~Sweeping("gc")
  /\ gc' = [gc EXCEPT !.at = "validate", !.list = Live, !.keep = Live,
                      !.degraded = {s \in Live : row[s] = "degraded"}]
  /\ UNCHANGED <<store, tx, created, lease, update, sweep, cleanup, doomed, crashes>>

GcValidate ==
  /\ gc.at = "validate" /\ gc.id = 0
  /\ \E s \in gc.list :
       gc' = [gc EXCEPT !.list = @ \ {s}, !.id = s,
                        !.verdict = IF s \notin file THEN "expired"
                                    ELSE IF s \in image THEN "ready" ELSE "degraded"]
  /\ UNCHANGED <<store, tx, created, lease, update, sweep, cleanup, doomed, crashes>>

(* what became of the row since it was read does not matter here *)
GcMark ==
  /\ gc.id # 0
  /\ \/ gc.verdict = "expired" /\ Expire(gc.id)
     \/ /\ gc.verdict = "degraded" \/ (gc.verdict = "ready" /\ gc.id \in gc.degraded)
        /\ row' = IF row[gc.id] = "deleted" THEN row ELSE [row EXCEPT ![gc.id] = gc.verdict]
        /\ UNCHANGED image
     \/ gc.verdict = "ready" /\ gc.id \notin gc.degraded /\ UNCHANGED <<row, image>>
  /\ gc' = [gc EXCEPT !.id = 0, !.verdict = "none"]
  /\ UNCHANGED <<file, tx, created, lease, update, sweep, cleanup, doomed, crashes>>

GcLease_NotTaken ==
  /\ gc.at = "validate" /\ gc.list = {} /\ gc.id = 0
  /\ gc' = IF Listed # {} THEN [gc EXCEPT !.at = "images"] ELSE NoGC
  /\ UNCHANGED <<store, tx, created, lease, update, sweep, cleanup, doomed, crashes>>

(* removeOrphanRestoreImages visits hosts that have points and skips a     *)
(* host whose lease is taken                                               *)
GcLease ==
  /\ gc.at = "validate" /\ gc.list = {} /\ gc.id = 0
  /\ IF lease = "free" /\ Listed # {}
     THEN lease' = "gc" /\ gc' = [gc EXCEPT !.at = "images"]
     ELSE gc' = NoGC /\ UNCHANGED lease
  /\ UNCHANGED <<store, tx, created, update, sweep, cleanup, doomed, crashes>>

GcImages ==
  /\ gc.at = "images"
  /\ image' = image \cap gc.keep
  /\ gc' = NoGC /\ lease' = "free"
  /\ UNCHANGED <<file, row, tx, created, update, sweep, cleanup, doomed, crashes>>

-----------------------------------------------------------------------------
(* Cleanup of unusable points: pins and points are read once *)

CleanupRead ==
  /\ cleanup = NoCleanup
  /\ cleanup' = [list |-> {s \in Ids : row[s] \in {"expired", "degraded"}},
                 keep |-> {s \in Ids : Pinned(s)}]
  /\ cleanup'.list # {}
  /\ UNCHANGED <<store, tx, created, lease, update, sweep, gc, doomed, crashes>>

(* without the lease, or with a snapshot another point depends on, nothing  *)
(* is removed; a file or an image that cannot be removed keeps the row      *)
CleanupOne ==
  /\ \E s \in cleanup.list :
       /\ cleanup' = IF cleanup.list = {s} THEN NoCleanup ELSE [cleanup EXCEPT !.list = @ \ {s}]
       /\ \/ UNCHANGED store
          \/ /\ s \notin cleanup.keep /\ lease = "free"
             /\ file' \in {file, file \ {s}} /\ image' \in {image, image \ {s}}
             /\ row' \in {row} \cup {[row EXCEPT ![r] = "deleted"] : r \in {s} \ (file' \cup image')}
  /\ UNCHANGED <<tx, created, lease, update, sweep, gc, doomed, crashes>>

-----------------------------------------------------------------------------
(* The controller restarts: recovery cancels what was not prepared and     *)
(* settles, or asks for a rollback of, what was.                           *)
Crash ==
  /\ crashes < MaxCrashes
  /\ crashes' = crashes + 1
  /\ \E status \in {"settled", "required"} :
       tx' = [s \in Ids |-> CASE tx[s] = "open" -> "failed"
                              [] tx[s] = "prepared" -> status
                              [] OTHER -> tx[s]]
  /\ lease' = "free" /\ update' = NoUpdate /\ doomed' = {}
  /\ sweep' = [w \in Sweepers |-> NoSweep] /\ gc' = NoGC /\ cleanup' = NoCleanup
  /\ UNCHANGED <<store, created>>

GcStep == GcSweep \/ GcRead \/ GcValidate \/ GcMark \/ GcLease \/ GcImages
UpdateStep == CommitImage \/ AddRestorePoint \/ SetPrepared \/ FinishUpdate
SweepStep == \E w \in Sweepers : CheckOldest(w) \/ RemoveOldest(w)

Next ==
  \/ SweepStep \/ UpdateStep \/ GcStep \/ DeleteOne \/ CleanupOne
  \/ AdminSnapshot \/ DeleteArchive \/ StartUpdate \/ CleanupRead \/ Crash
  \/ \E s \in Ids : ResolveByRollback(s)

(* Goroutines that run go on, and the daily loop starts a collection *)
Fairness == WF_vars(SweepStep) /\ WF_vars(UpdateStep) /\ WF_vars(GcStep)

Spec == Init /\ [][Next]_vars /\ Fairness
-----------------------------------------------------------------------------
(* Properties *)

TypeOK ==
  /\ file \subseteq 1 .. created /\ image \subseteq 1 .. created /\ doomed \subseteq Ids
  /\ row \in [Ids -> {"none", "ready", "degraded", "restored", "expired", "deleted"}]
  /\ tx \in [Ids -> {"none", "open", "prepared", "required", "settled", "failed"}]
  /\ lease \in {"free", "update", "gc"}
  /\ \A w \in Sweepers : sweep[w].todo \subseteq Ids /\ sweep[w].excess \in 0 .. MaxSnapshots
  /\ gc.list \cup gc.keep \cup cleanup.list \cup cleanup.keep \subseteq Ids

(* Between the commit of a restore image and the row that names it nothing *)
(* refers to the image; the host lease alone keeps a collection that is    *)
(* already working through an older list from taking it for an orphan.     *)
CapturedImageStays == update.at = "row" => update.id \in image

(* Once the retention passes are over, a unit has no more unpinned         *)
(* snapshots than its retention count, whoever created, pinned and removed *)
(* them meanwhile (a crash may interrupt the passes of two new snapshots).  *)
WasPinned(s) == tx[s] \in {"prepared", "required", "settled"}
UnitsStayBounded ==
  (\A w \in Sweepers : ~Sweeping(w))
    => Cardinality({s \in file : ~WasPinned(s)}) <= Retention + 2 * crashes

(* An image no live point names is removed, as long as the host still has  *)
(* any point at all (removeOrphanRestoreImages finds hosts by their points).*)
Orphan(s) == s \in image \ Live /\ update.id # s
OrphansGo == \A s \in Ids : Orphan(s) ~> ~Orphan(s) \/ Listed = {}

(* A point that claims to be usable and has lost its snapshot or its image *)
(* is marked, unless an unsettled transaction pins it.                     *)
Hollow(s) == row[s] \in {"ready", "restored"} /\ s \notin file \cap image /\ ~Pinned(s)
HollowPointsAreMarked == \A s \in Ids : Hollow(s) ~> ~Hollow(s)

(* Nothing the collection is for escapes it.                               *)
GarbageIsFound == OrphansGo /\ HollowPointsAreMarked
=============================================================================
