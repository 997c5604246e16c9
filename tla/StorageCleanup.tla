--------------------------- MODULE StorageCleanup ---------------------------
(***************************************************************************)
(* The cleanup jobs of one host: unused images, networks, anonymous        *)
(* volumes and the build cache, asked for by an administrator or by a      *)
(* cleanup automation, and the deletion of one named volume.  They run     *)
(* beside the updates that capture what a rollback needs, the retention    *)
(* that lets it go, and an owner who cancels what is queued, and stops,    *)
(* starts and removes the container.  A write of the store that fails is   *)
(* not tried again, and its job stays as it is.                            *)
(*                                                                         *)
(* One container is modelled, and created by updates only.  The build      *)
(* cache holds nothing a rollback needs: its cleanup has no objects.       *)
(***************************************************************************)
EXTENDS Naturals, Sequences, FiniteSets

CONSTANTS Images, Networks, Volumes,
          Anonymous,   \* volumes with a generated name
          FirstImage,  \* what the container runs at first
          HelperImage, \* what data archives are written and read with
          Archives,    \* the volume they are in; the container does not use it
          Rules,       \* what each cleanup automation has selected
          MaxUpdates,  \* bound: updates, each with a new image
          MaxFaults,   \* bound: Docker, store and archive failures
          MaxRequests  \* bound: cleanups asked for, scheduled runs included

ASSUME ObjectsAssumption ==
  /\ Anonymous \subseteq Volumes /\ Archives \in Volumes \ Anonymous
  /\ FirstImage \in Images /\ HelperImage \in Images \ {FirstImage}
  /\ Images \cap Networks = {} /\ Images \cap Volumes = {} /\ Networks \cap Volumes = {}
ASSUME BoundsAssumption == {MaxUpdates, MaxFaults, MaxRequests} \subseteq Nat

VARIABLES present,  \* objects on the host
          ctr,      \* the container: its state and its image
          zip,      \* update snapshots on disk, each with the objects it names
          row,      \* images that live restore points name
          lease,    \* holder of the host's operation lease
          update,   \* stage of the update under way
          updates,
          work,     \* the cleanup each runner is at
          plan,     \* what a scheduled run has left
          faults, requests

vars == <<present, ctr, zip, row, lease, update, updates, work, plan, faults, requests>>
retained == <<zip, row>>
updating == <<update, updates>>

Runners == {"admin", "schedule"}
(* job is the row; end, what the goroutine will write to it; lost, that a   *)
(* write or read failed and left the row behind                            *)
Idle == [at |-> "idle", kind |-> "none", job |-> "none", end |-> "none", lost |-> FALSE,
         guard |-> {}, seen |-> 0, todo |-> {}, blind |-> FALSE, scanned |-> TRUE,
         removed |-> FALSE, missed |-> FALSE]

Init ==
  /\ present = {FirstImage, HelperImage} \cup Networks \cup Volumes
  /\ ctr = [state |-> "running", image |-> FirstImage]
  /\ zip = <<>> /\ row = {}
  /\ lease = "free" /\ update = "none" /\ updates = 0
  /\ work = [p \in Runners |-> Idle] /\ plan = <<>>
  /\ faults = 0 /\ requests = 0

(* the networks and volumes of the container stay the same *)
References ==
  IF ctr.state = "gone" THEN {} ELSE {ctr.image} \cup Networks \cup (Volumes \ {Archives})
Busy == IF ctr.state = "running" THEN References ELSE {}

Kept == {i \in DOMAIN zip : zip[i] # {}}
Fault == faults < MaxFaults /\ faults' = faults + 1

-----------------------------------------------------------------------------
(* What a retained rollback needs *)

(* rollbackProtectedDockerObjects: what the snapshots name, and the images *)
(* of the live restore points                                              *)
Protected == (UNION {zip[i] : i \in Kept}) \cup row

(* an archive that cannot be read, or rows that cannot, are passed over    *)
Misread == {(UNION {zip[j] : j \in Kept \ {i}}) \cup row : i \in Kept} \cup {UNION {zip[i] : i \in Kept}}
Readings == {Protected} \cup Misread
ReadAs(guard) == IF guard = Protected THEN UNCHANGED faults ELSE Fault

-----------------------------------------------------------------------------
(* Inventories *)

UnusedImages_RunningOnly(scanned) == (present \cap Images) \ (IF scanned THEN Busy ELSE {})

(* imageInventory: a container list that cannot be read references nothing *)
UnusedImages(scanned) == (present \cap Images) \ (IF scanned THEN References ELSE {})

(* NetworkInventory: Docker lists the running members of a network only    *)
UnusedNetworks == (present \cap Networks) \ Busy

(* VolumeInventory asks Docker per volume when the scan is incomplete, and *)
(* what is then still unknown does not count as unused                     *)
UnusedVolumes == (present \cap Volumes) \ References

-----------------------------------------------------------------------------
(* Requests *)

Ask(p, kind) ==
  /\ work[p].at = "idle" /\ requests < MaxRequests
  /\ requests' = requests + 1
  /\ work' = [work EXCEPT ![p] = [Idle EXCEPT !.at = "queued", !.kind = kind, !.job = "queued"]]
  /\ UNCHANGED <<present, ctr, retained, lease, updating, plan, faults>>

HandleImagePrune == Ask("admin", "image")
HandleNetworkPrune == Ask("admin", "network")
HandleBuildCachePrune == Ask("admin", "cache")
HandleAnonymousVolumePrune == Ask("admin", "volume")

(* the handler refuses the volume of the archives, and looks at what is    *)
(* protected before it takes the lease                                     *)
HandleNamedVolumeDelete ==
  /\ work["admin"].at = "idle" /\ requests < MaxRequests
  /\ requests' = requests + 1
  /\ \E name \in Volumes \ {Archives}, guard \in Readings :
       /\ ReadAs(guard)
       /\ name \notin guard
       /\ work' = [work EXCEPT !["admin"] =
            [Idle EXCEPT !.at = "lease", !.kind = "delete", !.job = "queued",
                         !.seen = Len(zip), !.todo = {name},
                         !.blind = guard # Protected]]
  /\ UNCHANGED <<present, ctr, retained, lease, updating, plan>>

(* automationCleanupActions: what the rule selects, in this order          *)
Selected(rule, kind) == IF kind \in rule THEN <<kind>> ELSE <<>>
Actions(rule) ==
  Selected(rule, "image") \o Selected(rule, "network") \o Selected(rule, "cache")
    \o Selected(rule, "volume")

StartScheduledCleanup ==
  /\ plan = <<>> /\ work["schedule"].at = "idle" /\ requests < MaxRequests
  /\ requests' = requests + 1
  /\ \E rule \in Rules : plan' = Actions(rule)
  /\ UNCHANGED <<present, ctr, retained, lease, updating, work, faults>>

(* runScheduledCleanupHost: one action after the other; one that fails     *)
(* does not stop the next, nor one that gets no row                        *)
ScheduledCleanup ==
  /\ plan # <<>> /\ work["schedule"].at = "idle"
  /\ plan' = Tail(plan)
  /\ \/ /\ work' = [work EXCEPT !["schedule"] =
               [Idle EXCEPT !.at = "queued", !.kind = Head(plan), !.job = "queued"]]
        /\ UNCHANGED faults
     \/ Fault /\ UNCHANGED work
  /\ UNCHANGED <<present, ctr, retained, lease, updating, requests>>

(* handleJobCancel of a job that is queued, and the reclaim of its lease:  *)
(* a deletion by name is queued until it has the lease, and goes on        *)
CancelQueuedJob(p) ==
  /\ work[p].job = "queued"
  /\ work' = [work EXCEPT ![p].job = "cancelled"]
  /\ lease' = IF lease = p THEN "free" ELSE lease
  /\ UNCHANGED <<present, ctr, retained, updating, plan, faults, requests>>

-----------------------------------------------------------------------------
(* A cleanup job *)

Step(p, w) == work' = [work EXCEPT ![p] = w]

Settle(p, status) ==
  Step(p, [Idle EXCEPT !.at = "finish", !.job = work[p].job, !.end = status])
Ended(job, lost) == [Idle EXCEPT !.job = job, !.lost = lost]

FinishJob_KeepsLease(p) ==
  /\ work[p].at = "finish"
  /\ Step(p, Ended(work[p].end, FALSE))
  /\ UNCHANGED <<present, ctr, retained, lease, updating, plan, faults, requests>>

(* the row gets its end, whatever it said, or the write fails, which       *)
(* nobody notices; the deferred release gives the lease back               *)
FinishJob(p) ==
  /\ work[p].at = "finish"
  /\ \/ Step(p, Ended(work[p].end, FALSE)) /\ UNCHANGED faults
     \/ Fault /\ Step(p, Ended(work[p].job, TRUE))
  /\ lease' = IF lease = p THEN "free" ELSE lease
  /\ UNCHANGED <<present, ctr, retained, updating, plan, requests>>

(* beginAsyncJob: without a row to claim the goroutine ends, and the row   *)
(* stays as it is                                                          *)
BeginAsyncJob(p) ==
  /\ work[p].at = "queued"
  /\ \/ /\ work[p].job = "queued" /\ UNCHANGED faults
        /\ Step(p, [work[p] EXCEPT !.at = "lease", !.job = "running"])
     \/ /\ work[p].job = "cancelled" /\ UNCHANGED faults
        /\ Step(p, Ended("cancelled", FALSE))
     \/ Fault /\ Step(p, Ended(work[p].job, TRUE))
  /\ UNCHANGED <<present, ctr, retained, lease, updating, plan, requests>>

Leased(p) == [work[p] EXCEPT !.at = IF work[p].kind = "delete" THEN "start" ELSE "protect"]

HoldHostOperationLease_Shared(p) ==
  /\ work[p].at = "lease"
  /\ Step(p, Leased(p))
  /\ UNCHANGED <<present, ctr, retained, lease, updating, plan, faults, requests>>

(* holdHostOperationLease: a host in use refuses the job at once           *)
HoldHostOperationLease(p) ==
  /\ work[p].at = "lease"
  /\ \/ lease = "free" /\ lease' = p /\ Step(p, Leased(p)) /\ UNCHANGED faults
     \/ lease # "free" /\ Settle(p, "failed") /\ UNCHANGED <<lease, faults>>
     \/ Fault /\ Settle(p, "failed") /\ UNCHANGED lease
  /\ UNCHANGED <<present, ctr, retained, updating, plan, requests>>

(* StartJob of a deletion by name: a cancelled row stays cancelled, and a  *)
(* failure is ignored; the deletion goes on in any case                    *)
StartJob(p) ==
  /\ work[p].at = "start"
  /\ \/ /\ Step(p, [work[p] EXCEPT !.at = "inventory",
                                  !.job = IF @ = "cancelled" THEN @ ELSE "running"])
        /\ UNCHANGED faults
     \/ Fault /\ Step(p, [work[p] EXCEPT !.at = "inventory"])
  /\ UNCHANGED <<present, ctr, retained, lease, updating, plan, requests>>

(* what is protected is read under the lease                               *)
Guarding(p, guard, blind) ==
  Step(p, [work[p] EXCEPT !.at = "inventory", !.guard = guard, !.blind = blind])

Guard(p) ==
  /\ \E guard \in Readings : ReadAs(guard) /\ Guarding(p, guard, guard # Protected)
  /\ UNCHANGED <<present, ctr, retained, lease, updating, plan, requests>>

(* protectDataHelperImage adds the helper's image; when the inspection     *)
(* fails it does not                                                       *)
RunImageCleanup(p) ==
  /\ work[p].at = "protect" /\ work[p].kind = "image"
  /\ \/ \E guard \in Readings :
          ReadAs(guard) /\ Guarding(p, guard \cup {HelperImage}, guard # Protected)
     \/ Fault /\ Guarding(p, Protected, TRUE)
  /\ UNCHANGED <<present, ctr, retained, lease, updating, plan, requests>>

RunNetworkCleanup(p) ==
  /\ work[p].at = "protect" /\ work[p].kind = "network"
  /\ Guard(p)

RunAnonymousVolumeCleanup(p) ==
  /\ work[p].at = "protect" /\ work[p].kind = "volume"
  /\ Guard(p)

(* the builder's own prune; only its failure fails the job                 *)
RunBuildCacheCleanup(p) ==
  /\ work[p].at = "protect" /\ work[p].kind = "cache"
  /\ \/ Settle(p, "success") /\ UNCHANGED faults
     \/ Fault /\ Settle(p, "failed")
  /\ UNCHANGED <<present, ctr, retained, lease, updating, plan, requests>>

(* respondCleanupJob: what a client that waits is told; one that has gone  *)
(* changes nothing                                                         *)
Answer(w) ==
  CASE w.job \in {"queued", "running"} -> "wait" [] w.job = "success" -> "result"
    [] w.job = "failed" -> "error" [] w.job = "cancelled" -> "conflict" [] OTHER -> "none"

-----------------------------------------------------------------------------
(* The removal *)

RemoveSeen(p, eligible, scanned) ==
  Step(p, [work[p] EXCEPT !.at = "remove", !.todo = eligible \ work[p].guard, !.scanned = scanned])
Remove(p, eligible) == RemoveSeen(p, eligible, TRUE)

(* PruneUnusedImages *)
InventoryImages(p) ==
  /\ work[p].at = "inventory" /\ work[p].kind = "image"
  /\ \/ Remove(p, UnusedImages(TRUE)) /\ UNCHANGED faults
     \/ Fault /\ RemoveSeen(p, UnusedImages(FALSE), FALSE)
     \/ Fault /\ Settle(p, "failed")
  /\ UNCHANGED <<present, ctr, retained, lease, updating, plan, requests>>

(* PruneUnusedNetworks; a network that cannot be inspected is left out     *)
InventoryNetworks(p) ==
  /\ work[p].at = "inventory" /\ work[p].kind = "network"
  /\ \/ Remove(p, UnusedNetworks) /\ UNCHANGED faults
     \/ Fault /\ Remove(p, {})
     \/ Fault /\ Settle(p, "failed")
  /\ UNCHANGED <<present, ctr, retained, lease, updating, plan, requests>>

(* PruneUnusedAnonymousVolumes; volumes of unknown usage are left out      *)
InventoryVolumes(p) ==
  /\ work[p].at = "inventory" /\ work[p].kind = "volume"
  /\ \/ Remove(p, UnusedVolumes \cap Anonymous) /\ UNCHANGED faults
     \/ Fault /\ Remove(p, {})
     \/ Fault /\ Settle(p, "failed")
  /\ UNCHANGED <<present, ctr, retained, lease, updating, plan, requests>>

(* RemoveUnusedNamedVolume: refused when the volume is gone, used,         *)
(* anonymous or of unknown usage                                           *)
InspectNamedVolume(p) ==
  /\ work[p].at = "inventory" /\ work[p].kind = "delete"
  /\ \/ /\ work[p].todo \subseteq UnusedVolumes \ Anonymous
        /\ Step(p, [work[p] EXCEPT !.at = "remove"]) /\ UNCHANGED faults
     \/ /\ ~(work[p].todo \subseteq UnusedVolumes \ Anonymous)
        /\ Settle(p, "failed") /\ UNCHANGED faults
     \/ Fault /\ Settle(p, "failed")
  /\ UNCHANGED <<present, ctr, retained, lease, updating, plan, requests>>

(* Docker refuses what a running container uses, and a volume any          *)
(* container has; an image of a stopped one goes when forced               *)
DockerRefuses(o) == o \in Busy \/ (o \in Volumes /\ o \in References)

RemoveOne(p) ==
  /\ work[p].at = "remove"
  /\ \E o \in work[p].todo :
       \/ /\ ~DockerRefuses(o)
          /\ present' = present \ {o} /\ UNCHANGED faults
          /\ Step(p, [work[p] EXCEPT !.todo = @ \ {o}, !.removed = TRUE])
       \/ /\ DockerRefuses(o) /\ UNCHANGED <<present, faults>>
          /\ Step(p, [work[p] EXCEPT !.todo = @ \ {o}, !.missed = TRUE])
       \/ /\ Fault /\ UNCHANGED present
          /\ Step(p, [work[p] EXCEPT !.todo = @ \ {o}, !.missed = TRUE])
  /\ UNCHANGED <<ctr, retained, lease, updating, plan, requests>>

(* a named volume that stays fails its job, and so do volumes that all     *)
(* stay; an image or a network that stays does not                         *)
Unsuccessful(w) ==
  \/ w.kind = "delete" /\ w.missed
  \/ w.kind = "volume" /\ w.missed /\ ~w.removed

(* the image and volume inventories are refreshed at the end               *)
FinishRemoval(p) ==
  /\ work[p].at = "remove" /\ work[p].todo = {}
  /\ \/ Settle(p, IF Unsuccessful(work[p]) THEN "failed" ELSE "success") /\ UNCHANGED faults
     \/ work[p].kind \in {"image", "volume"} /\ Fault /\ Settle(p, "failed")
  /\ UNCHANGED <<present, ctr, retained, lease, updating, plan, requests>>

(* the job's deadline between two objects                                  *)
TimeOut(p) ==
  /\ work[p].at = "remove" /\ work[p].todo # {} /\ work[p].kind # "delete"
  /\ Fault /\ Settle(p, "failed")
  /\ UNCHANGED <<present, ctr, retained, lease, updating, plan, requests>>

-----------------------------------------------------------------------------
(* The rest of the system *)

(* an update keeps what the container has under the lease ...              *)
CaptureRollback ==
  /\ update = "none" /\ lease = "free" /\ updates < MaxUpdates /\ ctr.state # "gone"
  /\ References \subseteq present
  /\ lease' = "update" /\ update' = "captured" /\ updates' = updates + 1
  /\ zip' = Append(zip, References) /\ row' = row \cup {ctr.image}
  /\ UNCHANGED <<present, ctr, work, plan, faults, requests>>

(* ... puts a new image under it, or leaves it as it is                    *)
Recreate ==
  /\ update = "captured"
  /\ update' = "recreated"
  /\ \/ \E i \in Images \ present :
          present' = present \cup {i} /\ ctr' = [state |-> "running", image |-> i]
     \/ UNCHANGED <<present, ctr>>
  /\ UNCHANGED <<retained, lease, updates, work, plan, faults, requests>>

EndUpdate ==
  /\ update = "recreated"
  /\ update' = "none" /\ lease' = "free"
  /\ UNCHANGED <<present, ctr, retained, updates, work, plan, faults, requests>>

(* retention lets a snapshot or a restore point go; it takes no lease      *)
LetGo ==
  /\ \/ \E i \in Kept : zip' = [zip EXCEPT ![i] = {}] /\ UNCHANGED row
     \/ \E i \in row : row' = row \ {i} /\ UNCHANGED zip
  /\ UNCHANGED <<present, ctr, lease, updating, work, plan, faults, requests>>

(* a container starts with what it has only                                *)
OwnerActs ==
  /\ update = "none" /\ ctr.state # "gone"
  /\ \E s \in {"running", "stopped", "gone"} \ {ctr.state} :
       /\ s = "running" => References \subseteq present
       /\ ctr' = [ctr EXCEPT !.state = s]
  /\ UNCHANGED <<present, retained, lease, updating, work, plan, faults, requests>>

Removal(p) ==
  \/ InventoryImages(p) \/ InventoryNetworks(p) \/ InventoryVolumes(p)
  \/ InspectNamedVolume(p) \/ RemoveOne(p) \/ FinishRemoval(p) \/ TimeOut(p)

Cleanup(p) ==
  \/ BeginAsyncJob(p) \/ HoldHostOperationLease(p) \/ StartJob(p) \/ FinishJob(p)
  \/ RunImageCleanup(p) \/ RunNetworkCleanup(p) \/ RunAnonymousVolumeCleanup(p)
  \/ RunBuildCacheCleanup(p) \/ Removal(p)

Next ==
  \/ HandleImagePrune \/ HandleNetworkPrune \/ HandleBuildCachePrune
  \/ HandleAnonymousVolumePrune \/ HandleNamedVolumeDelete
  \/ StartScheduledCleanup \/ ScheduledCleanup
  \/ \E p \in Runners : Cleanup(p) \/ CancelQueuedJob(p)
  \/ CaptureRollback \/ Recreate \/ EndUpdate
  \/ LetGo \/ OwnerActs

(* goroutines run on and every Docker call has a deadline                  *)
Spec ==
  /\ Init /\ [][Next]_vars
  /\ WF_vars(ScheduledCleanup) /\ \A p \in Runners : WF_vars(Cleanup(p))

-----------------------------------------------------------------------------
(* Properties *)

(* No cleanup removes what a retained snapshot or a live restore point     *)
(* names (container_backups.go:745), nor the image and the volume of the   *)
(* data archives, in whatever order updates, retention, cancellations and  *)
(* cleanups run.  Two exceptions are exact: what the pass could not read,  *)
(* and an explicit deletion that looked before the snapshot was taken:     *)
(* volumes.go:123 reads what is protected before it takes the lease.       *)
RetainedStays ==
  [][\A o \in present \ present', p \in Runners :
       o \in work[p].todo \ work'[p].todo =>
         /\ o # Archives
         /\ ~work[p].blind =>
              IF work[p].kind = "delete"
              THEN \A i \in Kept : i <= work[p].seen => o \notin zip[i]
              ELSE o \notin Protected \cup {HelperImage}]_vars

(* A cleanup removes nothing the container uses (app.go:1631, "images not  *)
(* referenced by any container"), also when it is stopped.  The exceptions *)
(* are exact: the networks of a stopped container, and its image when the  *)
(* containers could not be listed.                                         *)
ReferencedStays ==
  [][\A o \in (present \ present') \cap References, p \in Runners :
       o \in work[p].todo \ work'[p].todo =>
         ctr.state = "stopped" /\ (o \in Networks \/ (o \in Images /\ ~work[p].scanned))]_vars

(* Every cleanup that was accepted ends and its lease comes back; its row  *)
(* is settled, or cancelled, unless it could not be read, claimed or       *)
(* written (nothing tries again before a restart); and a scheduled run     *)
(* goes through all its actions.                                           *)
CleanupsEnd ==
  /\ \A p \in Runners : work[p].at # "idle" ~>
       /\ work[p].at = "idle" /\ lease # p
       /\ Answer(work[p]) \in {"result", "error", "conflict"} \/ work[p].lost
  /\ plan # <<>> ~> plan = <<>> /\ work["schedule"].at = "idle"
=============================================================================
