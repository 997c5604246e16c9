-------------------------- MODULE RecoveryStoreProofs --------------------------
(* Two results about one unit's snapshots, for any number of snapshots, any   *)
(* retention and any number of crashes.                                       *)
(* Between the commit of a restore image and the row that names it nobody     *)
(* removes the image: the update holds the host lease, which whoever removes  *)
(* images without a row must have; and its point has no row yet, while        *)
(* everybody else works from lists of rows.                                   *)
(* When the retention passes are over no more unpinned snapshots stay than    *)
(* the retention allows: a pass under way owes that to the snapshots it began *)
(* with, and two passes that overlap owe it together.                         *)
EXTENDS RecoveryStore, FiniteSetTheorems, WellFoundedInduction, TLAPS

Rows == {"none", "ready", "degraded", "restored", "expired", "deleted"}
Written == {s \in Ids : row[s] # "none"}
Capturing == update.at \in {"commit", "row"}

Shape ==
    /\ row \in [Ids -> Rows]
    /\ created \in Nat
    /\ update \in [at : {"idle", "commit", "row", "prepare", "mutate"}, id : Nat]
    /\ gc \in [at : {"idle", "read", "validate", "images"}, list : SUBSET Ids,
               degraded : SUBSET Ids, keep : SUBSET Ids, id : Nat,
               verdict : {"none", "expired", "ready", "degraded"}]
    /\ cleanup \in [list : SUBSET Ids, keep : SUBSET Ids]

\* Who works under the host lease.
LeaseHeld ==
    /\ update.at # "idle" => lease = "update"
    /\ gc.at = "images" => lease = "gc"

\* Rows and images exist for snapshots that were taken, and the lists name such rows.
ListsAreOfRows ==
    /\ \A s \in Written \cup image : s <= created
    /\ gc.list \subseteq Written /\ (gc.id # 0 => gc.id \in Written)
    /\ cleanup.list \subseteq Written

\* The point of a capture under way has no row.
CaptureIsNew == Capturing => update.id \in Ids \ Written /\ update.id <= created

CaptureInv == Shape /\ LeaseHeld /\ ListsAreOfRows /\ CaptureIsNew /\ CapturedImageStays

-----------------------------------------------------------------------------
LEMMA InitCapture == Init => CaptureInv
    BY BoundsAssumption DEF Init, CaptureInv, Shape, LeaseHeld, ListsAreOfRows, CaptureIsNew, CapturedImageStays,
       Capturing, Written, Rows, NoUpdate, NoGC, NoCleanup, Ids

\* What an expiry may touch: a row that exists stays, and so does the image of
\* whatever has no row.
LEMMA ExpireFacts ==
    ASSUME Shape, NEW s, Expire(s)
    PROVE  /\ row' \in [Ids -> Rows] /\ Written' = Written
           /\ image' \subseteq image /\ \A i \in image \ image' : i \in Written
<1>1. CASE Pinned(s) \/ s \notin Live
    BY <1>1 DEF Expire, Shape, Written
<1>2. CASE ~(Pinned(s) \/ s \notin Live)
  <2>1. row' = [row EXCEPT ![s] = "expired"] /\ image' \in {image, image \ {s}}
    BY <1>2 DEF Expire
  <2>2. s \in Ids /\ row[s] # "none"
    BY <1>2 DEF Live
  <2> QED
    BY <2>1, <2>2 DEF Shape, Rows, Written
<1> QED
    BY <1>1, <1>2

\* A step that leaves the update and the leases alone, writes no new row and
\* takes no image without a row keeps the invariant.
LEMMA BystanderFacts ==
    ASSUME CaptureInv, row' \in [Ids -> Rows], Written' = Written,
           image' \subseteq image, \A i \in image \ image' : i \in Written,
           UNCHANGED <<created, lease, update, gc>>,
           cleanup' = cleanup
    PROVE  CaptureInv'
<1>1. Shape'
    BY DEF CaptureInv, Shape, Rows
<1>2. LeaseHeld' /\ ListsAreOfRows' /\ CaptureIsNew'
    BY DEF CaptureInv, LeaseHeld, ListsAreOfRows, CaptureIsNew, Capturing
<1>3. CapturedImageStays'
    BY DEF CaptureInv, CapturedImageStays, CaptureIsNew, Capturing
<1> QED
    BY <1>1, <1>2, <1>3 DEF CaptureInv

LEMMA StepCapture == CaptureInv /\ [Next]_vars => CaptureInv'
<1> SUFFICES ASSUME CaptureInv, [Next]_vars PROVE CaptureInv'
    OBVIOUS
<1> USE DEF CaptureInv
<1>same. ASSUME UNCHANGED <<row, image>>
         PROVE  /\ row' \in [Ids -> Rows] /\ Written' = Written
                /\ image' \subseteq image /\ \A i \in image \ image' : i \in Written
    BY <1>same DEF Shape, Written
<1>1. ASSUME NEW w \in Sweepers, CheckOldest(w) PROVE CaptureInv'
    BY <1>1, <1>same, BystanderFacts DEF CheckOldest, store
<1>2. ASSUME NEW w \in Sweepers, RemoveOldest(w) PROVE CaptureInv'
  <2>1. CASE sweep[w].victim \in file
    <3>1. Expire(sweep[w].victim)
      BY <1>2, <2>1 DEF RemoveOldest
    <3> QED
      BY <1>2, <3>1, ExpireFacts, BystanderFacts DEF RemoveOldest
  <2>2. CASE sweep[w].victim \notin file
    BY <1>2, <2>2, <1>same, BystanderFacts DEF RemoveOldest, store
  <2> QED
    BY <2>1, <2>2
<1>3. CASE CommitImage
  <2>1. gc' = gc /\ cleanup' = cleanup /\ created' = created
    BY <1>3 DEF CommitImage, jobs
  <2>2. CASE /\ image' = image \cup {update.id} /\ update' = [update EXCEPT !.at = "row"]
             /\ UNCHANGED <<row, lease, tx>>
    <3>1. update'.at = "row" /\ update'.id = update.id /\ update' \in [at : {"idle", "commit", "row", "prepare", "mutate"}, id : Nat]
      BY <2>2 DEF Shape
    <3>2. Written' = Written
      BY <2>2 DEF Written
    <3>3. update.at = "commit" /\ update.id <= created
      BY <1>3 DEF CommitImage, CaptureIsNew, Capturing
    <3>4. Shape' /\ LeaseHeld' /\ ListsAreOfRows'
      BY <2>1, <2>2, <3>1, <3>2, <3>3 DEF Shape, LeaseHeld, ListsAreOfRows
    <3>5. CaptureIsNew' /\ CapturedImageStays'
      BY <2>1, <2>2, <3>1, <3>2, <3>3 DEF CaptureIsNew, Capturing, CapturedImageStays
    <3> QED
      BY <3>4, <3>5
  <2>3. CASE row' = [row EXCEPT ![update.id] = "degraded"] /\ EndUpdate("failed") /\ UNCHANGED image
    <3>1. update' = NoUpdate /\ lease' = "free" /\ update.id \in Ids /\ update.id <= created /\ gc.at # "images"
      BY <1>3, <2>3 DEF CommitImage, EndUpdate, CaptureIsNew, Capturing, LeaseHeld
    <3>2. row' \in [Ids -> Rows] /\ Written' = Written \cup {update.id}
      BY <2>3, <3>1 DEF Shape, Rows, Written
    <3>3. update' \in [at : {"idle", "commit", "row", "prepare", "mutate"}, id : Nat] /\ update'.at = "idle"
      BY <3>1 DEF NoUpdate
    <3>4. Shape'
      BY <2>1, <3>2, <3>3 DEF Shape, Rows
    <3>5. LeaseHeld' /\ ListsAreOfRows'
      BY <2>1, <2>3, <3>1, <3>2, <3>3 DEF LeaseHeld, ListsAreOfRows
    <3> QED
      BY <3>3, <3>4, <3>5 DEF CaptureIsNew, Capturing, CapturedImageStays
  <2>4. CASE EndUpdate("failed") /\ UNCHANGED <<image, row>>
    <3>1. update' = NoUpdate /\ lease' = "free" /\ gc.at # "images"
      BY <1>3, <2>4 DEF CommitImage, EndUpdate, LeaseHeld
    <3>2. update' \in [at : {"idle", "commit", "row", "prepare", "mutate"}, id : Nat] /\ update'.at = "idle"
      BY <3>1 DEF NoUpdate
    <3>3. Written' = Written /\ Shape'
      BY <2>1, <2>4, <3>2 DEF Shape, Written
    <3> QED
      BY <2>1, <2>4, <3>1, <3>2, <3>3 DEF LeaseHeld, ListsAreOfRows, CaptureIsNew, Capturing, CapturedImageStays
  <2> QED
    BY <1>3, <2>2, <2>3, <2>4 DEF CommitImage
<1>4. CASE AddRestorePoint
  <2>1. update.id \in Ids \ Written /\ update.id <= created
    BY <1>4 DEF AddRestorePoint, CaptureIsNew, Capturing
  <2>2. update' \in [at : {"idle", "commit", "row", "prepare", "mutate"}, id : Nat] /\ update'.at = "prepare"
    BY <1>4 DEF AddRestorePoint, Shape
  <2>3. row' \in [Ids -> Rows] /\ Written' = Written \cup {update.id}
    BY <1>4, <2>1 DEF AddRestorePoint, Shape, Rows, Written
  <2>4. Shape'
    BY <1>4, <2>2, <2>3 DEF AddRestorePoint, Shape, jobs
  <2>5. LeaseHeld' /\ ListsAreOfRows'
    BY <1>4, <2>1, <2>2, <2>3 DEF AddRestorePoint, LeaseHeld, ListsAreOfRows, jobs
  <2> QED
    BY <2>2, <2>4, <2>5 DEF CaptureIsNew, Capturing, CapturedImageStays
<1>5. CASE SetPrepared
  <2>1. update' \in [at : {"idle", "commit", "row", "prepare", "mutate"}, id : Nat] /\ update'.at = "mutate"
    BY <1>5 DEF SetPrepared, Shape
  <2>2. Written' = Written
    BY <1>5 DEF SetPrepared, store, Written
  <2>3. Shape' /\ LeaseHeld' /\ ListsAreOfRows'
    BY <1>5, <2>1, <2>2 DEF SetPrepared, Shape, LeaseHeld, ListsAreOfRows, jobs, store
  <2> QED
    BY <2>1, <2>3 DEF CaptureIsNew, Capturing, CapturedImageStays
<1>6. CASE FinishUpdate
  <2>1. update' = NoUpdate /\ lease' = "free" /\ gc.at # "images"
    BY <1>6 DEF FinishUpdate, EndUpdate, LeaseHeld
  <2>2. update' \in [at : {"idle", "commit", "row", "prepare", "mutate"}, id : Nat] /\ update'.at = "idle"
    BY <2>1 DEF NoUpdate
  <2>3. Written' = Written
    BY <1>6 DEF FinishUpdate, store, Written
  <2>4. Shape' /\ LeaseHeld' /\ ListsAreOfRows'
    BY <1>6, <2>1, <2>2, <2>3 DEF FinishUpdate, Shape, LeaseHeld, ListsAreOfRows, jobs, store
  <2> QED
    BY <2>2, <2>4 DEF CaptureIsNew, Capturing, CapturedImageStays
<1>7. CASE GcSweep \/ GcRead \/ GcValidate
  <2>1. /\ gc' \in [at : {"idle", "read", "validate", "images"}, list : SUBSET Ids,
                    degraded : SUBSET Ids, keep : SUBSET Ids, id : Nat,
                    verdict : {"none", "expired", "ready", "degraded"}]
        /\ gc'.at # "images" /\ gc'.list \subseteq Written /\ (gc'.id # 0 => gc'.id \in Written)
    <3>1. CASE GcSweep
      BY <3>1 DEF GcSweep, NoGC
    <3>2. CASE GcRead
      BY <3>2 DEF GcRead, Shape, Live, ListsAreOfRows, Written
    <3>3. CASE GcValidate
      <4>1. PICK s \in gc.list :
              gc' = [gc EXCEPT !.list = @ \ {s}, !.id = s,
                               !.verdict = IF s \notin file THEN "expired"
                                           ELSE IF s \in image THEN "ready" ELSE "degraded"]
        BY <3>3 DEF GcValidate
      <4>2. s \in Ids /\ s \in Nat /\ s \in Written
        BY DEF Shape, ListsAreOfRows, Ids
      <4> QED
        BY <3>3, <4>1, <4>2 DEF GcValidate, Shape, ListsAreOfRows
    <3> QED
      BY <1>7, <3>1, <3>2, <3>3
  <2>2. UNCHANGED <<row, image, created, lease, update, cleanup>>
    BY <1>7 DEF GcSweep, GcRead, GcValidate, store
  <2>3. Shape' /\ Written' = Written
    BY <2>1, <2>2 DEF Shape, Written
  <2> QED
    BY <2>1, <2>2, <2>3 DEF LeaseHeld, ListsAreOfRows, CaptureIsNew, Capturing, CapturedImageStays
<1>8. CASE GcMark
  <2>1. gc.id \in Ids /\ row[gc.id] # "none"
    BY <1>8 DEF GcMark, ListsAreOfRows, Written
  <2>2. /\ row' \in [Ids -> Rows] /\ Written' = Written
        /\ image' \subseteq image /\ \A i \in image \ image' : i \in Written
    <3>1. CASE Expire(gc.id)
      BY <3>1, ExpireFacts
    <3>2. CASE /\ gc.verdict \in {"degraded", "ready"} /\ image' = image
               /\ row' = IF row[gc.id] = "deleted" THEN row ELSE [row EXCEPT ![gc.id] = gc.verdict]
      BY <2>1, <3>2 DEF Shape, Rows, Written
    <3>3. CASE UNCHANGED <<row, image>>
      BY <3>3, <1>same
    <3> QED
      BY <1>8, <3>1, <3>2, <3>3 DEF GcMark
  <2>3. /\ gc' \in [at : {"idle", "read", "validate", "images"}, list : SUBSET Ids,
                    degraded : SUBSET Ids, keep : SUBSET Ids, id : Nat,
                    verdict : {"none", "expired", "ready", "degraded"}]
        /\ gc'.at = gc.at /\ gc'.list = gc.list /\ gc'.id = 0
    BY <1>8 DEF GcMark, Shape
  <2>4. UNCHANGED <<created, lease, update, cleanup>>
    BY <1>8 DEF GcMark
  <2>5. Shape' /\ LeaseHeld' /\ ListsAreOfRows'
    BY <2>2, <2>3, <2>4 DEF Shape, Rows, LeaseHeld, ListsAreOfRows
  <2> QED
    BY <2>2, <2>4, <2>5 DEF CaptureIsNew, Capturing, CapturedImageStays
<1>9. CASE GcLease \/ GcImages
  <2>1. UNCHANGED <<row, created, update, cleanup>> /\ Written' = Written
    BY <1>9 DEF GcLease, GcImages, store, Written
  <2>2. gc' \in [at : {"idle", "read", "validate", "images"}, list : SUBSET Ids,
                 degraded : SUBSET Ids, keep : SUBSET Ids, id : Nat,
                 verdict : {"none", "expired", "ready", "degraded"}]
        /\ gc'.list \subseteq Written /\ (gc'.id # 0 => gc'.id \in Written)
    BY <1>9 DEF GcLease, GcImages, Shape, ListsAreOfRows, NoGC
  <2>3. LeaseHeld'
    BY <1>9, <2>1 DEF GcLease, GcImages, LeaseHeld, NoGC, Shape
  <2>4. image' \subseteq image /\ (image' = image \/ update.at = "idle")
    BY <1>9 DEF GcLease, GcImages, store, LeaseHeld
  <2>5. Shape' /\ ListsAreOfRows'
    BY <2>1, <2>2, <2>4 DEF Shape, ListsAreOfRows
  <2> QED
    BY <2>1, <2>3, <2>4, <2>5 DEF CaptureIsNew, Capturing, CapturedImageStays
<1>10. CASE DeleteOne
  <2>1. PICK s \in doomed : \/ Expire(s)
                            \/ UNCHANGED store
    BY <1>10 DEF DeleteOne
  <2>2. /\ row' \in [Ids -> Rows] /\ Written' = Written
        /\ image' \subseteq image /\ \A i \in image \ image' : i \in Written
    BY <2>1, <1>same, ExpireFacts DEF store
  <2> QED
    BY <1>10, <2>2, BystanderFacts DEF DeleteOne
<1>11. CASE CleanupOne
  <2>1. PICK s \in cleanup.list :
          /\ cleanup' = IF cleanup.list = {s} THEN NoCleanup ELSE [cleanup EXCEPT !.list = @ \ {s}]
          /\ \/ UNCHANGED store
             \/ /\ lease = "free" /\ image' \in {image, image \ {s}}
                /\ row' = row \/ row' = [row EXCEPT ![s] = "deleted"]
    BY <1>11 DEF CleanupOne
  <2>2. s \in Ids /\ row[s] # "none"
    BY DEF ListsAreOfRows, Written
  <2>3. cleanup' \in [list : SUBSET Ids, keep : SUBSET Ids] /\ cleanup'.list \subseteq cleanup.list
    BY <2>1 DEF Shape, NoCleanup
  <2>4. row' \in [Ids -> Rows] /\ Written' = Written
    BY <2>1, <2>2 DEF Shape, Rows, Written, store
  <2>5. image' \subseteq image /\ (image' = image \/ update.at = "idle")
    BY <2>1 DEF store, LeaseHeld
  <2>6. UNCHANGED <<created, lease, update, gc>>
    BY <1>11 DEF CleanupOne
  <2>7. Shape' /\ LeaseHeld' /\ ListsAreOfRows'
    BY <2>3, <2>4, <2>5, <2>6 DEF Shape, Rows, LeaseHeld, ListsAreOfRows
  <2> QED
    BY <2>4, <2>5, <2>6, <2>7 DEF CaptureIsNew, Capturing, CapturedImageStays
<1>12. CASE AdminSnapshot
  <2>1. created' = created + 1 /\ UNCHANGED <<row, image, lease, update, gc, cleanup>>
    BY <1>12 DEF AdminSnapshot, Snapshot
  <2>2. Written' = Written /\ Shape' /\ LeaseHeld'
    BY <2>1 DEF Written, Shape, LeaseHeld
  <2>3. Ids \subseteq Nat
    BY DEF Ids
  <2>4. ListsAreOfRows' /\ CaptureIsNew'
    BY <2>1, <2>2, <2>3 DEF Shape, ListsAreOfRows, CaptureIsNew, Capturing, Written
  <2> QED
    BY <2>1, <2>2, <2>4 DEF CapturedImageStays
<1>13. CASE DeleteArchive
    BY <1>13, <1>same, BystanderFacts DEF DeleteArchive, store
<1>14. CASE StartUpdate
  <2>1. /\ created' = created + 1 /\ created < MaxSnapshots /\ UNCHANGED <<row, image, gc, cleanup>>
        /\ lease = "free" /\ lease' = "update" /\ update' = [at |-> "commit", id |-> created + 1]
    BY <1>14 DEF StartUpdate, Snapshot
  <2>2. Written' = Written /\ created + 1 \in Ids \ Written /\ Ids \subseteq Nat
    BY <2>1, BoundsAssumption DEF Written, Ids, Shape, ListsAreOfRows
  <2>3. Shape' /\ LeaseHeld'
    BY <2>1, <2>2 DEF Shape, LeaseHeld
  <2>4. ListsAreOfRows' /\ CaptureIsNew' /\ CapturedImageStays'
    BY <2>1, <2>2 DEF Shape, ListsAreOfRows, CaptureIsNew, Capturing, CapturedImageStays, Written
  <2> QED
    BY <2>3, <2>4
<1>15. CASE CleanupRead
  <2>1. /\ UNCHANGED <<row, image, created, lease, update, gc>>
        /\ cleanup' = [list |-> {s \in Ids : row[s] \in {"expired", "degraded"}},
                       keep |-> {s \in Ids : Pinned(s)}]
    BY <1>15 DEF CleanupRead, store
  <2>2. Written' = Written /\ cleanup' \in [list : SUBSET Ids, keep : SUBSET Ids] /\ cleanup'.list \subseteq Written
    BY <2>1 DEF Written
  <2>3. Shape' /\ LeaseHeld' /\ ListsAreOfRows'
    BY <2>1, <2>2 DEF Shape, LeaseHeld, ListsAreOfRows
  <2> QED
    BY <2>1, <2>2, <2>3 DEF CaptureIsNew, Capturing, CapturedImageStays
<1>16. CASE Crash
  <2>1. /\ UNCHANGED <<row, image, created>> /\ lease' = "free" /\ update' = NoUpdate
        /\ gc' = NoGC /\ cleanup' = NoCleanup
    BY <1>16 DEF Crash, store
  <2>2. Written' = Written /\ Shape'
    BY <2>1 DEF Written, Shape, NoUpdate, NoGC, NoCleanup
  <2> QED
    BY <2>1, <2>2 DEF LeaseHeld, ListsAreOfRows, CaptureIsNew, Capturing, CapturedImageStays, NoUpdate, NoGC, NoCleanup
<1>17. ASSUME NEW s \in Ids, ResolveByRollback(s) PROVE CaptureInv'
  <2>1. /\ UNCHANGED <<image, created, lease, update, gc, cleanup>> /\ lease = "free"
        /\ row' = [row EXCEPT ![s] = "restored"]
    BY <1>17 DEF ResolveByRollback, jobs
  <2>2. s \in image
    BY <1>17 DEF ResolveByRollback
  <2>3. row' \in [Ids -> Rows] /\ Written' = Written \cup {s} /\ s <= created
    BY <2>1, <2>2 DEF Shape, Rows, Written, ListsAreOfRows
  <2>4. Shape'
    BY <2>1, <2>3 DEF Shape
  <2>5. LeaseHeld' /\ ListsAreOfRows' /\ update'.at = "idle"
    BY <2>1, <2>3 DEF LeaseHeld, ListsAreOfRows, Shape
  <2> QED
    BY <2>4, <2>5 DEF CaptureIsNew, Capturing, CapturedImageStays
<1>18. CASE UNCHANGED vars
    BY <1>18, <1>same, BystanderFacts DEF vars
<1> QED
    BY <1>1, <1>2, <1>3, <1>4, <1>5, <1>6, <1>7, <1>8, <1>9, <1>10, <1>11, <1>12, <1>13,
       <1>14, <1>15, <1>16, <1>17, <1>18 DEF Next, SweepStep, UpdateStep, GcStep

\* The image an update has just committed is there when it writes the row
\* that names it, whatever retention, collections, cleanups, deletions and
\* crashes do meanwhile (restore_points.go commit and AddRestorePoint).
THEOREM CaptureSurvives == Spec => []CapturedImageStays
<1>1. Init => CaptureInv
    BY InitCapture
<1>2. CaptureInv /\ [Next]_vars => CaptureInv'
    BY StepCapture
<1>3. CaptureInv => CapturedImageStays
    BY DEF CaptureInv
<1> QED
    BY <1>1, <1>2, <1>3, PTL DEF Spec

-----------------------------------------------------------------------------
(* How many snapshots stay.  A new snapshot is one too many until the         *)
(* retention pass that follows it is over, and two passes may be under way,    *)
(* an update's and an administrator's.  What is certain at any moment is what  *)
(* a pass still owes: the unpinned snapshots it may leave are those it has     *)
(* not come to yet, and it ends when no excess is left or nothing to look at;  *)
(* a pass begun before the other's snapshot answers for all snapshots but      *)
(* that one.                                                                   *)

Takers == {"update", "admin"}
Unpinned == {s \in file : ~WasPinned(s)}
Ahead(w) == sweep[w].todo \cup {sweep[w].victim}
Within(k) == Cardinality(Unpinned) <= Retention + 2 * crashes + k
Owes(w, X) ==
    /\ Sweeping(w)
    /\ Cardinality(file \ X) <= Retention + sweep[w].excess
    /\ Unpinned \ X \subseteq Ahead(w)
    /\ X \cap Ahead(w) = {}

TxStates == {"none", "open", "prepared", "required", "settled", "failed"}
SweepShape ==
    /\ file \subseteq 1 .. created /\ created \in 0 .. MaxSnapshots /\ crashes \in Nat
    /\ tx \in [Ids -> TxStates]
    /\ sweep \in [Sweepers -> [todo : SUBSET (1 .. created), excess : Nat, victim : 0 .. created]]
    /\ \A w \in Sweepers : sweep[w].victim # 0 => sweep[w].excess # 0

\* A snapshot whose image is not yet committed is no one's rollback point.
OpenIsOpen == update.at = "commit" => tx[update.id] = "open"

Bounded ==
    \/ Within(0)
    \/ \E w \in Takers : Owes(w, {}) /\ Within(1)
    \/ \E w, x \in Takers : \E n \in 1 .. created :
          w # x /\ Owes(w, {}) /\ Owes(x, {n}) /\ Within(2)

RetentionInv == SweepShape /\ OpenIsOpen /\ Bounded

-----------------------------------------------------------------------------
\* The oldest of the files a pass has to look at is one of them.
LEMMA MinIsMember == ASSUME NEW S \in SUBSET Nat, S # {} PROVE Min(S) \in S
<1> DEFINE R == {p \in Nat \X Nat : p[1] < p[2]}
<1>1. IsWellFoundedOn(R, Nat)
    BY NatLessThanWellFounded DEF OpToRel
<1>2. PICK x \in S : \A y \in S : ~(<<y, x>> \in R)
  <2> HIDE DEF R
  <2> QED
    BY <1>1, WFMin
<1>3. \A y \in S : x <= y
  <2> SUFFICES ASSUME NEW y \in S, y < x PROVE FALSE
    BY SMT
  <2>1. <<y, x>> \in R
    BY SMT
  <2> QED
    BY <1>2, <2>1
<1> QED
    BY <1>3 DEF Min

\* Sizes of sets of snapshots.
LEMMA Sizes ==
    ASSUME NEW n \in Nat, NEW S \in SUBSET (1 .. n), NEW T \in SUBSET S
    PROVE  /\ Cardinality(S) \in Nat /\ Cardinality(T) \in Nat
           /\ Cardinality(T) <= Cardinality(S)
<1>1. IsFiniteSet(S)
  <2>1. IsFiniteSet(1 .. n)
    BY FS_Interval
  <2> QED
    BY <2>1, FS_Subset
<1>2. IsFiniteSet(T) /\ Cardinality(T) <= Cardinality(S)
    BY <1>1, FS_Subset
<1> QED
    BY <1>1, <1>2, FS_CardinalityType

LEMMA OneMore ==
    ASSUME NEW n \in Nat, NEW S \in SUBSET (1 .. n), NEW x
    PROVE  /\ Cardinality(S \cup {x}) \in Nat /\ Cardinality(S \cup {x}) <= Cardinality(S) + 1
           /\ x \in S => Cardinality(S \ {x}) = Cardinality(S) - 1
<1>1. IsFiniteSet(S)
  <2>1. IsFiniteSet(1 .. n)
    BY FS_Interval
  <2> QED
    BY <2>1, FS_Subset
<1>2. Cardinality(S) \in Nat
    BY <1>1, FS_CardinalityType
<1>3. Cardinality(S \cup {x}) \in Nat /\ Cardinality(S \cup {x}) <= Cardinality(S) + 1
    BY <1>1, <1>2, FS_AddElement
<1>4. x \in S => Cardinality(S \ {x}) = Cardinality(S) - 1
    BY <1>1, FS_RemoveElement
<1> QED
    BY <1>3, <1>4

\* What may stay when a pass that answers for all snapshots but those of X
\* has nothing left to look at, or no excess.
LEMMA PassOver ==
    ASSUME NEW n \in Nat, NEW F \in SUBSET (1 .. n), NEW U \in SUBSET F, NEW X,
           U \subseteq X \/ Cardinality(F \ X) <= Retention
    PROVE  /\ X = {} => Cardinality(U) <= Retention
           /\ \A s : X = {s} => Cardinality(U) <= Retention + 1
<1>1. Retention \in Nat /\ Retention >= 1
    BY RetentionAssumption
<1>2. Cardinality(U) \in Nat /\ Cardinality(U \ X) \in Nat /\ Cardinality(F \ X) \in Nat
    BY Sizes
<1>3. CASE U \subseteq X
  <2>1. X = {} => Cardinality(U) = 0
    BY <1>3, FS_EmptySet
  <2>2. ASSUME NEW s, X = {s} PROVE Cardinality(U) <= 1
    <3>1. U = {} \/ U = {s}
      BY <1>3, <2>2
    <3>2. Cardinality({}) = 0 /\ Cardinality({s}) = 1
      BY FS_EmptySet, FS_Singleton
    <3>3. CASE U = {}
      <4>1. Cardinality(U) = 0
        BY <3>2, <3>3
      <4> QED
        BY <4>1
    <3>4. CASE U = {s}
      <4>1. Cardinality(U) = 1
        BY <3>2, <3>4
      <4> QED
        BY <4>1
    <3> QED
      BY <3>1, <3>3, <3>4
  <2>3. X = {} => Cardinality(U) <= Retention
    BY <1>1, <2>1
  <2>4. \A s : X = {s} => Cardinality(U) <= Retention + 1
    <3> SUFFICES ASSUME NEW s, X = {s} PROVE Cardinality(U) <= Retention + 1
      OBVIOUS
    <3> QED
      BY <1>1, <1>2, <2>2
  <2> QED
    BY <2>3, <2>4
<1>4. CASE Cardinality(F \ X) <= Retention
  <2>1. Cardinality(U \ X) <= Cardinality(F \ X)
    BY Sizes
  <2>2. X = {} => U \ X = U
    OBVIOUS
  <2>3. ASSUME NEW s, X = {s} PROVE Cardinality(U) <= Cardinality(U \ X) + 1
    <3>1. Cardinality((U \ X) \cup {s}) <= Cardinality(U \ X) + 1 /\ Cardinality((U \ X) \cup {s}) \in Nat
      BY OneMore
    <3>2. CASE s \in U
      <4>1. (U \ X) \cup {s} = U
        BY <2>3, <3>2
      <4> QED
        BY <3>1, <4>1
    <3>3. CASE s \notin U
      <4>1. U \ X = U
        BY <2>3, <3>3
      <4>2. Cardinality(U \ X) <= Cardinality(U \ X) + 1
        BY <1>2
      <4> QED
        BY <4>1, <4>2
    <3> QED
      BY <3>2, <3>3
  <2>4. X = {} => Cardinality(U) <= Retention
    BY <1>4, <2>1, <2>2, <1>1, <1>2
  <2>5. \A s : X = {s} => Cardinality(U) <= Retention + 1
    <3> SUFFICES ASSUME NEW s, X = {s} PROVE Cardinality(U) <= Retention + 1
      OBVIOUS
    <3>1. Cardinality(U) <= Cardinality(U \ X) + 1
      BY <2>3
    <3> QED
      BY <1>1, <1>2, <1>4, <2>1, <3>1
  <2> QED
    BY <2>4, <2>5
<1> QED
    BY <1>3, <1>4

-----------------------------------------------------------------------------
\* The invariant survives a step that adds no snapshot, if whatever a pass
\* owed before it is still owed, or the pass is over.
LEMMA StillBounded ==
    ASSUME SweepShape, SweepShape', Bounded, created' = created, crashes' = crashes,
           file' \subseteq file, Unpinned' \subseteq Unpinned,
           ASSUME NEW w \in Takers, NEW X \in SUBSET (1 .. created), Owes(w, X)
           PROVE  \/ Owes(w, X)'
                  \/ Unpinned' \subseteq X \/ Cardinality(file' \ X) <= Retention
    PROVE  Bounded'
<1>1. Retention \in Nat /\ crashes \in Nat /\ created \in Nat
    BY RetentionAssumption DEF SweepShape
<1>2. /\ file \in SUBSET (1 .. created) /\ Unpinned \in SUBSET file
      /\ file' \in SUBSET (1 .. created) /\ Unpinned' \in SUBSET file'
    BY DEF SweepShape, Unpinned
<1>3. /\ Cardinality(Unpinned) \in Nat /\ Cardinality(Unpinned') \in Nat
      /\ Cardinality(Unpinned') <= Cardinality(Unpinned)
  <2>1. Unpinned \in SUBSET (1 .. created) /\ Unpinned' \in SUBSET Unpinned
    BY <1>2
  <2> QED
    BY <1>1, <2>1, Sizes
<1>4. ASSUME NEW k \in Nat, Within(k) PROVE Within(k)'
    BY <1>1, <1>3, <1>4 DEF Within
<1>5. ASSUME NEW w \in Takers, Owes(w, {}) PROVE Owes(w, {})' \/ Within(0)'
  <2>1. Owes(w, {})' \/ Cardinality(Unpinned') <= Retention
    BY <1>1, <1>2, <1>5, PassOver
  <2> QED
    BY <1>1, <1>3, <2>1 DEF Within
<1>6. ASSUME NEW w \in Takers, NEW n \in 1 .. created, Owes(w, {n}) PROVE Owes(w, {n})' \/ Within(1)'
  <2>1. Owes(w, {n})' \/ Unpinned' \subseteq {n} \/ Cardinality(file' \ {n}) <= Retention
    BY <1>6
  <2>2. Owes(w, {n})' \/ Cardinality(Unpinned') <= Retention + 1
    BY <1>1, <1>2, <2>1, PassOver
  <2> QED
    BY <1>1, <1>3, <2>2 DEF Within
<1>7. CASE Within(0)
    BY <1>4, <1>7 DEF Bounded
<1>8. CASE \E w \in Takers : Owes(w, {}) /\ Within(1)
    BY <1>4, <1>5, <1>8 DEF Bounded
<1>9. CASE \E w, x \in Takers : \E n \in 1 .. created :
             w # x /\ Owes(w, {}) /\ Owes(x, {n}) /\ Within(2)
  <2>1. PICK w \in Takers, x \in Takers, n \in 1 .. created :
             w # x /\ Owes(w, {}) /\ Owes(x, {n}) /\ Within(2)
    BY <1>9
  <2>2. Within(2)' /\ (Owes(w, {})' \/ Within(0)')
    BY <1>4, <1>5, <2>1
  <2>3. Owes(x, {n})' \/ Within(1)'
    BY <1>6, <2>1
  <2>4. CASE Within(0)'
    BY <2>4 DEF Bounded
  <2>5. CASE Owes(w, {})' /\ Within(1)'
    BY <2>5 DEF Bounded
  <2>6. CASE Owes(w, {})' /\ Owes(x, {n})' /\ Within(2)'
    BY <2>1, <2>6 DEF Bounded
  <2> QED
    BY <2>2, <2>3, <2>4, <2>5, <2>6
<1> QED
    BY <1>7, <1>8, <1>9 DEF Bounded

\* What a pass owes when others remove and pin.
LEMMA OwedByAnother ==
    ASSUME SweepShape, NEW w \in Takers, NEW X \in SUBSET (1 .. created), Owes(w, X),
           file' \subseteq file, Unpinned' \subseteq Unpinned, sweep'[w] = sweep[w]
    PROVE  Owes(w, X)'
<1>1. Cardinality(file' \ X) <= Cardinality(file \ X) /\ Cardinality(file' \ X) \in Nat /\ Cardinality(file \ X) \in Nat
  <2>1. created \in Nat /\ (file \ X) \in SUBSET (1 .. created) /\ (file' \ X) \in SUBSET (file \ X)
    BY DEF SweepShape
  <2> QED
    BY <2>1, Sizes
<1>2. Retention \in Nat /\ sweep[w].excess \in Nat
    BY RetentionAssumption DEF SweepShape, Takers, Sweepers
<1> QED
    BY <1>1, <1>2 DEF Owes, Sweeping, Ahead

\* A pass looks at its oldest file.
LEMMA OwedAfterCheck ==
    ASSUME SweepShape, NEW w \in Sweepers, CheckOldest(w), NEW X, Owes(w, X)
    PROVE  \/ Owes(w, X)'
           \/ Unpinned' \subseteq X \/ Cardinality(file' \ X) <= Retention
<1> DEFINE s == Min(sweep[w].todo)
<1>1. s \in sweep[w].todo
  <2>1. sweep[w].todo \in SUBSET Nat /\ sweep[w].todo # {}
    BY DEF SweepShape, CheckOldest
  <2> QED
    BY <2>1, MinIsMember
<1>2. s \in Nat \ {0} /\ s \in Ids
    BY <1>1, BoundsAssumption DEF SweepShape, Ids
<1>3. file' = file /\ Unpinned' = Unpinned
    BY DEF CheckOldest, store, Unpinned, WasPinned
<1> HIDE DEF s
<1>4. CASE sweep[w].excess = 0
  <2>1. Cardinality(file \ X) <= Retention + 0
    BY <1>4 DEF Owes
  <2> QED
    BY <2>1, <1>3, RetentionAssumption
<1>5. CASE sweep[w].excess # 0
  <2>1. sweep'[w] = [todo |-> sweep[w].todo \ {s}, excess |-> sweep[w].excess,
                     victim |-> IF Pinned(s) THEN 0 ELSE s]
    <3> DEFINE v == IF sweep[w].excess = 0 THEN NoSweep
                    ELSE [todo |-> sweep[w].todo \ {s}, excess |-> sweep[w].excess,
                          victim |-> IF Pinned(s) THEN 0 ELSE s]
    <3>1. sweep' = [sweep EXCEPT ![w] = v]
      BY DEF CheckOldest, s
    <3> HIDE DEF v
    <3>2. sweep'[w] = v
      BY <3>1 DEF SweepShape
    <3> QED
      BY <1>5, <3>2 DEF v
  <2>2. sweep[w] \in [todo : SUBSET (1 .. created), excess : Nat, victim : 0 .. created]
    BY DEF SweepShape
  <2>3. /\ sweep'[w].todo = sweep[w].todo \ {s} /\ sweep'[w].excess = sweep[w].excess
        /\ sweep'[w].victim = IF Pinned(s) THEN 0 ELSE s
    BY <2>1, <2>2
  <2>4. sweep[w].victim = 0 /\ 0 \notin file /\ (Pinned(s) => s \notin Unpinned)
    BY DEF CheckOldest, SweepShape, Pinned, Unpinned, WasPinned
  <2>5. Unpinned' \ X \subseteq Ahead(w)' /\ Cardinality(file' \ X) <= Retention + sweep'[w].excess
    BY <1>1, <1>3, <2>3, <2>4 DEF Owes, Ahead, Unpinned
  <2>6. X \cap Ahead(w)' = {}
    BY <1>1, <2>3, <2>4 DEF Owes, Ahead
  <2>7. CASE Sweeping(w)'
    BY <2>5, <2>6, <2>7 DEF Owes
  <2>8. CASE ~Sweeping(w)'
    <3>1. Ahead(w)' = {0}
      BY <2>8 DEF Sweeping, Ahead
    <3>2. Unpinned' \subseteq X
      BY <1>3, <2>4, <2>5, <3>1 DEF Unpinned
    <3> QED
      BY <3>2
  <2> QED
    BY <2>7, <2>8
<1> QED
    BY <1>4, <1>5

\* A pass removes the file it has looked at.
LEMMA OwedAfterRemove ==
    ASSUME SweepShape, NEW w \in Sweepers, RemoveOldest(w), NEW X \in SUBSET (1 .. created), Owes(w, X)
    PROVE  \/ Owes(w, X)'
           \/ Unpinned' \subseteq X
<1> DEFINE s == sweep[w].victim
<1>1. /\ s \in Nat \ {0} /\ s \notin X /\ sweep[w].excess \in Nat \ {0} /\ created \in Nat
      /\ sweep[w] \in [todo : SUBSET (1 .. created), excess : Nat, victim : 0 .. created]
    BY DEF RemoveOldest, SweepShape, Owes, Ahead
<1> HIDE DEF s
<1>2. /\ Unpinned' = Unpinned \ {s}
      /\ sweep'[w].todo = sweep[w].todo /\ sweep'[w].victim = 0
      /\ Cardinality(file' \ X) <= Retention + sweep'[w].excess
  <2>1. CASE s \in file
    <3>1. file' = file \ {s} /\ tx' = tx
      BY <2>1 DEF RemoveOldest, s
    <3>2. sweep' = [sweep EXCEPT ![w].victim = 0, ![w].excess = @ - 1]
      BY <2>1 DEF RemoveOldest, s
    <3>3. sweep'[w].todo = sweep[w].todo /\ sweep'[w].victim = 0 /\ sweep'[w].excess = sweep[w].excess - 1
      BY <1>1, <3>2 DEF SweepShape
    <3>4. Cardinality(file' \ X) = Cardinality(file \ X) - 1 /\ Cardinality(file \ X) \in Nat
      <4>1. file \ X \in SUBSET (1 .. created) /\ s \in file \ X /\ file' \ X = (file \ X) \ {s}
        BY <1>1, <2>1, <3>1 DEF SweepShape
      <4> QED
        BY <1>1, <4>1, OneMore, Sizes
    <3>5. Cardinality(file \ X) <= Retention + sweep[w].excess
      BY DEF Owes
    <3>6. Unpinned' = Unpinned \ {s}
      BY <3>1 DEF Unpinned, WasPinned
    <3> QED
      BY <1>1, <3>3, <3>4, <3>5, <3>6, RetentionAssumption
  <2>2. CASE s \notin file
    <3>1. UNCHANGED <<file, tx>> /\ sweep' = [sweep EXCEPT ![w].victim = 0]
      BY <2>2 DEF RemoveOldest, s, store
    <3>2. sweep'[w].todo = sweep[w].todo /\ sweep'[w].victim = 0 /\ sweep'[w].excess = sweep[w].excess
      BY <1>1, <3>1 DEF SweepShape
    <3> QED
      BY <2>2, <3>1, <3>2 DEF Owes, Unpinned, WasPinned
  <2> QED
    BY <2>1, <2>2
<1>3. /\ Unpinned' \subseteq 1 .. created /\ 0 \notin X
      /\ Unpinned' \ X \subseteq Ahead(w)' /\ X \cap Ahead(w)' = {}
  <2>1. Ahead(w)' = sweep[w].todo \cup {0} /\ Ahead(w) = sweep[w].todo \cup {s}
    BY <1>2 DEF Ahead, s
  <2>2. Unpinned \ X \subseteq Ahead(w) /\ X \cap Ahead(w) = {} /\ 0 \notin X
    BY <1>1 DEF Owes
  <2>3. Unpinned \subseteq 1 .. created
    BY DEF Unpinned, SweepShape
  <2> QED
    BY <1>2, <2>1, <2>2, <2>3
<1>4. CASE Sweeping(w)'
    BY <1>2, <1>3, <1>4 DEF Owes
<1>5. CASE ~Sweeping(w)'
    BY <1>3, <1>5 DEF Sweeping, Ahead
<1> QED
    BY <1>4, <1>5

\* A new snapshot: the pass that follows it answers for all there are, and
\* what the other pass owes it owes for all but the new one.
LEMMA BoundedAfterSnapshot ==
    ASSUME SweepShape, Bounded, NEW w \in Takers, Snapshot(w), crashes' = crashes,
           Unpinned' \subseteq Unpinned \cup {created + 1}
    PROVE  Bounded'
<1>n. PICK n \in Nat : n = created + 1 /\ n >= 1
    BY DEF SweepShape
<1>1. /\ Retention \in Nat /\ crashes \in Nat /\ created \in Nat /\ n \in Nat
      /\ file \in SUBSET (1 .. created) /\ file' = file \cup {n} /\ created' = n
      /\ Unpinned' \subseteq file' /\ Unpinned \subseteq file
    BY <1>n, RetentionAssumption DEF Snapshot, SweepShape, Unpinned
<1>2. file' \in SUBSET (1 .. n) /\ n \notin file /\ file' \ {n} = file /\ file' \ {} = file'
    BY <1>1, <1>n
<1>3. /\ Cardinality(Unpinned') \in Nat /\ Cardinality(file') \in Nat /\ Cardinality(Unpinned) \in Nat
      /\ Cardinality(Unpinned') <= Cardinality(file')
      /\ Cardinality(Unpinned') <= Cardinality(Unpinned) + 1
  <2>1. /\ Cardinality(Unpinned') \in Nat /\ Cardinality(file') \in Nat
        /\ Cardinality(Unpinned') <= Cardinality(file')
    BY <1>1, <1>2, Sizes
  <2>2. Cardinality(Unpinned) \in Nat
    BY <1>1, Sizes
  <2>3. Cardinality(Unpinned \cup {n}) \in Nat /\ Cardinality(Unpinned \cup {n}) <= Cardinality(Unpinned) + 1
    <3>1. Unpinned \in SUBSET (1 .. created)
      BY <1>1
    <3> QED
      BY <1>1, <3>1, OneMore
  <2>4. Cardinality(Unpinned') <= Cardinality(Unpinned \cup {n})
    <3>1. Unpinned \cup {n} \in SUBSET (1 .. n) /\ Unpinned' \in SUBSET (Unpinned \cup {n})
      BY <1>1, <1>n
    <3> QED
      BY <1>1, <3>1, Sizes
  <2> QED
    BY <2>1, <2>2, <2>3, <2>4
<1>4. sweep' = [sweep EXCEPT ![w] = SweepOf(file')] /\ ~Sweeping(w)
    BY DEF Snapshot
<1>5. w \in Sweepers /\ sweep'[w] = SweepOf(file') /\ \A x \in Sweepers \ {w} : sweep'[x] = sweep[x]
    BY <1>4 DEF SweepShape, Takers, Sweepers
<1>6. CASE Cardinality(file') <= Retention
  <2>1. Within(0)'
    BY <1>1, <1>3, <1>6 DEF Within
  <2> QED
    BY <2>1 DEF Bounded
<1>7. CASE Cardinality(file') > Retention
  <2>1. sweep'[w] = [todo |-> file', excess |-> Cardinality(file') - Retention, victim |-> 0]
    BY <1>1, <1>3, <1>5, <1>7 DEF SweepOf
  <2>2. Owes(w, {})'
    <3>1. file' # {}
      BY <1>1
    <3>2. Sweeping(w)' /\ Ahead(w)' = file' \cup {0}
      BY <2>1, <3>1 DEF Sweeping, Ahead
    <3>3. Cardinality(file' \ {}) <= Retention + sweep'[w].excess
      BY <1>1, <1>2, <1>3, <2>1
    <3>4. Unpinned' \ {} \subseteq Ahead(w)' /\ {} \cap Ahead(w)' = {}
      BY <1>1, <3>2
    <3> QED
      BY <3>2, <3>3, <3>4 DEF Owes
  <2>3. ASSUME NEW k \in Nat, Within(k) PROVE Within(k + 1)'
    BY <1>1, <1>3, <2>3 DEF Within
  <2>4. CASE Within(0)
    <3>1. Within(0 + 1)'
      BY <2>3, <2>4
    <3>2. 0 + 1 = 1
      OBVIOUS
    <3>3. Within(1)'
      BY <3>1, <3>2
    <3> QED
      BY <2>2, <3>3 DEF Bounded
  <2>5. ASSUME NEW x \in Takers, Owes(x, {}), Within(1) PROVE Bounded'
    <3>1. x # w /\ x \in Sweepers
      BY <1>4, <2>5 DEF Owes, Takers, Sweepers
    <3>2. sweep'[x] = sweep[x]
      BY <1>5, <3>1
    <3>3. n \notin Ahead(x)
      BY <1>1, <1>n, <3>1 DEF SweepShape, Ahead
    <3>4. Ahead(x)' = Ahead(x) /\ Sweeping(x)'
      BY <2>5, <3>2 DEF Owes, Ahead, Sweeping
    <3>5. Owes(x, {n})'
      <4>1. Cardinality(file' \ {n}) <= Retention + sweep'[x].excess
        <5>1. file \ {} = file
          OBVIOUS
        <5>2. Cardinality(file) <= Retention + sweep[x].excess
          BY <2>5, <5>1 DEF Owes
        <5> QED
          BY <1>2, <3>2, <5>2
      <4>2. Unpinned' \ {n} \subseteq Ahead(x)' /\ {n} \cap Ahead(x)' = {}
        BY <1>n, <2>5, <3>3, <3>4 DEF Owes
      <4> QED
        BY <3>4, <4>1, <4>2 DEF Owes
    <3>6. Within(2)'
      <4>1. Within(1 + 1)' /\ 1 + 1 = 2
        BY <2>3, <2>5
      <4> QED
        BY <4>1
    <3>7. n \in 1 .. created'
      BY <1>1, <1>n
    <3> QED
      BY <2>2, <3>1, <3>5, <3>6, <3>7 DEF Bounded
  <2>6. ~(\E v, x \in Takers : v # x /\ Owes(v, {}) /\ \E m \in 1 .. created : Owes(x, {m}))
    BY <1>4 DEF Owes, Takers
  <2> QED
    BY <2>4, <2>5, <2>6 DEF Bounded
<1> QED
    BY <1>1, <1>3, <1>6, <1>7

-----------------------------------------------------------------------------
\* Nobody unpins a snapshot: a transaction that knows its point is settled at
\* last, or waits for a rollback.
PinsStay == \A s \in Ids : WasPinned(s) => WasPinned(s)'

\* A step that touches no pass, adds no snapshot and unpins none.
LEMMA QuietStep ==
    ASSUME RetentionInv, file' \subseteq file, PinsStay, UNCHANGED <<created, crashes, sweep>>,
           tx' \in [Ids -> TxStates], OpenIsOpen'
    PROVE  RetentionInv'
<1>1. SweepShape'
    BY DEF RetentionInv, SweepShape
<1>2. Unpinned' \subseteq Unpinned
  <2>1. file \subseteq Ids
    BY BoundsAssumption DEF RetentionInv, SweepShape, Ids
  <2> QED
    BY <2>1 DEF PinsStay, Unpinned
<1>3. Bounded'
  <2>1. ASSUME NEW w \in Takers, NEW X \in SUBSET (1 .. created), Owes(w, X) PROVE Owes(w, X)'
    BY <1>2, <2>1, OwedByAnother DEF RetentionInv
  <2> QED
    BY <1>1, <1>2, <2>1, StillBounded DEF RetentionInv
<1> QED
    BY <1>1, <1>3 DEF RetentionInv

\* A step of a pass.
LEMMA PassStep ==
    ASSUME RetentionInv, NEW w \in Sweepers, CheckOldest(w) \/ RemoveOldest(w)
    PROVE  RetentionInv'
<1>1. /\ UNCHANGED <<tx, created, crashes, update>> /\ file' \subseteq file
    BY DEF CheckOldest, RemoveOldest, store
<1> DEFINE Passes == [todo : SUBSET (1 .. created), excess : Nat, victim : 0 .. created]
<1>t. sweep \in [Sweepers -> Passes] /\ sweep[w] \in Passes /\ created \in Nat
    BY DEF RetentionInv, SweepShape
<1>2. /\ sweep' \in [Sweepers -> Passes] /\ (sweep'[w].victim # 0 => sweep'[w].excess # 0)
      /\ \A x \in Sweepers \ {w} : sweep'[x] = sweep[x]
  <2>2. CASE CheckOldest(w)
    <3> DEFINE s == Min(sweep[w].todo)
               v == IF sweep[w].excess = 0 THEN NoSweep
                    ELSE [todo |-> sweep[w].todo \ {s}, excess |-> sweep[w].excess,
                          victim |-> IF Pinned(s) THEN 0 ELSE s]
    <3>1. sweep' = [sweep EXCEPT ![w] = v]
      BY <2>2 DEF CheckOldest
    <3>2. s \in 1 .. created
      <4>1. sweep[w].todo \in SUBSET Nat /\ sweep[w].todo # {}
        BY <1>t, <2>2 DEF CheckOldest
      <4> QED
        BY <1>t, <4>1, MinIsMember
    <3> HIDE DEF s
    <3>3. v \in Passes /\ (v.victim # 0 => v.excess # 0)
      BY <1>t, <3>2 DEF NoSweep
    <3> HIDE DEF v, Passes
    <3> QED
      BY <1>t, <3>1, <3>3
  <2>3. CASE RemoveOldest(w)
    <3>1. sweep[w].victim # 0 /\ sweep[w].excess \in Nat \ {0}
      BY <1>t, <2>3 DEF RemoveOldest, RetentionInv, SweepShape
    <3>2. CASE sweep[w].victim \in file
      <4>1. sweep' = [sweep EXCEPT ![w].victim = 0, ![w].excess = @ - 1]
        BY <2>3, <3>2 DEF RemoveOldest
      <4> QED
        BY <1>t, <3>1, <4>1
    <3>3. CASE sweep[w].victim \notin file
      <4>1. sweep' = [sweep EXCEPT ![w].victim = 0]
        BY <2>3, <3>3 DEF RemoveOldest
      <4> QED
        BY <1>t, <4>1
    <3> QED
      BY <3>2, <3>3
  <2> QED
    BY <2>2, <2>3
<1>3. SweepShape'
    BY <1>1, <1>2 DEF RetentionInv, SweepShape
<1>4. Unpinned' \subseteq Unpinned
    BY <1>1 DEF Unpinned, WasPinned
<1>5. ASSUME NEW x \in Takers, NEW X \in SUBSET (1 .. created), Owes(x, X)
      PROVE  Owes(x, X)' \/ Unpinned' \subseteq X \/ Cardinality(file' \ X) <= Retention
  <2>1. CASE x = w
    BY <1>5, <2>1, OwedAfterCheck, OwedAfterRemove DEF RetentionInv
  <2>2. CASE x # w
    <3>1. sweep'[x] = sweep[x]
      BY <1>2, <2>2 DEF Takers, Sweepers
    <3> QED
      BY <1>1, <1>4, <1>5, <3>1, OwedByAnother DEF RetentionInv
  <2> QED
    BY <2>1, <2>2
<1>6. Bounded'
    BY <1>1, <1>3, <1>4, <1>5, StillBounded DEF RetentionInv
<1> QED
    BY <1>1, <1>3, <1>6 DEF RetentionInv, OpenIsOpen

\* A snapshot of an update or of an administrator.
LEMMA SnapshotStep ==
    ASSUME RetentionInv, NEW w \in Takers, Snapshot(w), crashes' = crashes,
           tx' \in [Ids -> TxStates], \A s \in Ids \ {created + 1} : tx'[s] = tx[s], OpenIsOpen'
    PROVE  RetentionInv'
<1>1. /\ created \in Nat /\ created' = created + 1 /\ created' \in 0 .. MaxSnapshots
      /\ file \subseteq 1 .. created /\ file' = file \cup {created + 1}
      /\ sweep' = [sweep EXCEPT ![w] = SweepOf(file')] /\ w \in Sweepers
    BY BoundsAssumption DEF Snapshot, RetentionInv, SweepShape, Takers, Sweepers
<1>2. /\ SweepOf(file') \in [todo : SUBSET (1 .. created'), excess : Nat, victim : 0 .. created']
      /\ SweepOf(file').victim = 0 /\ file' \subseteq 1 .. created'
  <2>1. file' \in SUBSET (1 .. created') /\ created' \in Nat
    BY <1>1
  <2>2. Cardinality(file') \in Nat
    BY <2>1, Sizes
  <2> QED
    BY <2>1, <2>2, RetentionAssumption DEF SweepOf, NoSweep
<1>3. SweepShape'
  <2>1. \A x \in Sweepers : sweep[x] \in [todo : SUBSET (1 .. created'), excess : Nat, victim : 0 .. created']
    <3> SUFFICES ASSUME NEW x \in Sweepers
                 PROVE  sweep[x] \in [todo : SUBSET (1 .. created'), excess : Nat, victim : 0 .. created']
      OBVIOUS
    <3>1. sweep[x] \in [todo : SUBSET (1 .. created), excess : Nat, victim : 0 .. created]
      BY DEF RetentionInv, SweepShape
    <3>2. 1 .. created \subseteq 1 .. created' /\ 0 .. created \subseteq 0 .. created'
      BY <1>1
    <3> QED
      BY <3>1, <3>2
  <2>3. sweep' \in [Sweepers -> [todo : SUBSET (1 .. created'), excess : Nat, victim : 0 .. created']]
    BY <1>1, <1>2, <2>1 DEF RetentionInv, SweepShape
  <2>4. \A x \in Sweepers : sweep'[x].victim # 0 => sweep'[x].excess # 0
    BY <1>1, <1>2 DEF RetentionInv, SweepShape
  <2> QED
    BY <1>1, <1>2, <2>3, <2>4 DEF RetentionInv, SweepShape
<1>4. Unpinned' \subseteq Unpinned \cup {created + 1}
  <2>1. file \subseteq Ids \ {created + 1}
    BY <1>1, BoundsAssumption DEF Ids
  <2> QED
    BY <1>1, <2>1 DEF Unpinned, WasPinned
<1> QED
    BY <1>3, <1>4, BoundedAfterSnapshot DEF RetentionInv

\* The pass that opens a collection owes nobody anything.
LEMMA GcSweepStep == ASSUME RetentionInv, GcSweep PROVE RetentionInv'
<1>1. /\ UNCHANGED <<file, tx, created, crashes, update>>
      /\ sweep' = [sweep EXCEPT !["gc"] = SweepOf(file)]
    BY DEF GcSweep, store
<1>2. SweepOf(file) \in [todo : SUBSET (1 .. created), excess : Nat, victim : 0 .. created]
      /\ SweepOf(file).victim = 0
  <2>1. created \in Nat /\ file \in SUBSET (1 .. created)
    BY DEF RetentionInv, SweepShape
  <2>2. Cardinality(file) \in Nat
    BY <2>1, Sizes
  <2> QED
    BY <2>1, <2>2, RetentionAssumption DEF SweepOf, NoSweep
<1>3. SweepShape'
    BY <1>1, <1>2 DEF RetentionInv, SweepShape, Sweepers
<1>4. Unpinned' = Unpinned
    BY <1>1 DEF Unpinned, WasPinned
<1>5. ASSUME NEW w \in Takers, NEW X \in SUBSET (1 .. created), Owes(w, X) PROVE Owes(w, X)'
  <2>1. sweep'[w] = sweep[w]
    BY <1>1 DEF RetentionInv, SweepShape, Takers, Sweepers
  <2> QED
    BY <1>1, <1>4, <1>5, <2>1, OwedByAnother DEF RetentionInv
<1>6. Bounded'
    BY <1>1, <1>3, <1>4, <1>5, StillBounded DEF RetentionInv
<1> QED
    BY <1>1, <1>3, <1>6 DEF RetentionInv, OpenIsOpen

\* A crash breaks off both passes, and the excess they owed stays.
LEMMA CrashStep == ASSUME RetentionInv, Crash PROVE RetentionInv'
<1>1. /\ UNCHANGED <<file, created>> /\ crashes' = crashes + 1 /\ update' = NoUpdate
      /\ sweep' = [w \in Sweepers |-> NoSweep] /\ created \in Nat /\ crashes \in Nat
    BY DEF Crash, store, RetentionInv, SweepShape
<1>2. PICK status \in {"settled", "required"} :
        tx' = [s \in Ids |-> CASE tx[s] = "open" -> "failed"
                               [] tx[s] = "prepared" -> status
                               [] OTHER -> tx[s]]
    BY DEF Crash
<1>3. tx' \in [Ids -> TxStates]
  <2>1. ASSUME NEW s \in Ids PROVE tx'[s] \in TxStates
    BY <1>2 DEF RetentionInv, SweepShape, TxStates
  <2> QED
    BY <1>2, <2>1
<1>4. \A s \in Ids : WasPinned(s) => WasPinned(s)'
    BY <1>2 DEF WasPinned
<1>5. SweepShape'
    BY <1>1, <1>3 DEF RetentionInv, SweepShape, NoSweep
<1>6. Cardinality(Unpinned') <= Cardinality(Unpinned) /\ Cardinality(Unpinned') \in Nat /\ Cardinality(Unpinned) \in Nat
  <2>1. file \subseteq Ids
    BY BoundsAssumption DEF RetentionInv, SweepShape, Ids
  <2>2. Unpinned \in SUBSET (1 .. created) /\ Unpinned' \in SUBSET Unpinned
    BY <1>1, <1>4, <2>1 DEF Unpinned, RetentionInv, SweepShape
  <2> QED
    BY <1>1, <2>2, Sizes
<1>7. Cardinality(Unpinned) <= Retention + 2 * crashes + 2
  <2>1. Within(0) \/ Within(1) \/ Within(2)
    BY DEF RetentionInv, Bounded
  <2> QED
    BY <1>1, <1>6, <2>1, RetentionAssumption DEF Within
<1>8. Within(0)'
    BY <1>1, <1>6, <1>7, RetentionAssumption DEF Within
<1> QED
    BY <1>1, <1>5, <1>8 DEF RetentionInv, OpenIsOpen, NoUpdate, Bounded

\* The step of an update.
LEMMA UpdateQuiet ==
    ASSUME RetentionInv, CaptureInv, UpdateStep
    PROVE  RetentionInv'
<1>0. tx \in [Ids -> TxStates] /\ OpenIsOpen
    BY DEF RetentionInv, SweepShape
<1>1. UNCHANGED <<file, created, crashes, sweep>>
    BY DEF UpdateStep, CommitImage, AddRestorePoint, SetPrepared, FinishUpdate, store, jobs
<1>2. ASSUME NEW status \in TxStates, EndUpdate(status),
             status \in {"settled", "required"} \/ update.at = "commit"
      PROVE  PinsStay /\ tx' \in [Ids -> TxStates] /\ OpenIsOpen'
  <2>1. tx' = [tx EXCEPT ![update.id] = status] /\ update' = NoUpdate
    BY <1>2 DEF EndUpdate
  <2>2. update.at = "commit" => tx[update.id] = "open"
    BY <1>0 DEF OpenIsOpen
  <2>3. tx' \in [Ids -> TxStates] /\ OpenIsOpen'
    BY <1>0, <2>1 DEF OpenIsOpen, NoUpdate
  <2>4. PinsStay
    BY <1>0, <1>2, <2>1, <2>2 DEF PinsStay, WasPinned
  <2> QED
    BY <2>3, <2>4
<1>3. ASSUME UNCHANGED tx, update'.at # "commit"
      PROVE  PinsStay /\ tx' \in [Ids -> TxStates] /\ OpenIsOpen'
    BY <1>0, <1>3 DEF PinsStay, WasPinned, OpenIsOpen
<1>4. CASE CommitImage
  <2>1. CASE EndUpdate("failed")
    BY <1>1, <1>2, <1>4, <2>1, QuietStep DEF CommitImage, TxStates
  <2>2. CASE UNCHANGED tx /\ update' = [update EXCEPT !.at = "row"]
    <3>1. update'.at # "commit"
      BY <2>2 DEF CaptureInv, Shape
    <3> QED
      BY <1>1, <1>3, <2>2, <3>1, QuietStep
  <2> QED
    BY <1>4, <2>1, <2>2 DEF CommitImage
<1>5. CASE AddRestorePoint
  <2>1. UNCHANGED tx /\ update'.at # "commit"
    BY <1>5 DEF AddRestorePoint, CaptureInv, Shape
  <2> QED
    BY <1>1, <1>3, <2>1, QuietStep
<1>6. CASE SetPrepared
  <2>1. update'.at # "commit" /\ tx' = [tx EXCEPT ![update.id] = "prepared"]
    BY <1>6 DEF SetPrepared, CaptureInv, Shape
  <2>2. tx' \in [Ids -> TxStates] /\ OpenIsOpen' /\ PinsStay
    BY <1>0, <2>1 DEF TxStates, OpenIsOpen, PinsStay, WasPinned
  <2> QED
    BY <1>1, <2>2, QuietStep
<1>7. CASE FinishUpdate
  <2>1. PICK status \in {"settled", "required"} : EndUpdate(status)
    BY <1>7 DEF FinishUpdate
  <2>2. status \in TxStates
    BY DEF TxStates
  <2> QED
    BY <1>1, <1>2, <2>1, <2>2, QuietStep
<1> QED
    BY <1>4, <1>5, <1>6, <1>7 DEF UpdateStep

LEMMA InitRetention == Init => RetentionInv
<1> SUFFICES ASSUME Init PROVE RetentionInv
    OBVIOUS
<1>1. SweepShape /\ OpenIsOpen
    BY BoundsAssumption DEF Init, SweepShape, OpenIsOpen, NoSweep, NoUpdate, TxStates
<1>2. Unpinned = {} /\ crashes = 0
    BY DEF Init, Unpinned
<1>3. Cardinality(Unpinned) = 0
    BY <1>2, FS_EmptySet
<1>4. Within(0)
    BY <1>2, <1>3, RetentionAssumption DEF Within
<1> QED
    BY <1>1, <1>4 DEF RetentionInv, Bounded

LEMMA StepRetention == RetentionInv /\ CaptureInv /\ [Next]_vars => RetentionInv'
<1> SUFFICES ASSUME RetentionInv, CaptureInv, [Next]_vars PROVE RetentionInv'
    OBVIOUS
<1>0. tx \in [Ids -> TxStates] /\ OpenIsOpen /\ (update.at # "idle" => lease = "update")
    BY DEF RetentionInv, SweepShape, CaptureInv, LeaseHeld
<1>q. ASSUME file' \subseteq file, UNCHANGED <<created, crashes, sweep, tx, update>>
      PROVE  RetentionInv'
    BY <1>0, <1>q, QuietStep DEF PinsStay, WasPinned, OpenIsOpen
<1>1. CASE SweepStep
    BY <1>1, PassStep DEF SweepStep
<1>2. CASE UpdateStep
    BY <1>2, UpdateQuiet
<1>3. CASE GcSweep
    BY <1>3, GcSweepStep
<1>4. CASE GcRead \/ GcValidate \/ GcMark \/ GcLease \/ GcImages
    BY <1>4, <1>q DEF GcRead, GcValidate, GcMark, GcLease, GcImages, store
<1>5. CASE DeleteOne
    BY <1>5, <1>q DEF DeleteOne, store
<1>6. CASE CleanupOne
  <2>1. file' \subseteq file /\ UNCHANGED <<created, crashes, sweep, tx, update>>
    BY <1>6 DEF CleanupOne, store
  <2> QED
    BY <2>1, <1>q
<1>7. CASE DeleteArchive \/ CleanupRead
    BY <1>7, <1>q DEF DeleteArchive, CleanupRead, store
<1>8. CASE AdminSnapshot
  <2>1. Snapshot("admin") /\ UNCHANGED <<tx, update, crashes>> /\ "admin" \in Takers
    BY <1>8 DEF AdminSnapshot, Takers
  <2> QED
    BY <1>0, <2>1, SnapshotStep DEF OpenIsOpen
<1>9. CASE StartUpdate
  <2>1. /\ Snapshot("update") /\ crashes' = crashes /\ "update" \in Takers
        /\ tx' = [tx EXCEPT ![created + 1] = "open"] /\ update' = [at |-> "commit", id |-> created + 1]
    BY <1>9 DEF StartUpdate, Takers
  <2>2. created + 1 \in Ids
    BY <2>1, BoundsAssumption DEF Snapshot, RetentionInv, SweepShape, Ids
  <2>3. tx' \in [Ids -> TxStates] /\ OpenIsOpen' /\ \A s \in Ids \ {created + 1} : tx'[s] = tx[s]
    BY <1>0, <2>1, <2>2 DEF OpenIsOpen, TxStates
  <2> QED
    BY <2>1, <2>3, SnapshotStep
<1>10. CASE Crash
    BY <1>10, CrashStep
<1>11. ASSUME NEW s \in Ids, ResolveByRollback(s) PROVE RetentionInv'
  <2>1. /\ UNCHANGED <<file, created, crashes, sweep, update>> /\ lease = "free"
        /\ tx' = [tx EXCEPT ![s] = "settled"]
    BY <1>11 DEF ResolveByRollback, jobs
  <2>2. update.at # "commit"
    BY <1>0, <2>1
  <2>3. tx' \in [Ids -> TxStates] /\ PinsStay /\ OpenIsOpen'
    BY <1>0, <2>1, <2>2 DEF TxStates, PinsStay, WasPinned, OpenIsOpen
  <2> QED
    BY <2>1, <2>3, QuietStep
<1>12. CASE UNCHANGED vars
    BY <1>12, <1>q DEF vars
<1> QED
    BY <1>1, <1>2, <1>3, <1>4, <1>5, <1>6, <1>7, <1>8, <1>9, <1>10, <1>11, <1>12 DEF Next, GcStep

\* Once the passes are over a unit has no more unpinned snapshots than its
\* retention count, and two more for every crash that broke off the passes of
\* two snapshots (config_backups.go enforceSnapshotRetention).
THEOREM UnitsBounded == Spec => []UnitsStayBounded
<1>1. Init => CaptureInv /\ RetentionInv
    BY InitCapture, InitRetention
<1>2. (CaptureInv /\ RetentionInv) /\ [Next]_vars => (CaptureInv /\ RetentionInv)'
    BY StepCapture, StepRetention
<1>3. RetentionInv => UnitsStayBounded
  <2> SUFFICES ASSUME RetentionInv, \A w \in Sweepers : ~Sweeping(w)
               PROVE  Cardinality(Unpinned) <= Retention + 2 * crashes
    BY DEF UnitsStayBounded, Unpinned
  <2>1. \A w \in Takers : ~Sweeping(w)
    BY DEF Takers, Sweepers
  <2>2. Within(0)
    BY <2>1 DEF RetentionInv, Bounded, Owes
  <2>3. crashes \in Nat /\ Retention \in Nat
    BY RetentionAssumption DEF RetentionInv, SweepShape
  <2> QED
    BY <2>2, <2>3 DEF Within
<1> QED
    BY <1>1, <1>2, <1>3, PTL DEF Spec
=============================================================================
