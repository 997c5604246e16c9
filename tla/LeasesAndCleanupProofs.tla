------------------------ MODULE LeasesAndCleanupProofs ------------------------
(* Operation leases, and the storage cleanup that works under one.           *)
EXTENDS OperationLeases, StorageCleanup, SequenceTheorems, TLAPS

-----------------------------------------------------------------------------
(* Leases: for any operations, resources and hosts, and any TTL no shorter   *)
(* than the heartbeat, operations with a heartbeat exclude each other across *)
(* crashes, purges and the reclaims of other jobs, until their own row is    *)
(* reclaimed under them, and so implement the abstract scoped exclusion.     *)

\* Two rows present after the purge were present, and unexpired, before it.
LEMMA PurgedRows ==
    ASSUME TypeOK
    PROVE  /\ Unexpired \in [Resources -> Operations \cup {NoOwner}]
           /\ \A r \in Resources : Unexpired[r] # NoOwner => Unexpired[r] = owner[r]
           /\ \A r \in Resources :
                age[r] <= TTL /\ owner[r] \notin Unrenewed => Unexpired[r] = owner[r]
  BY TimingAssumption DEF TypeOK, Unexpired, Expired

\* Every row a live operation relies on survives the purge.
LEMMA PurgeKeepsHolders ==
    ASSUME LeaseInv
    PROVE  \A o \in Guarded : Unexpired[ResourceOf[o]] = o
  BY PurgedRows, TimingAssumption, ScopeAssumption
  DEF LeaseInv, TypeOK, HolderKeepsRow, Guarded

LEMMA LeaseInit == LeasesInit => LeaseInv
  BY DEF LeasesInit, LeaseInv, TypeOK, HolderKeepsRow, Guarded, RowsExclude, RowsFiled

LEMMA AcquireStep ==
    ASSUME LeaseInv, NEW o \in Operations, Acquire(o)
    PROVE  LeaseInv'
  <1> DEFINE r == ResourceOf[o]
  <1>1. r \in Resources
    BY ScopeAssumption
  <1>2. CASE Taken(r)
    <2>1. owner' = Unexpired /\ age' = age /\ holding' = holding /\ robbed' = robbed /\ up' = up
      BY <1>2 DEF Acquire
    <2>2. TypeOK'
      BY <2>1, PurgedRows DEF LeaseInv, TypeOK
    <2>3. HolderKeepsRow'
      BY <2>1, PurgeKeepsHolders DEF LeaseInv, HolderKeepsRow, Guarded
    <2>4. RowsExclude' /\ RowsFiled'
      BY <2>1, PurgedRows DEF LeaseInv, RowsExclude, RowsFiled
    <2>5. QED
      BY <2>1, <2>2, <2>3, <2>4 DEF LeaseInv
  <1>3. CASE ~Taken(r)
    <2>1. /\ owner' = [Unexpired EXCEPT ![r] = o]
          /\ age' = [age EXCEPT ![r] = 0]
          /\ holding' = holding \cup {o}
          /\ robbed' = robbed
          /\ up /\ up' = up
      BY <1>3 DEF Acquire
    <2>2. \A s \in Resources : Unexpired[s] # NoOwner => ~Conflict(r, s)
      BY <1>3 DEF Taken
    <2>3. TypeOK'
      BY <1>1, <2>1, PurgedRows DEF LeaseInv, TypeOK
    <2>4. HolderKeepsRow'
      <3>1. \A k \in Guarded : ResourceOf[k] # r
        <4> SUFFICES ASSUME NEW k \in Guarded, ResourceOf[k] = r PROVE FALSE
          OBVIOUS
        <4>1. Unexpired[r] = k /\ k # NoOwner
          BY PurgeKeepsHolders, NoOwnerAssumption DEF LeaseInv, TypeOK, Guarded
        <4>2. QED
          BY <1>1, <2>2, <4>1 DEF Conflict
      <3>2. \A k \in Guarded : owner'[ResourceOf[k]] = k /\ age'[ResourceOf[k]] <= Heartbeat
        BY <1>1, <2>1, <3>1, PurgedRows, PurgeKeepsHolders, ScopeAssumption
        DEF LeaseInv, TypeOK, HolderKeepsRow, Guarded
      <3>3. owner'[r] = o /\ age'[r] <= Heartbeat
        BY <1>1, <2>1, PurgedRows, TimingAssumption DEF LeaseInv, TypeOK
      <3>4. QED
        BY <2>1, <3>2, <3>3 DEF HolderKeepsRow, Guarded
    <2>5. RowsExclude'
      <3>1. \A s, t \in Resources :
                s # t /\ s # r /\ t # r /\ owner'[s] # NoOwner /\ owner'[t] # NoOwner
                    => ~Conflict(s, t)
        BY <1>1, <2>1, PurgedRows DEF LeaseInv, RowsExclude
      <3>2. \A s \in Resources : s # r /\ owner'[s] # NoOwner
                => ~Conflict(r, s) /\ ~Conflict(s, r)
        BY <1>1, <2>1, <2>2, PurgedRows DEF Conflict
      <3>3. QED
        BY <3>1, <3>2 DEF RowsExclude
    <2>6. RowsFiled'
      BY <1>1, <2>1, PurgedRows DEF LeaseInv, RowsFiled
    <2>7. QED
      BY <2>1, <2>3, <2>4, <2>5, <2>6 DEF LeaseInv
  <1>4. QED
    BY <1>2, <1>3

LEMMA RenewStep ==
    ASSUME LeaseInv, NEW o \in Operations, Renew(o)
    PROVE  LeaseInv'
  <1>1. ResourceOf[o] \in Resources
    BY ScopeAssumption
  <1>2. owner' = owner /\ holding' = holding /\ robbed' = robbed /\ up' = up
    BY DEF Renew
  <1>3. /\ age' \in [Resources -> Nat]
        /\ \A r \in Resources : age'[r] = 0 \/ age'[r] = age[r]
    BY <1>1 DEF Renew, LeaseInv, TypeOK
  <1>4. HolderKeepsRow'
    BY <1>2, <1>3, TimingAssumption, ScopeAssumption DEF LeaseInv, TypeOK, HolderKeepsRow, Guarded
  <1>5. QED
    BY <1>2, <1>3, <1>4 DEF LeaseInv, TypeOK, RowsExclude, RowsFiled

\* Removing rows that no live operation relies on.
LEMMA RemoveRows ==
    ASSUME LeaseInv,
           owner' \in [Resources -> Operations \cup {NoOwner}],
           \A r \in Resources : owner'[r] = NoOwner \/ owner'[r] = owner[r],
           holding' \subseteq holding,
           robbed' \subseteq holding' \cap Reclaimable, robbed \cap holding' \subseteq robbed',
           \A k \in Guarded' : owner'[ResourceOf[k]] = owner[ResourceOf[k]],
           age' = age, up' = up
    PROVE  LeaseInv'
  BY DEF LeaseInv, TypeOK, HolderKeepsRow, Guarded, RowsExclude, RowsFiled

LEMMA ReleaseStep ==
    ASSUME LeaseInv, NEW o \in Operations, Release(o)
    PROVE  LeaseInv'
  <1>1. ResourceOf[o] \in Resources
    BY ScopeAssumption
  <1>2. holding' = holding \ {o} /\ robbed' = robbed \ {o} /\ age' = age /\ up' = up
    BY DEF Release
  <1>3. owner' = IF owner[ResourceOf[o]] = o THEN [owner EXCEPT ![ResourceOf[o]] = NoOwner] ELSE owner
    BY DEF Release
  <1>4. /\ owner' \in [Resources -> Operations \cup {NoOwner}]
        /\ \A r \in Resources : owner'[r] = NoOwner \/ owner'[r] = owner[r]
    BY <1>1, <1>3 DEF LeaseInv, TypeOK
  <1>5. \A k \in Guarded' : owner'[ResourceOf[k]] = owner[ResourceOf[k]]
    BY <1>1, <1>2, <1>3, ScopeAssumption DEF LeaseInv, TypeOK, HolderKeepsRow, Guarded
  <1>6. QED
    BY <1>2, <1>4, <1>5, RemoveRows DEF LeaseInv, TypeOK

LEMMA ReclaimStep ==
    ASSUME LeaseInv, NEW o \in Reclaimable, Reclaim(o)
    PROVE  LeaseInv'
  <1>1. /\ holding' = holding /\ age' = age /\ up' = up
        /\ robbed' = IF o \in holding THEN robbed \cup {o} ELSE robbed
    BY DEF Reclaim
  <1>2. owner' = [r \in Resources |-> IF owner[r] = o THEN NoOwner ELSE owner[r]]
    BY DEF Reclaim
  <1>3. /\ owner' \in [Resources -> Operations \cup {NoOwner}]
        /\ \A r \in Resources : owner'[r] = NoOwner \/ owner'[r] = owner[r]
    BY <1>2 DEF LeaseInv, TypeOK
  <1>4. \A k \in Guarded' : k \in Guarded /\ k # o
    BY <1>1 DEF Guarded
  <1>5. \A k \in Guarded' : owner'[ResourceOf[k]] = owner[ResourceOf[k]]
    BY <1>2, <1>4, ScopeAssumption DEF LeaseInv, TypeOK, HolderKeepsRow, Guarded
  <1>6. QED
    BY <1>1, <1>3, <1>5, RemoveRows DEF LeaseInv, TypeOK

LEMMA ExpireStep == LeaseInv /\ Expire => LeaseInv'
  <1> SUFFICES ASSUME LeaseInv, Expire PROVE LeaseInv'
    OBVIOUS
  <1>1. owner' = Unexpired /\ holding' = holding /\ robbed' = robbed /\ age' = age /\ up' = up
    BY DEF Expire
  <1>2. /\ owner' \in [Resources -> Operations \cup {NoOwner}]
        /\ \A r \in Resources : owner'[r] = NoOwner \/ owner'[r] = owner[r]
    BY <1>1, PurgedRows DEF LeaseInv
  <1>3. \A k \in Guarded' : owner'[ResourceOf[k]] = owner[ResourceOf[k]]
    BY <1>1, PurgeKeepsHolders DEF LeaseInv, HolderKeepsRow, Guarded
  <1>4. QED
    BY <1>1, <1>2, <1>3, RemoveRows DEF LeaseInv, TypeOK

LEMMA CrashStep == LeaseInv /\ (Crash \/ Restart) => LeaseInv'
  BY DEF LeaseInv, TypeOK, HolderKeepsRow, Guarded, RowsExclude, RowsFiled, Crash, Restart

LEMMA TickStep == LeaseInv /\ Tick => LeaseInv'
  <1> SUFFICES ASSUME LeaseInv, Tick PROVE LeaseInv'
    OBVIOUS
  <1>1. owner' = owner /\ holding' = holding /\ robbed' = robbed /\ up' = up
    BY DEF Tick
  <1>2. age' \in [Resources -> Nat]
    BY DEF Tick, LeaseInv, TypeOK
  <1>3. \A k \in Guarded : age'[ResourceOf[k]] <= Heartbeat
    BY ScopeAssumption, TimingAssumption DEF Tick, LeaseInv, TypeOK, HolderKeepsRow, Guarded
  <1>4. QED
    BY <1>1, <1>2, <1>3 DEF LeaseInv, TypeOK, HolderKeepsRow, Guarded, RowsExclude, RowsFiled

\* Every step preserves the inductive invariant.
LEMMA LeaseInvStep == LeaseInv /\ [LeasesNext]_leasesVars => LeaseInv'
  <1> SUFFICES ASSUME LeaseInv, [LeasesNext]_leasesVars PROVE LeaseInv'
    OBVIOUS
  <1>1. CASE UNCHANGED leasesVars
    BY <1>1 DEF leasesVars, LeaseInv, TypeOK, HolderKeepsRow, Guarded, RowsExclude, RowsFiled
  <1>2. CASE LeasesNext
    BY <1>2, KindAssumption, AcquireStep, RenewStep, ReleaseStep, ReclaimStep, ExpireStep,
       CrashStep, TickStep
    DEF LeasesNext
  <1>3. QED
    BY <1>1, <1>2

\* The invariant holds in every state: rows never conflict, and a running
\* operation never loses its row to an expiry, another's release or another
\* job's reclaim.
THEOREM LeaseInvariant == LeasesSpec => []LeaseInv
  BY LeaseInit, LeaseInvStep, PTL DEF LeasesSpec

LEMMA LeaseInvExcludes == LeaseInv => LeasesExclude
  BY ScopeAssumption, NoOwnerAssumption
  DEF LeaseInv, TypeOK, HolderKeepsRow, Guarded, RowsExclude, LeasesExclude

\* Live leases exclude each other, same container or host against container,
\* for as long as nobody reclaims them.
THEOREM LiveLeasesExclude == LeasesSpec => []LeasesExclude
  BY LeaseInvariant, LeaseInvExcludes, PTL

\* The persisted rows implement the abstract scoped exclusion, in which a
\* reclaim from a live owner ends its operation.
THEOREM LeasesImplementScopedExclusion == LeasesSpec => ImplementsScopedExclusion
  <1>1. LeasesInit => Scopes!Init
    BY DEF LeasesInit, Guarded, Scopes!Init
  <1>2. ASSUME LeaseInv, LeaseInv', [LeasesNext]_leasesVars
        PROVE  [Scopes!Next]_Guarded
    <2>1. CASE UNCHANGED leasesVars
      BY <2>1 DEF leasesVars, Guarded
    <2>2. ASSUME NEW o \in Operations, Acquire(o), Guarded' # Guarded
          PROVE  Scopes!Next
      <3>1. o \notin Guarded /\ Guarded' = Guarded \cup {o}
        BY <2>2 DEF Acquire, Guarded
      <3>2. \A k \in Guarded : ~Scopes!Conflict(ResourceOf[o], ResourceOf[k])
        <4>1. LeasesExclude'
          BY <1>2, LeaseInvExcludes, PTL
        <4>2. QED
          BY <3>1, <4>1 DEF LeasesExclude, Conflict, Scopes!Conflict
      <3>3. QED
        BY <3>1, <3>2 DEF Scopes!Next, Scopes!Begin
    <2>3. ASSUME NEW o \in Operations, Release(o), Guarded' # Guarded
          PROVE  Scopes!Next
      BY <2>3 DEF Release, Guarded, Scopes!Next, Scopes!End
    <2>4. CASE Crash
      BY <2>4 DEF Crash, Guarded, Scopes!Next, Scopes!Crash
    <2>5. ASSUME Expire \/ Restart \/ Tick \/ \E o \in Operations : Renew(o)
          PROVE  Guarded' = Guarded
      BY <2>5 DEF Expire, Restart, Tick, Renew, Guarded
    \* Whoever loses its row to a reclaim leaves the abstract exclusion.
    <2>6. ASSUME NEW o \in Reclaimable, Reclaim(o), Guarded' # Guarded
          PROVE  Scopes!Next
      <3>1. o \in Guarded /\ Guarded' = Guarded \ {o}
        BY <2>6 DEF Reclaim, Guarded
      <3>2. QED
        BY <3>1, KindAssumption DEF Scopes!Next, Scopes!End
    <2>7. QED
      BY <1>2, <2>1, <2>2, <2>3, <2>4, <2>5, <2>6 DEF LeasesNext
  <1>3. QED
    BY <1>1, <1>2, LeaseInvariant, PTL DEF LeasesSpec, ImplementsScopedExclusion, Scopes!Spec

-----------------------------------------------------------------------------
(* Cleanups remove neither what a retained rollback needs nor what the       *)
(* container uses, for any images, networks and volumes and any number of    *)
(* updates, requests and failures.  While a cleanup has the host's lease no  *)
(* update adds a snapshot or changes the container, so what it read under    *)
(* the lease only shrinks.  A deletion by name reads protection before the   *)
(* lease: it knows the snapshots it saw, and no later ones.                  *)

Objects == Images \cup Networks \cup Volumes
Kinds == {"none", "image", "network", "cache", "volume", "delete"}
Stages == {"idle", "queued", "lease", "start", "protect", "inventory", "remove", "finish"}
Ends == {"none", "success", "failed"}
Works == [at : Stages, kind : Kinds, job : Ends \cup {"queued", "running", "cancelled"},
          end : Ends, lost : BOOLEAN, guard : SUBSET Objects, seen : Nat, todo : SUBSET Objects,
          blind : BOOLEAN, scanned : BOOLEAN, removed : BOOLEAN, missed : BOOLEAN]

Shape ==
    /\ present \subseteq Objects
    /\ ctr \in [state : {"running", "stopped", "gone"}, image : Images]
    /\ zip \in Seq(SUBSET Objects) /\ row \subseteq Images
    /\ work \in [Runners -> Works] /\ plan \in Seq(Kinds \ {"delete"})

\* A cleanup that works under the lease it took.
UnderLease(w) == w.at \in {"protect", "inventory", "remove"} /\ w.kind # "delete"
Leases ==
    /\ update # "none" => lease = "update" /\ ctr.state # "gone"
    /\ \A p \in Runners : UnderLease(work[p]) => lease = p

\* It is no longer queued, so that nobody cancels it.
Claimed(w) ==
    /\ UnderLease(w) \/ (w.at = "lease" /\ w.kind # "delete") => w.job # "queued"
    /\ w.at = "start" => w.kind = "delete"
\* What a cleanup read under the lease still covers all that is protected.
Covers(w) ==
    w.at \in {"inventory", "remove"} /\ w.kind # "delete" /\ ~w.blind
      => Protected \subseteq w.guard /\ (w.kind = "image" => HelperImage \in w.guard)
\* A deletion by name is of nothing the snapshots it saw name.
Looked(w) ==
    w.kind = "delete" /\ ~w.blind
      => w.seen <= Len(zip) /\ \A i \in Kept : i <= w.seen => w.todo \cap zip[i] = {}
\* What is about to be removed was not protected when the cleanup looked,
Spares(w) ==
    /\ w.at = "remove" /\ w.kind # "delete" => w.todo \cap w.guard = {}
    /\ w.at = "remove" /\ w.kind # "image" => HelperImage \notin w.todo
    /\ w.at = "remove" => Archives \notin w.todo
    /\ w.kind = "delete" => w.todo \subseteq Volumes \ {Archives}
\* nor used by the container.
Unused(w) ==
    w.at = "remove" => \A o \in w.todo \cap References : o \in Networks \/ (o \in Images /\ ~w.scanned)

Careful(w) == Claimed(w) /\ Covers(w) /\ Looked(w) /\ Spares(w) /\ Unused(w)
CleanupInv == Shape /\ Leases /\ \A p \in Runners : Careful(work[p])

-----------------------------------------------------------------------------
LEMMA ProtectedIsOfObjects ==
    ASSUME Shape
    PROVE  Protected \in SUBSET Objects /\ References \in SUBSET Objects
           /\ \A guard \in Readings : guard \in SUBSET Objects
<1>1. \A i \in DOMAIN zip : zip[i] \in SUBSET Objects
    BY DEF Shape
<1>2. Images \subseteq Objects /\ Networks \subseteq Objects /\ Volumes \subseteq Objects
    BY DEF Objects
<1>3. Protected \in SUBSET Objects /\ \A guard \in Misread : guard \in SUBSET Objects
    BY <1>1, <1>2 DEF Protected, Misread, Kept, Shape
<1> QED
    BY <1>2, <1>3 DEF Shape, References, Readings

\* Images, networks and volumes are different things.
LEMMA ObjectsDiffer ==
    /\ HelperImage \in Images \ (Networks \cup Volumes)
    /\ Archives \in Volumes \ (Anonymous \cup Images \cup Networks)
    /\ Anonymous \subseteq Volumes
    /\ Volumes \cap Images = {} /\ Volumes \cap Networks = {}
  BY ObjectsAssumption

LEMMA IdleIsAWork ==
    /\ Idle \in Works
    /\ \A job \in Ends \cup {"queued", "running", "cancelled"}, lost \in BOOLEAN : Ended(job, lost) \in Works
    /\ \A job \in Ends \cup {"queued", "running", "cancelled"}, status \in Ends :
          [Idle EXCEPT !.at = "finish", !.job = job, !.end = status] \in Works
    /\ \A kind \in Kinds : [Idle EXCEPT !.at = "queued", !.kind = kind, !.job = "queued"] \in Works
<1>1. Idle \in Works
    BY DEF Idle, Works, Stages, Kinds, Ends
<1>2. ASSUME NEW job \in Ends \cup {"queued", "running", "cancelled"}, NEW lost \in BOOLEAN
      PROVE  Ended(job, lost) \in Works
    BY <1>1 DEF Works, Ended
<1>3. ASSUME NEW job \in Ends \cup {"queued", "running", "cancelled"}, NEW status \in Ends
      PROVE  [Idle EXCEPT !.at = "finish", !.job = job, !.end = status] \in Works
    BY <1>1 DEF Works, Stages
<1>4. ASSUME NEW kind \in Kinds
      PROVE  [Idle EXCEPT !.at = "queued", !.kind = kind, !.job = "queued"] \in Works
    BY <1>1 DEF Works, Stages
<1> QED
    BY <1>1, <1>2, <1>3, <1>4

\* A step of runner p is a matter of p alone.
LEMMA RunnerStep ==
    ASSUME CleanupInv, NEW p \in Runners, NEW w \in Works, Step(p, w),
           UNCHANGED <<ctr, zip, row, update>>,
           present' \subseteq present, plan' \in Seq(Kinds \ {"delete"}),
           UnderLease(w) => lease' = p,
           lease' # lease => lease' = p \/ (lease = p /\ lease' = "free"),
           lease' # lease /\ lease' = p => lease = "free",
           Careful(w)
    PROVE  CleanupInv'
<1>1. work' \in [Runners -> Works] /\ work'[p] = w /\ \A q \in Runners \ {p} : work'[q] = work[q]
    BY DEF CleanupInv, Shape, Step
<1>2. Shape'
    BY <1>1 DEF CleanupInv, Shape
<1>3. update' = update /\ "update" \notin Runners /\ "free" \notin Runners
    BY DEF Runners
<1>4. Leases'
    BY <1>1, <1>3 DEF CleanupInv, Leases, UnderLease
<1>5. Protected' = Protected /\ Kept' = Kept /\ References' = References /\ zip' = zip
    BY DEF Protected, Kept, References
<1>6. ASSUME NEW q \in Runners PROVE Careful(work[q])'
  <2>1. CASE q = p
    BY <1>1, <1>5, <2>1 DEF Careful, Claimed, UnderLease, Covers, Looked, Spares, Unused
  <2>2. CASE q # p
    BY <1>1, <1>5, <2>2 DEF CleanupInv, Careful, Claimed, UnderLease, Covers, Looked, Spares, Unused
  <2> QED
    BY <2>1, <2>2
<1> QED
    BY <1>2, <1>4, <1>6 DEF CleanupInv

\* A step that leaves the runners alone takes nothing under protection or into
\* use while a cleanup has the lease.
LEMMA OthersStep ==
    ASSUME CleanupInv, Shape', Leases', work' = work,
           Len(zip') >= Len(zip),
           \A i \in Kept' : (i \in Kept /\ zip'[i] = zip[i]) \/ i > Len(zip),
           References' \cap Volumes \subseteq References,
           \A p \in Runners : UnderLease(work[p]) =>
              Protected' \subseteq Protected /\ References' \subseteq References
    PROVE  CleanupInv'
<1>1. ASSUME NEW p \in Runners PROVE Careful(work[p])'
  <2>1. Covers(work[p])' /\ Spares(work[p])' /\ Claimed(work[p])'
    BY DEF CleanupInv, Careful, Claimed, Covers, Spares, UnderLease
  <2>5. Unused(work[p])'
    <3>1. CASE work[p].kind = "delete"
      BY <3>1 DEF CleanupInv, Careful, Spares, Unused
    <3>2. CASE work[p].kind # "delete"
      BY <3>2 DEF CleanupInv, Careful, Unused, UnderLease
    <3> QED
      BY <3>1, <3>2
  <2>2. work[p].seen \in Nat /\ Len(zip) \in Nat /\ Len(zip') \in Nat
    BY DEF CleanupInv, Shape, Works
  <2>3. Kept' \subseteq Nat
    BY DEF Shape, Kept
  <2>4. Looked(work[p])'
    BY <2>2, <2>3 DEF CleanupInv, Careful, Looked
  <2> QED
    BY <2>1, <2>4, <2>5 DEF Careful
<1> QED
    BY <1>1 DEF CleanupInv

\* A cleanup that is over, or not begun, has nothing to answer for.
LEMMA IdleIsCareful ==
    ASSUME NEW w, w.at \in {"idle", "queued", "finish"}, w.kind # "delete"
    PROVE  Careful(w) /\ ~UnderLease(w)
BY DEF Careful, Claimed, Covers, Looked, Spares, Unused, UnderLease

\* A goroutine that ends leaves the runner idle and gives its lease back.
LEMMA EndStep ==
    ASSUME CleanupInv, NEW p \in Runners,
           NEW job \in Ends \cup {"queued", "running", "cancelled"}, NEW lost \in BOOLEAN,
           Step(p, Ended(job, lost)),
           lease' = lease \/ (lease = p /\ lease' = "free"),
           UNCHANGED <<ctr, zip, row, update, present, plan>>
    PROVE  CleanupInv'
<1> DEFINE w == Ended(job, lost)
<1>1. w \in Works
    BY IdleIsAWork
<1>2. w.at = "idle" /\ w.kind = "none"
    BY DEF Ended, Idle
<1> HIDE DEF w
<1>3. Careful(w) /\ ~UnderLease(w)
    BY <1>2, IdleIsCareful
<1>4. Step(p, w) /\ plan' \in Seq(Kinds \ {"delete"})
    BY DEF w, CleanupInv, Shape
<1> QED
    BY <1>1, <1>3, <1>4, RunnerStep DEF Runners

-----------------------------------------------------------------------------
LEMMA InitCleanup == Init => CleanupInv
<1> SUFFICES ASSUME Init PROVE CleanupInv
    OBVIOUS
<1>1. work \in [Runners -> Works] /\ \A p \in Runners : work[p] = Idle
    BY IdleIsAWork DEF Init
<1>2. zip = <<>> /\ plan = <<>> /\ row = {} /\ update = "none"
    BY DEF Init
<1>3. zip \in Seq(SUBSET Objects) /\ plan \in Seq(Kinds \ {"delete"})
    BY <1>2
<1>4. Shape
    BY <1>1, <1>2, <1>3, ObjectsAssumption DEF Init, Shape, Objects
<1>5. ASSUME NEW p \in Runners PROVE Careful(work[p]) /\ ~UnderLease(work[p])
  <2>1. work[p].at = "idle" /\ work[p].kind = "none"
    BY <1>1 DEF Idle
  <2> QED
    BY <2>1, IdleIsCareful
<1> QED
    BY <1>2, <1>4, <1>5 DEF CleanupInv, Leases

LEMMA AskStep ==
    ASSUME CleanupInv, NEW p \in Runners, NEW kind \in Kinds \ {"delete"}, Ask(p, kind)
    PROVE  CleanupInv'
<1> DEFINE w == [Idle EXCEPT !.at = "queued", !.kind = kind, !.job = "queued"]
<1>1. w \in Works /\ Shape
    BY IdleIsAWork DEF CleanupInv
<1>2. Step(p, w) /\ UNCHANGED <<present, ctr, zip, row, lease, update, plan>>
    BY DEF Ask, Step, retained, updating
<1>3. w.at = "queued" /\ w.kind # "delete"
    BY DEF Idle
<1> HIDE DEF w
<1>4. Careful(w) /\ ~UnderLease(w)
    BY <1>3, IdleIsCareful
<1> QED
    BY <1>1, <1>2, <1>4, RunnerStep DEF Shape

LEMMA PlanStep ==
    ASSUME CleanupInv, UNCHANGED <<present, ctr, zip, row, lease, update, work>>, plan' \in Seq(Kinds \ {"delete"})
    PROVE  CleanupInv'
<1>1. Shape' /\ Leases' /\ Kept' = Kept /\ Protected' = Protected /\ References' = References
    BY DEF CleanupInv, Shape, Leases, Kept, Protected, References
<1>2. Len(zip') >= Len(zip)
    BY DEF CleanupInv, Shape
<1> QED
    BY <1>1, <1>2, OthersStep

\* The actions of a rule are cleanups that take a lease.
LEMMA ActionsAreCleanups == \A rule : Actions(rule) \in Seq(Kinds \ {"delete"})
<1> SUFFICES ASSUME NEW rule PROVE Actions(rule) \in Seq(Kinds \ {"delete"})
    OBVIOUS
<1>1. ASSUME NEW kind \in Kinds \ {"delete"} PROVE Selected(rule, kind) \in Seq(Kinds \ {"delete"})
  <2>1. <<>> \in Seq(Kinds \ {"delete"}) /\ <<kind>> \in Seq(Kinds \ {"delete"})
    OBVIOUS
  <2> QED
    BY <2>1 DEF Selected
<1>2. {"image", "network", "cache", "volume"} \subseteq Kinds \ {"delete"}
    BY DEF Kinds
<1> QED
    BY <1>1, <1>2 DEF Actions

LEMMA ScheduledStep == CleanupInv /\ ScheduledCleanup => CleanupInv'
<1> SUFFICES ASSUME CleanupInv, ScheduledCleanup PROVE CleanupInv'
    OBVIOUS
<1> DEFINE w == [Idle EXCEPT !.at = "queued", !.kind = Head(plan), !.job = "queued"]
<1>1. /\ Shape /\ Head(plan) \in Kinds \ {"delete"} /\ Tail(plan) \in Seq(Kinds \ {"delete"})
      /\ UNCHANGED <<present, ctr, zip, row, lease, update>> /\ plan' = Tail(plan)
    BY DEF CleanupInv, Shape, ScheduledCleanup, retained, updating
<1>2. CASE Step("schedule", w)
  <2>1. w \in Works /\ "schedule" \in Runners
    BY <1>1, IdleIsAWork DEF Runners
  <2>2. w.at = "queued" /\ w.kind # "delete"
    BY <1>1 DEF Idle
  <2> HIDE DEF w
  <2>3. Careful(w) /\ ~UnderLease(w)
    BY <2>2, IdleIsCareful
  <2> QED
    BY <1>1, <1>2, <2>1, <2>3, RunnerStep
<1>3. CASE UNCHANGED work
    BY <1>1, <1>3, PlanStep
<1> QED
    BY <1>2, <1>3 DEF ScheduledCleanup, Step

LEMMA NamedDeleteStep == CleanupInv /\ HandleNamedVolumeDelete => CleanupInv'
<1> SUFFICES ASSUME CleanupInv, HandleNamedVolumeDelete PROVE CleanupInv'
    OBVIOUS
<1>1. PICK name \in Volumes \ {Archives}, guard \in Readings :
        /\ name \notin guard
        /\ work' = [work EXCEPT !["admin"] =
             [Idle EXCEPT !.at = "lease", !.kind = "delete", !.job = "queued",
                          !.seen = Len(zip), !.todo = {name}, !.blind = guard # Protected]]
    BY DEF HandleNamedVolumeDelete
<1> DEFINE blind == (guard # Protected)
           w == [Idle EXCEPT !.at = "lease", !.kind = "delete", !.job = "queued",
                             !.seen = Len(zip), !.todo = {name}, !.blind = blind]
<1>2. Shape /\ {name} \in SUBSET Objects /\ Len(zip) \in Nat
    BY DEF CleanupInv, Shape, Objects
<1>3. Step("admin", w) /\ UNCHANGED <<present, ctr, zip, row, lease, update, plan>> /\ "admin" \in Runners
    BY <1>1 DEF HandleNamedVolumeDelete, Step, retained, updating, Runners
<1>4. blind \in BOOLEAN /\ (~blind => guard = Protected)
    OBVIOUS
<1> HIDE DEF blind
<1>5. w \in Works
    BY <1>2, <1>4 DEF Idle, Works, Stages, Kinds, Ends
<1>6. w.at = "lease" /\ w.kind = "delete" /\ w.todo = {name} /\ w.seen = Len(zip) /\ w.blind = blind
    BY DEF Idle
<1> HIDE DEF w
<1>7. ~blind => \A i \in Kept : name \notin zip[i]
    BY <1>1, <1>4 DEF Protected
<1>8. Looked(w)
    BY <1>2, <1>6, <1>7 DEF Looked
<1>9. Careful(w) /\ ~UnderLease(w)
    BY <1>6, <1>8 DEF Careful, Claimed, Covers, Spares, Unused, UnderLease
<1> QED
    BY <1>2, <1>3, <1>5, <1>9, RunnerStep DEF Shape

-----------------------------------------------------------------------------
\* A job goes on: what changes of its work is typed and careful, and its lease
\* stays.
LEMMA OnwardStep ==
    ASSUME CleanupInv, NEW p \in Runners, NEW w \in Works, Step(p, w),
           UNCHANGED <<ctr, zip, row, update, lease, plan>>, present' \subseteq present,
           UnderLease(w) => UnderLease(work[p]),
           Careful(w)
    PROVE  CleanupInv'
<1>1. Shape /\ (UnderLease(work[p]) => lease = p)
    BY DEF CleanupInv, Leases
<1> QED
    BY <1>1, RunnerStep DEF Shape

\* A job that is over keeps its lease until its end is written.
LEMMA SettleStep ==
    ASSUME CleanupInv, NEW p \in Runners, NEW status \in Ends, Settle(p, status),
           UNCHANGED <<ctr, zip, row, update, lease, plan, present>>
    PROVE  CleanupInv'
<1> DEFINE job == work[p].job
           w == [Idle EXCEPT !.at = "finish", !.job = job, !.end = status]
<1>1. work[p] \in Works /\ Step(p, w)
    BY DEF CleanupInv, Shape, Settle
<1>2. job \in Ends \cup {"queued", "running", "cancelled"}
    BY <1>1 DEF Works
<1> HIDE DEF job
<1>3. w \in Works
    BY <1>2, IdleIsAWork
<1>4. w.at = "finish" /\ w.kind # "delete"
    BY DEF Idle
<1> HIDE DEF w
<1>5. Careful(w) /\ ~UnderLease(w)
    BY <1>4, IdleIsCareful
<1> QED
    BY <1>1, <1>3, <1>5, OnwardStep

LEMMA BeginStep ==
    ASSUME CleanupInv, NEW p \in Runners, BeginAsyncJob(p)
    PROVE  CleanupInv'
<1>1. work[p] \in Works /\ Careful(work[p]) /\ work[p].at = "queued"
      /\ UNCHANGED <<present, ctr, zip, row, lease, update, plan>>
    BY DEF CleanupInv, Shape, BeginAsyncJob, retained, updating
<1>2. CASE Step(p, [work[p] EXCEPT !.at = "lease", !.job = "running"])
  <2> DEFINE w == [work[p] EXCEPT !.at = "lease", !.job = "running"]
  <2>1. w \in Works
    BY <1>1 DEF Works, Stages
  <2>2. /\ w.at = "lease" /\ w.job = "running" /\ w.kind = work[p].kind /\ w.blind = work[p].blind
        /\ w.seen = work[p].seen /\ w.todo = work[p].todo
    BY <1>1 DEF Works
  <2>3. Step(p, w)
    BY <1>2
  <2> HIDE DEF w
  <2>4. Careful(w) /\ ~UnderLease(w)
    BY <1>1, <2>2 DEF Careful, Claimed, Covers, Looked, Spares, Unused, UnderLease
  <2> QED
    BY <1>1, <2>1, <2>3, <2>4, OnwardStep
<1>3. CASE \E lost \in BOOLEAN : Step(p, Ended(work[p].job, lost))
  <2>1. PICK lost \in BOOLEAN : Step(p, Ended(work[p].job, lost))
    BY <1>3
  <2>2. work[p].job \in Ends \cup {"queued", "running", "cancelled"}
    BY <1>1 DEF Works
  <2> QED
    BY <1>1, <2>1, <2>2, EndStep
<1>4. \/ Step(p, [work[p] EXCEPT !.at = "lease", !.job = "running"])
      \/ \E lost \in BOOLEAN : Step(p, Ended(work[p].job, lost))
    BY DEF BeginAsyncJob
<1> QED
    BY <1>2, <1>3, <1>4

LEMMA LeaseStep ==
    ASSUME CleanupInv, NEW p \in Runners, HoldHostOperationLease(p)
    PROVE  CleanupInv'
<1>1. work[p] \in Works /\ Careful(work[p]) /\ work[p].at = "lease"
      /\ UNCHANGED <<present, ctr, zip, row, update, plan>>
    BY DEF CleanupInv, Shape, HoldHostOperationLease, retained, updating
<1>2. CASE lease = "free" /\ lease' = p /\ Step(p, Leased(p))
  <2> DEFINE next == IF work[p].kind = "delete" THEN "start" ELSE "protect"
             w == [work[p] EXCEPT !.at = next]
  <2>1. Step(p, w)
    BY <1>2 DEF Leased
  <2>2. next \in {"start", "protect"} /\ (next = "start" <=> work[p].kind = "delete")
    OBVIOUS
  <2> HIDE DEF next
  <2>3. w \in Works
    BY <1>1, <2>2 DEF Works, Stages
  <2>4. /\ w.at = next /\ w.kind = work[p].kind /\ w.job = work[p].job /\ w.blind = work[p].blind
        /\ w.seen = work[p].seen /\ w.todo = work[p].todo
    BY <1>1 DEF Works
  <2> HIDE DEF w
  <2>5. Careful(w)
    BY <1>1, <2>2, <2>4 DEF Careful, Claimed, Covers, Looked, Spares, Unused, UnderLease
  <2>6. plan' \in Seq(Kinds \ {"delete"})
    BY <1>1 DEF CleanupInv, Shape
  <2> QED
    BY <1>1, <1>2, <2>1, <2>3, <2>5, <2>6, RunnerStep
<1>3. CASE Settle(p, "failed") /\ UNCHANGED lease
    BY <1>1, <1>3, SettleStep DEF Ends
<1> QED
    BY <1>2, <1>3 DEF HoldHostOperationLease

LEMMA StartStep ==
    ASSUME CleanupInv, NEW p \in Runners, StartJob(p)
    PROVE  CleanupInv'
<1>1. work[p] \in Works /\ Careful(work[p]) /\ work[p].at = "start"
      /\ UNCHANGED <<present, ctr, zip, row, lease, update, plan>>
    BY DEF CleanupInv, Shape, StartJob, retained, updating
<1>2. PICK job \in Ends \cup {"queued", "running", "cancelled"} :
        Step(p, [work[p] EXCEPT !.at = "inventory", !.job = job])
  <2>1. work[p].job \in Ends \cup {"queued", "running", "cancelled"}
    BY <1>1 DEF Works
  <2>2. [work[p] EXCEPT !.at = "inventory"] = [work[p] EXCEPT !.at = "inventory", !.job = work[p].job]
    BY <1>1 DEF Works
  <2> QED
    BY <2>1, <2>2 DEF StartJob
<1> DEFINE w == [work[p] EXCEPT !.at = "inventory", !.job = job]
<1>3. w \in Works
    BY <1>1 DEF Works, Stages
<1>4. /\ w.at = "inventory" /\ w.kind = work[p].kind /\ w.blind = work[p].blind
      /\ w.seen = work[p].seen /\ w.todo = work[p].todo
    BY <1>1 DEF Works
<1>5. Step(p, w)
    BY <1>2
<1> HIDE DEF w
<1>6. Careful(w) /\ ~UnderLease(w)
    BY <1>1, <1>4 DEF Careful, Claimed, Covers, Looked, Spares, Unused, UnderLease
<1> QED
    BY <1>1, <1>3, <1>5, <1>6, OnwardStep

LEMMA FinishStep ==
    ASSUME CleanupInv, NEW p \in Runners, FinishJob(p)
    PROVE  CleanupInv'
<1>1. work[p] \in Works
    BY DEF CleanupInv, Shape
<1>2. PICK job \in Ends \cup {"queued", "running", "cancelled"}, lost \in BOOLEAN : Step(p, Ended(job, lost))
    BY <1>1 DEF FinishJob, Works
<1> QED
    BY <1>2, EndStep DEF FinishJob, retained, updating

\* Only a cleanup that does not work under its lease is still queued.
LEMMA CancelStep ==
    ASSUME CleanupInv, NEW p \in Runners, CancelQueuedJob(p)
    PROVE  CleanupInv'
<1> DEFINE w == [work[p] EXCEPT !.job = "cancelled"]
<1>1. work[p] \in Works /\ Careful(work[p]) /\ work[p].job = "queued" /\ Step(p, w)
      /\ UNCHANGED <<present, ctr, zip, row, update, plan>>
      /\ (lease' = lease \/ (lease = p /\ lease' = "free"))
    BY DEF CleanupInv, Shape, CancelQueuedJob, retained, updating, Step
<1>2. w \in Works /\ plan' \in Seq(Kinds \ {"delete"})
    BY <1>1 DEF Works, CleanupInv, Shape
<1>3. /\ w.at = work[p].at /\ w.kind = work[p].kind /\ w.job = "cancelled" /\ w.blind = work[p].blind
      /\ w.seen = work[p].seen /\ w.todo = work[p].todo /\ w.guard = work[p].guard
      /\ w.scanned = work[p].scanned
    BY <1>1 DEF Works
<1> HIDE DEF w
<1>4. Careful(w) /\ ~UnderLease(w)
    BY <1>1, <1>3 DEF Careful, Claimed, Covers, Looked, Spares, Unused, UnderLease
<1> QED
    BY <1>1, <1>2, <1>4, RunnerStep DEF Runners

LEMMA GuardingStep ==
    ASSUME CleanupInv, NEW p \in Runners, work[p].at = "protect", work[p].kind # "delete",
           NEW guard \in SUBSET Objects, NEW blind \in BOOLEAN, Guarding(p, guard, blind),
           ~blind => Protected \subseteq guard /\ (work[p].kind = "image" => HelperImage \in guard),
           UNCHANGED <<present, ctr, zip, row, update, lease, plan>>
    PROVE  CleanupInv'
<1> DEFINE w == [work[p] EXCEPT !.at = "inventory", !.guard = guard, !.blind = blind]
<1>1. work[p] \in Works /\ Careful(work[p]) /\ Step(p, w)
    BY DEF CleanupInv, Shape, Guarding
<1>2. w \in Works
    BY <1>1 DEF Works, Stages
<1>3. /\ w.at = "inventory" /\ w.kind = work[p].kind /\ w.blind = blind /\ w.guard = guard
      /\ w.job = work[p].job
    BY <1>1 DEF Works
<1> HIDE DEF w
<1>4. Careful(w) /\ UnderLease(work[p])
    BY <1>1, <1>3 DEF Careful, Claimed, Covers, Looked, Spares, Unused, UnderLease
<1> QED
    BY <1>1, <1>2, <1>4, OnwardStep

LEMMA GuardStep ==
    ASSUME CleanupInv, NEW p \in Runners,
           RunImageCleanup(p) \/ RunNetworkCleanup(p) \/ RunAnonymousVolumeCleanup(p)
    PROVE  CleanupInv'
<1>1. /\ work[p].at = "protect" /\ work[p].kind # "delete"
      /\ UNCHANGED <<present, ctr, zip, row, update, lease, plan>>
    BY DEF RunImageCleanup, RunNetworkCleanup, RunAnonymousVolumeCleanup, Guard, retained, updating
<1>2. /\ \A guard \in Readings : guard \in SUBSET Objects /\ guard \cup {HelperImage} \in SUBSET Objects
      /\ Protected \in SUBSET Objects
    BY ProtectedIsOfObjects, ObjectsDiffer DEF CleanupInv, Objects
<1>3. CASE RunNetworkCleanup(p) \/ RunAnonymousVolumeCleanup(p)
  <2>1. PICK guard \in Readings : Guarding(p, guard, guard # Protected)
    BY <1>3 DEF RunNetworkCleanup, RunAnonymousVolumeCleanup, Guard
  <2>2. work[p].kind # "image"
    BY <1>3 DEF RunNetworkCleanup, RunAnonymousVolumeCleanup
  <2>3. (guard # Protected) \in BOOLEAN /\ (~(guard # Protected) => Protected \subseteq guard)
    OBVIOUS
  <2> QED
    BY <1>1, <1>2, <2>1, <2>2, <2>3, GuardingStep
<1>4. CASE RunImageCleanup(p)
  <2>1. CASE Guarding(p, Protected, TRUE)
    BY <1>1, <1>2, <2>1, GuardingStep
  <2>2. CASE \E guard \in Readings : Guarding(p, guard \cup {HelperImage}, guard # Protected)
    <3>1. PICK guard \in Readings : Guarding(p, guard \cup {HelperImage}, guard # Protected)
      BY <2>2
    <3>2. (guard # Protected) \in BOOLEAN /\ (~(guard # Protected) => Protected \subseteq guard \cup {HelperImage})
          /\ HelperImage \in guard \cup {HelperImage}
      OBVIOUS
    <3> QED
      BY <1>1, <1>2, <3>1, <3>2, GuardingStep
  <2> QED
    BY <1>4, <2>1, <2>2 DEF RunImageCleanup
<1> QED
    BY <1>3, <1>4

\* What RemoveSeen may be given: objects, not the archives, the helper's image
\* only as an image, and of what the container uses only networks, or images
\* when the containers could not be listed.
LEMMA RemoveSeenStep ==
    ASSUME CleanupInv, NEW p \in Runners, work[p].at = "inventory", work[p].kind # "delete",
           NEW eligible \in SUBSET Objects, NEW scanned \in BOOLEAN, RemoveSeen(p, eligible, scanned),
           Archives \notin eligible, work[p].kind # "image" => HelperImage \notin eligible,
           \A o \in eligible \cap References : o \in Networks \/ (o \in Images /\ ~scanned),
           UNCHANGED <<present, ctr, zip, row, update, lease, plan>>
    PROVE  CleanupInv'
<1> DEFINE w == [work[p] EXCEPT !.at = "remove", !.todo = eligible \ work[p].guard, !.scanned = scanned]
<1>1. work[p] \in Works /\ Careful(work[p]) /\ Step(p, w)
    BY DEF CleanupInv, Shape, RemoveSeen
<1>2. w \in Works
    BY <1>1 DEF Works, Stages
<1>3. /\ w.at = "remove" /\ w.kind = work[p].kind /\ w.blind = work[p].blind /\ w.guard = work[p].guard
      /\ w.todo = eligible \ work[p].guard /\ w.scanned = scanned /\ w.job = work[p].job
    BY <1>1 DEF Works
<1> HIDE DEF w
<1>4. UnderLease(work[p])
    BY DEF UnderLease
<1>5. Claimed(w) /\ Covers(w) /\ Looked(w)
    BY <1>1, <1>3, <1>4 DEF Careful, Claimed, Covers, Looked, UnderLease
<1>6. Spares(w) /\ Unused(w)
    BY <1>3 DEF Spares, Unused
<1> QED
    BY <1>1, <1>2, <1>4, <1>5, <1>6, OnwardStep DEF Careful

LEMMA InventoryStep ==
    ASSUME CleanupInv, NEW p \in Runners,
           InventoryImages(p) \/ InventoryNetworks(p) \/ InventoryVolumes(p)
    PROVE  CleanupInv'
<1>1. work[p].at = "inventory" /\ work[p].kind # "delete"
      /\ UNCHANGED <<present, ctr, zip, row, update, lease, plan>>
    BY DEF InventoryImages, InventoryNetworks, InventoryVolumes, retained, updating
<1>2. /\ UnusedImages(TRUE) \in SUBSET Objects /\ UnusedImages(FALSE) \in SUBSET Objects
      /\ UnusedNetworks \in SUBSET Objects /\ UnusedVolumes \cap Anonymous \in SUBSET Objects
      /\ {} \in SUBSET Objects
    BY DEF UnusedImages, UnusedNetworks, UnusedVolumes, Objects
<1>3. /\ \A o \in UnusedImages(TRUE) \cap References : FALSE
      /\ \A o \in UnusedImages(FALSE) : o \in Images
      /\ \A o \in UnusedNetworks : o \in Networks
      /\ \A o \in UnusedVolumes \cap References : FALSE
    BY DEF UnusedImages, UnusedNetworks, UnusedVolumes
<1>4. /\ Archives \notin UnusedImages(TRUE) /\ Archives \notin UnusedImages(FALSE)
      /\ Archives \notin UnusedNetworks /\ Archives \notin UnusedVolumes \cap Anonymous
      /\ HelperImage \notin UnusedNetworks /\ HelperImage \notin UnusedVolumes \cap Anonymous
    BY ObjectsDiffer DEF UnusedImages, UnusedNetworks, UnusedVolumes
<1>5. CASE Settle(p, "failed")
    BY <1>1, <1>5, SettleStep DEF Ends
<1>6. CASE work[p].kind = "image" /\ RemoveSeen(p, UnusedImages(TRUE), TRUE)
    BY <1>1, <1>2, <1>3, <1>4, <1>6, RemoveSeenStep
<1>7. CASE work[p].kind = "image" /\ RemoveSeen(p, UnusedImages(FALSE), FALSE)
    BY <1>1, <1>2, <1>3, <1>4, <1>7, RemoveSeenStep
<1>8. CASE RemoveSeen(p, UnusedNetworks, TRUE)
    BY <1>1, <1>2, <1>3, <1>4, <1>8, RemoveSeenStep
<1>9. CASE RemoveSeen(p, UnusedVolumes \cap Anonymous, TRUE)
    BY <1>1, <1>2, <1>3, <1>4, <1>9, RemoveSeenStep
<1>10. CASE RemoveSeen(p, {}, TRUE)
    BY <1>1, <1>2, <1>10, RemoveSeenStep
<1> QED
    BY <1>5, <1>6, <1>7, <1>8, <1>9, <1>10 DEF InventoryImages, InventoryNetworks, InventoryVolumes, Remove

LEMMA InspectStep ==
    ASSUME CleanupInv, NEW p \in Runners, InspectNamedVolume(p)
    PROVE  CleanupInv'
<1>1. work[p].at = "inventory" /\ work[p].kind = "delete"
      /\ UNCHANGED <<present, ctr, zip, row, update, lease, plan>>
    BY DEF InspectNamedVolume, retained, updating
<1>2. CASE Settle(p, "failed")
    BY <1>1, <1>2, SettleStep DEF Ends
<1>3. CASE work[p].todo \subseteq UnusedVolumes \ Anonymous /\ Step(p, [work[p] EXCEPT !.at = "remove"])
  <2> DEFINE w == [work[p] EXCEPT !.at = "remove"]
  <2>1. work[p] \in Works /\ Careful(work[p])
    BY DEF CleanupInv, Shape
  <2>2. w \in Works
    BY <2>1 DEF Works, Stages
  <2>3. /\ w.at = "remove" /\ w.kind = "delete" /\ w.blind = work[p].blind
        /\ w.seen = work[p].seen /\ w.todo = work[p].todo
    BY <1>1, <2>1 DEF Works
  <2>4. Step(p, w)
    BY <1>3
  <2> HIDE DEF w
  <2>5. Claimed(w) /\ Covers(w) /\ Looked(w) /\ ~UnderLease(w)
    BY <1>1, <2>1, <2>3 DEF Careful, Claimed, Covers, Looked, UnderLease
  <2>6. Spares(w) /\ Unused(w)
    BY <1>1, <1>3, <2>1, <2>3, ObjectsDiffer DEF Careful, Spares, Unused, UnusedVolumes
  <2> QED
    BY <1>1, <2>2, <2>4, <2>5, <2>6, OnwardStep DEF Careful
<1> QED
    BY <1>2, <1>3 DEF InspectNamedVolume

LEMMA RemoveOneStep ==
    ASSUME CleanupInv, NEW p \in Runners, RemoveOne(p)
    PROVE  CleanupInv'
<1>1. work[p] \in Works /\ Careful(work[p]) /\ work[p].at = "remove"
      /\ UNCHANGED <<ctr, zip, row, update, lease, plan>>
    BY DEF CleanupInv, Shape, RemoveOne, retained, updating
<1>2. PICK o \in work[p].todo :
        /\ present' \subseteq present
        /\ \/ Step(p, [work[p] EXCEPT !.todo = @ \ {o}, !.removed = TRUE])
           \/ Step(p, [work[p] EXCEPT !.todo = @ \ {o}, !.missed = TRUE])
    BY DEF RemoveOne
<1>3. PICK w \in Works : /\ Step(p, w) /\ w.at = "remove" /\ w.kind = work[p].kind /\ w.blind = work[p].blind
                         /\ w.seen = work[p].seen /\ w.guard = work[p].guard /\ w.scanned = work[p].scanned
                         /\ w.todo = work[p].todo \ {o} /\ w.job = work[p].job
  <2> DEFINE removed == [work[p] EXCEPT !.todo = @ \ {o}, !.removed = TRUE]
             missed == [work[p] EXCEPT !.todo = @ \ {o}, !.missed = TRUE]
  <2>1. removed \in Works /\ missed \in Works
    BY <1>1 DEF Works
  <2>2. /\ removed.at = "remove" /\ removed.kind = work[p].kind /\ removed.blind = work[p].blind
        /\ removed.seen = work[p].seen /\ removed.guard = work[p].guard
        /\ removed.scanned = work[p].scanned /\ removed.todo = work[p].todo \ {o} /\ removed.job = work[p].job
    BY <1>1 DEF Works
  <2>3. /\ missed.at = "remove" /\ missed.kind = work[p].kind /\ missed.blind = work[p].blind
        /\ missed.seen = work[p].seen /\ missed.guard = work[p].guard
        /\ missed.scanned = work[p].scanned /\ missed.todo = work[p].todo \ {o} /\ missed.job = work[p].job
    BY <1>1 DEF Works
  <2>4. Step(p, removed) \/ Step(p, missed)
    BY <1>2
  <2> HIDE DEF removed, missed
  <2> QED
    BY <2>1, <2>2, <2>3, <2>4
<1>4. Careful(w) /\ (UnderLease(w) => UnderLease(work[p]))
    BY <1>1, <1>3 DEF Careful, Claimed, Covers, Looked, Spares, Unused, UnderLease
<1> QED
    BY <1>1, <1>2, <1>3, <1>4, OnwardStep

LEMMA CleanupStep ==
    ASSUME CleanupInv, NEW p \in Runners, Cleanup(p)
    PROVE  CleanupInv'
<1>1. {"success", "failed"} \subseteq Ends
    BY DEF Ends
<1>2. CASE RunBuildCacheCleanup(p)
    BY <1>1, <1>2, SettleStep DEF RunBuildCacheCleanup, retained, updating
<1>3. CASE FinishRemoval(p)
  <2>1. PICK status \in {"success", "failed"} : Settle(p, status)
    BY <1>3 DEF FinishRemoval
  <2> QED
    BY <1>1, <1>3, <2>1, SettleStep DEF FinishRemoval, retained, updating
<1>4. CASE TimeOut(p)
    BY <1>1, <1>4, SettleStep DEF TimeOut, retained, updating
<1> QED
    BY <1>2, <1>3, <1>4, BeginStep, LeaseStep, StartStep, FinishStep, GuardStep, InventoryStep,
       InspectStep, RemoveOneStep
    DEF Cleanup, Removal

-----------------------------------------------------------------------------
LEMMA CaptureStep == CleanupInv /\ CaptureRollback => CleanupInv'
<1> SUFFICES ASSUME CleanupInv, CaptureRollback PROVE CleanupInv'
    OBVIOUS
<1>1. /\ lease = "free" /\ lease' = "update" /\ ctr.state # "gone" /\ zip' = Append(zip, References)
      /\ row' = row \cup {ctr.image} /\ UNCHANGED <<present, ctr, work, plan>>
    BY DEF CaptureRollback
<1>2. Shape /\ Leases /\ References \in SUBSET Objects /\ zip \in Seq(SUBSET Objects)
    BY ProtectedIsOfObjects DEF CleanupInv, Shape
<1>3. zip' \in Seq(SUBSET Objects) /\ Len(zip') = Len(zip) + 1 /\ Len(zip) \in Nat
      /\ \A i \in 1 .. Len(zip) : zip'[i] = zip[i]
    BY <1>1, <1>2
<1>4. Shape'
    BY <1>1, <1>2, <1>3 DEF Shape
<1>5. \A p \in Runners : ~UnderLease(work[p])
    BY <1>1, <1>2 DEF Leases, Runners
<1>6. Leases'
    BY <1>1, <1>5 DEF Leases, UnderLease
<1>7. \A i \in Kept' : (i \in Kept /\ zip'[i] = zip[i]) \/ i > Len(zip)
    BY <1>2, <1>3 DEF Kept
<1>8. Len(zip') >= Len(zip) /\ work' = work /\ References' = References
    BY <1>1, <1>3 DEF References
<1> QED
    BY <1>4, <1>5, <1>6, <1>7, <1>8, OthersStep

LEMMA UpdateStep ==
    ASSUME CleanupInv, Recreate \/ EndUpdate
    PROVE  CleanupInv'
<1>1. Shape /\ Leases /\ update # "none" /\ lease = "update" /\ UNCHANGED <<zip, row, work, plan>>
    BY DEF CleanupInv, Leases, Recreate, EndUpdate, retained
<1>2. \A p \in Runners : ~UnderLease(work[p])
    BY <1>1 DEF Leases, Runners
<1>3. present' \subseteq Objects /\ ctr' \in [state : {"running", "stopped", "gone"}, image : Images]
    BY <1>1 DEF Shape, Recreate, EndUpdate, Objects
<1>4. Shape' /\ Leases'
    BY <1>1, <1>2, <1>3 DEF Shape, Leases, Recreate, EndUpdate, UnderLease
<1>5. Kept' = Kept /\ Len(zip') >= Len(zip)
    BY <1>1 DEF Kept, Shape
<1>6. References' \cap Volumes \subseteq References
  <2>1. ctr.state # "gone"
    BY <1>1 DEF Leases
  <2> QED
    BY <2>1, ObjectsDiffer DEF References, Recreate, EndUpdate, Shape
<1> QED
    BY <1>1, <1>2, <1>4, <1>5, <1>6, OthersStep

LEMMA LetGoStep == CleanupInv /\ LetGo => CleanupInv'
<1> SUFFICES ASSUME CleanupInv, LetGo PROVE CleanupInv'
    OBVIOUS
<1>1. Shape /\ Leases /\ UNCHANGED <<present, ctr, lease, update, work, plan>> /\ References' = References
    BY DEF CleanupInv, LetGo, updating, References
<1>2. /\ zip' \in Seq(SUBSET Objects) /\ Len(zip') = Len(zip) /\ Len(zip) \in Nat
      /\ row' \subseteq row /\ Kept' \subseteq Kept /\ \A i \in Kept' : zip'[i] = zip[i]
  <2>1. CASE \E i \in Kept : zip' = [zip EXCEPT ![i] = {}] /\ UNCHANGED row
    <3>1. PICK i \in Kept : zip' = [zip EXCEPT ![i] = {}] /\ row' = row
      BY <2>1
    <3>2. i \in 1 .. Len(zip) /\ {} \in SUBSET Objects /\ zip \in Seq(SUBSET Objects)
      BY <1>1 DEF Kept, Shape
    <3>3. zip' \in Seq(SUBSET Objects) /\ Len(zip') = Len(zip)
          /\ \A j \in 1 .. Len(zip) : zip'[j] = IF j = i THEN {} ELSE zip[j]
      BY <3>1, <3>2, ExceptSeq
    <3> QED
      BY <3>1, <3>2, <3>3 DEF Kept
  <2>2. CASE UNCHANGED zip /\ \E i \in row : row' = row \ {i}
    BY <1>1, <2>2 DEF Kept, Shape
  <2> QED
    BY <2>1, <2>2 DEF LetGo
<1>3. Shape' /\ Leases'
    BY <1>1, <1>2 DEF Shape, Leases
<1>4. Protected' \subseteq Protected
    BY <1>2 DEF Protected
<1> QED
    BY <1>1, <1>2, <1>3, <1>4, OthersStep

LEMMA OwnerStep == CleanupInv /\ OwnerActs => CleanupInv'
<1> SUFFICES ASSUME CleanupInv, OwnerActs PROVE CleanupInv'
    OBVIOUS
<1>1. PICK s \in {"running", "stopped", "gone"} : ctr' = [ctr EXCEPT !.state = s]
    BY DEF OwnerActs
<1>2. Shape /\ Leases /\ ctr.state # "gone" /\ UNCHANGED <<present, zip, row, lease, update, work, plan>>
    BY DEF CleanupInv, OwnerActs, retained, updating
<1>3. ctr' \in [state : {"running", "stopped", "gone"}, image : Images] /\ ctr'.image = ctr.image
    BY <1>1, <1>2 DEF Shape
<1>4. Shape' /\ Leases' /\ Kept' = Kept /\ Protected' = Protected /\ Len(zip') >= Len(zip)
    BY <1>2, <1>3 DEF Shape, Leases, Kept, Protected, OwnerActs, UnderLease
<1>5. References' \subseteq References
    BY <1>2, <1>3 DEF References
<1> QED
    BY <1>2, <1>4, <1>5, OthersStep

LEMMA StepCleanup == CleanupInv /\ [Next]_vars => CleanupInv'
<1> SUFFICES ASSUME CleanupInv, [Next]_vars PROVE CleanupInv'
    OBVIOUS
<1>1. CASE HandleImagePrune \/ HandleNetworkPrune \/ HandleBuildCachePrune \/ HandleAnonymousVolumePrune
    BY <1>1, AskStep DEF HandleImagePrune, HandleNetworkPrune, HandleBuildCachePrune,
       HandleAnonymousVolumePrune, Runners, Kinds
<1>2. CASE StartScheduledCleanup
  <2>1. PICK rule \in Rules : plan' = Actions(rule)
    BY <1>2 DEF StartScheduledCleanup
  <2> QED
    BY <1>2, <2>1, ActionsAreCleanups, PlanStep DEF StartScheduledCleanup, retained, updating
<1>3. CASE UNCHANGED vars
    BY <1>3, PlanStep DEF vars, CleanupInv, Shape
<1> QED
    BY <1>1, <1>2, <1>3, NamedDeleteStep, ScheduledStep, CleanupStep, CancelStep, CaptureStep, UpdateStep,
       LetGoStep, OwnerStep DEF Next

\* An object goes only when the cleanup that has it on its list removes it.
LEMMA RemovalFacts ==
    ASSUME CleanupInv, [Next]_vars, NEW o \in present \ present', NEW p \in Runners,
           o \in work[p].todo \ work'[p].todo
    PROVE  work[p].at = "remove" /\ Careful(work[p]) /\ ~DockerRefuses(o)
<1>1. PICK q \in Runners : RemoveOne(q)
  <2>1. ASSUME present' = present PROVE FALSE
    BY <2>1
  <2>2. ~(Recreate)
    BY DEF Recreate
  <2>3. \A r \in Runners : Cleanup(r) => RemoveOne(r)
    <3>1. \A r \in Runners : Guard(r) \/ InventoryImages(r) \/ InventoryNetworks(r) \/ InventoryVolumes(r)
             \/ InspectNamedVolume(r) \/ FinishRemoval(r) \/ TimeOut(r) => present' = present
      BY DEF Guard, InventoryImages, InventoryNetworks, InventoryVolumes, InspectNamedVolume,
         FinishRemoval, TimeOut
    <3>2. \A r \in Runners : BeginAsyncJob(r) \/ HoldHostOperationLease(r) \/ StartJob(r) \/ FinishJob(r)
             \/ RunImageCleanup(r) \/ RunBuildCacheCleanup(r) => present' = present
      BY DEF BeginAsyncJob, HoldHostOperationLease, StartJob, FinishJob, RunImageCleanup,
         RunBuildCacheCleanup
    <3> QED
      BY <2>1, <3>1, <3>2 DEF Cleanup, Removal, RunNetworkCleanup, RunAnonymousVolumeCleanup
  <2>4. \A r \in Runners : ~CancelQueuedJob(r)
    BY <2>1 DEF CancelQueuedJob
  <2> QED
    BY <2>1, <2>2, <2>3, <2>4 DEF Next, vars, HandleImagePrune, HandleNetworkPrune, HandleBuildCachePrune,
       HandleAnonymousVolumePrune, HandleNamedVolumeDelete, Ask, StartScheduledCleanup,
       ScheduledCleanup, CaptureRollback, EndUpdate, LetGo, OwnerActs
<1>2. work[q].at = "remove" /\ \E w : Step(q, w)
    BY <1>1 DEF RemoveOne
<1>3. \A r \in Runners \ {q} : work'[r] = work[r]
    BY <1>2 DEF Step, CleanupInv, Shape
<1>4. p = q /\ Careful(work[p])
    BY <1>3 DEF CleanupInv
<1>5. ~DockerRefuses(o)
  <2>1. PICK k \in work[q].todo : present' = present \ {k} /\ ~DockerRefuses(k)
    BY <1>1 DEF RemoveOne
  <2> QED
    BY <2>1
<1> QED
    BY <1>2, <1>4, <1>5

\* No cleanup removes what a retained snapshot or a live restore point names
\* (container_backups.go rollbackProtectedDockerObjects), nor the image and
\* the volume of the data archives, but for what it could not read and, when a
\* volume is deleted by name, snapshots taken since.
THEOREM RetainedObjectsStay == Spec => RetainedStays
<1>1. CleanupInv /\ [Next]_vars =>
        [\A o \in present \ present', p \in Runners :
           o \in work[p].todo \ work'[p].todo =>
             /\ o # Archives
             /\ ~work[p].blind =>
                  IF work[p].kind = "delete"
                  THEN \A i \in Kept : i <= work[p].seen => o \notin zip[i]
                  ELSE o \notin Protected \cup {HelperImage}]_vars
  <2> SUFFICES ASSUME CleanupInv, [Next]_vars, NEW o \in present \ present', NEW p \in Runners,
                      o \in work[p].todo \ work'[p].todo
               PROVE  /\ o # Archives
                      /\ ~work[p].blind =>
                           IF work[p].kind = "delete"
                           THEN \A i \in Kept : i <= work[p].seen => o \notin zip[i]
                           ELSE o \notin Protected \cup {HelperImage}
    OBVIOUS
  <2>1. work[p].at = "remove" /\ Careful(work[p])
    BY RemovalFacts
  <2>2. o # Archives
    BY <2>1 DEF Careful, Spares
  <2>3. work[p].kind = "delete" /\ ~work[p].blind => \A i \in Kept : i <= work[p].seen => o \notin zip[i]
    BY <2>1 DEF Careful, Looked
  <2>4. work[p].kind # "delete" /\ ~work[p].blind => o \notin Protected \cup {HelperImage}
    BY <2>1 DEF Careful, Covers, Spares
  <2> QED
    BY <2>2, <2>3, <2>4
<1> QED
    BY <1>1, InitCleanup, StepCleanup, PTL DEF Spec, RetainedStays

\* No cleanup removes what the container uses (docker.go PruneUnusedImages,
\* PruneUnusedNetworks, the volume removals), but for the networks of a stopped
\* container and, when the containers could not be listed, its image.
THEOREM ReferencedObjectsStay == Spec => ReferencedStays
<1>1. CleanupInv /\ [Next]_vars =>
        [\A o \in (present \ present') \cap References, p \in Runners :
           o \in work[p].todo \ work'[p].todo =>
             ctr.state = "stopped" /\ (o \in Networks \/ (o \in Images /\ ~work[p].scanned))]_vars
  <2> SUFFICES ASSUME CleanupInv, [Next]_vars,
                      NEW o \in (present \ present') \cap References, NEW p \in Runners,
                      o \in work[p].todo \ work'[p].todo
               PROVE  ctr.state = "stopped" /\ (o \in Networks \/ (o \in Images /\ ~work[p].scanned))
    OBVIOUS
  <2>1. work[p].at = "remove" /\ Careful(work[p]) /\ ~DockerRefuses(o)
    BY RemovalFacts
  <2>2. o \in Networks \/ (o \in Images /\ ~work[p].scanned)
    BY <2>1 DEF Careful, Unused
  <2>3. ctr.state \in {"running", "stopped", "gone"}
    BY DEF CleanupInv, Shape
  <2>4. ctr.state # "gone" /\ ctr.state # "running"
    BY <2>1 DEF DockerRefuses, Busy, References
  <2> QED
    BY <2>2, <2>3, <2>4
<1> QED
    BY <1>1, InitCleanup, StepCleanup, PTL DEF Spec, ReferencedStays
=============================================================================
